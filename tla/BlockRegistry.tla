--------------------------- MODULE BlockRegistry ---------------------------
(***************************************************************************)
(* The block registry of the Engine (internal/block/registry.go): one      *)
(* block manager per executor, and transfers of cached prefixes between    *)
(* them.  An operation on one manager is atomic (manager.mu).  A transfer  *)
(* operation holds transferMu throughout but takes the two managers'       *)
(* mutexes one after the other, so every other operation may fall between  *)
(* its steps.                                                              *)
(*                                                                         *)
(* Two specifications.  In Spec the callers keep their side of the         *)
(* protocol: a request's blocks are allocated between its MatchPrefix and  *)
(* its FreeRequest, one work item at a time.  In OpenSpec they need not: a *)
(* request may be freed behind the back of a caller that still holds work  *)
(* of it and then allocates with the block ids its prefix match once       *)
(* returned (a scheduler that popped the work before a cancellation).      *)
(***************************************************************************)
EXTENDS BlockOps

CONSTANTS
  Executors,   \* the registered executors
  NumBlocks,   \* NumBlocks[e]: KV blocks of executor e
  BlockSize,   \* BlockSize[e]: tokens per block of executor e
  Requests,    \* request ids, reused once freed
  Works,       \* work ids, reused once settled
  Transfers,   \* transfer ids, reused once settled
  Prompts,     \* the prompts requests come with: [salt, tokens]
  MaxDecode    \* bound: decode steps of one request

ASSUME ExecutorsAssumption ==
  /\ Executors # {}
  /\ NumBlocks \in [Executors -> Nat \ {0}]
  /\ BlockSize \in [Executors -> Nat \ {0}]

ASSUME PromptsAssumption ==
  /\ Prompts # {}
  /\ \A p \in Prompts : p.tokens \in Seq(Int)
  /\ MaxDecode \in Nat

VARIABLES
  mgr,        \* mgr[e]: the manager of executor e
  request,    \* request[r]: what the callers know of request r
  transfer,   \* transfer[t]: the plan of t and how far its operation got
  transferMu  \* the transfer whose operation holds the mutex, or NoTransfer

BlockIds(e) == 0..(NumBlocks[e] - 1)

vars == <<mgr, request, transfer, transferMu>>

NoTransfer == "none"

(* live: between MatchPrefix and FreeRequest.  cache is the PrefixMatch of  *)
(* the request, computed its ComputedTokens.                                *)
noRequest ==
  [live |-> FALSE, executor |-> CHOOSE e \in Executors : TRUE,
   prompt |-> CHOOSE p \in Prompts : TRUE, cache |-> << >>, computed |-> 0]

(* step: "idle", "pinned" (source pinned, destination not yet reserved),    *)
(* "pending" (in pendingTransfers) or "settled" (destination done, source   *)
(* still pinned).                                                           *)
noTransferPlan ==
  [step |-> "idle", source |-> CHOOSE e \in Executors : TRUE,
   destination |-> CHOOSE e \in Executors : TRUE,
   hashes |-> << >>, sourceBlocks |-> << >>, destinationBlocks |-> << >>]

Init ==
  /\ mgr = [e \in Executors |-> newManager(BlockSize[e], NumBlocks[e])]
  /\ request = [r \in Requests |-> noRequest]
  /\ transfer = [t \in Transfers |-> noTransferPlan]
  /\ transferMu = NoTransfer

-----------------------------------------------------------------------------
(* Requests *)

(* requestStateManager.Create matches the prefix of a request it admits. *)
MatchPrefixFor(r, e, prompt) ==
  /\ ~request[r].live
  /\ mgr' = [mgr EXCEPT ![e] = MatchPrefix(mgr[e], r, prompt)]
  /\ request' = [request EXCEPT ![r] =
       [live |-> TRUE, executor |-> e, prompt |-> prompt,
        cache |-> matchedBlocks(mgr[e], prompt),
        computed |-> Len(matchedBlocks(mgr[e], prompt)) * BlockSize[e]]]
  /\ UNCHANGED <<transfer, transferMu>>

(* The work item of r that takes its KV to the given number of tokens: a    *)
(* prefill chunk within the prompt, or one decode step after it.            *)
workItem(w, r, tokens) ==
  LET q == request[r] IN
  [ id      |-> w,
    request |-> r,
    phase   |-> IF q.computed < Len(q.prompt.tokens) THEN Prefill ELSE Decode,
    tokens  |-> tokens,
    cache   |-> q.cache,
    hashes  |-> blockHashes(BlockSize[q.executor], q.prompt) ]

nextTokens(r) ==
  LET prompt == Len(request[r].prompt.tokens)
      done   == request[r].computed
  IN  IF done < prompt THEN (done + 1)..prompt
      ELSE {n \in {done + 1} : n <= prompt + MaxDecode}

pendingWorks == UNION {DOMAIN mgr[e].pendingAllocations : e \in Executors}

(* Scheduling r's next work item; it has no other one in flight. *)
AllocateBlocksFor(r, w, tokens) ==
  /\ request[r].live
  /\ w \notin pendingWorks
  /\ worksOf(mgr[request[r].executor], r) = {}
  /\ mgr' = [mgr EXCEPT ![request[r].executor] = AllocateBlocks(@, workItem(w, r, tokens))]
  /\ UNCHANGED <<request, transfer, transferMu>>

(* An executor result: the KV of the work is in place. *)
CommitWork(e, w) ==
  /\ w \in DOMAIN mgr[e].pendingAllocations
  /\ mgr' = [mgr EXCEPT ![e] = Commit(@, w)]
  /\ LET a == mgr[e].pendingAllocations[w]
     IN  request' = [request EXCEPT ![a.request].computed = a.tokens]
  /\ UNCHANGED <<transfer, transferMu>>

(* A failed batch, or a batch the executor queue refused. *)
RollbackWork(e, w) ==
  /\ w \in DOMAIN mgr[e].pendingAllocations
  /\ mgr' = [mgr EXCEPT ![e] = Rollback(@, w)]
  /\ UNCHANGED <<request, transfer, transferMu>>

(* Finish, cancellation, failure or timeout of a request, work in flight or *)
(* not.                                                                     *)
FreeRequestOf(r) ==
  /\ request[r].live
  /\ mgr' = [mgr EXCEPT ![request[r].executor] = FreeRequest(@, r)]
  /\ request' = [request EXCEPT ![r] = noRequest]
  /\ UNCHANGED <<transfer, transferMu>>

(* The same call while a caller keeps work of r that it may still schedule. *)
FreeBehindCaller(r) ==
  /\ request[r].live
  /\ mgr' = [mgr EXCEPT ![request[r].executor] = FreeRequest(@, r)]
  /\ UNCHANGED <<request, transfer, transferMu>>

-----------------------------------------------------------------------------
(* Transfers *)

(* PrepareTransfer, first half: validate and pin the source blocks. *)
PrepareTransfer(t, source, destination, hashes) ==
  /\ transferMu = NoTransfer
  /\ transfer[t].step = "idle"
  /\ source # destination
  /\ hashes # << >>
  /\ BlockSize[source] = BlockSize[destination]
  /\ canPin(mgr[source], hashes)
  /\ mgr' = [mgr EXCEPT ![source] = pinCachedBlocks(@, hashes)]
  /\ transfer' = [transfer EXCEPT ![t] =
       [step |-> "pinned", source |-> source, destination |-> destination,
        hashes |-> hashes, sourceBlocks |-> pinnedBlocks(mgr[source], hashes),
        destinationBlocks |-> << >>]]
  /\ transferMu' = t
  /\ UNCHANGED request

(* PrepareTransfer, second half: reserve at the destination and record the  *)
(* plan, or give up when it has too few free blocks.                        *)
ReserveDestination(t) ==
  LET plan == transfer[t]
      n    == Len(plan.hashes)
      dst  == mgr[plan.destination]
  IN
  /\ plan.step = "pinned"
  /\ mgr' = [mgr EXCEPT ![plan.destination] = reserveTransferBlocks(@, n)]
  /\ IF canAllocate(dst, n)
     THEN /\ transfer' = [transfer EXCEPT ![t].step = "pending",
                                          ![t].destinationBlocks = popped(dst, n)]
          /\ transferMu' = NoTransfer
     ELSE /\ transfer' = [transfer EXCEPT ![t].step = "settled"]
          /\ UNCHANGED transferMu
  /\ UNCHANGED request

(* CommitTransfer, first half: index the imported blocks. *)
CommitTransfer(t) ==
  LET plan == transfer[t] IN
  /\ transferMu = NoTransfer
  /\ plan.step = "pending"
  /\ canCommitImported(mgr[plan.destination], plan.destinationBlocks)
  /\ mgr' = [mgr EXCEPT ![plan.destination] =
               commitImportedBlocks(@, plan.destinationBlocks, plan.hashes)]
  /\ transfer' = [transfer EXCEPT ![t].step = "settled", ![t].destinationBlocks = << >>]
  /\ transferMu' = t
  /\ UNCHANGED request

(* RollbackTransfer, first half: give the destination blocks back. *)
RollbackTransfer(t) ==
  LET plan == transfer[t] IN
  /\ transferMu = NoTransfer
  /\ plan.step = "pending"
  /\ mgr' = [mgr EXCEPT ![plan.destination] =
               releaseTransferBlocks(@, plan.destinationBlocks)]
  /\ transfer' = [transfer EXCEPT ![t].step = "settled", ![t].destinationBlocks = << >>]
  /\ transferMu' = t
  /\ UNCHANGED request

(* The last step of all three operations: unpin the source blocks. *)
ReleaseSource(t) ==
  LET plan == transfer[t] IN
  /\ plan.step = "settled"
  /\ mgr' = [mgr EXCEPT ![plan.source] = releaseTransferBlocks(@, plan.sourceBlocks)]
  /\ transfer' = [transfer EXCEPT ![t] = noTransferPlan]
  /\ transferMu' = NoTransfer
  /\ UNCHANGED request

-----------------------------------------------------------------------------
(* A transfer is asked for the leading hashes of some prompt. *)
HashPrefixes ==
  LET chains == {matchableBlockHashes(BlockSize[e], p) : e \in Executors, p \in Prompts}
  IN  UNION {{SubSeq(chain, 1, n) : n \in 1..Len(chain)} : chain \in chains}

RequestNext ==
  \/ \E r \in Requests, e \in Executors, p \in Prompts : MatchPrefixFor(r, e, p)
  \/ \E r \in Requests, w \in Works : \E tokens \in nextTokens(r) :
       AllocateBlocksFor(r, w, tokens)
  \/ \E e \in Executors, w \in Works : CommitWork(e, w) \/ RollbackWork(e, w)
  \/ \E r \in Requests : FreeRequestOf(r)

TransferNext ==
  \/ \E t \in Transfers, s, d \in Executors, hs \in HashPrefixes : PrepareTransfer(t, s, d, hs)
  \/ \E t \in Transfers : \/ ReserveDestination(t)
                          \/ CommitTransfer(t)
                          \/ RollbackTransfer(t)
                          \/ ReleaseSource(t)

Next == RequestNext \/ TransferNext

OpenNext == Next \/ \E r \in Requests : FreeBehindCaller(r)

Spec == Init /\ [][Next]_vars

OpenSpec == Init /\ [][OpenNext]_vars

-----------------------------------------------------------------------------
(* Types *)

Hashes == UNION {Range(blockHashes(BlockSize[e], p)) : e \in Executors, p \in Prompts}

Allocations(e) ==
  [ request : Requests, phase : {Prefill, Decode}, blockTable : Seq(BlockIds(e)),
    hashes : Seq(Hashes), allocated : Seq(BlockIds(e)), tokens : Nat ]

ManagerOK(e, m) ==
  /\ m \in [ blockSize          : {BlockSize[e]},
            refCount           : [BlockIds(e) -> Nat],
            tokenCount         : [BlockIds(e) -> Nat],
            hash               : [BlockIds(e) -> Hashes \cup {NoHash}],
            cached             : [BlockIds(e) -> BOOLEAN],
            free               : Seq(BlockIds(e)),
            requestBlocks      : [DOMAIN m.requestBlocks -> Seq(BlockIds(e))],
            cachedBlocks       : [DOMAIN m.cachedBlocks -> BlockIds(e)],
            pendingAllocations : [DOMAIN m.pendingAllocations -> Allocations(e)] ]
  /\ DOMAIN m.requestBlocks \subseteq Requests
  /\ DOMAIN m.cachedBlocks \subseteq Hashes
  /\ DOMAIN m.pendingAllocations \subseteq Works

RequestOK(q) ==
  q \in [ live : BOOLEAN, executor : Executors, prompt : Prompts,
          cache : Seq(BlockIds(q.executor)), computed : Nat ]

PlanOK(plan) ==
  plan \in [ step : {"idle", "pinned", "pending", "settled"},
             source : Executors, destination : Executors, hashes : Seq(Hashes),
             sourceBlocks : Seq(BlockIds(plan.source)),
             destinationBlocks : Seq(BlockIds(plan.destination)) ]

(* The type invariant: every block id in a table, plan or map is a block of *)
(* the executor it is used with.                                            *)
TypeOK ==
  /\ DOMAIN mgr = Executors /\ \A e \in Executors : ManagerOK(e, mgr[e])
  /\ DOMAIN request = Requests /\ \A r \in Requests : RequestOK(request[r])
  /\ DOMAIN transfer = Transfers /\ \A t \in Transfers : PlanOK(transfer[t])
  /\ transferMu \in Transfers \cup {NoTransfer}

-----------------------------------------------------------------------------
(* Properties *)

(* For every order of calls, late ones included: a block is in the free     *)
(* queue exactly when nothing references it, and is in it once.  touch,     *)
(* pushFree and allocate maintain this without ever comparing RefCount with *)
(* InFreeQueue.                                                             *)
FreeQueueSound ==
  \A e \in Executors :
    /\ IsInjective(mgr[e].free)
    /\ Range(mgr[e].free) = {b \in BlockIds(e) : mgr[e].refCount[b] = 0}

(* The references to block b of executor e: positions of block tables, and  *)
(* of the pinned and the reserved blocks of transfers.                      *)
tableReferences(e, b) ==
  UNION {{<<r, i>> : i \in {j \in DOMAIN mgr[e].requestBlocks[r] :
                              mgr[e].requestBlocks[r][j] = b}}
         : r \in DOMAIN mgr[e].requestBlocks}

planReferences(t, e, b) ==
  {<<t, "source", i>> : i \in {j \in DOMAIN transfer[t].sourceBlocks :
                                 transfer[t].source = e /\ transfer[t].sourceBlocks[j] = b}}
  \cup
  {<<t, "destination", i>> : i \in {j \in DOMAIN transfer[t].destinationBlocks :
                                      transfer[t].destination = e /\ transfer[t].destinationBlocks[j] = b}}

references(e, b) ==
  tableReferences(e, b) \cup UNION {planReferences(t, e, b) : t \in Transfers}

(* "RefCount is the number of active requests referencing this block"       *)
(* (internal/model/block.go:14), counting transfers too: no reference is    *)
(* lost (a leak) and none is counted twice (a free block in use).           *)
RefCountIsOwnership ==
  \A e \in Executors : \A b \in BlockIds(e) :
    mgr[e].refCount[b] = Cardinality(references(e, b))

(* The prefix index and the blocks' metadata agree, and only full blocks    *)
(* are indexed: what pinCachedBlocks checks before a transfer always holds. *)
CacheIndexSound ==
  \A e \in Executors :
    /\ \A h \in DOMAIN mgr[e].cachedBlocks : transferable(mgr[e], h)
    /\ \A b \in BlockIds(e) : mgr[e].cached[b] =>
         /\ mgr[e].hash[b] \in DOMAIN mgr[e].cachedBlocks
         /\ mgr[e].cachedBlocks[mgr[e].hash[b]] = b

(* A live request's table holds its own prefix: a cached block at position  *)
(* i of the table is cached as the i-th block of that request's prompt.     *)
TableHoldsOwnPrefix ==
  \A r \in Requests : request[r].live =>
    LET e      == request[r].executor
        table  == Lookup(mgr[e].requestBlocks, r)
        hashes == blockHashes(BlockSize[e], request[r].prompt)
    IN  \A i \in DOMAIN table : mgr[e].cached[table[i]] =>
          i <= Len(hashes) /\ mgr[e].hash[table[i]] = hashes[i]

(* The blocks an executor writes for a work in flight belong to that        *)
(* request alone: no other table shares them, no transfer exports or fills  *)
(* them, and no lookup can find them.                                       *)
WrittenBlocksExclusive ==
  \A e \in Executors : \A w \in DOMAIN mgr[e].pendingAllocations :
    LET a == mgr[e].pendingAllocations[w]
    IN  \A i \in DOMAIN a.blockTable :
          i * BlockSize[e] > request[a.request].computed =>
            /\ mgr[e].refCount[a.blockTable[i]] = 1
            /\ ~mgr[e].cached[a.blockTable[i]]

(* While a transfer runs, its source blocks stay cached under the plan's    *)
(* hashes and its destination blocks are nobody else's.                     *)
TransferBlocksHeld ==
  \A t \in Transfers :
    LET plan == transfer[t]
        src  == mgr[plan.source]
        dst  == mgr[plan.destination]
    IN  plan.step # "idle" =>
          /\ \A i \in DOMAIN plan.hashes :
               /\ plan.hashes[i] \in DOMAIN src.cachedBlocks
               /\ src.cachedBlocks[plan.hashes[i]] = plan.sourceBlocks[i]
          /\ \A i \in DOMAIN plan.destinationBlocks :
               /\ dst.refCount[plan.destinationBlocks[i]] = 1
               /\ ~dst.cached[plan.destinationBlocks[i]]

(* probePrefix, which placement decisions read, reports exactly what a      *)
(* MatchPrefix at the same moment would reuse.                              *)
ProbeAgreesWithMatch ==
  \A e \in Executors, p \in Prompts :
    probePrefix(mgr[e], p) = Len(matchedBlocks(mgr[e], p))

(* A cached prefix is evicted only when nothing references its block, and   *)
(* never moves to another block.                                            *)
EvictsOnlyUnreferenced ==
  [][\A e \in Executors : \A h \in DOMAIN mgr[e].cachedBlocks :
       \/ /\ h \in DOMAIN mgr'[e].cachedBlocks
          /\ mgr'[e].cachedBlocks[h] = mgr[e].cachedBlocks[h]
       \/ mgr[e].refCount[mgr[e].cachedBlocks[h]] = 0]_vars

(* Committing a transfer makes the whole prefix reusable at the             *)
(* destination, whichever blocks lost a race with a local prefill.          *)
CommittedTransferIsReusable ==
  [][\A t \in Transfers : CommitTransfer(t) =>
       \A i \in DOMAIN transfer[t].hashes :
         transferable(mgr'[transfer[t].destination], transfer[t].hashes[i])]_vars

=============================================================================
