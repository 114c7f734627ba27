---------------------------- MODULE EngineProofs ----------------------------
(***************************************************************************)
(* The inductive invariant Serving of Engine, and the steps of the call    *)
(* handlers.                                                               *)
(*                                                                         *)
(* Serving says that every request is in one place: Lines gives, for each  *)
(* place where a work item or the event of a work can be, the requests     *)
(* whose items wait there, and Once that no request occurs twice in them.  *)
(* With the types, the sound shape of each goroutine's locals and what a   *)
(* work or event says of its request, this is inductive.  A step moves one *)
(* ticket, adds one, drops one, or leaves all where they are; a lemma per  *)
(* kind of step (StillStep, MoveStep, MoveAllStep, TakeStep, DropStep)     *)
(* says what is left to show, and one lemma per action shows it.           *)
(***************************************************************************)
EXTENDS Engine, FiniteSetTheorems, SequenceTheorems, TLAPS

(* The name of the one executor, for the registry.                          *)
Executor == "executor"

(* The KV tokens of a request that are in place. *)
kvTokens(q) ==
  IF q.generated = 0 THEN q.computed ELSE promptTokens(q.call) + q.generated - 1

(* The event being handled, once its allocation is settled. *)
committing(r) ==
  cons.pc = "onEvent" /\ eventRequest = r /\ cons.event[1].type # "requestFailed"

(* A request as BlockRegistry has it: live from admission until its blocks  *)
(* are freed, its computed tokens those whose allocation is committed.      *)
registryRequest(r) ==
  LET q == requests[r] IN
  IF exists(r) /\ (q.phase = Running \/ (cons.pc \in {"publish", "send", "enqueue", "trySchedule", "free"}
                                         /\ eventRequest = r))
  THEN [ live     |-> TRUE, executor |-> Executor, prompt |-> Prompt[q.call], cache |-> q.cache,
         computed |-> IF committing(r)
                      THEN kvTokens(advanced(q, cons.event[1], promptTokens(q.call), MaxTokens[q.call]))
                      ELSE kvTokens(q) ]
  ELSE [ live |-> FALSE, executor |-> CHOOSE e \in {Executor} : TRUE,
         prompt |-> CHOOSE p \in {Prompt[c] : c \in Calls} : TRUE, cache |-> << >>, computed |-> 0 ]

(* The ids that clients supply.                                             *)
Ids == Range(RequestId)

(* More tokens than any call may generate.                                  *)
DecodeBound == (CHOOSE n \in Nat : \A c \in Calls : MaxTokens[c] <= n) + 1

(* The block registry with one executor, no transfers, and the Engine's     *)
(* requests and works: its lemmas serve the proofs about Engine.            *)
R == INSTANCE RegistryTheorems WITH
       Executors <- {Executor}, NumBlocks <- [e \in {Executor} |-> NumBlocks],
       BlockSize <- [e \in {Executor} |-> BlockSize], Requests <- Ids, Works <- Calls \X Int,
       Transfers <- {}, Prompts <- {Prompt[c] : c \in Calls}, MaxDecode <- DecodeBound,
       mgr <- [e \in {Executor} |-> mgr], request <- [r \in Ids |-> registryRequest(r)],
       transfer <- [t \in {} |-> t], transferMu <- "none"

(* Engine's assumption gives the registry's.                                *)
LEMMA RegistryConstants == R!ExecutorsAssumption /\ R!PromptsAssumption
  <1>1. R!ExecutorsAssumption
    BY EngineAssumption DEF R!ExecutorsAssumption
  <1>2. DecodeBound \in Nat
    <2>1. PICK c \in Calls : \A d \in Calls : MaxTokens[d] <= MaxTokens[c]
      BY EngineAssumption
    <2>2. MaxTokens[c] \in Nat
      BY EngineAssumption
    <2>3. \E n \in Nat : \A d \in Calls : MaxTokens[d] <= n
      BY <2>1, <2>2
    <2> QED BY <2>3 DEF DecodeBound
  <1>3. \A p \in {Prompt[c] : c \in Calls} : p.tokens \in Seq(Int)
    BY EngineAssumption
  <1>4. {Prompt[c] : c \in Calls} # {}
    BY EngineAssumption
  <1>5. R!PromptsAssumption
    BY <1>2, <1>3, <1>4 DEF R!PromptsAssumption
  <1> QED BY <1>1, <1>5

(* The registry's operators are those that Engine uses itself.              *)
LEMMA SameCount == ASSUME NEW S PROVE R!Cardinality(S) = Cardinality(S)
  BY DEF R!Cardinality, Cardinality

(* matchedBlocks of both.                                                   *)
LEMMA SameMatched == ASSUME NEW m, NEW p PROVE R!matchedBlocks(m, p) = matchedBlocks(m, p)
  BY DEF R!matchedBlocks, matchedBlocks, R!matchableBlockHashes, matchableBlockHashes,
         R!blockHashes, blockHashes, R!hitLength, hitLength, R!Max, Max, R!Min, Min

(* touch of both.                                                           *)
LEMMA SameTouch == ASSUME NEW m, NEW ids PROVE R!touch(m, ids) = touch(m, ids)
  BY DEF R!touch, touch, R!Count, Count, R!Pick, Pick, R!Nth, Nth, R!Blocks, Blocks,
         R!Range, Range, R!Cardinality, Cardinality

(* pushFree of both.                                                        *)
LEMMA SamePushFree == ASSUME NEW m, NEW ids PROVE R!pushFree(m, ids) = pushFree(m, ids)
  BY DEF R!pushFree, pushFree, R!lastReference, lastReference, R!Count, Count, R!Pick, Pick,
         R!Nth, Nth, R!Blocks, Blocks, R!Cardinality, Cardinality

(* MatchPrefix of both.                                                     *)
LEMMA SameMatchPrefix ==
  ASSUME NEW m, NEW r, NEW p PROVE R!MatchPrefix(m, r, p) = MatchPrefix(m, r, p)
  BY SameMatched, SameTouch DEF R!MatchPrefix, MatchPrefix, R!Put, Put

(* AllocateBlocks of both.                                                  *)
LEMMA SameAllocateBlocks ==
  ASSUME NEW m, NEW w PROVE R!AllocateBlocks(m, w) = AllocateBlocks(m, w)
  BY DEF R!AllocateBlocks, AllocateBlocks, R!newAllocation, newAllocation, R!popped, popped,
         R!requiredBlocks, requiredBlocks, R!ceilDiv, ceilDiv, R!existingBlocks, existingBlocks,
         R!canAllocate, canAllocate, R!allocate, allocate, R!Put, Put, R!Without, Without,
         R!Restrict, Restrict, R!Blocks, Blocks, R!Range, Range, R!restoreTable, restoreTable,
         R!NoHash, NoHash

(* Commit of both.                                                          *)
LEMMA SameCommit == ASSUME NEW m, NEW w PROVE R!Commit(m, w) = Commit(m, w)
  BY DEF R!Commit, Commit, R!indexBlocks, indexBlocks, R!newlyCached, newlyCached,
         R!eligible, eligible, R!committedTokens, committedTokens, R!tokensAt, tokensAt,
         R!Prefill, Prefill, R!Max, Max, R!Min, Min, R!Without, Without, R!Restrict, Restrict,
         R!Blocks, Blocks

(* Rollback of both.                                                        *)
LEMMA SameRollback == ASSUME NEW m, NEW w PROVE R!Rollback(m, w) = Rollback(m, w)
  BY SamePushFree DEF R!Rollback, Rollback, R!truncated, truncated, R!Lookup, Lookup,
                      R!Without, Without, R!Restrict, Restrict, R!Put, Put

(* FreeRequest of both.                                                     *)
LEMMA SameFreeRequest == ASSUME NEW m, NEW r PROVE R!FreeRequest(m, r) = FreeRequest(m, r)
  BY SamePushFree DEF R!FreeRequest, FreeRequest, R!worksOf, worksOf, R!Lookup, Lookup,
                      R!Without, Without, R!Restrict, Restrict

-----------------------------------------------------------------------------
(* Types *)

BlockIds == 0..(NumBlocks - 1)

Work ==
  [ id : Calls \X Int, call : Calls, request : Ids, phase : {Prefill, Decode},
    cache : Seq(BlockIds), offset : Nat, new : Nat, total : Nat, generated : Nat ]

Item == [ work : Work, table : Seq(BlockIds), allocated : Seq(BlockIds) ]

EventTypes == {"prefillChunk", "prefillFinished", "decodeChunk", "requestFailed"}

Event ==
  [ work : Calls \X Int, request : Ids, type : EventTypes, done : BOOLEAN,
    input : Nat, output : Nat, token : Nat ]

Output == [ token : Nat, type : EventTypes, done : BOOLEAN ]

Request ==
  [ call : Calls, phase : {Running, Finished, Failed}, generated : Nat, computed : Nat,
    cache : Seq(BlockIds) ]

HandlerPcs == {"new", "subscribe", "enqueue", "trySchedule", "streaming", "emit", "finish", "ended",
               "returned", "rejected"}

SchedPcs == {"idle", "dequeue", "decode", "peek", "popSmall", "small", "popLarge", "large",
             "submit", "requeue"}

ConsPcs == {"idle", "finalize", "onEvent", "publish", "send", "enqueue", "trySchedule", "fail", "free"}

ManagerGood(m) == R!Good(Executor, m)

RequestsTyped == requests \in [DOMAIN requests -> Request] /\ DOMAIN requests \subseteq Ids

ChannelsTyped == channel \in [Calls -> [buf : Seq(Event), closed : BOOLEAN]]

HandlersTyped ==
  handler \in [Calls -> [ pc : HandlerPcs, from : Calls, item : Seq(Work), event : Seq(Event),
                          out : Seq(Output), outClosed : BOOLEAN, received : Seq(Output),
                          client : {"waiting", "done", "error", "left"} ]]

QueuesTyped == queue \in [decode : Seq(Work), small : Seq(Work), large : Seq(Work)]

SchedTyped ==
  sched \in [ pc : SchedPcs, held : Seq(Work), batch : Seq(Item), scanned : Nat, maxScan : Nat,
              cost : Nat, tokens : Nat, seqs : Nat, prefill : Int, large : Int,
              notify : Calls \cup {NoCall} ]

ExecTyped ==
  /\ batchChan \in Seq(Seq(Item))
  /\ exec \in [running : Seq(Item), events : Seq(Event)]
  /\ eventChan \in Seq(Event)

ConsTyped ==
  cons \in [pc : ConsPcs, event : Seq(Event), next : Seq(Work), to : Calls \cup {NoCall}]

Typed ==
  /\ ManagerGood(mgr)
  /\ RequestsTyped /\ ChannelsTyped /\ HandlersTyped
  /\ expired \subseteq Calls
  /\ QueuesTyped /\ SchedTyped /\ ExecTyped /\ ConsTyped
  /\ panicked \in BOOLEAN

-----------------------------------------------------------------------------
(* The block manager *)

(* The executor's block ids are those of the registry. *)
LEMMA Sizes ==
  /\ NumBlocks \in Nat /\ NumBlocks > 0 /\ BlockSize \in Nat /\ BlockSize > 0
  /\ R!BlockIds(Executor) = BlockIds
  BY EngineAssumption DEF R!BlockIds, BlockIds

(* A prompt has at least one token. *)
LEMMA Prompts ==
  ASSUME NEW c \in Calls
  PROVE  /\ Prompt[c].tokens \in Seq(Int) /\ promptTokens(c) \in Nat /\ promptTokens(c) > 0
         /\ MaxTokens[c] \in Nat /\ RequestId[c] \in Ids
  <1>1. Prompt[c].tokens \in Seq(Int) /\ Prompt[c].tokens # << >> /\ MaxTokens[c] \in Nat
    BY EngineAssumption
  <1>2. RequestId[c] \in Ids
    BY EngineAssumption DEF Ids, Range
  <1> QED BY <1>1, <1>2 DEF promptTokens

(* A new manager is sound. *)
LEMMA NewManager == ManagerGood(newManager(BlockSize, NumBlocks))
  <1>1. R!Good(Executor, R!newManager([e \in {Executor} |-> BlockSize][Executor], [e \in {Executor} |-> NumBlocks][Executor]))
    BY R!NewManagerGood, RegistryConstants
  <1>2. R!newManager(BlockSize, NumBlocks) = newManager(BlockSize, NumBlocks)
    BY DEF R!newManager, newManager, R!NoHash, NoHash, R!EmptyMap, EmptyMap
  <1> QED BY <1>1, <1>2 DEF ManagerGood

(* What a prompt's prefix match finds: blocks of the pool, and never the    *)
(* whole prompt.                                                            *)
LEMMA MatchedTyped ==
  ASSUME NEW m, ManagerGood(m), NEW c \in Calls
  PROVE  /\ matchedBlocks(m, Prompt[c]) \in Seq(BlockIds)
         /\ Len(matchedBlocks(m, Prompt[c])) * BlockSize \in Nat
         /\ Len(matchedBlocks(m, Prompt[c])) * BlockSize < promptTokens(c)
  <1> DEFINE p   == Prompt[c]
             ms  == matchableBlockHashes(BlockSize, p)
             all == blockHashes(BlockSize, p)
             L   == Len(p.tokens)
             top == (L - 1) \div BlockSize
             n   == Len(matchedBlocks(m, p))
  <1>1. p \in {Prompt[d] : d \in Calls}
    OBVIOUS
  <1>2. matchedBlocks(m, p) \in Seq(BlockIds)
    <2>1. R!matchedBlocks(m, p) \in Seq(R!BlockIds(Executor))
      BY <1>1, R!MatchedBlocksType, RegistryConstants DEF ManagerGood
    <2> QED BY <2>1, SameMatched, Sizes
  <1>3. m.blockSize = BlockSize
    <2>1. m.blockSize = [e \in {Executor} |-> BlockSize][Executor]
      BY R!GoodFields, RegistryConstants DEF ManagerGood
    <2> QED BY <2>1
  <1>4. L \in Nat /\ L > 0 /\ p.tokens # << >> /\ p.tokens \in Seq(Int)
    BY Prompts, EngineAssumption DEF promptTokens
  <1>5. top \in Nat /\ top * BlockSize <= L - 1
    <2> HIDE DEF L
    <2>1. L - 1 \in Nat /\ BlockSize \in Nat /\ BlockSize > 0
      BY <1>4, Sizes
    <2> QED BY <2>1, Z3
  <1>6. Len(all) \in Nat /\ all \in Seq(Range(all))
    <2>1. L \div BlockSize \in Nat
      <3> HIDE DEF L
      <3> QED BY <1>4, Sizes, Z3
    <2>2. all = [i \in 1..(L \div BlockSize) |-> <<p.salt>> \o SubSeq(p.tokens, 1, i * BlockSize)]
      BY DEF blockHashes
    <2>3. Len(all) = L \div BlockSize /\ DOMAIN all = 1..Len(all)
      <3> HIDE DEF L
      <3> QED BY <2>1, <2>2
    <2>4. \A i \in 1..Len(all) : all[i] \in Range(all)
      BY <2>3 DEF Range
    <2>5. all = [i \in 1..Len(all) |-> all[i]]
      BY <2>2, <2>3
    <2> HIDE DEF all, L
    <2> QED BY <2>1, <2>3, <2>4, <2>5
  <1>7. ms = SubSeq(all, 1, Min({Len(all), top}))
    BY <1>4 DEF matchableBlockHashes
  <1>8. Min({Len(all), top}) \in Nat /\ Min({Len(all), top}) <= top /\ Min({Len(all), top}) <= Len(all)
    <2>1. \E x \in {Len(all), top} : \A y \in {Len(all), top} : x <= y
      BY <1>5, <1>6
    <2> QED BY <2>1, <1>5, <1>6 DEF Min
  <1>9. ms \in Seq(Range(all)) /\ Len(ms) <= top
    <2>1. PICK k \in Nat : k = Min({Len(all), top})
      BY <1>8
    <2>2. PICK S : S = Range(all)
      OBVIOUS
    <2>3. all \in Seq(S) /\ k <= Len(all) /\ k <= top /\ ms = SubSeq(all, 1, k)
      BY <2>1, <2>2, <1>6, <1>7, <1>8
    <2> HIDE DEF all, top, ms
    <2>4. ms \in Seq(S) /\ Len(ms) = k
      BY <2>3
    <2> QED BY <2>2, <2>3, <2>4
  <1>10. hitLength(m, ms) \in 0..Len(ms)
    <2>1. R!hitLength(m, ms) \in 0..Len(ms)
      BY <1>9, R!HitLengthFacts, RegistryConstants
    <2> QED BY <2>1 DEF R!hitLength, hitLength, R!Max, Max
  <1>11. n = hitLength(m, ms)
    BY <1>3, <1>9, <1>10 DEF matchedBlocks
  <1>12. n \in Nat /\ n <= top
    BY <1>5, <1>9, <1>10, <1>11
  <1>13. n * BlockSize \in Nat /\ n * BlockSize <= top * BlockSize
    <2> HIDE DEF n, top
    <2> QED BY <1>5, <1>12, Sizes, Z3
  <1> QED BY <1>2, <1>4, <1>5, <1>13, Sizes DEF promptTokens

(* Create: the prefix match keeps the manager sound. *)
LEMMA MatchGood ==
  ASSUME NEW m, ManagerGood(m), NEW c \in Calls
  PROVE  ManagerGood(MatchPrefix(m, RequestId[c], Prompt[c]))
  <1>1. R!Good(Executor, R!MatchPrefix(m, RequestId[c], Prompt[c]))
    BY Prompts, R!MatchPrefixGood, RegistryConstants DEF ManagerGood
  <1> QED BY <1>1, SameMatchPrefix DEF ManagerGood

(* deleteRequest and FreeDone, for any request id. *)
LEMMA FreeGood ==
  ASSUME NEW m, ManagerGood(m), NEW r
  PROVE  ManagerGood(FreeRequest(m, r))
  <1>1. R!Good(Executor, R!FreeRequest(m, r))
    BY R!FreeRequestGood, RegistryConstants DEF ManagerGood
  <1> QED BY <1>1, SameFreeRequest DEF ManagerGood

(* Finalize and RequeueWork; a work without an allocation changes nothing. *)
LEMMA SettleGood ==
  ASSUME NEW m, ManagerGood(m), NEW w
  PROVE  ManagerGood(Commit(m, w)) /\ ManagerGood(Rollback(m, w))
  <1>1. CASE w \notin DOMAIN m.pendingAllocations
    BY <1>1 DEF Commit, Rollback
  <1>2. CASE w \in DOMAIN m.pendingAllocations
    <2>1. R!Good(Executor, R!Commit(m, w))
      BY <1>2, R!CommitGood, RegistryConstants DEF ManagerGood
    <2>2. R!Good(Executor, R!Rollback(m, w))
      BY <1>2, R!RollbackGood, RegistryConstants DEF ManagerGood
    <2> QED BY <2>1, <2>2, SameCommit, SameRollback DEF ManagerGood
  <1> QED BY <1>1, <1>2

(* What a work needs, and its place in a batch. *)
LEMMA AllocateGood ==
  ASSUME NEW m, ManagerGood(m), NEW w \in Work
  PROVE  LET b == blockWorkOf(w)
             a == newAllocation(m, b)
         IN  /\ ManagerGood(AllocateBlocks(m, b))
             /\ requiredKVTokens(w) \in Nat
             /\ requiredBlocks(m, b) \in Nat
             /\ canAllocate(m, requiredBlocks(m, b)) =>
                  [work |-> w, table |-> a.blockTable, allocated |-> a.allocated] \in Item
  <1> DEFINE b   == blockWorkOf(w)
             a   == newAllocation(m, b)
             n   == requiredBlocks(m, b)
             ex  == existingBlocks(m, b)
             ids == popped(m, n)
  <1>1. /\ w.id \in Calls \X Int /\ w.request \in Ids /\ w.phase \in {Prefill, Decode}
        /\ w.cache \in Seq(BlockIds) /\ w.call \in Calls
        /\ w.offset \in Nat /\ w.new \in Nat /\ w.total \in Nat
    BY DEF Work
  <1>2. requiredKVTokens(w) \in Nat
    BY <1>1 DEF requiredKVTokens
  <1>3. blockHashes(BlockSize, Prompt[w.call]) \in Seq(R!Hashes)
    <2>1. R!blockHashes([e \in {Executor} |-> BlockSize][Executor], Prompt[w.call]) \in Seq(R!Hashes)
      BY <1>1, R!BlockHashesType, RegistryConstants
    <2> QED BY <2>1 DEF R!blockHashes, blockHashes
  <1>4. /\ b.id = w.id /\ b.request = w.request /\ b.phase = w.phase
        /\ b.tokens = requiredKVTokens(w) /\ b.cache = w.cache
        /\ b.hashes = blockHashes(BlockSize, Prompt[w.call])
    BY DEF blockWorkOf, blockWork
  <1>5. R!WorkOK(Executor, b)
    <2> HIDE DEF b
    <2> QED BY <1>1, <1>2, <1>3, <1>4, Sizes
         DEF R!WorkOK, R!Prefill, R!Decode, Prefill, Decode
  <1>6. ManagerGood(AllocateBlocks(m, b))
    <2>1. R!Good(Executor, R!AllocateBlocks(m, b))
      <3> HIDE DEF b
      <3> QED BY <1>5, R!AllocateBlocksGood, RegistryConstants DEF ManagerGood
    <2> QED BY <2>1, SameAllocateBlocks DEF ManagerGood
  <1>7. /\ m.blockSize = BlockSize /\ m.free \in Seq(BlockIds)
        /\ m.requestBlocks \in [DOMAIN m.requestBlocks -> Seq(BlockIds)]
    <2>1. /\ m.blockSize = [e \in {Executor} |-> BlockSize][Executor]
          /\ m.free \in Seq(R!BlockIds(Executor))
          /\ m.requestBlocks \in [DOMAIN m.requestBlocks -> Seq(R!BlockIds(Executor))]
      BY R!GoodFields, RegistryConstants DEF ManagerGood
    <2> QED BY <2>1, Sizes
  <1>8. ex \in Seq(BlockIds) /\ Len(ex) \in Nat
    <2> HIDE DEF b
    <2> QED BY <1>1, <1>4, <1>7 DEF existingBlocks
  <1>9. n \in Nat
    <2>1. ceilDiv(requiredKVTokens(w), BlockSize) \in Nat
      <3>1. PICK t \in Nat : t = requiredKVTokens(w)
        BY <1>2
      <3>2. (t + BlockSize - 1) \div BlockSize \in Nat
        BY <3>1, Sizes, Z3
      <3> QED BY <3>1, <3>2 DEF ceilDiv
    <2> HIDE DEF b
    <2> QED BY <2>1, <1>4, <1>7, <1>8 DEF requiredBlocks
  <1>10. canAllocate(m, n) => ids \in Seq(BlockIds)
    <2> HIDE DEF n
    <2> QED BY <1>7, <1>9 DEF canAllocate, popped
  <1>11. a.blockTable = ex \o ids /\ a.allocated = ids
    BY DEF newAllocation
  <1>12. canAllocate(m, n) =>
           [work |-> w, table |-> a.blockTable, allocated |-> a.allocated] \in Item
    <2> HIDE DEF a, ex, ids, n, b
    <2> QED BY <1>8, <1>10, <1>11 DEF Item
  <1> QED BY <1>2, <1>6, <1>9, <1>12

-----------------------------------------------------------------------------
(* The inductive invariant *)

(* Request ids are not reused.  The code refuses an id only as long as its  *)
(* request exists.                                                          *)
DistinctIds == \A c, d \in Calls : RequestId[c] = RequestId[d] => c = d

HandlerShape ==
  \A c \in Calls :
    /\ handler[c].pc \in {"subscribe", "enqueue"} =>
         Len(handler[c].item) = 1 /\ handler[c].item[1].call = c
    /\ handler[c].pc \notin {"subscribe", "enqueue"} => handler[c].item = << >>
    /\ handler[c].pc = "emit" => Len(handler[c].event) = 1

(* The batch loop holds works only where it is about to allocate for them,  *)
(* and its budgets cover them.                                              *)
SchedShape ==
  LET pc == sched.pc
      n  == Len(sched.held)
  IN
  /\ pc \in {"idle", "peek", "popSmall", "popLarge", "submit", "requeue"} => sched.held = << >>
  /\ pc \in {"idle", "dequeue"} => sched.batch = << >>
  /\ pc \in {"submit", "requeue"} => sched.batch # << >>
  /\ pc = "dequeue" => n <= sched.scanned /\ sched.scanned <= sched.seqs /\ sched.scanned <= sched.tokens
  /\ pc = "decode" => n > 0 /\ n <= sched.seqs /\ n <= sched.tokens
  /\ pc \in {"small", "large"} => n = 1
  /\ pc \in {"peek", "popSmall", "small", "popLarge", "large"} => sched.seqs > 0 /\ sched.tokens > 0
  /\ pc \in {"popSmall", "small"} => sched.cost <= sched.tokens
  /\ pc \notin {"idle", "submit", "requeue"} => Len(sched.batch) + sched.seqs = MaxBatchSeq
  /\ Len(sched.batch) <= MaxBatchSeq /\ sched.tokens <= MaxBatchTokens /\ sched.seqs <= MaxBatchSeq
  /\ sched.notify # NoCall => pc \in {"dequeue", "peek", "popSmall", "popLarge"}

(* The works of a queue, and those taken from it, are of its kind. *)
QueueShape ==
  /\ \A k \in DOMAIN queue : \A i \in DOMAIN queue[k] : queueOf(queue[k][i]) = k
  /\ \A i \in DOMAIN sched.held :
       /\ sched.pc \in {"dequeue", "decode"} => queueOf(sched.held[i]) = "decode"
       /\ sched.pc = "small" => queueOf(sched.held[i]) = "small"
       /\ sched.pc = "large" => queueOf(sched.held[i]) = "large"

(* A batch is executed when the events of the last are delivered. *)
ExecShape == exec.running = << >> \/ exec.events = << >>

ConsShape ==
  /\ cons.pc \in {"finalize", "onEvent", "publish", "send", "enqueue", "trySchedule", "free"} =>
       Len(cons.event) = 1
  /\ cons.next # << >> => /\ cons.pc \in {"publish", "send", "enqueue"} /\ Len(cons.next) = 1
                          /\ cons.next[1].request = cons.event[1].request
  /\ cons.pc \in {"send", "fail"} => cons.to \in Calls

(* A request belongs to its call, and its tokens are counted: the prompt is *)
(* computed before the first token is generated.                            *)
RequestSound(r) ==
  LET q == requests[r] IN
  /\ RequestId[q.call] = r /\ handler[q.call].pc # "new"
  /\ q.computed <= promptTokens(q.call)
  /\ q.generated > 0 => q.computed = promptTokens(q.call)

(* A work is the next step of its request, if that is still there. *)
WorkSound(w) ==
  /\ RequestId[w.call] = w.request /\ handler[w.call].pc # "new"
  /\ w.id = <<w.call, computedTokens(w)>>
  /\ w.phase = Prefill => /\ w.total = promptTokens(w.call) /\ w.generated = 0
                          /\ w.new >= 1 /\ w.offset + w.new <= w.total
  /\ w.phase = Decode  => /\ w.total = promptTokens(w.call) + w.generated /\ w.generated >= 1
                          /\ w.new = 1 /\ w.offset = 0
  /\ exists(w.request) =>
       LET q == requests[w.request] IN
       /\ q.phase = Running /\ q.generated = w.generated /\ q.cache = w.cache
       /\ w.phase = Prefill => q.computed = w.offset

(* An event is what its request waits for, if that is still there. *)
EventSound(e) ==
  LET c == e.work[1] IN
  /\ RequestId[c] = e.request /\ handler[c].pc # "new"
  /\ e.type = "prefillChunk" => ~e.done
  /\ e.type = "requestFailed" => e.done
  /\ exists(e.request) =>
       LET q == requests[e.request] IN
       /\ q.phase = Running
       /\ e.type = "prefillChunk" =>
            e.output = 0 /\ q.generated = 0 /\ q.computed + e.input < promptTokens(c)
       /\ e.type = "prefillFinished" =>
            e.output = 1 /\ e.token = 1 /\ q.generated = 0 /\ q.computed + e.input = promptTokens(c)
       /\ e.type = "decodeChunk" =>
            e.output = 1 /\ q.generated >= 1 /\ e.token = q.generated + 1

(* Where works and events are. *)
HoldsWork(s, w) == \E i \in DOMAIN s : s[i] = w
HoldsItem(s, w) == \E i \in DOMAIN s : s[i].work = w

WorkIn(w) ==
  \/ \E c \in Calls : HoldsWork(handler[c].item, w)
  \/ \E k \in {"decode", "small", "large"} : HoldsWork(queue[k], w)
  \/ HoldsWork(sched.held, w) \/ HoldsItem(sched.batch, w)
  \/ \E n \in DOMAIN batchChan : HoldsItem(batchChan[n], w)
  \/ HoldsItem(exec.running, w) \/ HoldsWork(cons.next, w)

EventIn(e) ==
  \/ HoldsWork(exec.events, e) \/ HoldsWork(eventChan, e)
  \/ cons.pc \in {"finalize", "onEvent"} /\ HoldsWork(cons.event, e)

RequestsSound == \A r \in DOMAIN requests : RequestSound(r)

TicketsSound ==
  /\ \A w : WorkIn(w) => WorkSound(w)
  /\ \A e : EventIn(e) => EventSound(e)

(* The places where works and events wait, and the requests they are of. *)
Places ==
  ({"item"} \X Calls) \cup ({"queue"} \X {"decode", "small", "large"})
  \cup ({"submitted"} \X Nat)
  \cup ({"held", "batch", "running", "next", "events", "delivered", "event"} \X {0})

idsOf(s) == [i \in DOMAIN s |-> s[i].request]
itemIdsOf(s) == [i \in DOMAIN s |-> s[i].work.request]

Line(p, x) ==
  CASE p = "item"      -> idsOf(handler[x].item)
    [] p = "queue"     -> idsOf(queue[x])
    [] p = "submitted" -> IF x \in DOMAIN batchChan THEN itemIdsOf(batchChan[x]) ELSE << >>
    [] p = "held"      -> idsOf(sched.held)
    [] p = "batch"     -> itemIdsOf(sched.batch)
    [] p = "running"   -> itemIdsOf(exec.running)
    [] p = "events"    -> idsOf(exec.events)
    [] p = "delivered" -> idsOf(eventChan)
    [] p = "event"     -> IF cons.pc \in {"finalize", "onEvent"} THEN idsOf(cons.event) ELSE << >>
    [] p = "next"      -> idsOf(cons.next)

Lines == [a \in Places |-> Line(a[1], a[2])]

Once(T) ==
  \A a, b \in Places : \A i \in DOMAIN T[a] : \A j \in DOMAIN T[b] :
    T[a][i] = T[b][j] => a = b /\ i = j

Occurs(T, r) == \E a \in Places : \E i \in DOMAIN T[a] : T[a][i] = r

OneTicket == Once(Lines)

Attended == \A r \in DOMAIN requests : requests[r].phase = Running => Occurs(Lines, r)

Shapes == HandlerShape /\ SchedShape /\ QueueShape /\ ExecShape /\ ConsShape

Sound == RequestsSound /\ TicketsSound

Serving == Typed /\ Shapes /\ Sound /\ OneTicket /\ Attended

-----------------------------------------------------------------------------
(* Works and events *)

(* A first prefill, or the rest of one. *)
LEMMA PrefillTyped ==
  ASSUME NEW c \in Calls, NEW cache \in Seq(BlockIds), NEW n \in Nat, n <= promptTokens(c)
  PROVE  prefillItem(c, RequestId[c], cache, n, promptTokens(c)) \in Work
  <1>1. promptTokens(c) \in Nat /\ RequestId[c] \in Ids /\ promptTokens(c) - n \in Nat
    BY Prompts
  <1> QED BY <1>1 DEF prefillItem, Work, Prefill, Decode

(* The decode work that an event gives rise to.                             *)
LEMMA DecodeTyped ==
  ASSUME NEW c \in Calls, NEW cache \in Seq(BlockIds), NEW t \in Nat, NEW g \in Nat
  PROVE  decodeItem(c, RequestId[c], cache, t, g) \in Work
  <1>1. RequestId[c] \in Ids
    BY Prompts
  <1> QED BY <1>1 DEF decodeItem, Work, Prefill, Decode

(* The events of a batch.                                                   *)
LEMMA EventsTyped ==
  /\ \A w \in Work : \A done \in BOOLEAN : executedEvent(w, done) \in Event
  /\ \A w \in Work : failedEvent(w) \in Event
  /\ \A c \in Calls : requestFailedEvent(c, RequestId[c]) \in Event
  <1>1. ASSUME NEW w \in Work, NEW done \in BOOLEAN PROVE executedEvent(w, done) \in Event
    BY DEF executedEvent, Event, Work, EventTypes, nextPhase
  <1>2. ASSUME NEW w \in Work PROVE failedEvent(w) \in Event
    BY DEF failedEvent, Event, Work, EventTypes
  <1>3. ASSUME NEW c \in Calls PROVE requestFailedEvent(c, RequestId[c]) \in Event
    BY Prompts DEF requestFailedEvent, Event, EventTypes
  <1> QED BY <1>1, <1>2, <1>3

(* A work is queued with the decodes or with one kind of prefill.           *)
LEMMA QueueNames ==
  ASSUME NEW w PROVE queueOf(w) \in {"decode", "small", "large"}
  BY DEF queueOf

-----------------------------------------------------------------------------
(* Moving a work or an event *)

Tables(T, U) == T \in [Places -> Seq(Ids)] /\ U \in [Places -> Seq(Ids)]

(* The head of one place goes to the end of another. *)
Moved(T, U, a, b) ==
  /\ a \in Places /\ b \in Places /\ a # b /\ T[a] # << >>
  /\ U[a] = Tail(T[a]) /\ U[b] = Append(T[b], Head(T[a]))
  /\ \A p \in Places : p # a /\ p # b => U[p] = T[p]

(* The head of a place is dropped. *)
Dropped(T, U, a) ==
  /\ a \in Places /\ T[a] # << >> /\ U[a] = Tail(T[a])
  /\ \A p \in Places : p # a => U[p] = T[p]

(* A request that is nowhere gets its ticket. *)
Added(T, U, a, id) ==
  /\ a \in Places /\ id \in Ids /\ T[a] = << >> /\ U[a] = <<id>> /\ ~Occurs(T, id)
  /\ \A p \in Places : p # a => U[p] = T[p]

(* All of a place goes to an empty one. *)
MovedAll(T, U, a, b) ==
  /\ a \in Places /\ b \in Places /\ a # b /\ T[b] = << >> /\ U[a] = << >> /\ U[b] = T[a]
  /\ \A p \in Places : p # a /\ p # b => U[p] = T[p]

(* Moving a head keeps tickets unique, and every request keeps its ticket. *)
LEMMA MoveHead ==
  ASSUME NEW T, NEW U, NEW a, NEW b, Tables(T, U), Moved(T, U, a, b), Once(T)
  PROVE  Once(U) /\ \A r : Occurs(T, r) <=> Occurs(U, r)
  <1> USE DEF Tables, Moved
  <1>1. T[a] \in Seq(Ids) /\ T[b] \in Seq(Ids)
    OBVIOUS
  <1> DEFINE op(p, i) == IF p = b /\ i = Len(T[b]) + 1 THEN a ELSE p
             oi(p, i) == IF p = b /\ i = Len(T[b]) + 1 THEN 1 ELSE IF p = a THEN i + 1 ELSE i
  <1>2. ASSUME NEW p \in Places, NEW i \in DOMAIN U[p]
        PROVE  oi(p, i) \in DOMAIN T[op(p, i)] /\ T[op(p, i)][oi(p, i)] = U[p][i] /\ i \in Nat \ {0}
    <2>1. CASE p = a
      BY <1>1, <1>2, <2>1
    <2>2. CASE p = b
      <3>1. DOMAIN U[b] = 1..(Len(T[b]) + 1) /\ Head(T[a]) = T[a][1] /\ 1 \in DOMAIN T[a]
        BY <1>1
      <3>2. U[b][Len(T[b]) + 1] = Head(T[a])
        BY <1>1
      <3>3. \A k \in 1..Len(T[b]) : k \in DOMAIN T[b] /\ U[b][k] = T[b][k]
        BY <1>1
      <3>4. Len(T[b]) \in Nat /\ i \in 1..(Len(T[b]) + 1)
        BY <1>1, <1>2, <2>2, <3>1
      <3>5. CASE i = Len(T[b]) + 1
        BY <2>2, <3>1, <3>2, <3>4, <3>5
      <3>6. CASE i # Len(T[b]) + 1
        <4>1. i \in 1..Len(T[b])
          BY <3>4, <3>6
        <4> QED BY <2>2, <3>3, <3>6, <4>1
      <3> QED BY <3>5, <3>6
    <2>3. CASE p # a /\ p # b
      <3>1. U[p] = T[p] /\ T[p] \in Seq(Ids)
        BY <2>3
      <3> QED BY <1>2, <2>3, <3>1
    <2> QED BY <2>1, <2>2, <2>3
  <1>3. ASSUME NEW p \in Places, NEW q \in Places, NEW i \in DOMAIN U[p], NEW j \in DOMAIN U[q],
               U[p][i] = U[q][j]
        PROVE  p = q /\ i = j
    <2>1. op(p, i) \in Places /\ op(q, j) \in Places
      OBVIOUS
    <2>2. op(p, i) = op(q, j) /\ oi(p, i) = oi(q, j)
      <3> HIDE DEF op, oi
      <3> QED BY <1>2, <1>3, <2>1 DEF Once
    <2>3. i \in Nat \ {0} /\ j \in Nat \ {0} /\ Len(T[b]) \in Nat
      BY <1>1, <1>2
    <2> QED BY <2>2, <2>3
  <1>4. ASSUME NEW r, Occurs(T, r) PROVE Occurs(U, r)
    <2>1. PICK p \in Places : \E i \in DOMAIN T[p] : T[p][i] = r
      BY <1>4 DEF Occurs
    <2>2. PICK i \in DOMAIN T[p] : T[p][i] = r
      BY <2>1
    <2>3. CASE p = a /\ i = 1
      <3>1. Len(T[b]) + 1 \in DOMAIN U[b] /\ U[b][Len(T[b]) + 1] = r
        BY <1>1, <2>2, <2>3
      <3> QED BY <3>1 DEF Occurs
    <2>4. CASE p = a /\ i # 1
      <3>1. i - 1 \in DOMAIN U[a] /\ U[a][i - 1] = r
        BY <1>1, <2>2, <2>4
      <3> QED BY <3>1 DEF Occurs
    <2>5. CASE p = b
      <3>1. i \in DOMAIN U[b] /\ U[b][i] = r
        BY <1>1, <2>2, <2>5
      <3> QED BY <3>1 DEF Occurs
    <2>6. CASE p # a /\ p # b
      BY <2>2, <2>6 DEF Occurs
    <2> QED BY <2>3, <2>4, <2>5, <2>6
  <1>5. ASSUME NEW r, Occurs(U, r) PROVE Occurs(T, r)
    <2>1. PICK p \in Places : \E i \in DOMAIN U[p] : U[p][i] = r
      BY <1>5 DEF Occurs
    <2>2. PICK i \in DOMAIN U[p] : U[p][i] = r
      BY <2>1
    <2>3. op(p, i) \in Places
      OBVIOUS
    <2> HIDE DEF op, oi
    <2> QED BY <1>2, <2>2, <2>3 DEF Occurs
  <1> QED BY <1>3, <1>4, <1>5 DEF Once

(* Dropping a head keeps tickets unique; only its request loses a ticket. *)
LEMMA DropHead ==
  ASSUME NEW T, NEW U, NEW a, Tables(T, U), Dropped(T, U, a), Once(T)
  PROVE  Once(U) /\ \A r : Occurs(T, r) /\ r # Head(T[a]) <=> Occurs(U, r)
  <1> USE DEF Tables, Dropped
  <1>1. T[a] \in Seq(Ids)
    OBVIOUS
  <1> DEFINE oi(p, i) == IF p = a THEN i + 1 ELSE i
  <1>2. ASSUME NEW p \in Places, NEW i \in DOMAIN U[p]
        PROVE  oi(p, i) \in DOMAIN T[p] /\ T[p][oi(p, i)] = U[p][i] /\ i \in Nat
    <2>1. CASE p = a
      BY <1>1, <1>2, <2>1
    <2>2. CASE p # a
      <3>1. U[p] = T[p] /\ T[p] \in Seq(Ids)
        BY <2>2
      <3> QED BY <1>2, <2>2, <3>1
    <2> QED BY <2>1, <2>2
  <1>3. ASSUME NEW p \in Places, NEW q \in Places, NEW i \in DOMAIN U[p], NEW j \in DOMAIN U[q],
               U[p][i] = U[q][j]
        PROVE  p = q /\ i = j
    <2>1. p = q /\ oi(p, i) = oi(q, j)
      <3> HIDE DEF oi
      <3> QED BY <1>2, <1>3 DEF Once
    <2>2. i \in Nat /\ j \in Nat
      BY <1>2
    <2> QED BY <2>1, <2>2
  <1>4. ASSUME NEW r, Occurs(T, r), r # Head(T[a]) PROVE Occurs(U, r)
    <2>1. PICK p \in Places : \E i \in DOMAIN T[p] : T[p][i] = r
      BY <1>4 DEF Occurs
    <2>2. PICK i \in DOMAIN T[p] : T[p][i] = r
      BY <2>1
    <2>3. CASE p = a
      <3>1. i - 1 \in DOMAIN U[a] /\ U[a][i - 1] = r
        BY <1>1, <1>4, <2>2, <2>3
      <3> QED BY <3>1 DEF Occurs
    <2>4. CASE p # a
      BY <2>2, <2>4 DEF Occurs
    <2> QED BY <2>3, <2>4
  <1>5. ASSUME NEW r, Occurs(U, r) PROVE Occurs(T, r) /\ r # Head(T[a])
    <2>1. PICK p \in Places : \E i \in DOMAIN U[p] : U[p][i] = r
      BY <1>5 DEF Occurs
    <2>2. PICK i \in DOMAIN U[p] : U[p][i] = r
      BY <2>1
    <2>3. oi(p, i) \in DOMAIN T[p] /\ T[p][oi(p, i)] = r
      BY <1>2, <2>2
    <2>4. 1 \in DOMAIN T[a] /\ Head(T[a]) = T[a][1] /\ a \in Places
      BY <1>1
    <2>5. CASE p = a
      <3>1. oi(p, i) = i + 1 /\ i \in Nat \ {0}
        BY <1>1, <2>2, <2>5
      <3>2. oi(p, i) # 1
        BY <3>1
      <3> HIDE DEF oi
      <3> QED BY <2>3, <2>4, <2>5, <3>2 DEF Occurs, Once
    <2>6. CASE p # a
      <3> HIDE DEF oi
      <3> QED BY <2>3, <2>4, <2>6 DEF Occurs, Once
    <2> QED BY <2>5, <2>6
  <1> QED BY <1>3, <1>4, <1>5 DEF Once

(* A new request has one ticket. *)
LEMMA AddTicket ==
  ASSUME NEW T, NEW U, NEW a, NEW id, Tables(T, U), Added(T, U, a, id), Once(T)
  PROVE  Once(U) /\ \A r : Occurs(U, r) <=> Occurs(T, r) \/ r = id
  <1> USE DEF Tables, Added
  <1>1. ASSUME NEW p \in Places, NEW q \in Places, NEW i \in DOMAIN U[p], NEW j \in DOMAIN U[q],
               U[p][i] = U[q][j]
        PROVE  p = q /\ i = j
    <2>1. ASSUME NEW u \in Places, u # a, NEW k \in DOMAIN U[u], U[u][k] = id PROVE FALSE
      BY <2>1 DEF Occurs
    <2>2. CASE p = a /\ q = a
      BY <1>1, <2>2
    <2>3. CASE p = a /\ q # a
      BY <1>1, <2>1, <2>3
    <2>4. CASE p # a /\ q = a
      BY <1>1, <2>1, <2>4
    <2>5. CASE p # a /\ q # a
      BY <1>1, <2>5 DEF Once
    <2> QED BY <2>2, <2>3, <2>4, <2>5
  <1>2. ASSUME NEW r, Occurs(T, r) PROVE Occurs(U, r)
    <2>1. PICK p \in Places : \E i \in DOMAIN T[p] : T[p][i] = r
      BY <1>2 DEF Occurs
    <2>2. p # a
      BY <2>1
    <2> QED BY <2>1, <2>2 DEF Occurs
  <1>3. Occurs(U, id)
    <2>1. 1 \in DOMAIN U[a] /\ U[a][1] = id
      OBVIOUS
    <2> QED BY <2>1 DEF Occurs
  <1>4. ASSUME NEW r, Occurs(U, r) PROVE Occurs(T, r) \/ r = id
    <2>1. PICK p \in Places : \E i \in DOMAIN U[p] : U[p][i] = r
      BY <1>4 DEF Occurs
    <2>2. CASE p = a
      BY <2>1, <2>2
    <2>3. CASE p # a
      BY <2>1, <2>3 DEF Occurs
    <2> QED BY <2>2, <2>3
  <1> QED BY <1>1, <1>2, <1>3, <1>4 DEF Once

(* The first submitted batch is taken, and the others move up. *)
TookBatch(T, U) ==
  /\ T[<<"running", 0>>] = << >> /\ U[<<"running", 0>>] = T[<<"submitted", 1>>]
  /\ T[<<"submitted", 0>>] = << >> /\ U[<<"submitted", 0>>] = << >>
  /\ \A n \in Nat \ {0} : U[<<"submitted", n>>] = T[<<"submitted", n + 1>>]
  /\ \A p \in Places : p # <<"running", 0>> /\ p[1] # "submitted" => U[p] = T[p]

(* Moving a whole place keeps tickets unique and every request its ticket. *)
LEMMA MoveAll ==
  ASSUME NEW T, NEW U, NEW a, NEW b, Tables(T, U), MovedAll(T, U, a, b), Once(T)
  PROVE  Once(U) /\ \A r : Occurs(T, r) <=> Occurs(U, r)
  <1> USE DEF Tables, MovedAll
  <1> DEFINE op(p) == IF p = b THEN a ELSE p
  <1>1. ASSUME NEW p \in Places, NEW i \in DOMAIN U[p]
        PROVE  p # a /\ op(p) \in Places /\ i \in DOMAIN T[op(p)] /\ T[op(p)][i] = U[p][i]
    BY <1>1
  <1>2. ASSUME NEW p \in Places, NEW q \in Places, NEW i \in DOMAIN U[p], NEW j \in DOMAIN U[q],
               U[p][i] = U[q][j]
        PROVE  p = q /\ i = j
    <2>1. op(p) = op(q) /\ i = j
      <3> HIDE DEF op
      <3> QED BY <1>1, <1>2 DEF Once
    <2> QED BY <1>1, <2>1
  <1>3. ASSUME NEW r, Occurs(T, r) PROVE Occurs(U, r)
    <2>1. PICK p \in Places : \E i \in DOMAIN T[p] : T[p][i] = r
      BY <1>3 DEF Occurs
    <2>2. p # b
      BY <2>1
    <2>3. CASE p = a
      BY <2>1, <2>3 DEF Occurs
    <2>4. CASE p # a
      BY <2>1, <2>2, <2>4 DEF Occurs
    <2> QED BY <2>3, <2>4
  <1>4. ASSUME NEW r, Occurs(U, r) PROVE Occurs(T, r)
    <2>1. PICK p \in Places : \E i \in DOMAIN U[p] : U[p][i] = r
      BY <1>4 DEF Occurs
    <2> HIDE DEF op
    <2> QED BY <1>1, <2>1 DEF Occurs
  <1> QED BY <1>2, <1>3, <1>4 DEF Once

-----------------------------------------------------------------------------
(* Places *)

(* The request ids of a sequence of works or events. *)
LEMMA IdsOf ==
  ASSUME NEW S, NEW s \in Seq(S), NEW w
  PROVE  /\ idsOf(Append(s, w)) = Append(idsOf(s), w.request)
         /\ s # << >> => /\ idsOf(Tail(s)) = Tail(idsOf(s)) /\ Head(idsOf(s)) = Head(s).request
                         /\ idsOf(s) # << >>
         /\ idsOf(<< >>) = << >> /\ idsOf(<<w>>) = <<w.request>>
         /\ Len(idsOf(s)) = Len(s) /\ DOMAIN idsOf(s) = DOMAIN s
  <1>1. idsOf(s) = [i \in 1..Len(s) |-> s[i].request] /\ Len(s) \in Nat
    BY DEF idsOf
  <1>2. Len(idsOf(s)) = Len(s) /\ DOMAIN idsOf(s) = 1..Len(s)
    BY <1>1
  <1>3. idsOf(Append(s, w)) = [i \in 1..(Len(s) + 1) |-> IF i = Len(s) + 1 THEN w.request ELSE s[i].request]
    BY <1>1 DEF idsOf
  <1>4. idsOf(Append(s, w)) = Append(idsOf(s), w.request)
    <2> DEFINE t == idsOf(s)
    <2>1. Append(t, w.request) = [i \in 1..(Len(t) + 1) |-> IF i = Len(t) + 1 THEN w.request ELSE t[i]]
      BY <1>1, <1>2
    <2> QED BY <1>1, <1>2, <1>3, <2>1
  <1>5. ASSUME s # << >> PROVE idsOf(Tail(s)) = Tail(idsOf(s)) /\ Head(idsOf(s)) = Head(s).request
                               /\ idsOf(s) # << >>
    BY <1>1, <1>2, <1>5 DEF idsOf
  <1>6. idsOf(<< >>) = << >> /\ idsOf(<<w>>) = <<w.request>>
    BY DEF idsOf
  <1> QED BY <1>2, <1>4, <1>5, <1>6

(* The request ids of the items of a batch. *)
LEMMA ItemIdsOf ==
  ASSUME NEW S, NEW s \in Seq(S), NEW w
  PROVE  /\ itemIdsOf(Append(s, w)) = Append(itemIdsOf(s), w.work.request)
         /\ s # << >> => /\ itemIdsOf(Tail(s)) = Tail(itemIdsOf(s))
                         /\ Head(itemIdsOf(s)) = Head(s).work.request
                         /\ itemIdsOf(s) # << >>
         /\ itemIdsOf(<< >>) = << >> /\ itemIdsOf(<<w>>) = <<w.work.request>>
         /\ Len(itemIdsOf(s)) = Len(s) /\ DOMAIN itemIdsOf(s) = DOMAIN s
  <1>1. itemIdsOf(s) = [i \in 1..Len(s) |-> s[i].work.request] /\ Len(s) \in Nat
    BY DEF itemIdsOf
  <1>2. Len(itemIdsOf(s)) = Len(s) /\ DOMAIN itemIdsOf(s) = 1..Len(s)
    BY <1>1
  <1>3. itemIdsOf(Append(s, w)) =
          [i \in 1..(Len(s) + 1) |-> IF i = Len(s) + 1 THEN w.work.request ELSE s[i].work.request]
    BY <1>1 DEF itemIdsOf
  <1>4. itemIdsOf(Append(s, w)) = Append(itemIdsOf(s), w.work.request)
    <2> DEFINE t == itemIdsOf(s)
    <2>1. Append(t, w.work.request) =
            [i \in 1..(Len(t) + 1) |-> IF i = Len(t) + 1 THEN w.work.request ELSE t[i]]
      BY <1>1, <1>2
    <2> QED BY <1>1, <1>2, <1>3, <2>1
  <1>5. ASSUME s # << >>
        PROVE  /\ itemIdsOf(Tail(s)) = Tail(itemIdsOf(s)) /\ Head(itemIdsOf(s)) = Head(s).work.request
               /\ itemIdsOf(s) # << >>
    BY <1>1, <1>2, <1>5 DEF itemIdsOf
  <1>6. itemIdsOf(<< >>) = << >> /\ itemIdsOf(<<w>>) = <<w.work.request>>
    BY DEF itemIdsOf
  <1> QED BY <1>2, <1>4, <1>5, <1>6

(* What a sequence holds after an Append. *)
LEMMA HoldsAppend ==
  ASSUME NEW S, NEW s \in Seq(S), NEW w
  PROVE  /\ \A v : HoldsWork(Append(s, w), v) => HoldsWork(s, v) \/ v = w
         /\ \A v : HoldsItem(Append(s, w), v) => HoldsItem(s, v) \/ v = w.work
  BY DEF HoldsWork, HoldsItem

(* What a sequence holds after a Tail. *)
LEMMA HoldsTail ==
  ASSUME NEW S, NEW s \in Seq(S), s # << >>
  PROVE  /\ \A v : HoldsWork(Tail(s), v) => HoldsWork(s, v)
         /\ \A v : HoldsItem(Tail(s), v) => HoldsItem(s, v)
         /\ HoldsWork(s, Head(s)) /\ HoldsItem(s, Head(s).work)
  <1>1. ASSUME NEW v, HoldsWork(Tail(s), v) PROVE HoldsWork(s, v)
    <2>1. PICK i \in DOMAIN Tail(s) : Tail(s)[i] = v
      BY <1>1 DEF HoldsWork
    <2>2. i + 1 \in DOMAIN s /\ s[i + 1] = v
      BY <2>1
    <2> QED BY <2>2 DEF HoldsWork
  <1>2. ASSUME NEW v, HoldsItem(Tail(s), v) PROVE HoldsItem(s, v)
    <2>1. PICK i \in DOMAIN Tail(s) : Tail(s)[i].work = v
      BY <1>2 DEF HoldsItem
    <2>2. i + 1 \in DOMAIN s /\ s[i + 1].work = v
      BY <2>1
    <2> QED BY <2>2 DEF HoldsItem
  <1>3. HoldsWork(s, Head(s)) /\ HoldsItem(s, Head(s).work)
    BY DEF HoldsWork, HoldsItem
  <1> QED BY <1>1, <1>2, <1>3

(* What short sequences hold. *)
LEMMA HoldsShort ==
  /\ \A v : ~HoldsWork(<< >>, v) /\ ~HoldsItem(<< >>, v)
  /\ \A v, w : HoldsWork(<<w>>, v) <=> v = w
  BY DEF HoldsWork, HoldsItem

(* The elements of a sequence. *)
LEMMA SeqTyped ==
  ASSUME NEW S, NEW s \in Seq(S)
  PROVE  /\ s # << >> => Tail(s) \in Seq(S) /\ Head(s) \in S
         /\ \A w \in S : Append(s, w) \in Seq(S)
  OBVIOUS

(* The places, one by one. *)
LEMMA PlaceNames ==
  /\ \A c \in Calls : <<"item", c>> \in Places
  /\ \A k \in {"decode", "small", "large"} : <<"queue", k>> \in Places
  /\ \A n \in Nat : <<"submitted", n>> \in Places
  /\ \A p \in {"held", "batch", "running", "next", "events", "delivered", "event"} : <<p, 0>> \in Places
  /\ \A a \in Places :
       \/ \E c \in Calls : a = <<"item", c>>
       \/ a = <<"queue", "decode">> \/ a = <<"queue", "small">> \/ a = <<"queue", "large">>
       \/ \E n \in Nat : a = <<"submitted", n>>
       \/ a = <<"held", 0>> \/ a = <<"batch", 0>> \/ a = <<"running", 0>> \/ a = <<"next", 0>>
       \/ a = <<"events", 0>> \/ a = <<"delivered", 0>> \/ a = <<"event", 0>>
  BY DEF Places

(* What waits at each place. *)
LinesAre ==
  /\ \A c \in Calls : Lines[<<"item", c>>] = idsOf(handler[c].item)
  /\ \A k \in {"decode", "small", "large"} : Lines[<<"queue", k>>] = idsOf(queue[k])
  /\ \A n \in Nat : Lines[<<"submitted", n>>] =
                      IF n \in DOMAIN batchChan THEN itemIdsOf(batchChan[n]) ELSE << >>
  /\ Lines[<<"held", 0>>] = idsOf(sched.held)
  /\ Lines[<<"batch", 0>>] = itemIdsOf(sched.batch)
  /\ Lines[<<"running", 0>>] = itemIdsOf(exec.running)
  /\ Lines[<<"events", 0>>] = idsOf(exec.events)
  /\ Lines[<<"delivered", 0>>] = idsOf(eventChan)
  /\ Lines[<<"event", 0>>] = IF cons.pc \in {"finalize", "onEvent"} THEN idsOf(cons.event) ELSE << >>
  /\ Lines[<<"next", 0>>] = idsOf(cons.next)

(* Lines read place by place. *)
LEMMA LineAt == LinesAre
  <1>1. \A p, x : <<p, x>> \in Places => Lines[<<p, x>>] = Line(p, x)
    BY DEF Lines
  <1> QED BY <1>1, PlaceNames DEF LinesAre, Line

(* Requests wait at every place. *)
LEMMA LinesTyped == Typed => Lines \in [Places -> Seq(Ids)]
  <1> SUFFICES ASSUME Typed PROVE Lines \in [Places -> Seq(Ids)]
    OBVIOUS
  <1>1. \A s \in Seq(Work) : idsOf(s) \in Seq(Ids)
    <2> SUFFICES ASSUME NEW s \in Seq(Work) PROVE idsOf(s) \in Seq(Ids)
      OBVIOUS
    <2>1. ASSUME NEW i \in 1..Len(s) PROVE s[i].request \in Ids
      <3>1. s[i] \in Work
        OBVIOUS
      <3> QED BY <3>1 DEF Work
    <2>2. idsOf(s) = [i \in 1..Len(s) |-> s[i].request] /\ Len(s) \in Nat
      BY DEF idsOf
    <2> QED BY <2>1, <2>2
  <1>2. \A s \in Seq(Event) : idsOf(s) \in Seq(Ids)
    <2> SUFFICES ASSUME NEW s \in Seq(Event) PROVE idsOf(s) \in Seq(Ids)
      OBVIOUS
    <2>1. ASSUME NEW i \in 1..Len(s) PROVE s[i].request \in Ids
      <3>1. s[i] \in Event
        OBVIOUS
      <3> QED BY <3>1 DEF Event
    <2>2. idsOf(s) = [i \in 1..Len(s) |-> s[i].request] /\ Len(s) \in Nat
      BY DEF idsOf
    <2> QED BY <2>1, <2>2
  <1>3. \A s \in Seq(Item) : itemIdsOf(s) \in Seq(Ids)
    <2> SUFFICES ASSUME NEW s \in Seq(Item) PROVE itemIdsOf(s) \in Seq(Ids)
      OBVIOUS
    <2>1. ASSUME NEW i \in 1..Len(s) PROVE s[i].work.request \in Ids
      <3>1. s[i] \in Item
        OBVIOUS
      <3> QED BY <3>1 DEF Item, Work
    <2>2. itemIdsOf(s) = [i \in 1..Len(s) |-> s[i].work.request] /\ Len(s) \in Nat
      BY DEF itemIdsOf
    <2> QED BY <2>1, <2>2
  <1>4. ASSUME NEW a \in Places PROVE Lines[a] \in Seq(Ids)
    <2>1. \A c \in Calls : handler[c].item \in Seq(Work)
      BY DEF Typed, HandlersTyped
    <2>2. \A k \in {"decode", "small", "large"} : queue[k] \in Seq(Work)
      BY DEF Typed, QueuesTyped
    <2>3. sched.held \in Seq(Work) /\ sched.batch \in Seq(Item)
      BY DEF Typed, SchedTyped
    <2>4. /\ exec.running \in Seq(Item) /\ exec.events \in Seq(Event) /\ eventChan \in Seq(Event)
          /\ \A n \in DOMAIN batchChan : batchChan[n] \in Seq(Item)
      BY DEF Typed, ExecTyped
    <2>5. cons.event \in Seq(Event) /\ cons.next \in Seq(Work)
      BY DEF Typed, ConsTyped
    <2>6. << >> \in Seq(Ids)
      OBVIOUS
    <2>7. CASE \E c \in Calls : a = <<"item", c>>
      BY <1>1, <2>1, <2>7, LineAt DEF LinesAre
    <2>8. CASE \E k \in {"decode", "small", "large"} : a = <<"queue", k>>
      BY <1>1, <2>2, <2>8, LineAt DEF LinesAre
    <2>9. CASE \E n \in Nat : a = <<"submitted", n>>
      BY <1>3, <2>4, <2>6, <2>9, LineAt DEF LinesAre
    <2>10. CASE a \in {<<"held", 0>>, <<"batch", 0>>, <<"running", 0>>}
      BY <1>1, <1>3, <2>3, <2>4, <2>10, LineAt DEF LinesAre
    <2>11. CASE a \in {<<"events", 0>>, <<"delivered", 0>>, <<"event", 0>>}
      BY <1>2, <2>4, <2>5, <2>6, <2>11, LineAt DEF LinesAre
    <2>12. CASE a = <<"next", 0>>
      BY <1>1, <2>5, <2>12, LineAt DEF LinesAre
    <2> QED BY <2>7, <2>8, <2>9, <2>10, <2>11, <2>12, PlaceNames
  <1> QED BY <1>4 DEF Lines

(* The works and events on their way are works and events. *)
LEMMA InTyped ==
  Typed => (\A w : WorkIn(w) => w \in Work) /\ (\A e : EventIn(e) => e \in Event)
  <1> SUFFICES ASSUME Typed PROVE (\A w : WorkIn(w) => w \in Work) /\ (\A e : EventIn(e) => e \in Event)
    OBVIOUS
  <1>1. \A w : \A s \in Seq(Work) : HoldsWork(s, w) => w \in Work
    BY DEF HoldsWork
  <1>2. \A w : \A s \in Seq(Event) : HoldsWork(s, w) => w \in Event
    BY DEF HoldsWork
  <1>3. ASSUME NEW w, NEW s \in Seq(Item), HoldsItem(s, w) PROVE w \in Work
    <2>1. PICK i \in 1..Len(s) : s[i].work = w
      BY <1>3 DEF HoldsItem
    <2>2. s[i] \in Item
      OBVIOUS
    <2> QED BY <2>1, <2>2 DEF Item
  <1>4. \A c \in Calls : handler[c].item \in Seq(Work)
    BY DEF Typed, HandlersTyped
  <1>5. \A k \in {"decode", "small", "large"} : queue[k] \in Seq(Work)
    BY DEF Typed, QueuesTyped
  <1>6. sched.held \in Seq(Work) /\ sched.batch \in Seq(Item)
    BY DEF Typed, SchedTyped
  <1>7. /\ exec.running \in Seq(Item) /\ exec.events \in Seq(Event) /\ eventChan \in Seq(Event)
        /\ \A n \in DOMAIN batchChan : batchChan[n] \in Seq(Item)
    BY DEF Typed, ExecTyped
  <1>8. cons.event \in Seq(Event) /\ cons.next \in Seq(Work)
    BY DEF Typed, ConsTyped
  <1> QED BY <1>1, <1>2, <1>3, <1>4, <1>5, <1>6, <1>7, <1>8 DEF WorkIn, EventIn

(* What a step other than Create and OnEvent does to requests: it may       *)
(* delete some.                                                             *)
Kept ==
  /\ DOMAIN requests' \subseteq DOMAIN requests
  /\ \A r \in DOMAIN requests' : requests'[r] = requests[r]
  /\ \A c \in Calls : handler[c].pc # "new" => handler'[c].pc # "new"

(* What is known of works and events survives such a step. *)
LEMMA KeptSound ==
  ASSUME Typed, Kept
  PROVE  /\ \A w \in Work : WorkSound(w) => WorkSound(w)'
         /\ \A e \in Event : EventSound(e) => EventSound(e)'
         /\ RequestsSound => RequestsSound'
  <1>1. ASSUME NEW w \in Work, WorkSound(w) PROVE WorkSound(w)'
    <2>1. w.call \in Calls
      BY DEF Work
    <2> QED BY <1>1, <2>1 DEF Kept, WorkSound, exists
  <1>2. ASSUME NEW e \in Event, EventSound(e) PROVE EventSound(e)'
    <2>1. e.work[1] \in Calls
      BY DEF Event
    <2> QED BY <1>2, <2>1 DEF Kept, EventSound, exists
  <1>3. ASSUME RequestsSound PROVE RequestsSound'
    <2>1. ASSUME NEW r \in DOMAIN requests' PROVE RequestSound(r)'
      <3>1. r \in DOMAIN requests /\ requests'[r] = requests[r] /\ requests[r].call \in Calls
        BY <2>1 DEF Kept, Typed, RequestsTyped, Request
      <3>2. RequestSound(r)
        BY <1>3, <3>1 DEF RequestsSound
      <3> QED BY <3>1, <3>2 DEF Kept, RequestSound
    <2> QED BY <2>1 DEF RequestsSound
  <1> QED BY <1>1, <1>2, <1>3

(* The parts of such a step. *)
LEMMA KeptStep ==
  ASSUME Serving, Kept, Typed', Shapes',
         \A w : WorkIn(w)' => WorkIn(w) \/ WorkSound(w)',
         \A e : EventIn(e)' => EventIn(e) \/ EventSound(e)',
         OneTicket', \A r \in DOMAIN requests' : Occurs(Lines, r) => Occurs(Lines', r)
  PROVE  Serving'
  <1>1. Typed /\ RequestsSound /\ TicketsSound /\ Attended
    BY DEF Serving, Sound
  <1>2. TicketsSound'
    <2>1. ASSUME NEW w, WorkIn(w)' PROVE WorkSound(w)'
      BY <1>1, <2>1, KeptSound, InTyped DEF TicketsSound
    <2>2. ASSUME NEW e, EventIn(e)' PROVE EventSound(e)'
      BY <1>1, <2>2, KeptSound, InTyped DEF TicketsSound
    <2> QED BY <2>1, <2>2 DEF TicketsSound
  <1>3. RequestsSound'
    BY <1>1, KeptSound
  <1>4. Attended'
    BY <1>1 DEF Attended, Kept
  <1> QED BY <1>2, <1>3, <1>4 DEF Serving, Sound
-----------------------------------------------------------------------------
(* Taking a batch keeps tickets unique and every request its ticket. *)
LEMMA ShiftBatches ==
  ASSUME NEW T, NEW U, Tables(T, U), TookBatch(T, U), Once(T)
  PROVE  Once(U) /\ \A r : Occurs(T, r) <=> Occurs(U, r)
  <1> USE DEF Tables, TookBatch
  <1> DEFINE op(p) == IF p = <<"running", 0>> THEN <<"submitted", 1>>
                      ELSE IF p[1] = "submitted" THEN <<"submitted", p[2] + 1>> ELSE p
  <1>0. \A s : s = << >> => DOMAIN s = {}
    OBVIOUS
  <1>1. \A p \in Places : p[1] = "submitted" => p[2] \in Nat /\ p = <<"submitted", p[2]>>
    BY DEF Places
  <1>2. ASSUME NEW p \in Places, NEW i \in DOMAIN U[p]
        PROVE  /\ p # <<"submitted", 0>> /\ op(p) \in Places /\ U[p] = T[op(p)]
    <2>1. CASE p = <<"running", 0>>
      BY <2>1, PlaceNames
    <2>2. CASE p[1] = "submitted"
      <3>1. PICK n \in Nat : p = <<"submitted", n>>
        BY <1>1, <2>2
      <3>2. n # 0
        BY <1>0, <1>2, <3>1
      <3>3. op(p) = <<"submitted", n + 1>> /\ n + 1 \in Nat
        BY <3>1
      <3> QED BY <3>1, <3>2, <3>3, PlaceNames
    <2>3. CASE p # <<"running", 0>> /\ p[1] # "submitted"
      BY <2>3
    <2> QED BY <2>1, <2>2, <2>3
  <1>3. ASSUME NEW p \in Places, NEW q \in Places, p # <<"submitted", 0>>, q # <<"submitted", 0>>,
               op(p) = op(q)
        PROVE  p = q
    <2>1. CASE p[1] = "submitted" /\ q[1] = "submitted"
      <3>1. op(p)[2] = p[2] + 1 /\ op(q)[2] = q[2] + 1
        BY <2>1
      <3>2. p[2] = q[2]
        BY <1>1, <1>3, <2>1, <3>1
      <3> QED BY <1>1, <2>1, <3>2
    <2>2. CASE p[1] = "submitted" /\ q[1] # "submitted"
      <3>1. PICK n \in Nat : p = <<"submitted", n>> /\ n # 0
        BY <1>1, <1>3, <2>2
      <3>2. op(p) = <<"submitted", n + 1>>
        BY <3>1
      <3>3. op(q) = <<"submitted", 1>> \/ op(q)[1] # "submitted"
        BY <2>2
      <3> QED BY <1>3, <3>1, <3>2, <3>3
    <2>3. CASE p[1] # "submitted" /\ q[1] = "submitted"
      <3>1. PICK n \in Nat : q = <<"submitted", n>> /\ n # 0
        BY <1>1, <1>3, <2>3
      <3>2. op(q) = <<"submitted", n + 1>>
        BY <3>1
      <3>3. op(p) = <<"submitted", 1>> \/ op(p)[1] # "submitted"
        BY <2>3
      <3> QED BY <1>3, <3>1, <3>2, <3>3
    <2>4. CASE p[1] # "submitted" /\ q[1] # "submitted"
      <3>1. op(p) = p \/ (p = <<"running", 0>> /\ op(p) = <<"submitted", 1>>)
        BY <2>4
      <3>2. op(q) = q \/ (q = <<"running", 0>> /\ op(q) = <<"submitted", 1>>)
        BY <2>4
      <3>3. <<"submitted", 1>>[1] = "submitted"
        OBVIOUS
      <3> HIDE DEF op
      <3> QED BY <1>3, <2>4, <3>1, <3>2, <3>3
    <2> QED BY <2>1, <2>2, <2>3, <2>4
  <1>4. ASSUME NEW p \in Places, NEW q \in Places, NEW i \in DOMAIN U[p], NEW j \in DOMAIN U[q],
               U[p][i] = U[q][j]
        PROVE  p = q /\ i = j
    <2>1. op(p) = op(q) /\ i = j /\ p # <<"submitted", 0>> /\ q # <<"submitted", 0>>
      <3> HIDE DEF op
      <3> QED BY <1>2, <1>4 DEF Once
    <2> HIDE DEF op
    <2> QED BY <1>3, <2>1
  <1>5. ASSUME NEW r, Occurs(T, r) PROVE Occurs(U, r)
    <2>1. PICK p \in Places : \E i \in DOMAIN T[p] : T[p][i] = r
      BY <1>5 DEF Occurs
    <2>2. CASE p[1] = "submitted"
      <3>1. PICK n \in Nat : p = <<"submitted", n>>
        BY <1>1, <2>2
      <3>2. n # 0
        BY <1>0, <2>1, <3>1
      <3>3. CASE n = 1
        <4>1. U[<<"running", 0>>] = T[p] /\ <<"running", 0>> \in Places
          BY <3>1, <3>3, PlaceNames
        <4> QED BY <2>1, <4>1 DEF Occurs
      <3>4. CASE n # 1
        <4>1. n - 1 \in Nat \ {0} /\ (n - 1) + 1 = n
          BY <3>2, <3>4
        <4>2. U[<<"submitted", n - 1>>] = T[p] /\ <<"submitted", n - 1>> \in Places
          BY <3>1, <4>1, PlaceNames
        <4> QED BY <2>1, <4>2 DEF Occurs
      <3> QED BY <3>3, <3>4
    <2>3. CASE p[1] # "submitted"
      <3>1. p # <<"running", 0>>
        BY <1>0, <2>1
      <3> QED BY <2>1, <2>3, <3>1 DEF Occurs
    <2> QED BY <2>2, <2>3
  <1>6. ASSUME NEW r, Occurs(U, r) PROVE Occurs(T, r)
    <2>1. PICK p \in Places : \E i \in DOMAIN U[p] : U[p][i] = r
      BY <1>6 DEF Occurs
    <2>2. op(p) \in Places /\ U[p] = T[op(p)]
      BY <1>2, <2>1
    <2> HIDE DEF op
    <2> QED BY <2>1, <2>2 DEF Occurs
  <1> QED BY <1>4, <1>5, <1>6 DEF Once

-----------------------------------------------------------------------------
(* Steps that move a ticket, drop it or leave it. *)

(* The request ids of short sequences. *)
LEMMA ShortIds ==
  /\ \A w : idsOf(<<w>>) = <<w.request>>
  /\ idsOf(<< >>) = << >> /\ itemIdsOf(<< >>) = << >>
  BY DEF idsOf, itemIdsOf

(* What waits at each place after a step. *)
LEMMA LineAtNext == LinesAre'
  BY LineAt, PTL

(* Requests wait at every place after a step. *)
LEMMA LinesTypedNext == Typed' => (Lines \in [Places -> Seq(Ids)])'
  BY LinesTyped, PTL

(* The event being handled stays, or there is none. *)
EventStill ==
  \/ cons' = cons
  \/ cons.pc \in {"finalize", "onEvent"} /\ cons'.pc \in {"finalize", "onEvent"} /\ cons'.event = cons.event
  \/ cons.pc \notin {"finalize", "onEvent"} /\ cons'.pc \notin {"finalize", "onEvent"}

(* A place that a step leaves alone. *)
LEMMA SamePlace ==
  ASSUME NEW p \in Places,
         \A c \in Calls : p = <<"item", c>> => handler'[c].item = handler[c].item,
         \A k \in {"decode", "small", "large"} : p = <<"queue", k>> => queue'[k] = queue[k],
         \A n \in Nat : p = <<"submitted", n>> => batchChan' = batchChan,
         p = <<"held", 0>> => sched'.held = sched.held,
         p = <<"batch", 0>> => sched'.batch = sched.batch,
         p = <<"running", 0>> => exec'.running = exec.running,
         p = <<"events", 0>> => exec'.events = exec.events,
         p = <<"delivered", 0>> => eventChan' = eventChan,
         p = <<"event", 0>> => EventStill,
         p = <<"next", 0>> => cons'.next = cons.next
  PROVE  Lines'[p] = Lines[p]
  <1>1. CASE \E c \in Calls : p = <<"item", c>>
    BY <1>1, LineAt, LineAtNext DEF LinesAre
  <1>2. CASE \E k \in {"decode", "small", "large"} : p = <<"queue", k>>
    BY <1>2, LineAt, LineAtNext DEF LinesAre
  <1>3. CASE \E n \in Nat : p = <<"submitted", n>>
    BY <1>3, LineAt, LineAtNext DEF LinesAre
  <1>4. CASE p \in {<<"held", 0>>, <<"batch", 0>>, <<"running", 0>>, <<"next", 0>>}
    BY <1>4, LineAt, LineAtNext DEF LinesAre
  <1>5. CASE p \in {<<"events", 0>>, <<"delivered", 0>>, <<"event", 0>>}
    BY <1>5, LineAt, LineAtNext DEF LinesAre, EventStill
  <1> QED BY <1>1, <1>2, <1>3, <1>4, <1>5, PlaceNames

(* The fields of the Engine's records. *)
LEMMA Fields ==
  ASSUME Typed
  PROVE  /\ \A c \in Calls :
              /\ handler[c].pc \in HandlerPcs /\ handler[c].from \in Calls
              /\ handler[c].item \in Seq(Work) /\ handler[c].event \in Seq(Event)
              /\ handler[c].out \in Seq(Output) /\ handler[c].received \in Seq(Output)
              /\ channel[c].buf \in Seq(Event) /\ channel[c].closed \in BOOLEAN
         /\ \A k \in {"decode", "small", "large"} : queue[k] \in Seq(Work)
         /\ sched.held \in Seq(Work) /\ sched.batch \in Seq(Item)
         /\ exec.running \in Seq(Item) /\ exec.events \in Seq(Event) /\ eventChan \in Seq(Event)
         /\ batchChan \in Seq(Seq(Item)) /\ \A n \in DOMAIN batchChan : batchChan[n] \in Seq(Item)
         /\ cons.event \in Seq(Event) /\ cons.next \in Seq(Work) /\ cons.to \in Calls \cup {NoCall}
         /\ \A r \in DOMAIN requests : r \in Ids /\ requests[r] \in Request /\ requests[r].call \in Calls
  <1>1. \A c \in Calls :
              /\ handler[c].pc \in HandlerPcs /\ handler[c].from \in Calls
              /\ handler[c].item \in Seq(Work) /\ handler[c].event \in Seq(Event)
              /\ handler[c].out \in Seq(Output) /\ handler[c].received \in Seq(Output)
    BY DEF Typed, HandlersTyped
  <1>2. \A c \in Calls : channel[c].buf \in Seq(Event) /\ channel[c].closed \in BOOLEAN
    BY DEF Typed, ChannelsTyped
  <1>3. \A k \in {"decode", "small", "large"} : queue[k] \in Seq(Work)
    BY DEF Typed, QueuesTyped
  <1>4. sched.held \in Seq(Work) /\ sched.batch \in Seq(Item)
    BY DEF Typed, SchedTyped
  <1>5. /\ exec.running \in Seq(Item) /\ exec.events \in Seq(Event) /\ eventChan \in Seq(Event)
        /\ batchChan \in Seq(Seq(Item)) /\ \A n \in DOMAIN batchChan : batchChan[n] \in Seq(Item)
    BY DEF Typed, ExecTyped
  <1>6. cons.event \in Seq(Event) /\ cons.next \in Seq(Work) /\ cons.to \in Calls \cup {NoCall}
    BY DEF Typed, ConsTyped
  <1>7. ASSUME NEW r \in DOMAIN requests
        PROVE  r \in Ids /\ requests[r] \in Request /\ requests[r].call \in Calls
    <2>1. r \in Ids /\ requests[r] \in Request
      BY DEF Typed, RequestsTyped
    <2> QED BY <2>1 DEF Request
  <1> QED BY <1>1, <1>2, <1>3, <1>4, <1>5, <1>6, <1>7

(* A step that leaves the goroutines' locals and the queues alone. *)
LEMMA SameShapes == Shapes /\ UNCHANGED <<handler, sched, queue, cons>> /\ ExecShape' => Shapes'
  BY DEF Shapes, HandlerShape, SchedShape, QueueShape, ConsShape

(* What every step but Create and OnEvent is made of. *)
StepParts ==
  /\ Serving /\ Kept /\ Typed' /\ Shapes'
  /\ \A w : WorkIn(w)' => WorkIn(w) \/ WorkSound(w)'
  /\ \A e : EventIn(e)' => EventIn(e) \/ EventSound(e)'

(* No request gets a ticket that had none. *)
NoNewTicket == \A r : Occurs(Lines', r) => Occurs(Lines, r)

Onward == Kept /\ NoNewTicket

(* A request that is deleted has no ticket left. *)
DeletedAreDone == \A r \in DOMAIN requests \ DOMAIN requests' : ~Occurs(Lines', r)

(* The requests that remain keep their tickets. *)
LEMMA TicketStep ==
  ASSUME StepParts, Once(Lines'), \A r \in DOMAIN requests' : Occurs(Lines, r) => Occurs(Lines', r),
         \A r : Occurs(Lines', r) => Occurs(Lines, r)
  PROVE  Serving' /\ Onward
  <1>1. OneTicket'
    BY DEF OneTicket
  <1>2. Serving'
    BY <1>1, KeptStep DEF StepParts
  <1> QED BY <1>2 DEF Onward, NoNewTicket, StepParts

(* Tickets stay where they are. *)
LEMMA StillStep ==
  ASSUME StepParts, \A p \in Places : Lines'[p] = Lines[p]
  PROVE  Serving' /\ Onward
  <1>1. Once(Lines') /\ \A r : Occurs(Lines, r) <=> Occurs(Lines', r)
    BY DEF StepParts, Serving, OneTicket, Once, Occurs
  <1> QED BY <1>1, TicketStep

(* A ticket moves. *)
LEMMA MoveStep ==
  ASSUME StepParts, NEW a, NEW b, Moved(Lines, Lines', a, b)
  PROVE  Serving' /\ Onward
  <1>1. Tables(Lines, Lines') /\ Once(Lines)
    BY LinesTyped, LinesTypedNext DEF StepParts, Serving, OneTicket, Tables
  <1>2. Once(Lines') /\ \A r : Occurs(Lines, r) <=> Occurs(Lines', r)
    BY <1>1, MoveHead
  <1> QED BY <1>2, TicketStep

(* A place's tickets move to an empty one. *)
LEMMA MoveAllStep ==
  ASSUME StepParts, NEW a, NEW b, MovedAll(Lines, Lines', a, b)
  PROVE  Serving' /\ Onward
  <1>1. Tables(Lines, Lines') /\ Once(Lines)
    BY LinesTyped, LinesTypedNext DEF StepParts, Serving, OneTicket, Tables
  <1>2. Once(Lines') /\ \A r : Occurs(Lines, r) <=> Occurs(Lines', r)
    BY <1>1, MoveAll
  <1> QED BY <1>2, TicketStep

(* The ticket of a request that is gone is dropped. *)
LEMMA DropStep ==
  ASSUME StepParts, NEW a, Dropped(Lines, Lines', a), Head(Lines[a]) \notin DOMAIN requests'
  PROVE  Serving' /\ Onward /\ ~Occurs(Lines', Head(Lines[a]))
  <1>1. Tables(Lines, Lines') /\ Once(Lines)
    BY LinesTyped, LinesTypedNext DEF StepParts, Serving, OneTicket, Tables
  <1>2. Once(Lines') /\ \A r : Occurs(Lines, r) /\ r # Head(Lines[a]) <=> Occurs(Lines', r)
    BY <1>1, DropHead
  <1>3. \A r \in DOMAIN requests' : Occurs(Lines, r) => Occurs(Lines', r)
    BY <1>2
  <1>4. (\A r : Occurs(Lines', r) => Occurs(Lines, r)) /\ ~Occurs(Lines', Head(Lines[a]))
    BY <1>2
  <1> QED BY <1>2, <1>3, <1>4, TicketStep

-----------------------------------------------------------------------------
(* The executor *)

(* Deliver: the executor's first event goes to eventChan. *)
LEMMA DeliverStep == ASSUME Serving, Deliver PROVE Serving' /\ Onward
  <1>1. Typed /\ Shapes
    BY DEF Serving
  <1>2. /\ exec.events # << >> /\ exec.events \in Seq(Event) /\ eventChan \in Seq(Event)
        /\ exec.running \in Seq(Item)
    BY <1>1, Fields DEF Deliver
  <1>3. /\ eventChan' = Append(eventChan, Head(exec.events))
        /\ exec' = [exec EXCEPT !.events = Tail(@)]
        /\ UNCHANGED <<mgr, kv, requests, channel, handler, expired, queue, sched, batchChan, cons,
                       panicked>>
    BY DEF Deliver, processUp
  <1>4. exec' = [running |-> exec.running, events |-> Tail(exec.events)]
    BY <1>1, <1>3 DEF Typed, ExecTyped
  <1>5. Typed'
    <2>1. Tail(exec.events) \in Seq(Event) /\ Append(eventChan, Head(exec.events)) \in Seq(Event)
      BY <1>2, SeqTyped
    <2>2. ExecTyped'
      BY <1>1, <1>2, <1>3, <1>4, <2>1 DEF Typed, ExecTyped
    <2> QED BY <1>1, <1>3, <2>2 DEF Typed, RequestsTyped, ChannelsTyped, HandlersTyped, QueuesTyped,
                                    SchedTyped, ConsTyped
  <1>6. \A e : EventIn(e)' => EventIn(e)
    <2>1. \A e : HoldsWork(Append(eventChan, Head(exec.events)), e) =>
                   HoldsWork(eventChan, e) \/ e = Head(exec.events)
      BY <1>2, HoldsAppend
    <2>2. /\ \A e : HoldsWork(Tail(exec.events), e) => HoldsWork(exec.events, e)
          /\ HoldsWork(exec.events, Head(exec.events))
      BY <1>2, HoldsTail
    <2> QED BY <2>1, <2>2, <1>3, <1>4 DEF EventIn
  <1>7. Moved(Lines, Lines', <<"events", 0>>, <<"delivered", 0>>)
    <2>1. /\ idsOf(Tail(exec.events)) = Tail(idsOf(exec.events)) /\ idsOf(exec.events) # << >>
          /\ Head(idsOf(exec.events)) = Head(exec.events).request
      BY <1>2, IdsOf
    <2>2. idsOf(Append(eventChan, Head(exec.events))) =
            Append(idsOf(eventChan), Head(exec.events).request)
      BY <1>2, IdsOf
    <2>3. idsOf(exec'.events) = Tail(idsOf(exec.events))
      BY <2>1, <1>4
    <2>4. idsOf(eventChan') = Append(idsOf(eventChan), Head(idsOf(exec.events)))
      BY <2>1, <2>2, <1>3
    <2>5. ASSUME NEW p \in Places, p # <<"events", 0>>, p # <<"delivered", 0>>
          PROVE  Lines'[p] = Lines[p]
      BY <1>3, <1>4, <2>5, SamePlace DEF EventStill
    <2> QED BY <2>1, <2>3, <2>4, <2>5, LineAt, LineAtNext, PlaceNames DEF LinesAre, Moved
  <1>8. StepParts
    <2>0. ExecShape'
      BY <1>1, <1>2, <1>4 DEF Shapes, ExecShape
    <2>1. Shapes'
      BY <1>1, <1>3, <2>0, SameShapes
    <2>2. \A w : WorkIn(w)' => WorkIn(w)
      BY <1>3, <1>4 DEF WorkIn
    <2>3. Kept
      BY <1>3 DEF Kept
    <2> QED BY <1>5, <1>6, <2>1, <2>2, <2>3 DEF StepParts
  <1> QED BY <1>7, <1>8, MoveStep

(* A batch is taken. *)
LEMMA TakeStep ==
  ASSUME StepParts, TookBatch(Lines, Lines')
  PROVE  Serving' /\ Onward
  <1>1. Tables(Lines, Lines') /\ Once(Lines)
    BY LinesTyped, LinesTypedNext DEF StepParts, Serving, OneTicket, Tables
  <1>2. Once(Lines') /\ \A r : Occurs(Lines, r) <=> Occurs(Lines', r)
    BY <1>1, ShiftBatches
  <1> QED BY <1>2, TicketStep

(* TakeBatch: the first batch of batchChan starts to run. *)
LEMMA TakeBatchStep == ASSUME Serving, TakeBatch PROVE Serving' /\ Onward
  <1>1. Typed /\ Shapes
    BY DEF Serving
  <1>2. /\ exec.running = << >> /\ exec.events = << >> /\ batchChan # << >>
        /\ exec' = [exec EXCEPT !.running = Head(batchChan)] /\ batchChan' = Tail(batchChan)
        /\ UNCHANGED <<mgr, kv, requests, channel, handler, expired, queue, sched, eventChan, cons,
                       panicked>>
    BY DEF TakeBatch, processUp
  <1>3. exec' = [running |-> Head(batchChan), events |-> << >>]
    BY <1>1, <1>2 DEF Typed, ExecTyped
  <1>4. PICK s \in Seq(Seq(Item)) : s = batchChan
    BY <1>1, Fields
  <1>5. /\ Head(s) = s[1] /\ Head(s) \in Seq(Item) /\ Tail(s) \in Seq(Seq(Item)) /\ 1 \in DOMAIN s
        /\ \A n \in Nat \ {0} : n \in DOMAIN Tail(s) <=> n + 1 \in DOMAIN s
        /\ \A n \in DOMAIN Tail(s) : n \in Nat \ {0} /\ n + 1 \in DOMAIN s /\ Tail(s)[n] = s[n + 1]
        /\ 0 \notin DOMAIN s /\ 0 \notin DOMAIN Tail(s)
    BY <1>2, <1>4
  <1>6. Typed'
    <2>1. ExecTyped'
      BY <1>1, <1>2, <1>3, <1>4, <1>5 DEF Typed, ExecTyped
    <2> QED BY <1>1, <1>2, <2>1 DEF Typed, RequestsTyped, ChannelsTyped, HandlersTyped, QueuesTyped,
                                    SchedTyped, ConsTyped
  <1>7. \A w : WorkIn(w)' => WorkIn(w)
    <2> SUFFICES ASSUME NEW w, WorkIn(w)' PROVE WorkIn(w)
      OBVIOUS
    <2>1. CASE HoldsItem(exec'.running, w)
      BY <1>3, <1>4, <1>5, <2>1 DEF WorkIn
    <2>2. CASE \E n \in DOMAIN batchChan' : HoldsItem(batchChan'[n], w)
      BY <1>2, <1>4, <1>5, <2>2 DEF WorkIn
    <2> QED BY <1>2, <2>1, <2>2 DEF WorkIn
  <1>8. TookBatch(Lines, Lines')
    <2>1. ASSUME NEW p \in Places, p # <<"running", 0>>, p[1] # "submitted"
          PROVE  Lines'[p] = Lines[p]
      BY <1>2, <1>3, <2>1, SamePlace DEF EventStill
    <2>2. /\ Lines[<<"running", 0>>] = << >> /\ Lines'[<<"running", 0>>] = itemIdsOf(Head(s))
          /\ Lines[<<"submitted", 1>>] = itemIdsOf(Head(s))
      <3>1. itemIdsOf(<< >>) = << >>
        BY DEF itemIdsOf
      <3> QED BY <3>1, <1>2, <1>3, <1>4, <1>5, LineAt, LineAtNext DEF LinesAre
    <2>3. Lines[<<"submitted", 0>>] = << >> /\ Lines'[<<"submitted", 0>>] = << >>
      BY <1>2, <1>4, <1>5, LineAt, LineAtNext DEF LinesAre
    <2>4. ASSUME NEW n \in Nat \ {0} PROVE Lines'[<<"submitted", n>>] = Lines[<<"submitted", n + 1>>]
      <3>1. /\ Lines'[<<"submitted", n>>] =
                 IF n \in DOMAIN batchChan' THEN itemIdsOf(batchChan'[n]) ELSE << >>
            /\ Lines[<<"submitted", n + 1>>] =
                 IF n + 1 \in DOMAIN batchChan THEN itemIdsOf(batchChan[n + 1]) ELSE << >>
        BY <2>4, LineAt, LineAtNext DEF LinesAre
      <3> QED BY <1>2, <1>4, <1>5, <3>1
    <2> QED BY <2>1, <2>2, <2>3, <2>4 DEF TookBatch
  <1>9. StepParts
    <2>1. ExecShape'
      BY <1>3 DEF ExecShape
    <2>2. Shapes'
      BY <1>1, <1>2, <2>1, SameShapes
    <2>3. \A e : EventIn(e)' => EventIn(e)
      BY <1>2, <1>3 DEF EventIn
    <2>4. Kept
      BY <1>2 DEF Kept
    <2> QED BY <1>6, <1>7, <2>2, <2>3, <2>4 DEF StepParts
  <1> QED BY <1>8, <1>9, TakeStep

(* The event of an executed work is what its request waits for. *)
LEMMA EventOfWork ==
  ASSUME NEW w \in Work, WorkSound(w), NEW done \in BOOLEAN, done => mayStop(w)
  PROVE  EventSound(executedEvent(w, done)) /\ EventSound(failedEvent(w))
  <1>1. w.id[1] = w.call /\ w.phase \in {Prefill, Decode} /\ w.offset \in Nat /\ w.new \in Nat
        /\ w.total \in Nat /\ w.generated \in Nat
    BY DEF WorkSound, Work
  <1>2. EventSound(failedEvent(w))
    BY <1>1 DEF WorkSound, EventSound, failedEvent, exists
  <1>3. CASE w.phase = Decode
    <2>1. executedEvent(w, done) =
            [ work |-> w.id, request |-> w.request, type |-> "decodeChunk", done |-> done,
              input |-> 0, output |-> 1, token |-> w.generated + 1 ]
      BY <1>3 DEF executedEvent, nextPhase, sample, Prefill, Decode
    <2>2. EventSound(executedEvent(w, done))
      BY <1>1, <1>3, <2>1 DEF WorkSound, EventSound, exists
    <2> QED BY <1>2, <2>2
  <1>4. CASE w.phase = Prefill /\ w.offset + w.new >= w.total
    <2>1. executedEvent(w, done) =
            [ work |-> w.id, request |-> w.request, type |-> "prefillFinished", done |-> done,
              input |-> w.new, output |-> 1, token |-> w.generated + 1 ]
      BY <1>4 DEF executedEvent, nextPhase, sample, Prefill, Decode
    <2>2. EventSound(executedEvent(w, done))
      BY <1>1, <1>4, <2>1 DEF WorkSound, EventSound, exists
    <2> QED BY <1>2, <2>2
  <1>5. CASE w.phase = Prefill /\ ~(w.offset + w.new >= w.total)
    <2>1. ~done
      BY <1>5 DEF mayStop, sample, Prefill, Decode
    <2>2. executedEvent(w, done) =
            [ work |-> w.id, request |-> w.request, type |-> "prefillChunk", done |-> done,
              input |-> w.new, output |-> 0, token |-> w.generated + 1 ]
      BY <1>5 DEF executedEvent, nextPhase, sample, Prefill, Decode
    <2>3. EventSound(executedEvent(w, done))
      BY <1>1, <1>5, <2>1, <2>2 DEF WorkSound, EventSound, exists
    <2> QED BY <1>2, <2>3
  <1> QED BY <1>1, <1>3, <1>4, <1>5

(* Execute and ExecuteFails: every work of the batch has its event. *)
LEMMA BatchEnds ==
  ASSUME Serving, NEW f \in [DOMAIN exec.running -> Event], exec.running # << >>,
         \A i \in DOMAIN exec.running :
           EventSound(f[i]) /\ f[i].request = exec.running[i].work.request,
         exec' = [running |-> << >>, events |-> f],
         UNCHANGED <<mgr, requests, channel, handler, expired, queue, sched, batchChan, eventChan,
                     cons, panicked>>
  PROVE  Serving' /\ Onward
  <1>1. Typed /\ Shapes
    BY DEF Serving
  <1>2. exec.running \in Seq(Item) /\ exec.events = << >>
    BY <1>1, Fields DEF Shapes, ExecShape
  <1>3. f \in Seq(Event)
    <2>1. DOMAIN exec.running = 1..Len(exec.running) /\ Len(exec.running) \in Nat
      BY <1>2
    <2> QED BY <2>1
  <1>4. Typed'
    <2>1. ExecTyped'
      BY <1>1, <1>3 DEF Typed, ExecTyped
    <2> QED BY <1>1, <2>1 DEF Typed, RequestsTyped, ChannelsTyped, HandlersTyped, QueuesTyped,
                              SchedTyped, ConsTyped
  <1>5. Kept
    BY DEF Kept
  <1>6. \A e : EventIn(e)' => EventIn(e) \/ EventSound(e)'
    <2>1. \A e : HoldsWork(f, e) => EventSound(e)'
      <3>1. \A e \in Event : EventSound(e) => EventSound(e)'
        BY <1>1, <1>5, KeptSound
      <3> QED BY <3>1 DEF HoldsWork
    <2> QED BY <2>1 DEF EventIn
  <1>7. \A w : WorkIn(w)' => WorkIn(w)
    <2>1. \A w : ~HoldsItem(<< >>, w)
      BY HoldsShort
    <2> QED BY <2>1 DEF WorkIn
  <1>8. MovedAll(Lines, Lines', <<"running", 0>>, <<"events", 0>>)
    <2>1. idsOf(f) = itemIdsOf(exec.running) /\ idsOf(<< >>) = << >> /\ itemIdsOf(<< >>) = << >>
      BY DEF idsOf, itemIdsOf
    <2>2. ASSUME NEW p \in Places, p # <<"running", 0>>, p # <<"events", 0>>
          PROVE  Lines'[p] = Lines[p]
      BY <2>2, SamePlace DEF EventStill
    <2> QED BY <1>2, <2>1, <2>2, LineAt, LineAtNext, PlaceNames DEF LinesAre, MovedAll
  <1>9. StepParts
    <2>1. ExecShape'
      BY DEF ExecShape
    <2>2. Shapes'
      BY <1>1, <2>1, SameShapes
    <2> QED BY <1>4, <1>5, <1>6, <1>7, <2>2 DEF StepParts
  <1> QED BY <1>8, <1>9, MoveAllStep

(* Execute and ExecuteFails. *)
LEMMA ExecuteStep == ASSUME Serving, Execute \/ ExecuteFails PROVE Serving' /\ Onward
  <1>1. Typed /\ TicketsSound
    BY DEF Serving, Sound
  <1>2. \A i \in DOMAIN exec.running : exec.running[i].work \in Work /\ WorkSound(exec.running[i].work)
    <2> SUFFICES ASSUME NEW i \in DOMAIN exec.running
                 PROVE  exec.running[i].work \in Work /\ WorkSound(exec.running[i].work)
      OBVIOUS
    <2>1. WorkIn(exec.running[i].work)
      BY DEF WorkIn, HoldsItem
    <2> QED BY <1>1, <2>1, InTyped DEF TicketsSound
  <1>3. CASE Execute
    <2>1. PICK stop \in SUBSET {i \in DOMAIN exec.running : mayStop(exec.running[i].work)} :
            exec' = [running |-> << >>,
                     events  |-> [i \in DOMAIN exec.running |->
                                    executedEvent(exec.running[i].work, i \in stop)]]
      BY <1>3 DEF Execute
    <2> DEFINE f == [i \in DOMAIN exec.running |-> executedEvent(exec.running[i].work, i \in stop)]
    <2>2. ASSUME NEW i \in DOMAIN exec.running
          PROVE  f[i] \in Event /\ EventSound(f[i]) /\ f[i].request = exec.running[i].work.request
      <3>1. f[i] = executedEvent(exec.running[i].work, i \in stop)
        OBVIOUS
      <3>2. (i \in stop) \in BOOLEAN /\ (i \in stop => mayStop(exec.running[i].work))
        BY <2>1
      <3>3. f[i] \in Event
        BY <1>2, <3>1, <3>2, EventsTyped
      <3>4. EventSound(f[i])
        BY <1>2, <3>1, <3>2, EventOfWork
      <3> QED BY <3>1, <3>3, <3>4 DEF executedEvent
    <2>3. /\ exec.running # << >>
          /\ UNCHANGED <<mgr, requests, channel, handler, expired, queue, sched, batchChan, eventChan,
                         cons, panicked>>
      BY <1>3 DEF Execute, processUp
    <2>4. f \in [DOMAIN exec.running -> Event] /\ exec' = [running |-> << >>, events |-> f]
      BY <2>1, <2>2
    <2> HIDE DEF f
    <2> QED BY <2>2, <2>3, <2>4, BatchEnds
  <1>4. CASE ExecuteFails
    <2> DEFINE f == [i \in DOMAIN exec.running |-> failedEvent(exec.running[i].work)]
    <2>2. ASSUME NEW i \in DOMAIN exec.running
          PROVE  f[i] \in Event /\ EventSound(f[i]) /\ f[i].request = exec.running[i].work.request
      <3>1. f[i] = failedEvent(exec.running[i].work)
        OBVIOUS
      <3>2. EventSound(f[i])
        BY <1>2, <3>1, EventOfWork
      <3> QED BY <1>2, <3>1, <3>2, EventsTyped DEF failedEvent
    <2>3. /\ exec.running # << >>
          /\ UNCHANGED <<mgr, requests, channel, handler, expired, queue, sched, batchChan, eventChan,
                         cons, panicked>>
      BY <1>4 DEF ExecuteFails, processUp
    <2>4. f \in [DOMAIN exec.running -> Event] /\ exec' = [running |-> << >>, events |-> f]
      BY <1>4, <2>2 DEF ExecuteFails
    <2> HIDE DEF f
    <2> QED BY <2>2, <2>3, <2>4, BatchEnds
  <1> QED BY <1>3, <1>4

-----------------------------------------------------------------------------
(* The consumer of events *)

(* Sending on a channel, closing it and receiving from it. *)
LEMMA ChannelOps ==
  ASSUME NEW ch \in [Calls -> [buf : Seq(Event), closed : BOOLEAN]], NEW c \in Calls, NEW e \in Event
  PROVE  LET T == [Calls -> [buf : Seq(Event), closed : BOOLEAN]] IN
         /\ [ch EXCEPT ![c].buf = Append(@, e)] \in T
         /\ [ch EXCEPT ![c].buf = Append(@, e), ![c].closed = TRUE] \in T
         /\ [ch EXCEPT ![c].closed = TRUE] \in T
         /\ ch[c].buf # << >> => [ch EXCEPT ![c].buf = Tail(@)] \in T
  <1>1. ch[c] \in [buf : Seq(Event), closed : BOOLEAN] /\ ch[c].buf \in Seq(Event)
    OBVIOUS
  <1>2. Append(ch[c].buf, e) \in Seq(Event) /\ (ch[c].buf # << >> => Tail(ch[c].buf) \in Seq(Event))
    BY <1>1, SeqTyped
  <1> QED BY <1>1, <1>2

(* deleteRequest leaves the other requests as they are. *)
LEMMA DeleteKept ==
  ASSUME Typed, NEW r, deleteRequest(r), \A c \in Calls : handler[c].pc # "new" => handler'[c].pc # "new"
  PROVE  Kept /\ RequestsTyped' /\ ManagerGood(mgr)' /\ DOMAIN requests' = DOMAIN requests \ {r}
  <1>1. /\ DOMAIN requests' = DOMAIN requests \ {r}
        /\ \A s \in DOMAIN requests' : requests'[s] = requests[s]
        /\ requests' = [s \in DOMAIN requests \ {r} |-> requests[s]]
    BY DEF deleteRequest, Without, Restrict
  <1>2. RequestsTyped'
    BY <1>1 DEF Typed, RequestsTyped
  <1>3. ManagerGood(mgr')
    BY FreeGood DEF Typed, deleteRequest
  <1> QED BY <1>1, <1>2, <1>3 DEF Kept

(* TakeEvent: the first event of eventChan is handled, or dropped with its  *)
(* request gone.                                                            *)
LEMMA TakeEventStep == ASSUME Serving, TakeEvent PROVE Serving' /\ Onward
  <1>1. Typed /\ Shapes
    BY DEF Serving
  <1>2. /\ cons.pc = "idle" /\ eventChan # << >> /\ eventChan' = Tail(eventChan)
        /\ UNCHANGED <<mgr, kv, requests, channel, handler, expired, queue, sched, batchChan, exec,
                       panicked>>
    BY DEF TakeEvent, processUp
  <1>3. /\ eventChan \in Seq(Event) /\ Tail(eventChan) \in Seq(Event) /\ Head(eventChan) \in Event
        /\ cons.next = << >>
    <2>1. eventChan \in Seq(Event)
      BY <1>1, Fields
    <2> QED BY <1>1, <1>2, <2>1, SeqTyped DEF Shapes, ConsShape
  <1>4. /\ cons'.next = << >> /\ cons'.to = NoCall /\ ConsTyped'
        /\ exists(Head(eventChan).request) => cons'.pc = "finalize" /\ cons'.event = <<Head(eventChan)>>
        /\ ~exists(Head(eventChan).request) => cons'.pc = "idle" /\ cons'.event = << >>
    <2>1. idleCons \in [pc : ConsPcs, event : Seq(Event), next : Seq(Work), to : Calls \cup {NoCall}]
      BY DEF idleCons, ConsPcs
    <2>2. PICK h \in Seq(Event) : h = <<Head(eventChan)>>
      <3>1. <<Head(eventChan)>> \in Seq(Event)
        BY <1>3
      <3> QED BY <3>1, Zenon
    <2>3. cons' = IF exists(Head(eventChan).request)
                  THEN [idleCons EXCEPT !.pc = "finalize", !.event = h] ELSE idleCons
      BY <2>2 DEF TakeEvent
    <2>4. ConsTyped'
      BY <2>1, <2>3 DEF ConsTyped, ConsPcs
    <2> QED BY <2>2, <2>3, <2>4 DEF idleCons
  <1>5. Typed'
    <2>1. ExecTyped'
      BY <1>1, <1>2, <1>3 DEF Typed, ExecTyped
    <2> QED BY <1>1, <1>2, <1>4, <2>1 DEF Typed, RequestsTyped, ChannelsTyped, HandlersTyped,
                                          QueuesTyped, SchedTyped
  <1>6. StepParts
    <2>1. ConsShape'
      BY <1>4 DEF ConsShape
    <2>2. Shapes'
      BY <1>1, <1>2, <2>1 DEF Shapes, HandlerShape, SchedShape, QueueShape, ExecShape
    <2>3. \A w : WorkIn(w)' => WorkIn(w)
      BY <1>2, <1>3, <1>4 DEF WorkIn
    <2>4. \A e : EventIn(e)' => EventIn(e)
      <3>1. /\ \A e : HoldsWork(Tail(eventChan), e) => HoldsWork(eventChan, e)
            /\ HoldsWork(eventChan, Head(eventChan))
        BY <1>2, <1>3, HoldsTail
      <3>2. \A e : HoldsWork(<<Head(eventChan)>>, e) => e = Head(eventChan)
        BY HoldsShort
      <3> QED BY <1>2, <1>4, <3>1, <3>2 DEF EventIn
    <2>5. Kept
      BY <1>2 DEF Kept
    <2> QED BY <1>5, <2>2, <2>3, <2>4, <2>5 DEF StepParts
  <1>7. /\ Lines[<<"delivered", 0>>] # << >> /\ Lines'[<<"delivered", 0>>] = Tail(Lines[<<"delivered", 0>>])
        /\ Head(Lines[<<"delivered", 0>>]) = Head(eventChan).request
    <2>1. /\ idsOf(Tail(eventChan)) = Tail(idsOf(eventChan)) /\ idsOf(eventChan) # << >>
          /\ Head(idsOf(eventChan)) = Head(eventChan).request
      BY <1>2, <1>3, IdsOf
    <2>2. Lines[<<"delivered", 0>>] = idsOf(eventChan) /\ Lines'[<<"delivered", 0>>] = idsOf(Tail(eventChan))
      BY <1>2, LineAt, LineAtNext DEF LinesAre
    <2> QED BY <2>1, <2>2
  <1>8. CASE exists(Head(eventChan).request)
    <2>1. Lines[<<"event", 0>>] = << >> /\ Lines'[<<"event", 0>>] = <<Head(eventChan).request>>
      <3>1. idsOf(<<Head(eventChan)>>) = <<Head(eventChan).request>>
        BY <1>3, IdsOf
      <3>2. cons'.pc = "finalize" /\ cons'.event = <<Head(eventChan)>>
        BY <1>4, <1>8
      <3> QED BY <1>2, <3>1, <3>2, LineAt, LineAtNext DEF LinesAre
    <2>2. Lines'[<<"event", 0>>] = Append(Lines[<<"event", 0>>], Head(Lines[<<"delivered", 0>>]))
      BY <1>7, <2>1
    <2>3. ASSUME NEW p \in Places, p # <<"delivered", 0>>, p # <<"event", 0>> PROVE Lines'[p] = Lines[p]
      BY <1>2, <1>3, <1>4, <2>3, SamePlace DEF EventStill
    <2>4. Moved(Lines, Lines', <<"delivered", 0>>, <<"event", 0>>)
      BY <1>7, <2>2, <2>3, PlaceNames DEF Moved
    <2> QED BY <1>6, <2>4, MoveStep
  <1>9. CASE ~exists(Head(eventChan).request)
    <2>1. cons'.pc = "idle" /\ cons'.next = << >>
      BY <1>4, <1>9
    <2>2. ASSUME NEW p \in Places, p # <<"delivered", 0>> PROVE Lines'[p] = Lines[p]
      BY <1>2, <1>3, <2>1, <2>2, SamePlace DEF EventStill
    <2>3. Dropped(Lines, Lines', <<"delivered", 0>>)
      BY <1>7, <2>2, PlaceNames DEF Dropped
    <2>4. Head(Lines[<<"delivered", 0>>]) \notin DOMAIN requests'
      BY <1>2, <1>7, <1>9 DEF exists
    <2> QED BY <1>6, <2>3, <2>4, DropStep
  <1> QED BY <1>8, <1>9

(* A step that moves only the consumer on: Finalize, Publish, FreeDone, and *)
(* the end of Fail.                                                         *)
LEMMA ConsumerMoves ==
  ASSUME Serving, ManagerGood(mgr)', ChannelsTyped', panicked' \in BOOLEAN, ConsTyped', ConsShape',
         EventStill, cons'.next = cons.next,
         UNCHANGED <<requests, handler, expired, queue, sched, batchChan, exec, eventChan>>
  PROVE  Serving' /\ Onward
  <1>1. Typed /\ Shapes
    BY DEF Serving
  <1>2. Typed'
    BY <1>1 DEF Typed, RequestsTyped, HandlersTyped, QueuesTyped, SchedTyped, ExecTyped
  <1>3. StepParts
    <2>1. Shapes'
      BY <1>1 DEF Shapes, HandlerShape, SchedShape, QueueShape, ExecShape
    <2>2. \A w : WorkIn(w)' => WorkIn(w)
      BY DEF WorkIn
    <2>3. \A e : EventIn(e)' => EventIn(e)
      BY DEF EventIn, EventStill
    <2>4. Kept
      BY DEF Kept
    <2> QED BY <1>2, <2>1, <2>2, <2>3, <2>4 DEF StepParts
  <1>4. ASSUME NEW p \in Places PROVE Lines'[p] = Lines[p]
    BY SamePlace
  <1> QED BY <1>3, <1>4, StillStep

(* Finalize, Publish, TryScheduleNext, SendFailed and FreeDone. *)
LEMMA ConsumerStep ==
  ASSUME Serving, Finalize \/ Publish \/ TryScheduleNext \/ SendFailed \/ FreeDone
  PROVE  Serving' /\ Onward
  <1>1. Typed /\ Shapes
    BY DEF Serving
  <1>2. /\ cons \in [pc : ConsPcs, event : Seq(Event), next : Seq(Work), to : Calls \cup {NoCall}]
        /\ ManagerGood(mgr) /\ ChannelsTyped /\ panicked \in BOOLEAN /\ ConsShape
    BY <1>1 DEF Typed, ConsTyped, Shapes
  <1>3. CASE Finalize
    <2>1. /\ cons.pc = "finalize" /\ cons' = [cons EXCEPT !.pc = "onEvent"]
          /\ mgr' = (IF cons.event[1].type = "requestFailed" THEN Rollback(mgr, cons.event[1].work)
                     ELSE Commit(mgr, cons.event[1].work))
          /\ UNCHANGED <<kv, requests, channel, handler, expired, queue, sched, batchChan, exec,
                         eventChan, panicked>>
      BY <1>3 DEF Finalize, processUp
    <2>2. ManagerGood(mgr')
      BY <1>2, <2>1, SettleGood
    <2>3. /\ cons'.pc = "onEvent" /\ cons'.event = cons.event /\ cons'.next = cons.next
          /\ cons'.to = cons.to
      BY <1>2, <2>1
    <2>4. ConsTyped' /\ ConsShape' /\ ChannelsTyped' /\ EventStill
      BY <1>2, <2>1, <2>3 DEF ConsTyped, ConsShape, ConsPcs, ChannelsTyped, EventStill
    <2> QED BY <1>2, <2>1, <2>2, <2>3, <2>4, ConsumerMoves
  <1>4. CASE Publish
    <2>1. /\ cons.pc = "publish"
          /\ cons' = IF exists(eventRequest) THEN [cons EXCEPT !.pc = "send", !.to = requests[eventRequest].call]
                     ELSE [cons EXCEPT !.pc = "enqueue"]
          /\ UNCHANGED <<mgr, kv, requests, channel, handler, expired, queue, sched, batchChan, exec,
                         eventChan, panicked>>
      BY <1>4 DEF Publish, processUp
    <2>2. exists(eventRequest) => requests[eventRequest].call \in Calls
      BY <1>1, Fields DEF exists
    <2>3. /\ cons'.pc \in {"send", "enqueue"} /\ cons'.event = cons.event /\ cons'.next = cons.next
          /\ cons'.to \in Calls \cup {NoCall} /\ (cons'.pc = "send" => cons'.to \in Calls)
      BY <1>2, <2>1, <2>2
    <2>4. ConsTyped'
      BY <1>2, <2>1, <2>2 DEF ConsTyped, ConsPcs
    <2>5. ConsShape' /\ ChannelsTyped' /\ EventStill
      BY <1>2, <2>1, <2>3 DEF ConsShape, ChannelsTyped, EventStill
    <2> QED BY <1>2, <2>1, <2>3, <2>4, <2>5, ConsumerMoves
  <1>5. CASE SendFailed
    <2>1. /\ cons.pc = "fail" /\ cons' = idleCons /\ sendFailure(cons.to, RequestId[cons.to])
          /\ UNCHANGED <<mgr, kv, requests, handler, expired, queue, sched, batchChan, exec,
                         eventChan, panicked>>
      BY <1>5 DEF SendFailed, processUp
    <2>2. cons.to \in Calls /\ cons.next = << >>
      BY <1>2, <2>1 DEF ConsShape
    <2>3. ChannelsTyped'
      <3>1. requestFailedEvent(cons.to, RequestId[cons.to]) \in Event
        BY <2>2, EventsTyped
      <3> QED BY <1>2, <2>1, <2>2, <3>1, ChannelOps DEF sendFailure, ChannelsTyped
    <2>4. ConsTyped' /\ ConsShape' /\ EventStill /\ cons'.next = cons.next
      BY <1>2, <2>1, <2>2 DEF ConsTyped, ConsShape, ConsPcs, EventStill, idleCons
    <2> QED BY <1>2, <2>1, <2>3, <2>4, ConsumerMoves
  <1>6. CASE FreeDone
    <2>1. /\ cons.pc = "free" /\ cons' = idleCons
          /\ mgr' = (IF cons.event[1].done THEN FreeRequest(mgr, eventRequest) ELSE mgr)
          /\ UNCHANGED <<kv, requests, channel, handler, expired, queue, sched, batchChan, exec,
                         eventChan, panicked>>
      BY <1>6 DEF FreeDone, processUp
    <2>2. ManagerGood(mgr')
      BY <1>2, <2>1, FreeGood
    <2>3. cons.next = << >>
      BY <1>2, <2>1 DEF ConsShape
    <2>4. ConsTyped' /\ ConsShape' /\ EventStill /\ cons'.next = cons.next /\ ChannelsTyped'
      BY <1>2, <2>1, <2>3 DEF ConsTyped, ConsShape, ConsPcs, EventStill, idleCons, ChannelsTyped
    <2> QED BY <1>2, <2>1, <2>2, <2>4, ConsumerMoves
  <1>7. CASE TryScheduleNext
    <2>1. /\ cons.pc = "trySchedule" /\ cons' = [cons EXCEPT !.pc = "free"]
          /\ UNCHANGED <<mgr, kv, requests, channel, handler, expired, queue, sched, batchChan, exec,
                         eventChan, panicked>>
      BY <1>7 DEF TryScheduleNext, processUp
    <2>2. cons'.pc = "free" /\ cons'.event = cons.event /\ cons'.next = cons.next /\ cons'.to = cons.to
      BY <1>2, <2>1
    <2>3. ConsTyped' /\ ConsShape' /\ ChannelsTyped' /\ EventStill
      BY <1>2, <2>1, <2>2 DEF ConsTyped, ConsShape, ConsPcs, ChannelsTyped, EventStill
    <2> QED BY <1>2, <2>1, <2>2, <2>3, ConsumerMoves
  <1> QED BY <1>3, <1>4, <1>5, <1>6, <1>7

(* Send: the event goes to the subscriber, or the process ends. *)
LEMMA SendStep == ASSUME Serving, Send PROVE Serving' /\ Onward
  <1>1. Typed /\ Shapes
    BY DEF Serving
  <1>2. /\ cons \in [pc : ConsPcs, event : Seq(Event), next : Seq(Work), to : Calls \cup {NoCall}]
        /\ ManagerGood(mgr) /\ ChannelsTyped /\ ConsShape
    BY <1>1 DEF Typed, ConsTyped, Shapes
  <1>3. /\ cons.pc = "send" /\ cons.to \in Calls /\ Len(cons.event) = 1
        /\ UNCHANGED <<mgr, kv, requests, handler, expired, queue, sched, batchChan, exec, eventChan>>
    BY <1>2 DEF Send, ConsShape
  <1>4. CASE channel[cons.to].closed
    <2>1. panicked' = TRUE /\ UNCHANGED <<channel, cons>>
      BY <1>4 DEF Send
    <2>2. ManagerGood(mgr)' /\ ChannelsTyped' /\ panicked' \in BOOLEAN /\ ConsTyped' /\ ConsShape' /\ EventStill
      BY <1>2, <1>3, <2>1 DEF ChannelsTyped, ConsTyped, ConsShape, EventStill
    <2> QED BY <1>3, <2>1, <2>2, ConsumerMoves
  <1>5. CASE ~channel[cons.to].closed
    <2>1. /\ channel' = [channel EXCEPT ![cons.to].buf = Append(@, cons.event[1])]
          /\ cons' = [cons EXCEPT !.pc = "enqueue", !.to = NoCall] /\ UNCHANGED panicked
      BY <1>5 DEF Send
    <2>2. ChannelsTyped'
      <3>1. cons.event[1] \in Event
        BY <1>2, <1>3
      <3> QED BY <1>2, <1>3, <2>1, <3>1, ChannelOps DEF ChannelsTyped
    <2>3. /\ cons'.pc = "enqueue" /\ cons'.event = cons.event /\ cons'.next = cons.next
          /\ cons'.to = NoCall
      BY <1>2, <2>1
    <2>4. ManagerGood(mgr)' /\ panicked' \in BOOLEAN /\ ConsTyped'
      BY <1>1, <1>2, <1>3, <2>1 DEF ConsTyped, ConsPcs, Typed
    <2>5. ConsShape' /\ EventStill
      BY <1>2, <1>3, <2>3 DEF ConsShape, EventStill
    <2> QED BY <1>3, <2>2, <2>3, <2>4, <2>5, ConsumerMoves
  <1> QED BY <1>4, <1>5

(* How an event advances its request: the new request, and its next work. *)
LEMMA Advance ==
  ASSUME Typed, DistinctIds, NEW e \in Event, EventSound(e), exists(e.request),
         RequestSound(e.request)
  PROVE  LET q == requests[e.request]
             c == q.call
             a == advanced(q, e, promptTokens(c), MaxTokens[c])
             f == followUp(q, e, promptTokens(c), MaxTokens[c])
         IN  /\ a \in Request /\ a.call = c /\ a.cache = q.cache /\ a.computed <= promptTokens(c)
             /\ a.generated > 0 => a.computed = promptTokens(c)
             /\ published(q, e, MaxTokens[c]) \in Event
             /\ published(q, e, MaxTokens[c]).request = e.request
             /\ f \in Seq(Work)
             /\ \/ a.phase # Running /\ f = << >>
                \/ /\ a.phase = Running /\ Len(f) = 1 /\ f = <<f[1]>> /\ f[1].request = e.request
                   /\ f[1].call = c /\ f[1].id = <<c, computedTokens(f[1])>>
                   /\ f[1].phase = Prefill => /\ f[1].total = promptTokens(c) /\ f[1].generated = 0
                                              /\ f[1].new >= 1 /\ f[1].offset + f[1].new <= f[1].total
                                              /\ f[1].offset = a.computed
                   /\ f[1].phase = Decode =>
                        /\ f[1].total = promptTokens(c) + f[1].generated
                        /\ f[1].generated >= 1 /\ f[1].new = 1 /\ f[1].offset = 0
                   /\ f[1].generated = a.generated /\ f[1].cache = a.cache
  <1> DEFINE q == requests[e.request]
             c == q.call
             P == promptTokens(c)
             M == MaxTokens[c]
             a == advanced(q, e, P, M)
             f == followUp(q, e, P, M)
  <1>1. /\ q \in Request /\ c \in Calls /\ e.request \in Ids
        /\ q.computed \in Nat /\ q.generated \in Nat /\ q.cache \in Seq(BlockIds) /\ q.phase = Running
        /\ q = [call |-> c, phase |-> q.phase, generated |-> q.generated, computed |-> q.computed,
                cache |-> q.cache]
    <2>1. q \in Request /\ c \in Calls /\ e.request \in Ids
      BY Fields DEF exists
    <2>2. q.phase = Running
      BY DEF EventSound
    <2> QED BY <2>1, <2>2 DEF Request
  <1>2. c = e.work[1] /\ RequestId[c] = e.request
    <2>1. RequestId[c] = e.request /\ RequestId[e.work[1]] = e.request /\ e.work[1] \in Calls
      BY DEF RequestSound, EventSound, Event
    <2> QED BY <1>1, <2>1 DEF DistinctIds
  <1>3. P \in Nat /\ P > 0 /\ M \in Nat
    BY <1>1, Prompts
  <1>4. e.input \in Nat /\ e.output \in Nat /\ e.type \in EventTypes /\ e.done \in BOOLEAN
    BY DEF Event
  <1>5. q.computed <= P /\ (q.generated > 0 => q.computed = P)
    BY DEF RequestSound
  <1>6. published(q, e, M) \in Event /\ published(q, e, M).request = e.request
    <2>1. (e.done \/ (e.type = "decodeChunk" /\ reachedMax(q, e, M))) \in BOOLEAN
      BY <1>4
    <2> HIDE DEF q, c, M
    <2> QED BY <2>1 DEF published, Event
  <1>7. /\ e.type = "prefillChunk" => e.output = 0 /\ q.generated = 0 /\ q.computed + e.input < P
        /\ e.type = "prefillFinished" => e.output = 1 /\ q.generated = 0 /\ q.computed + e.input = P
        /\ e.type = "decodeChunk" => e.output = 1 /\ q.generated >= 1
    BY <1>2 DEF EventSound
  <1> HIDE DEF q, c, P, M
  <1>8. CASE e.type = "prefillChunk"
    <2>1. a = [q EXCEPT !.computed = @ + e.input]
      BY <1>8 DEF advanced
    <2>2. /\ a.computed = q.computed + e.input /\ a.call = c /\ a.cache = q.cache
          /\ a.generated = 0 /\ a.phase = Running /\ a \in Request
      <3> HIDE DEF a
      <3>1. /\ a.computed = q.computed + e.input /\ a.call = q.call /\ a.cache = q.cache
            /\ a.generated = q.generated /\ a.phase = q.phase
        BY <1>1, <2>1
      <3>2. a \in Request
        BY <1>1, <1>4, <2>1 DEF Request
      <3> QED BY <1>1, <1>7, <1>8, <3>1, <3>2 DEF c
    <2>3. f = <<prefillItem(c, RequestId[c], a.cache, a.computed, P)>>
      <3>1. f = <<prefillItem(a.call, e.request, a.cache, a.computed, P)>>
        BY <1>8 DEF followUp
      <3> QED BY <3>1, <2>2, <1>2
    <2>4. PICK w : w = prefillItem(c, RequestId[c], a.cache, a.computed, P)
      OBVIOUS
    <2>5. w \in Work
      <3>1. a.cache \in Seq(BlockIds) /\ a.computed \in Nat /\ a.computed <= P
        BY <1>1, <1>4, <1>7, <1>8, <2>2, <1>3
      <3> HIDE DEF a
      <3> QED BY <1>1, <2>4, <3>1, PrefillTyped DEF P
    <2>6. /\ w.request = e.request /\ w.call = c /\ w.id = <<c, a.computed>> /\ w.phase = Prefill
          /\ w.total = P /\ w.generated = 0 /\ w.offset = a.computed /\ w.new = P - a.computed
          /\ w.cache = a.cache
      BY <1>2, <2>4 DEF prefillItem
    <2>7. computedTokens(w) = a.computed
      <3>1. a.computed \in Nat
        BY <1>1, <1>4, <2>2
      <3> QED BY <3>1, <2>6, <1>3 DEF computedTokens, requiredKVTokens
    <2>8. /\ w.new >= 1 /\ w.offset + w.new <= w.total
      BY <1>1, <1>3, <1>4, <1>7, <1>8, <2>2, <2>6
    <2>9. f = <<w>> /\ Len(f) = 1 /\ f[1] = w /\ f \in Seq(Work)
      <3> HIDE DEF f
      <3> QED BY <2>3, <2>4, <2>5
    <2>10. Prefill # Decode
      BY DEF Prefill, Decode
    <2> HIDE DEF a, f
    <2> QED BY <1>1, <1>3, <1>4, <1>6, <1>7, <1>8, <2>2, <2>6, <2>7, <2>8, <2>9, <2>10 DEF q, c, P, M, a, f
  <1>9. ASSUME e.type \in {"prefillFinished", "decodeChunk"}
        PROVE  /\ a.computed = P /\ a.call = c /\ a.cache = q.cache /\ a.generated \in Nat
               /\ a.generated = q.generated + 1 /\ a \in Request
               /\ e.type = "prefillFinished" => a.phase = Running
    <2>1. CASE e.type = "prefillFinished"
      <3>1. Min({q.computed + e.input, P}) = P
        <4>1. q.computed + e.input = P
          BY <1>7, <2>1
        <4>2. \E x \in {P} : \A y \in {P} : x <= y
          BY <1>3
        <4> QED BY <4>1, <4>2 DEF Min
      <3>2. a = [q EXCEPT !.computed = P, !.generated = @ + e.output]
        BY <2>1, <3>1 DEF advanced
      <3> HIDE DEF a
      <3>3. /\ a.computed = P /\ a.call = q.call /\ a.cache = q.cache
            /\ a.generated = q.generated + e.output /\ a.phase = q.phase
        BY <1>1, <3>2
      <3>4. a \in Request
        <4>1. PICK g \in Nat : g = q.generated + e.output
          BY <1>1, <1>4
        <4>2. a = [q EXCEPT !.computed = P, !.generated = g]
          BY <3>2, <4>1
        <4> QED BY <1>1, <1>3, <4>1, <4>2 DEF Request
      <3> QED BY <1>1, <1>7, <2>1, <3>3, <3>4 DEF c
    <2>2. CASE e.type = "decodeChunk"
      <3>1. PICK ph \in {Running, Finished} :
              a = [q EXCEPT !.generated = @ + e.output, !.phase = ph]
        <4>1. a = [q EXCEPT !.generated = @ + e.output,
                            !.phase = IF e.done \/ reachedMax(q, e, M) THEN Finished ELSE Running]
          BY <2>2 DEF advanced
        <4> HIDE DEF a
        <4> QED BY <4>1
      <3> HIDE DEF a
      <3>2. /\ a.computed = q.computed /\ a.call = q.call /\ a.cache = q.cache
            /\ a.generated = q.generated + e.output
        BY <1>1, <3>1
      <3>3. a \in Request
        <4>1. PICK g \in Nat : g = q.generated + e.output
          BY <1>1, <1>4
        <4>2. a = [q EXCEPT !.generated = g, !.phase = ph]
          BY <3>1, <4>1
        <4> QED BY <1>1, <3>1, <4>1, <4>2 DEF Request
      <3> QED BY <1>1, <1>5, <1>7, <2>2, <3>2, <3>3 DEF c
    <2> QED BY <1>9, <2>1, <2>2
  <1>10. CASE e.type \in {"prefillFinished", "decodeChunk"} /\ a.phase = Running
    <2>1. f = <<decodeItem(c, RequestId[c], a.cache, P + a.generated, a.generated)>>
      <3>1. f = <<decodeItem(a.call, e.request, a.cache, P + a.generated, a.generated)>>
        BY <1>10 DEF followUp
      <3> QED BY <1>2, <1>9, <1>10, <3>1
    <2>2. /\ a.computed = P /\ a.call = c /\ a.cache = q.cache /\ a.generated \in Nat
          /\ a.generated = q.generated + 1 /\ a \in Request
      BY <1>9, <1>10
    <2>3. PICK w : w = decodeItem(c, RequestId[c], a.cache, P + a.generated, a.generated)
      OBVIOUS
    <2> HIDE DEF a
    <2>4. w \in Work
      <3>1. a.cache \in Seq(BlockIds) /\ P + a.generated \in Nat
        BY <1>1, <1>3, <2>2
      <3> QED BY <1>1, <2>2, <2>3, <3>1, DecodeTyped
    <2>5. /\ w.request = e.request /\ w.call = c /\ w.id = <<c, P + a.generated - 1>> /\ w.phase = Decode
          /\ w.total = P + a.generated /\ w.generated = a.generated /\ w.offset = 0 /\ w.new = 1
          /\ w.cache = a.cache
      <3>1. PICK t \in Nat : t = P + a.generated
        BY <1>3, <2>2
      <3>2. w = decodeItem(c, RequestId[c], a.cache, t, a.generated)
        BY <2>3, <3>1
      <3>3. w.id = <<c, t - 1>>
        BY <3>2 DEF decodeItem
      <3>4. /\ w.request = RequestId[c] /\ w.call = c /\ w.phase = Decode /\ w.total = t
            /\ w.generated = a.generated /\ w.offset = 0 /\ w.new = 1 /\ w.cache = a.cache
        BY <3>2 DEF decodeItem
      <3>5. t - 1 = P + a.generated - 1
        BY <1>3, <2>2, <3>1
      <3> QED BY <1>2, <3>1, <3>3, <3>4, <3>5
    <2>6. Prefill # Decode
      BY DEF Prefill, Decode
    <2>7. computedTokens(w) = P + a.generated - 1
      BY <1>3, <2>2, <2>5, <2>6 DEF computedTokens, requiredKVTokens
    <2>8. f = <<w>> /\ Len(f) = 1 /\ f[1] = w /\ f \in Seq(Work)
      <3> HIDE DEF f
      <3> QED BY <2>1, <2>3, <2>4
    <2>9. a.generated >= 1
      BY <1>1, <2>2
    <2> HIDE DEF f
    <2> QED BY <1>1, <1>3, <1>6, <1>10, <2>2, <2>5, <2>6, <2>7, <2>8, <2>9 DEF q, c, P, M, a, f
  <1>11. CASE e.type = "decodeChunk" /\ a.phase # Running
    <2>1. f = << >>
      BY <1>11 DEF followUp
    <2>2. /\ a.computed = P /\ a.call = c /\ a.cache = q.cache /\ a \in Request
      BY <1>9, <1>11
    <2>3. f \in Seq(Work)
      BY <2>1
    <2> HIDE DEF a, f
    <2> QED BY <1>1, <1>3, <1>6, <1>11, <2>1, <2>2, <2>3 DEF q, c, P, M, a, f
  <1>12. CASE e.type = "requestFailed"
    <2>1. f = << >> /\ a = [q EXCEPT !.phase = Failed]
      BY <1>12 DEF followUp, advanced
    <2> HIDE DEF a, f
    <2>2. /\ a.computed = q.computed /\ a.call = c /\ a.cache = q.cache /\ a.generated = q.generated
          /\ a.phase = Failed /\ Failed # Running
      BY <1>1, <2>1 DEF c, Failed, Running
    <2>3. a \in Request /\ f \in Seq(Work)
      BY <1>1, <2>1 DEF Request
    <2> QED BY <1>1, <1>3, <1>5, <1>6, <2>1, <2>2, <2>3 DEF q, c, P, M, a, f
  <1> QED BY <1>4, <1>8, <1>9, <1>10, <1>11, <1>12 DEF EventTypes

(* While an event is handled, no work or other event on its way is of its   *)
(* request.                                                                 *)
LEMMA OnlyTicket ==
  ASSUME Serving, cons.pc \in {"finalize", "onEvent"}
  PROVE  /\ \A w : WorkIn(w) => w.request # eventRequest
         /\ \A s \in {exec.events, eventChan} : \A e : HoldsWork(s, e) => e.request # eventRequest
  <1>1. Typed /\ Shapes /\ Once(Lines)
    BY DEF Serving, OneTicket
  <1>2. Len(cons.event) = 1 /\ cons.event \in Seq(Event)
    BY <1>1, Fields DEF Shapes, ConsShape
  <1>3. /\ <<"event", 0>> \in Places /\ 1 \in DOMAIN Lines[<<"event", 0>>]
        /\ Lines[<<"event", 0>>][1] = eventRequest
    <2>1. Lines[<<"event", 0>>] = idsOf(cons.event)
      BY LineAt DEF LinesAre
    <2>2. 1 \in DOMAIN idsOf(cons.event) /\ idsOf(cons.event)[1] = cons.event[1].request
      BY <1>2 DEF idsOf
    <2> QED BY <2>1, <2>2, PlaceNames DEF eventRequest
  <1>4. ASSUME NEW p \in Places, p # <<"event", 0>>, NEW i \in DOMAIN Lines[p]
        PROVE  Lines[p][i] # eventRequest
    BY <1>1, <1>3, <1>4 DEF Once
  <1>5. ASSUME NEW p \in Places, p # <<"event", 0>>, NEW s, Lines[p] = idsOf(s), NEW v, HoldsWork(s, v)
        PROVE  v.request # eventRequest
    BY <1>4, <1>5 DEF HoldsWork, idsOf
  <1>6. ASSUME NEW p \in Places, p # <<"event", 0>>, NEW s, Lines[p] = itemIdsOf(s), NEW v, HoldsItem(s, v)
        PROVE  v.request # eventRequest
    BY <1>4, <1>6 DEF HoldsItem, itemIdsOf
  <1>7. ASSUME NEW w, WorkIn(w) PROVE w.request # eventRequest
    <2>1. CASE \E c \in Calls : HoldsWork(handler[c].item, w)
      <3>1. PICK c \in Calls : HoldsWork(handler[c].item, w)
        BY <2>1
      <3>2. Lines[<<"item", c>>] = idsOf(handler[c].item) /\ <<"item", c>> \in Places
        BY LineAt, PlaceNames DEF LinesAre
      <3> QED BY <1>5, <3>1, <3>2
    <2>2. CASE \E k \in {"decode", "small", "large"} : HoldsWork(queue[k], w)
      <3>1. PICK k \in {"decode", "small", "large"} : HoldsWork(queue[k], w)
        BY <2>2
      <3>2. Lines[<<"queue", k>>] = idsOf(queue[k]) /\ <<"queue", k>> \in Places
        BY LineAt, PlaceNames DEF LinesAre
      <3> QED BY <1>5, <3>1, <3>2
    <2>3. CASE \E n \in DOMAIN batchChan : HoldsItem(batchChan[n], w)
      <3>1. PICK n \in DOMAIN batchChan : HoldsItem(batchChan[n], w)
        BY <2>3
      <3>2. n \in Nat
        BY <1>1, Fields
      <3>3. Lines[<<"submitted", n>>] = itemIdsOf(batchChan[n]) /\ <<"submitted", n>> \in Places
        BY <3>1, <3>2, LineAt, PlaceNames DEF LinesAre
      <3> QED BY <1>6, <3>1, <3>3
    <2>4. CASE HoldsWork(sched.held, w) \/ HoldsWork(cons.next, w)
      <3>1. /\ Lines[<<"held", 0>>] = idsOf(sched.held) /\ <<"held", 0>> \in Places
            /\ Lines[<<"next", 0>>] = idsOf(cons.next) /\ <<"next", 0>> \in Places
        BY LineAt, PlaceNames DEF LinesAre
      <3> QED BY <1>5, <2>4, <3>1
    <2>5. CASE HoldsItem(sched.batch, w) \/ HoldsItem(exec.running, w)
      <3>1. /\ Lines[<<"batch", 0>>] = itemIdsOf(sched.batch) /\ <<"batch", 0>> \in Places
            /\ Lines[<<"running", 0>>] = itemIdsOf(exec.running) /\ <<"running", 0>> \in Places
        BY LineAt, PlaceNames DEF LinesAre
      <3> QED BY <1>6, <2>5, <3>1
    <2> QED BY <1>7, <2>1, <2>2, <2>3, <2>4, <2>5 DEF WorkIn
  <1>8. ASSUME NEW s \in {exec.events, eventChan}, NEW e, HoldsWork(s, e)
        PROVE  e.request # eventRequest
    <2>1. /\ Lines[<<"events", 0>>] = idsOf(exec.events) /\ <<"events", 0>> \in Places
          /\ Lines[<<"delivered", 0>>] = idsOf(eventChan) /\ <<"delivered", 0>> \in Places
      BY LineAt, PlaceNames DEF LinesAre
    <2> QED BY <1>5, <1>8, <2>1
  <1> QED BY <1>7, <1>8

(* OnEvent: the request advances, and its ticket is its next work. *)
LEMMA OnEventStep == ASSUME Serving, DistinctIds, OnEvent PROVE Serving' /\ NoNewTicket
  <1> DEFINE e == cons.event[1]
             r == e.request
             q == requests[r]
             c == q.call
             a == advanced(q, e, promptTokens(c), MaxTokens[c])
             b == published(q, e, MaxTokens[c])
             f == followUp(q, e, promptTokens(c), MaxTokens[c])
  <1>1. Typed /\ Shapes /\ TicketsSound /\ RequestsSound /\ Once(Lines) /\ Attended
    BY DEF Serving, Sound, OneTicket
  <1>2. /\ cons.pc = "onEvent"
        /\ UNCHANGED <<mgr, kv, channel, handler, expired, queue, sched, batchChan, exec, eventChan,
                       panicked>>
    BY DEF OnEvent, processUp
  <1>3. /\ Len(cons.event) = 1 /\ cons.event \in Seq(Event) /\ cons.next = << >> /\ e \in Event
        /\ e.request = r /\ cons.event = <<e>>
        /\ cons \in [pc : ConsPcs, event : Seq(Event), next : Seq(Work), to : Calls \cup {NoCall}]
    <2>1. Len(cons.event) = 1 /\ cons.event \in Seq(Event) /\ cons.next = << >>
      BY <1>1, <1>2, Fields DEF Shapes, ConsShape
    <2>2. e \in Event /\ cons.event = <<e>>
      BY <2>1
    <2>3. cons \in [pc : ConsPcs, event : Seq(Event), next : Seq(Work), to : Calls \cup {NoCall}]
      BY <1>1 DEF Typed, ConsTyped
    <2> QED BY <2>1, <2>2, <2>3
  <1>4. Lines[<<"event", 0>>] = <<r>> /\ Lines[<<"next", 0>>] = << >>
    <2>1. idsOf(<<e>>) = <<e.request>> /\ idsOf(<< >>) = << >>
      BY <1>3, IdsOf
    <2> QED BY <1>2, <1>3, <2>1, LineAt DEF LinesAre
  <1>5. CASE ~exists(r)
    <2>1. cons' = [cons EXCEPT !.pc = "free"] /\ UNCHANGED requests
      BY <1>5 DEF OnEvent, eventRequest
    <2>2. cons'.pc = "free" /\ cons'.event = cons.event /\ cons'.next = << >> /\ cons'.to = cons.to
      BY <1>3, <2>1
    <2>3. Typed'
      <3>1. ConsTyped'
        BY <1>3, <2>1 DEF ConsTyped, ConsPcs
      <3> QED BY <1>1, <1>2, <2>1, <3>1 DEF Typed, RequestsTyped, ChannelsTyped, HandlersTyped,
                                            QueuesTyped, SchedTyped, ExecTyped
    <2>4. Shapes'
      <3>1. ConsShape'
        BY <1>3, <2>2 DEF ConsShape
      <3> QED BY <1>1, <1>2, <3>1 DEF Shapes, HandlerShape, SchedShape, QueueShape, ExecShape
    <2>5. StepParts
      <3>1. \A w : WorkIn(w)' => WorkIn(w)
        BY <1>2, <1>3, <2>2 DEF WorkIn
      <3>2. \A v : EventIn(v)' => EventIn(v)
        BY <1>2, <2>2 DEF EventIn
      <3>3. Kept
        BY <1>2, <2>1 DEF Kept
      <3> QED BY <2>3, <2>4, <3>1, <3>2, <3>3 DEF StepParts
    <2>6. Dropped(Lines, Lines', <<"event", 0>>)
      <3>1. Lines'[<<"event", 0>>] = << >>
        BY <2>2, LineAtNext DEF LinesAre
      <3>2. Lines[<<"event", 0>>] # << >> /\ Lines'[<<"event", 0>>] = Tail(Lines[<<"event", 0>>])
        BY <1>4, <3>1
      <3>3. ASSUME NEW p \in Places, p # <<"event", 0>> PROVE Lines'[p] = Lines[p]
        BY <1>2, <1>3, <2>2, <3>3, SamePlace
      <3> QED BY <3>2, <3>3, PlaceNames DEF Dropped
    <2>7. Head(Lines[<<"event", 0>>]) \notin DOMAIN requests'
      BY <1>4, <1>5, <2>1 DEF exists
    <2> QED BY <2>5, <2>6, <2>7, DropStep DEF Onward
  <1>6. CASE exists(r)
    <2>1. /\ requests' = [requests EXCEPT ![r] = a]
          /\ cons' = [cons EXCEPT !.pc = "publish", !.event = <<b>>, !.next = f]
      BY <1>6 DEF OnEvent, eventRequest
    <2>2. EventSound(e) /\ RequestSound(r) /\ r \in DOMAIN requests
      <3>1. EventIn(e)
        BY <1>2, <1>3, HoldsShort DEF EventIn
      <3> QED BY <1>1, <1>6, <3>1 DEF TicketsSound, RequestsSound, exists
    <2>3. /\ a \in Request /\ a.call = c /\ a.cache = q.cache /\ a.computed <= promptTokens(c)
          /\ a.generated > 0 => a.computed = promptTokens(c)
          /\ b \in Event /\ b.request = r /\ f \in Seq(Work)
          /\ \/ a.phase # Running /\ f = << >>
             \/ /\ a.phase = Running /\ Len(f) = 1 /\ f = <<f[1]>> /\ f[1].request = r
                /\ f[1].call = c /\ f[1].id = <<c, computedTokens(f[1])>>
                /\ f[1].phase = Prefill => /\ f[1].total = promptTokens(c) /\ f[1].generated = 0
                                           /\ f[1].new >= 1 /\ f[1].offset + f[1].new <= f[1].total
                                           /\ f[1].offset = a.computed
                /\ f[1].phase = Decode =>
                     /\ f[1].total = promptTokens(c) + f[1].generated
                     /\ f[1].generated >= 1 /\ f[1].new = 1 /\ f[1].offset = 0
                /\ f[1].generated = a.generated /\ f[1].cache = a.cache
      <3>1. exists(e.request) /\ RequestSound(e.request) /\ e \in Event /\ EventSound(e) /\ Typed
        BY <1>1, <1>3, <1>6, <2>2
      <3> HIDE DEF e
      <3> QED BY <3>1, Advance
    <2> HIDE DEF a, b, f
    <2>4. /\ cons'.pc = "publish" /\ cons'.event = <<b>> /\ cons'.next = f /\ cons'.to = cons.to
      BY <1>3, <2>1
    <2>5. /\ DOMAIN requests' = DOMAIN requests /\ requests'[r] = a
          /\ \A s \in DOMAIN requests : s # r => requests'[s] = requests[s]
          /\ requests' \in [DOMAIN requests -> Request] /\ DOMAIN requests \subseteq Ids
      BY <1>1, <2>1, <2>2, <2>3 DEF Typed, RequestsTyped
    <2>6. c \in Calls /\ RequestId[c] = r /\ handler[c].pc # "new"
      BY <1>1, <2>2, Fields DEF RequestSound
    <2>7. Typed'
      <3>1. ConsTyped'
        <4>1. PICK h \in Seq(Event) : h = <<b>>
          <5>1. <<b>> \in Seq(Event)
            BY <2>3
          <5> QED BY <5>1, Zenon
        <4>2. cons' = [cons EXCEPT !.pc = "publish", !.event = h, !.next = f]
          BY <2>1, <4>1
        <4> QED BY <1>3, <2>3, <4>2 DEF ConsTyped, ConsPcs
      <3>2. RequestsTyped'
        BY <2>5 DEF RequestsTyped
      <3> QED BY <1>1, <1>2, <3>1, <3>2 DEF Typed, ChannelsTyped, HandlersTyped, QueuesTyped,
                                            SchedTyped, ExecTyped
    <2>8. Shapes'
      <3>1. Len(<<b>>) = 1 /\ <<b>>[1] = b
        OBVIOUS
      <3>2. ConsShape'
        BY <2>3, <2>4, <3>1 DEF ConsShape
      <3> QED BY <1>1, <1>2, <3>2 DEF Shapes, HandlerShape, SchedShape, QueueShape, ExecShape
    <2>9. RequestsSound'
      <3>1. ASSUME NEW s \in DOMAIN requests' PROVE RequestSound(s)'
        <4>1. CASE s = r
          BY <1>2, <2>3, <2>5, <2>6, <4>1 DEF RequestSound
        <4>2. CASE s # r
          <5>1. requests'[s] = requests[s] /\ RequestSound(s)
            BY <1>1, <2>5, <4>2 DEF RequestsSound
          <5> QED BY <1>2, <5>1 DEF RequestSound
        <4> QED BY <4>1, <4>2
      <3> QED BY <3>1 DEF RequestsSound
    <2>10. \A w : WorkIn(w) => w.request # r
      BY <1>2, OnlyTicket DEF eventRequest
    <2>11. TicketsSound'
      <3>1. ASSUME NEW w, WorkIn(w)' PROVE WorkSound(w)'
        <4>1. WorkIn(w) \/ HoldsWork(f, w)
          BY <1>2, <2>4, <3>1 DEF WorkIn
        <4>2. CASE WorkIn(w)
          <5>1. w.request # r /\ WorkSound(w)
            BY <1>1, <2>10, <4>2 DEF TicketsSound
          <5> QED BY <1>2, <2>5, <5>1 DEF WorkSound, exists
        <4>3. CASE HoldsWork(f, w)
          <5>1. f # << >>
            BY <4>3, HoldsShort
          <5>2. w = f[1] /\ a.phase = Running
            BY <2>3, <4>3, <5>1, HoldsShort
          <5>3. /\ RequestId[w.call] = w.request /\ handler'[w.call].pc # "new"
                /\ w.id = <<w.call, computedTokens(w)>> /\ w.request = r /\ w.call = c
            BY <1>2, <2>3, <2>6, <5>1, <5>2
          <5>4. requests'[w.request].phase = Running /\ requests'[w.request].generated = w.generated
                /\ requests'[w.request].cache = w.cache
                /\ (w.phase = Prefill => requests'[w.request].computed = w.offset)
            BY <2>3, <2>5, <5>1, <5>2, <5>3
          <5>5. /\ w.phase = Prefill => /\ w.total = promptTokens(w.call) /\ w.generated = 0
                                        /\ w.new >= 1 /\ w.offset + w.new <= w.total
                /\ w.phase = Decode  => /\ w.total = promptTokens(w.call) + w.generated
                                        /\ w.generated >= 1 /\ w.new = 1 /\ w.offset = 0
            BY <2>3, <5>1, <5>2, <5>3
          <5> QED BY <5>3, <5>4, <5>5 DEF WorkSound
        <4> QED BY <4>1, <4>2, <4>3
      <3>2. ASSUME NEW v, EventIn(v)' PROVE EventSound(v)'
        <4>1. HoldsWork(exec.events, v) \/ HoldsWork(eventChan, v)
          BY <1>2, <2>4, <3>2 DEF EventIn
        <4>2. v.request # r /\ EventSound(v)
          BY <1>1, <1>2, <4>1, OnlyTicket DEF EventIn, TicketsSound, eventRequest
        <4> QED BY <1>2, <2>5, <4>2 DEF EventSound, exists
      <3> QED BY <3>1, <3>2 DEF TicketsSound
    <2>12. Tables(Lines, Lines')
      BY <1>1, <2>7, LinesTyped, LinesTypedNext DEF Tables
    <2>13. Lines'[<<"event", 0>>] = << >>
      BY <2>4, LineAtNext DEF LinesAre
    <2>14. ASSUME NEW p \in Places, p # <<"event", 0>>, p # <<"next", 0>> PROVE Lines'[p] = Lines[p]
      BY <1>2, <2>14, SamePlace
    <2>15. OneTicket' /\ Attended' /\ NoNewTicket
      <3>1. CASE f = << >>
        <4>1. Lines'[<<"next", 0>>] = << >>
          <5>1. idsOf(<< >>) = << >>
            BY DEF idsOf
          <5> QED BY <2>4, <3>1, <5>1, LineAtNext DEF LinesAre
        <4>2. Dropped(Lines, Lines', <<"event", 0>>)
          <5>1. Tail(<<r>>) = << >> /\ <<r>> # << >>
            OBVIOUS
          <5> QED BY <1>4, <2>13, <2>14, <4>1, <5>1, PlaceNames DEF Dropped
        <4>3. Once(Lines') /\ \A s : Occurs(Lines, s) /\ s # r <=> Occurs(Lines', s)
          <5>1. Head(Lines[<<"event", 0>>]) = r
            BY <1>4
          <5> HIDE DEF r
          <5> QED BY <1>1, <2>12, <4>2, <5>1, DropHead
        <4>4. Attended'
          <5>1. ASSUME NEW s \in DOMAIN requests', requests'[s].phase = Running PROVE Occurs(Lines', s)
            <6>1. s # r
              BY <2>3, <2>5, <3>1, <5>1
            <6>2. requests[s].phase = Running /\ s \in DOMAIN requests
              BY <2>5, <5>1, <6>1
            <6> QED BY <1>1, <4>3, <6>1, <6>2 DEF Attended
          <5> QED BY <5>1 DEF Attended
        <4> QED BY <4>3, <4>4 DEF OneTicket, NoNewTicket
      <3>2. CASE f # << >>
        <4>1. Lines'[<<"next", 0>>] = <<r>>
          <5>1. idsOf(<<f[1]>>) = <<f[1].request>>
            BY <2>3, IdsOf
          <5> QED BY <2>3, <2>4, <3>2, <5>1, LineAtNext DEF LinesAre
        <4>2. MovedAll(Lines, Lines', <<"event", 0>>, <<"next", 0>>)
          BY <1>4, <2>13, <2>14, <4>1, PlaceNames DEF MovedAll
        <4>3. Once(Lines') /\ \A s : Occurs(Lines, s) <=> Occurs(Lines', s)
          BY <1>1, <2>12, <4>2, MoveAll
        <4>4. Attended'
          <5>1. ASSUME NEW s \in DOMAIN requests', requests'[s].phase = Running PROVE Occurs(Lines', s)
            <6>1. requests[s].phase = Running /\ s \in DOMAIN requests
              BY <1>6, <2>2, <2>5, <5>1 DEF EventSound, exists
            <6> QED BY <1>1, <4>3, <6>1 DEF Attended
          <5> QED BY <5>1 DEF Attended
        <4> QED BY <4>3, <4>4 DEF OneTicket, NoNewTicket
      <3> QED BY <3>1, <3>2
    <2> QED BY <2>7, <2>8, <2>9, <2>11, <2>15 DEF Serving, Sound
  <1> QED BY <1>5, <1>6

(* A work joins the queue of its kind. *)
LEMMA Appended ==
  ASSUME Typed, QueueShape, NEW w \in Work, queue' = appended(queue, w)
  PROVE  /\ queueOf(w) \in {"decode", "small", "large"}
         /\ queue'[queueOf(w)] = Append(queue[queueOf(w)], w)
         /\ \A k \in {"decode", "small", "large"} : k # queueOf(w) => queue'[k] = queue[k]
         /\ QueuesTyped'
         /\ \A k \in DOMAIN queue' : \A i \in DOMAIN queue'[k] : queueOf(queue'[k][i]) = k
         /\ \A v : (\E k \in {"decode", "small", "large"} : HoldsWork(queue'[k], v)) =>
                     v = w \/ \E k \in {"decode", "small", "large"} : HoldsWork(queue[k], v)
         /\ Lines'[<<"queue", queueOf(w)>>] = Append(Lines[<<"queue", queueOf(w)>>], w.request)
         /\ <<"queue", queueOf(w)>> \in Places
  <1>1. /\ queue \in [decode : Seq(Work), small : Seq(Work), large : Seq(Work)]
        /\ DOMAIN queue = {"decode", "small", "large"}
        /\ \A k \in {"decode", "small", "large"} : queue[k] \in Seq(Work)
    BY Fields DEF Typed, QueuesTyped
  <1>2. PICK k \in {"decode", "small", "large"} : k = queueOf(w)
    BY QueueNames
  <1>3. PICK s \in Seq(Work) : s = Append(queue[k], w)
    <2>1. Append(queue[k], w) \in Seq(Work)
      BY <1>1, SeqTyped
    <2> QED BY <2>1, Zenon
  <1>4. queue' = [queue EXCEPT ![k] = s]
    BY <1>1, <1>2, <1>3 DEF appended
  <1>5. /\ queue'[k] = s /\ \A j \in {"decode", "small", "large"} : j # k => queue'[j] = queue[j]
        /\ DOMAIN queue' = {"decode", "small", "large"} /\ QueuesTyped'
    <2>1. CASE k = "decode"
      BY <1>1, <1>3, <1>4, <2>1 DEF QueuesTyped
    <2>2. CASE k = "small"
      BY <1>1, <1>3, <1>4, <2>2 DEF QueuesTyped
    <2>3. CASE k = "large"
      BY <1>1, <1>3, <1>4, <2>3 DEF QueuesTyped
    <2> QED BY <2>1, <2>2, <2>3
  <1>6. ASSUME NEW j \in DOMAIN queue', NEW i \in DOMAIN queue'[j] PROVE queueOf(queue'[j][i]) = j
    <2>1. CASE j = k
      <3>1. PICK t \in Seq(Work) : t = queue[k]
        BY <1>1
      <3>2. i \in DOMAIN Append(t, w)
        BY <1>3, <1>5, <2>1, <3>1
      <3>3. (i \in DOMAIN t /\ Append(t, w)[i] = t[i]) \/ Append(t, w)[i] = w
        BY <3>1, <3>2
      <3> QED BY <1>1, <1>2, <1>3, <1>5, <2>1, <3>1, <3>3 DEF QueueShape
    <2>2. CASE j # k
      <3>1. queue'[j] = queue[j] /\ j \in DOMAIN queue
        BY <1>1, <1>5, <2>2
      <3> QED BY <1>6, <3>1 DEF QueueShape
    <2> QED BY <2>1, <2>2
  <1>7. ASSUME NEW v, NEW j \in {"decode", "small", "large"}, HoldsWork(queue'[j], v)
        PROVE  v = w \/ \E i \in {"decode", "small", "large"} : HoldsWork(queue[i], v)
    <2>1. CASE j = k
      <3>1. queue[k] \in Seq(Work) /\ HoldsWork(Append(queue[k], w), v)
        BY <1>1, <1>3, <1>5, <1>7, <2>1
      <3>2. HoldsWork(queue[k], v) \/ v = w
        BY <3>1, HoldsAppend
      <3> QED BY <3>2
    <2>2. CASE j # k
      BY <1>5, <1>7, <2>2
    <2> QED BY <2>1, <2>2
  <1>8. Lines'[<<"queue", k>>] = Append(Lines[<<"queue", k>>], w.request)
    <2>1. idsOf(Append(queue[k], w)) = Append(idsOf(queue[k]), w.request)
      BY <1>1, IdsOf
    <2>2. Lines'[<<"queue", k>>] = idsOf(queue'[k]) /\ Lines[<<"queue", k>>] = idsOf(queue[k])
      BY LineAt, LineAtNext DEF LinesAre
    <2> QED BY <1>3, <1>5, <2>1, <2>2
  <1> QED BY <1>2, <1>3, <1>5, <1>6, <1>7, <1>8, PlaceNames

(* EnqueueNext: the next work joins its queue, or the request fails. *)
LEMMA EnqueueNextStep == ASSUME Serving, EnqueueNext PROVE Serving' /\ Onward /\ DeletedAreDone
  <1>1. Typed /\ Shapes
    BY DEF Serving
  <1>2. /\ cons.pc = "enqueue"
        /\ UNCHANGED <<kv, channel, handler, expired, sched, batchChan, exec, eventChan, panicked>>
        /\ cons \in [pc : ConsPcs, event : Seq(Event), next : Seq(Work), to : Calls \cup {NoCall}]
        /\ ManagerGood(mgr) /\ ChannelsTyped /\ ConsShape /\ QueueShape /\ panicked \in BOOLEAN
    BY <1>1 DEF EnqueueNext, processUp, Typed, ConsTyped, Shapes
  <1>3. CASE cons.next = << >>
    <2>1. cons' = [cons EXCEPT !.pc = "free"] /\ UNCHANGED <<queue, requests, mgr>>
      BY <1>3 DEF EnqueueNext
    <2>2. cons'.pc = "free" /\ cons'.event = cons.event /\ cons'.next = cons.next /\ cons'.to = cons.to
      BY <1>2, <2>1
    <2>3. ConsTyped' /\ ConsShape' /\ EventStill /\ ChannelsTyped'
      BY <1>2, <1>3, <2>1, <2>2 DEF ConsTyped, ConsPcs, ConsShape, EventStill, ChannelsTyped
    <2> QED BY <1>2, <2>1, <2>2, <2>3, ConsumerMoves DEF DeletedAreDone
  <1>4. CASE cons.next # << >>
    <2> DEFINE w == cons.next[1]
    <2>1. /\ Len(cons.next) = 1 /\ w \in Work /\ w.request = eventRequest /\ cons.next = <<w>>
          /\ Len(cons.event) = 1
      <3>1. Len(cons.next) = 1 /\ w.request = eventRequest /\ cons.next \in Seq(Work) /\ Len(cons.event) = 1
        BY <1>2, <1>4 DEF ConsShape, eventRequest
      <3> QED BY <3>1
    <2>2. Lines[<<"next", 0>>] = <<w.request>> /\ HoldsWork(cons.next, w)
      <3> HIDE DEF w
      <3>1. idsOf(<<w>>) = <<w.request>>
        BY ShortIds
      <3> QED BY <2>1, <3>1, LineAt, HoldsShort DEF LinesAre
    <2>3. CASE ~full(w)
      <3>1. /\ queue' = appended(queue, w) /\ cons' = [cons EXCEPT !.pc = "trySchedule", !.next = << >>]
            /\ UNCHANGED <<requests, mgr>>
        BY <1>4, <2>3 DEF EnqueueNext
      <3>2. cons'.pc = "trySchedule" /\ cons'.event = cons.event /\ cons'.next = << >> /\ cons'.to = cons.to
        BY <1>2, <3>1
      <3> HIDE DEF w
      <3>3. /\ queue'[queueOf(w)] = Append(queue[queueOf(w)], w)
            /\ \A k \in {"decode", "small", "large"} : k # queueOf(w) => queue'[k] = queue[k]
            /\ QueuesTyped'
            /\ \A k \in DOMAIN queue' : \A i \in DOMAIN queue'[k] : queueOf(queue'[k][i]) = k
            /\ \A v : (\E k \in {"decode", "small", "large"} : HoldsWork(queue'[k], v)) =>
                        v = w \/ \E k \in {"decode", "small", "large"} : HoldsWork(queue[k], v)
            /\ Lines'[<<"queue", queueOf(w)>>] = Append(Lines[<<"queue", queueOf(w)>>], w.request)
            /\ <<"queue", queueOf(w)>> \in Places /\ queueOf(w) \in {"decode", "small", "large"}
        BY <1>1, <1>2, <2>1, <3>1, Appended
      <3>4. Typed'
        <4>1. ConsTyped'
          <5>1. PICK z \in Seq(Work) : z = << >>
            <6>1. << >> \in Seq(Work)
              OBVIOUS
            <6> QED BY <6>1, Zenon
          <5>2. cons' = [cons EXCEPT !.pc = "trySchedule", !.next = z]
            BY <3>1, <5>1
          <5> QED BY <1>2, <5>2 DEF ConsTyped, ConsPcs
        <4> QED BY <1>1, <1>2, <3>1, <3>3, <4>1
             DEF Typed, RequestsTyped, ChannelsTyped, HandlersTyped, SchedTyped, ExecTyped
      <3>5. Shapes'
        <4>1. ConsShape'
          BY <2>1, <3>2 DEF ConsShape
        <4>2. QueueShape'
          BY <1>2, <3>3 DEF QueueShape
        <4> QED BY <1>1, <1>2, <4>1, <4>2 DEF Shapes, HandlerShape, SchedShape, ExecShape
      <3>6. StepParts
        <4>1. \A v : WorkIn(v)' => WorkIn(v)
          BY <1>2, <2>2, <3>2, <3>3, HoldsShort DEF WorkIn
        <4>2. \A v : EventIn(v)' => EventIn(v)
          BY <1>2, <3>2 DEF EventIn
        <4>3. Kept
          BY <1>2, <3>1 DEF Kept
        <4> QED BY <3>4, <3>5, <4>1, <4>2, <4>3 DEF StepParts
      <3>7. Moved(Lines, Lines', <<"next", 0>>, <<"queue", queueOf(w)>>)
        <4>1. Lines'[<<"next", 0>>] = << >>
          <5>1. idsOf(<< >>) = << >>
            BY DEF idsOf
          <5> QED BY <3>2, <5>1, LineAtNext DEF LinesAre
        <4>2. Tail(<<w.request>>) = << >> /\ Head(<<w.request>>) = w.request /\ <<w.request>> # << >>
          OBVIOUS
        <4>3. ASSUME NEW p \in Places, p # <<"next", 0>>, p # <<"queue", queueOf(w)>>
              PROVE  Lines'[p] = Lines[p]
          BY <1>2, <3>2, <3>3, <4>3, SamePlace DEF EventStill
        <4>4. <<"next", 0>> # <<"queue", queueOf(w)>> /\ <<"next", 0>> \in Places
          BY PlaceNames
        <4> QED BY <2>2, <3>3, <4>1, <4>2, <4>3, <4>4 DEF Moved
      <3> QED BY <3>1, <3>6, <3>7, MoveStep DEF DeletedAreDone
    <2>4. CASE full(w)
      <3>1. /\ UNCHANGED queue
            /\ IF exists(eventRequest)
               THEN /\ deleteRequest(eventRequest)
                    /\ cons' = [idleCons EXCEPT !.pc = "fail", !.to = requests[eventRequest].call]
               ELSE cons' = idleCons /\ UNCHANGED <<requests, mgr>>
        BY <1>4, <2>4 DEF EnqueueNext
      <3>2. exists(eventRequest) => requests[eventRequest].call \in Calls
        BY <1>1, Fields DEF exists
      <3>3. /\ cons'.pc \in {"idle", "fail"} /\ cons'.next = << >> /\ ConsTyped'
            /\ cons'.pc = "fail" => cons'.to \in Calls
        <4>1. idleCons \in [pc : ConsPcs, event : Seq(Event), next : Seq(Work), to : Calls \cup {NoCall}]
          BY DEF idleCons, ConsPcs
        <4>2. ConsTyped'
          BY <3>1, <3>2, <4>1 DEF ConsTyped, ConsPcs
        <4>3. CASE exists(eventRequest)
          <5>1. PICK c \in Calls : cons' = [idleCons EXCEPT !.pc = "fail", !.to = c]
            BY <3>1, <3>2, <4>3
          <5> QED BY <4>2, <5>1 DEF idleCons
        <4>4. CASE ~exists(eventRequest)
          BY <3>1, <4>2, <4>4 DEF idleCons
        <4> QED BY <4>3, <4>4
      <3>4. /\ Kept /\ RequestsTyped' /\ ManagerGood(mgr)'
            /\ DOMAIN requests' = DOMAIN requests \ {eventRequest}
        <4>1. CASE exists(eventRequest)
          BY <1>1, <1>2, <3>1, <4>1, DeleteKept
        <4>2. CASE ~exists(eventRequest)
          BY <1>1, <1>2, <3>1, <4>2 DEF Kept, Typed, RequestsTyped, exists
        <4> QED BY <4>1, <4>2
      <3>5. Typed'
        BY <1>1, <1>2, <3>1, <3>3, <3>4
           DEF Typed, ChannelsTyped, HandlersTyped, QueuesTyped, SchedTyped, ExecTyped
      <3>6. Shapes'
        <4>1. ConsShape'
          BY <3>3 DEF ConsShape
        <4> QED BY <1>1, <1>2, <3>1, <4>1 DEF Shapes, HandlerShape, SchedShape, QueueShape, ExecShape
      <3>7. StepParts
        <4>1. \A v : WorkIn(v)' => WorkIn(v)
          BY <1>2, <3>1, <3>3, HoldsShort DEF WorkIn
        <4>2. \A v : EventIn(v)' => EventIn(v)
          BY <1>2, <3>3 DEF EventIn
        <4> QED BY <3>4, <3>5, <3>6, <4>1, <4>2 DEF StepParts
      <3>8. Dropped(Lines, Lines', <<"next", 0>>)
        <4>1. Lines'[<<"next", 0>>] = << >>
          <5>1. idsOf(<< >>) = << >>
            BY DEF idsOf
          <5> QED BY <3>3, <5>1, LineAtNext DEF LinesAre
        <4>2. Tail(<<w.request>>) = << >> /\ <<w.request>> # << >>
          OBVIOUS
        <4>3. ASSUME NEW p \in Places, p # <<"next", 0>> PROVE Lines'[p] = Lines[p]
          BY <1>2, <3>1, <3>3, <4>3, SamePlace DEF EventStill
        <4> QED BY <2>2, <4>1, <4>2, <4>3, PlaceNames DEF Dropped
      <3>9. DOMAIN requests' = DOMAIN requests \ {Head(Lines[<<"next", 0>>])}
        BY <2>1, <2>2, <3>4
      <3> QED BY <3>7, <3>8, <3>9, DropStep DEF DeletedAreDone
    <2> QED BY <2>3, <2>4
  <1> QED BY <1>3, <1>4

-----------------------------------------------------------------------------
(* The handlers of the calls. *)

(* The handlers' records. *)
HandlerRecord ==
  [ pc : HandlerPcs, from : Calls, item : Seq(Work), event : Seq(Event),
    out : Seq(Output), outClosed : BOOLEAN, received : Seq(Output),
    client : {"waiting", "done", "error", "left"} ]

(* A step of one handler. *)
LEMMA HandlerOps ==
  ASSUME HandlersTyped, NEW c \in Calls, NEW h \in HandlerRecord, handler' = [handler EXCEPT ![c] = h]
  PROVE  HandlersTyped' /\ handler'[c] = h /\ \A d \in Calls : d # c => handler'[d] = handler[d]
  BY DEF HandlersTyped, HandlerRecord

(* A step that moves handlers on and leaves their works alone. *)
LEMMA HandlerMoves ==
  ASSUME Serving, Kept, RequestsTyped', ManagerGood(mgr)', ChannelsTyped', HandlersTyped',
         HandlerShape', expired' \subseteq Calls,
         \A d \in Calls : handler'[d].item = handler[d].item,
         UNCHANGED <<queue, sched, batchChan, exec, eventChan, cons, panicked>>
  PROVE  Serving' /\ Onward
  <1>1. Typed /\ Shapes
    BY DEF Serving
  <1>2. Typed'
    BY <1>1 DEF Typed, QueuesTyped, SchedTyped, ExecTyped, ConsTyped
  <1>3. StepParts
    <2>1. Shapes'
      BY <1>1 DEF Shapes, SchedShape, QueueShape, ExecShape, ConsShape
    <2>2. \A w : WorkIn(w)' => WorkIn(w)
      BY DEF WorkIn
    <2>3. \A e : EventIn(e)' => EventIn(e)
      BY DEF EventIn
    <2> QED BY <1>2, <2>1, <2>2, <2>3 DEF StepParts
  <1>4. ASSUME NEW p \in Places PROVE Lines'[p] = Lines[p]
    BY SamePlace DEF EventStill
  <1> QED BY <1>3, <1>4, StillStep

(* Receive. *)
LEMMA ReceiveStep == ASSUME Serving, NEW c \in Calls, Receive(c) PROVE Serving' /\ Onward
  <1>1. Typed /\ HandlerShape /\ HandlersTyped /\ ChannelsTyped
    BY DEF Serving, Shapes, Typed
  <1> DEFINE h == handler[c]
             from == handler[c].from
             ch == channel[from]
  <1>2. /\ h \in HandlerRecord /\ from \in Calls /\ ch.buf \in Seq(Event) /\ h.pc = "streaming"
        /\ h.item = << >>
        /\ UNCHANGED <<mgr, kv, requests, expired, queue, sched, batchChan, exec, eventChan, cons, panicked>>
    BY <1>1, Fields DEF Receive, processUp, HandlersTyped, HandlerRecord, HandlerShape
  <1>3. PICK g \in HandlerRecord :
          /\ handler' = [handler EXCEPT ![c] = g] /\ g.item = h.item
          /\ g.pc \in {"streaming", "emit", "returned"} /\ (g.pc = "emit" => Len(g.event) = 1)
    <2>1. CASE /\ ch.buf # << >>
               /\ handler' = IF Head(ch.buf).type = "prefillChunk" THEN handler
                             ELSE [handler EXCEPT ![c].pc = "emit", ![c].event = <<Head(ch.buf)>>]
      <3>1. Head(ch.buf) \in Event
        BY <1>2, <2>1, SeqTyped
      <3>2. PICK es \in Seq(Event) : es = <<Head(ch.buf)>>
        <4>1. <<Head(ch.buf)>> \in Seq(Event)
          BY <3>1
        <4> QED BY <4>1, Zenon
      <3>3. Len(es) = 1
        BY <3>2
      <3>4. CASE Head(ch.buf).type = "prefillChunk"
        <4>1. handler' = [handler EXCEPT ![c] = h]
          BY <1>1, <2>1, <3>4 DEF HandlersTyped
        <4> QED BY <1>2, <4>1
      <3>5. CASE Head(ch.buf).type # "prefillChunk"
        <4>1. PICK g : g = [h EXCEPT !.pc = "emit", !.event = es]
          OBVIOUS
        <4>2. g \in HandlerRecord /\ g.item = h.item /\ g.pc = "emit" /\ g.event = es
          BY <1>2, <4>1 DEF HandlerRecord, HandlerPcs
        <4>3. handler' = [handler EXCEPT ![c] = g]
          BY <1>1, <2>1, <3>2, <3>5, <4>1 DEF HandlersTyped
        <4> QED BY <3>3, <4>2, <4>3
      <3> QED BY <3>4, <3>5
    <2>2. CASE handler' = [handler EXCEPT ![c].pc = "returned"]
      <3>1. PICK g : g = [h EXCEPT !.pc = "returned"]
        OBVIOUS
      <3>2. g \in HandlerRecord /\ g.item = h.item /\ g.pc = "returned"
        BY <1>2, <3>1 DEF HandlerRecord, HandlerPcs
      <3>3. handler' = [handler EXCEPT ![c] = g]
        BY <1>1, <2>2, <3>1 DEF HandlersTyped
      <3> QED BY <3>2, <3>3
    <2> QED BY <2>1, <2>2 DEF Receive
  <1>4. HandlersTyped' /\ handler'[c] = g /\ \A d \in Calls : d # c => handler'[d] = handler[d]
    BY <1>1, <1>3, HandlerOps
  <1>5. ChannelsTyped'
    <2>1. CASE ch.buf # << >> /\ channel' = [channel EXCEPT ![from].buf = Tail(@)]
      <3>1. PICK e \in Event : TRUE
        BY <1>2, <2>1, SeqTyped
      <3> HIDE DEF ch
      <3> QED BY <1>1, <1>2, <2>1, <3>1, ChannelOps DEF ChannelsTyped, ch
    <2>2. CASE UNCHANGED channel
      BY <1>1, <2>2 DEF ChannelsTyped
    <2> QED BY <2>1, <2>2 DEF Receive
  <1>6. HandlerShape' /\ \A d \in Calls : handler'[d].item = handler[d].item
    <2> HIDE DEF h
    <2> QED BY <1>1, <1>2, <1>3, <1>4 DEF HandlerShape, h
  <1>7. Kept
    <2> HIDE DEF h
    <2> QED BY <1>2, <1>3, <1>4 DEF Kept
  <1>8. RequestsTyped' /\ ManagerGood(mgr)' /\ expired' \subseteq Calls
    BY <1>1, <1>2 DEF Typed, RequestsTyped
  <1> QED BY <1>2, <1>4, <1>5, <1>6, <1>7, <1>8, HandlerMoves

(* A step of one handler that keeps its work. *)
LEMMA HandlerAdvances ==
  ASSUME Serving, NEW c \in Calls, NEW g \in HandlerRecord, handler' = [handler EXCEPT ![c] = g],
         g.item = handler[c].item, handler[c].pc # "new" => g.pc # "new",
         g.pc \in {"subscribe", "enqueue"} <=> handler[c].pc \in {"subscribe", "enqueue"},
         g.pc = "emit" => Len(g.event) = 1,
         DOMAIN requests' \subseteq DOMAIN requests, \A r \in DOMAIN requests' : requests'[r] = requests[r],
         RequestsTyped', ManagerGood(mgr)', ChannelsTyped', expired' \subseteq Calls,
         UNCHANGED <<queue, sched, batchChan, exec, eventChan, cons, panicked>>
  PROVE  Serving' /\ Onward
  <1>1. Typed /\ HandlerShape /\ HandlersTyped
    BY DEF Serving, Shapes, Typed
  <1>2. HandlersTyped' /\ handler'[c] = g /\ \A d \in Calls : d # c => handler'[d] = handler[d]
    BY <1>1, HandlerOps
  <1>3. HandlerShape' /\ \A d \in Calls : handler'[d].item = handler[d].item
    BY <1>1, <1>2 DEF HandlerShape
  <1>4. Kept
    BY <1>2 DEF Kept
  <1> QED BY <1>2, <1>3, <1>4, HandlerMoves

(* TrySchedule: the handler's goroutine starts to read. *)
LEMMA TryScheduleStep == ASSUME Serving, NEW c \in Calls, TrySchedule(c) PROVE Serving' /\ Onward
  <1> DEFINE h == handler[c]
  <1>1. Typed /\ HandlersTyped /\ ChannelsTyped /\ handler \in [Calls -> HandlerRecord]
    BY DEF Serving, Typed, HandlersTyped, HandlerRecord
  <1>2. /\ h \in HandlerRecord /\ h.pc = "trySchedule"
        /\ handler' = [handler EXCEPT ![c].pc = "streaming"]
        /\ UNCHANGED <<mgr, kv, requests, channel, expired, queue, sched, batchChan, exec, eventChan,
                       cons, panicked>>
    BY <1>1 DEF TrySchedule, processUp
  <1>3. /\ RequestsTyped' /\ ManagerGood(mgr)' /\ ChannelsTyped' /\ expired' \subseteq Calls
        /\ DOMAIN requests' \subseteq DOMAIN requests /\ \A r \in DOMAIN requests' : requests'[r] = requests[r]
    BY <1>1, <1>2 DEF Typed, RequestsTyped, ChannelsTyped
  <1>4. PICK g : g = [h EXCEPT !.pc = "streaming"]
    OBVIOUS
  <1>5. handler' = [handler EXCEPT ![c] = g]
    BY <1>1, <1>2, <1>4
  <1>6. g \in HandlerRecord /\ g.item = h.item /\ g.pc = "streaming"
    <2> HIDE DEF h
    <2> QED BY <1>2, <1>4 DEF HandlerRecord, HandlerPcs
  <1> QED BY <1>2, <1>3, <1>5, <1>6, HandlerAdvances

(* Emit: the handler's event becomes an output. *)
LEMMA EmitStep == ASSUME Serving, NEW c \in Calls, Emit(c) PROVE Serving' /\ Onward
  <1> DEFINE h == handler[c]
             e == h.event[1]
  <1>1. Typed /\ HandlerShape /\ HandlersTyped /\ ChannelsTyped /\ handler \in [Calls -> HandlerRecord]
    BY DEF Serving, Shapes, Typed, HandlersTyped, HandlerRecord
  <1>2. /\ h \in HandlerRecord /\ h.pc = "emit" /\ Len(h.event) = 1 /\ h.event \in Seq(Event)
        /\ h.out \in Seq(Output)
        /\ UNCHANGED <<mgr, kv, requests, channel, expired, queue, sched, batchChan, exec, eventChan,
                       cons, panicked>>
    BY <1>1, Fields DEF Emit, processUp, HandlersTyped, HandlerRecord, HandlerShape
  <1>3. e \in Event
    BY <1>2
  <1>4. PICK os \in Seq(Output) : os = Append(h.out, [token |-> e.token, type |-> e.type, done |-> e.done])
    <2>1. [token |-> e.token, type |-> e.type, done |-> e.done] \in Output
      BY <1>3 DEF Event, Output
    <2>2. Append(h.out, [token |-> e.token, type |-> e.type, done |-> e.done]) \in Seq(Output)
      BY <1>2, <2>1, SeqTyped
    <2> QED BY <2>2, Zenon
  <1>5. PICK es \in Seq(Event) : es = << >>
    <2>1. << >> \in Seq(Event)
      OBVIOUS
    <2> QED BY <2>1, Zenon
  <1>6. PICK pc \in {"finish", "streaming"} : pc = IF e.done THEN "finish" ELSE "streaming"
    OBVIOUS
  <1>7. PICK g : g = [h EXCEPT !.pc = pc, !.event = es, !.out = os]
    OBVIOUS
  <1>8. handler' = [handler EXCEPT ![c] = g]
    <2>1. handler' = [handler EXCEPT ![c].pc = pc, ![c].event = es, ![c].out = os]
      BY <1>4, <1>5, <1>6 DEF Emit
    <2> QED BY <1>1, <1>7, <2>1
  <1>9. g \in HandlerRecord /\ g.item = h.item /\ g.pc = pc
    <2> HIDE DEF h
    <2> QED BY <1>2, <1>7 DEF HandlerRecord, HandlerPcs
  <1>10. RequestsTyped' /\ ManagerGood(mgr)' /\ ChannelsTyped' /\ expired' \subseteq Calls
    BY <1>1, <1>2 DEF Typed, RequestsTyped, ChannelsTyped
  <1>11. DOMAIN requests' \subseteq DOMAIN requests /\ \A r \in DOMAIN requests' : requests'[r] = requests[r]
    BY <1>2
  <1> QED BY <1>2, <1>6, <1>8, <1>9, <1>10, <1>11, HandlerAdvances

(* Finish and Cancel, by any caller. *)
LEMMA FinishParts ==
  ASSUME Typed, NEW r, Finish(r)
  PROVE  /\ DOMAIN requests' \subseteq DOMAIN requests /\ \A s \in DOMAIN requests' : requests'[s] = requests[s]
         /\ RequestsTyped' /\ ManagerGood(mgr)' /\ ChannelsTyped'
  <1>1. CASE ~exists(r)
    BY <1>1 DEF Finish, Typed, RequestsTyped, ChannelsTyped
  <1>2. CASE exists(r)
    <2>1. deleteRequest(r) /\ channel' = [channel EXCEPT ![requests[r].call].closed = TRUE]
      BY <1>2 DEF Finish
    <2>2. /\ DOMAIN requests' = DOMAIN requests \ {r}
          /\ \A s \in DOMAIN requests' : requests'[s] = requests[s]
          /\ requests' = [s \in DOMAIN requests \ {r} |-> requests[s]]
      BY <2>1 DEF deleteRequest, Without, Restrict
    <2>3. RequestsTyped'
      BY <2>2 DEF Typed, RequestsTyped
    <2>4. ManagerGood(mgr')
      BY <2>1, FreeGood DEF Typed, deleteRequest
    <2>5. ChannelsTyped'
      <3>1. requests[r].call \in Calls
        BY <1>2, Fields DEF exists
      <3> QED BY <2>1, <3>1 DEF Typed, ChannelsTyped
    <2> QED BY <2>2, <2>3, <2>4, <2>5
  <1> QED BY <1>1, <1>2

(* FinishCall and CancelCall. *)
LEMMA EndCallStep == ASSUME Serving, NEW c \in Calls, FinishCall(c) \/ CancelCall(c) PROVE Serving' /\ Onward
  <1> DEFINE h == handler[c]
  <1>1. Typed /\ HandlerShape /\ HandlersTyped /\ ChannelsTyped /\ handler \in [Calls -> HandlerRecord]
    BY DEF Serving, Shapes, Typed, HandlersTyped, HandlerRecord
  <1>2. /\ h \in HandlerRecord /\ h.pc \in {"finish", "streaming"} /\ Finish(RequestId[c])
        /\ handler' = [handler EXCEPT ![c].pc = "ended", ![c].outClosed = TRUE]
        /\ UNCHANGED <<kv, expired, queue, sched, batchChan, exec, eventChan, cons, panicked>>
    BY <1>1 DEF FinishCall, CancelCall, Cancel, processUp
  <1>3. PICK g : g = [h EXCEPT !.pc = "ended", !.outClosed = TRUE]
    OBVIOUS
  <1>4. handler' = [handler EXCEPT ![c] = g]
    BY <1>1, <1>2, <1>3
  <1>5. g \in HandlerRecord /\ g.item = h.item /\ g.pc = "ended"
    <2> HIDE DEF h
    <2> QED BY <1>2, <1>3 DEF HandlerRecord, HandlerPcs
  <1>6. /\ DOMAIN requests' \subseteq DOMAIN requests /\ \A s \in DOMAIN requests' : requests'[s] = requests[s]
        /\ RequestsTyped' /\ ManagerGood(mgr)' /\ ChannelsTyped' /\ expired' \subseteq Calls
    BY <1>1, <1>2, FinishParts DEF Typed
  <1> QED BY <1>2, <1>4, <1>5, <1>6, HandlerAdvances

(* ClientReads, ClientLeaves and Expire. *)
LEMMA ClientStep ==
  ASSUME Serving, NEW c \in Calls, ClientReads(c) \/ ClientLeaves(c) \/ Expire(c)
  PROVE  Serving' /\ Onward
  <1> DEFINE h == handler[c]
  <1>1. Typed /\ HandlerShape /\ HandlersTyped /\ ChannelsTyped /\ handler \in [Calls -> HandlerRecord]
    BY DEF Serving, Shapes, Typed, HandlersTyped, HandlerRecord
  <1>2. /\ h \in HandlerRecord /\ (h.pc = "emit" => Len(h.event) = 1)
        /\ h.out \in Seq(Output) /\ h.received \in Seq(Output)
        /\ UNCHANGED <<mgr, kv, requests, channel, queue, sched, batchChan, exec, eventChan, cons, panicked>>
        /\ expired' \subseteq Calls
    BY <1>1, Fields DEF ClientReads, ClientLeaves, Expire, processUp, HandlerShape, Typed
  <1>3. PICK g \in HandlerRecord : /\ handler' = [handler EXCEPT ![c] = g] /\ g.item = h.item /\ g.pc = h.pc
                                   /\ g.event = h.event
    <2>1. CASE ClientReads(c)
      <3>1. CASE /\ h.out # << >>
                 /\ handler' = [handler EXCEPT
                      ![c].out      = Tail(@),
                      ![c].received = Append(@, Head(h.out)),
                      ![c].client   = IF Head(h.out).done THEN "done" ELSE "waiting"]
        <4>1. Tail(h.out) \in Seq(Output) /\ Append(h.received, Head(h.out)) \in Seq(Output)
          BY <1>2, <3>1, SeqTyped
        <4>2. PICK os \in Seq(Output) : os = Tail(h.out)
          BY <4>1, Zenon
        <4>3. PICK rs \in Seq(Output) : rs = Append(h.received, Head(h.out))
          BY <4>1, Zenon
        <4>4. PICK cl \in {"done", "waiting"} : cl = IF Head(h.out).done THEN "done" ELSE "waiting"
          OBVIOUS
        <4>5. PICK g : g = [h EXCEPT !.out = os, !.received = rs, !.client = cl]
          OBVIOUS
        <4>6. handler' = [handler EXCEPT ![c] = g]
          BY <1>1, <3>1, <4>2, <4>3, <4>4, <4>5
        <4>7. g \in HandlerRecord /\ g.item = h.item /\ g.pc = h.pc /\ g.event = h.event
          <5> HIDE DEF h
          <5> QED BY <1>2, <4>5 DEF HandlerRecord
        <4> QED BY <4>6, <4>7
      <3>2. CASE handler' = [handler EXCEPT ![c].client = "error"]
        <4>1. PICK g : g = [h EXCEPT !.client = "error"]
          OBVIOUS
        <4>2. handler' = [handler EXCEPT ![c] = g]
          BY <1>1, <3>2, <4>1
        <4>3. g \in HandlerRecord /\ g.item = h.item /\ g.pc = h.pc /\ g.event = h.event
          <5> HIDE DEF h
          <5> QED BY <1>2, <4>1 DEF HandlerRecord
        <4> QED BY <4>2, <4>3
      <3> QED BY <2>1, <3>1, <3>2 DEF ClientReads
    <2>2. CASE ClientLeaves(c)
      <3>1. PICK g : g = [h EXCEPT !.client = "left"]
        OBVIOUS
      <3>2. handler' = [handler EXCEPT ![c] = g]
        BY <1>1, <2>2, <3>1 DEF ClientLeaves
      <3>3. g \in HandlerRecord /\ g.item = h.item /\ g.pc = h.pc /\ g.event = h.event
        <4> HIDE DEF h
        <4> QED BY <1>2, <3>1 DEF HandlerRecord
      <3> QED BY <3>2, <3>3
    <2>3. CASE Expire(c)
      <3>1. handler' = [handler EXCEPT ![c] = h]
        BY <1>1, <2>3 DEF Expire
      <3> QED BY <1>2, <3>1
    <2> QED BY <2>1, <2>2, <2>3
  <1>4. RequestsTyped' /\ ManagerGood(mgr)' /\ ChannelsTyped'
    BY <1>1, <1>2 DEF Typed, RequestsTyped, ChannelsTyped
  <1>5. DOMAIN requests' \subseteq DOMAIN requests /\ \A r \in DOMAIN requests' : requests'[r] = requests[r]
    BY <1>2
  <1> QED BY <1>2, <1>3, <1>4, <1>5, HandlerAdvances

(* The work in the hands of a handler is of its own request. *)
LEMMA FirstWork ==
  ASSUME Serving, NEW c \in Calls, handler[c].pc \in {"subscribe", "enqueue"}
  PROVE  LET w == handler[c].item[1] IN
         /\ handler[c].item = <<w>> /\ w \in Work /\ w.call = c /\ w.request = RequestId[c] /\ WorkIn(w)
         /\ Lines[<<"item", c>>] = <<w.request>> /\ <<"item", c>> \in Places
  <1> DEFINE w == handler[c].item[1]
  <1>1. Typed /\ HandlerShape /\ TicketsSound
    BY DEF Serving, Shapes, Sound
  <1>2. Len(handler[c].item) = 1 /\ w.call = c /\ handler[c].item \in Seq(Work)
    BY <1>1, Fields DEF HandlerShape
  <1>3. handler[c].item = <<w>> /\ w \in Work
    BY <1>2
  <1> HIDE DEF w
  <1>4. WorkIn(w)
    BY <1>3, HoldsShort DEF WorkIn
  <1>5. w.request = RequestId[c]
    BY <1>1, <1>2, <1>4 DEF TicketsSound, WorkSound
  <1>6. Lines[<<"item", c>>] = <<w.request>> /\ <<"item", c>> \in Places
    BY <1>3, LineAt, ShortIds, PlaceNames DEF LinesAre
  <1> QED BY <1>2, <1>3, <1>4, <1>5, <1>6 DEF w

(* A handler gives its work away. *)
LEMMA GivesWork ==
  ASSUME Serving, NEW c \in Calls, NEW g \in HandlerRecord, handler' = [handler EXCEPT ![c] = g],
         g.item = << >>, g.pc \in {"rejected", "trySchedule"}
  PROVE  /\ HandlersTyped' /\ HandlerShape'
         /\ \A d \in Calls : handler[d].pc # "new" => handler'[d].pc # "new"
         /\ Lines'[<<"item", c>>] = << >>
         /\ \A d \in Calls : d # c => handler'[d].item = handler[d].item
         /\ \A w : (\E d \in Calls : HoldsWork(handler'[d].item, w)) =>
                     \E d \in Calls : HoldsWork(handler[d].item, w)
  <1>1. HandlerShape /\ HandlersTyped
    BY DEF Serving, Shapes, Typed
  <1>2. HandlersTyped' /\ handler'[c] = g /\ \A d \in Calls : d # c => handler'[d] = handler[d]
    BY <1>1, HandlerOps
  <1>3. HandlerShape'
    BY <1>1, <1>2 DEF HandlerShape
  <1>4. Lines'[<<"item", c>>] = << >>
    BY <1>2, LineAtNext, ShortIds DEF LinesAre
  <1>5. \A w : (\E d \in Calls : HoldsWork(handler'[d].item, w)) =>
                 \E d \in Calls : HoldsWork(handler[d].item, w)
    BY <1>2, HoldsShort
  <1> QED BY <1>2, <1>3, <1>4, <1>5

(* Subscribe, and the end of EnqueueFirst for a request that is gone or     *)
(* fails: the work is dropped.                                              *)
LEMMA RejectStep ==
  ASSUME Serving, NEW c \in Calls, handler[c].pc \in {"subscribe", "enqueue"},
         NEW g \in HandlerRecord, handler' = [handler EXCEPT ![c] = g],
         g.item = << >>, g.pc = "rejected",
         DOMAIN requests' = DOMAIN requests \ {RequestId[c]},
         \A r \in DOMAIN requests' : requests'[r] = requests[r],
         RequestsTyped', ManagerGood(mgr)', ChannelsTyped',
         UNCHANGED <<expired, queue, sched, batchChan, exec, eventChan, cons, panicked>>
  PROVE  Serving' /\ Onward /\ DeletedAreDone
  <1>1. Typed /\ Shapes
    BY DEF Serving
  <1>2. /\ HandlersTyped' /\ HandlerShape'
        /\ \A d \in Calls : handler[d].pc # "new" => handler'[d].pc # "new"
        /\ Lines'[<<"item", c>>] = << >>
        /\ \A d \in Calls : d # c => handler'[d].item = handler[d].item
        /\ \A w : (\E d \in Calls : HoldsWork(handler'[d].item, w)) =>
                    \E d \in Calls : HoldsWork(handler[d].item, w)
    BY GivesWork
  <1>3. Kept
    BY <1>2 DEF Kept
  <1>4. Typed'
    BY <1>1, <1>2 DEF Typed, QueuesTyped, SchedTyped, ExecTyped, ConsTyped
  <1>5. StepParts
    <2>1. Shapes'
      BY <1>1, <1>2 DEF Shapes, SchedShape, QueueShape, ExecShape, ConsShape
    <2>2. \A w : WorkIn(w)' => WorkIn(w)
      BY <1>2 DEF WorkIn
    <2>3. \A e : EventIn(e)' => EventIn(e)
      BY DEF EventIn
    <2> QED BY <1>3, <1>4, <2>1, <2>2, <2>3 DEF StepParts
  <1>6. Lines[<<"item", c>>] = <<RequestId[c]>> /\ <<"item", c>> \in Places
    BY FirstWork
  <1>7. Dropped(Lines, Lines', <<"item", c>>)
    <2>1. Tail(<<RequestId[c]>>) = << >> /\ <<RequestId[c]>> # << >>
      OBVIOUS
    <2>2. ASSUME NEW p \in Places, p # <<"item", c>> PROVE Lines'[p] = Lines[p]
      BY <1>2, <2>2, SamePlace DEF EventStill
    <2> QED BY <1>2, <1>6, <2>1, <2>2 DEF Dropped
  <1>8. DOMAIN requests' = DOMAIN requests \ {Head(Lines[<<"item", c>>])}
    BY <1>6
  <1> QED BY <1>5, <1>7, <1>8, DropStep DEF DeletedAreDone

(* Subscribe. *)
LEMMA SubscribeStep == ASSUME Serving, NEW c \in Calls, Subscribe(c) PROVE Serving' /\ Onward
  <1> DEFINE h == handler[c]
  <1>1. Typed /\ HandlersTyped /\ ChannelsTyped /\ handler \in [Calls -> HandlerRecord]
    BY DEF Serving, Typed, HandlersTyped, HandlerRecord
  <1>2. /\ h \in HandlerRecord /\ h.pc = "subscribe"
        /\ UNCHANGED <<mgr, kv, requests, channel, expired, queue, sched, batchChan, exec, eventChan,
                       cons, panicked>>
    BY <1>1 DEF Subscribe, processUp
  <1>3. /\ RequestsTyped' /\ ManagerGood(mgr)' /\ ChannelsTyped' /\ expired' \subseteq Calls
        /\ DOMAIN requests' \subseteq DOMAIN requests /\ \A r \in DOMAIN requests' : requests'[r] = requests[r]
    BY <1>1, <1>2 DEF Typed, RequestsTyped, ChannelsTyped
  <1>4. CASE exists(RequestId[c])
    <2>1. PICK d \in Calls : handler' = [handler EXCEPT ![c].pc = "enqueue", ![c].from = d]
      BY <1>1, <1>4, Fields DEF Subscribe, exists
    <2>2. PICK g : g = [h EXCEPT !.pc = "enqueue", !.from = d]
      OBVIOUS
    <2>3. handler' = [handler EXCEPT ![c] = g]
      BY <1>1, <2>1, <2>2
    <2>4. g \in HandlerRecord /\ g.item = h.item /\ g.pc = "enqueue"
      <3> HIDE DEF h
      <3> QED BY <1>2, <2>2 DEF HandlerRecord, HandlerPcs
    <2> QED BY <1>2, <1>3, <2>3, <2>4, HandlerAdvances
  <1>5. CASE ~exists(RequestId[c])
    <2>0. PICK z \in Seq(Work) : z = << >>
      <3>1. << >> \in Seq(Work)
        OBVIOUS
      <3> QED BY <3>1, Zenon
    <2>1. handler' = [handler EXCEPT ![c].pc = "rejected", ![c].client = "error", ![c].item = z]
      BY <1>5, <2>0 DEF Subscribe
    <2>2. PICK g : g = [h EXCEPT !.pc = "rejected", !.client = "error", !.item = z]
      OBVIOUS
    <2>3. handler' = [handler EXCEPT ![c] = g]
      BY <1>1, <2>1, <2>2
    <2>4. g \in HandlerRecord /\ g.item = << >> /\ g.pc = "rejected"
      <3>1. g \in HandlerRecord /\ g.item = z /\ g.pc = "rejected"
        <4> HIDE DEF h
        <4> QED BY <1>2, <2>2 DEF HandlerRecord, HandlerPcs
      <3> QED BY <2>0, <3>1
    <2>5. DOMAIN requests' = DOMAIN requests \ {RequestId[c]}
      BY <1>2, <1>5 DEF exists
    <2> QED BY <1>2, <1>3, <2>3, <2>4, <2>5, RejectStep
  <1> QED BY <1>4, <1>5

(* EnqueueFirst. *)
LEMMA EnqueueFirstStep ==
  ASSUME Serving, NEW c \in Calls, EnqueueFirst(c) PROVE Serving' /\ Onward /\ DeletedAreDone
  <1> DEFINE h == handler[c]
             w == handler[c].item[1]
  <1>1. Typed /\ Shapes /\ HandlersTyped /\ ChannelsTyped /\ handler \in [Calls -> HandlerRecord]
        /\ QueueShape
    BY DEF Serving, Typed, HandlersTyped, HandlerRecord, Shapes
  <1>2. /\ h \in HandlerRecord /\ h.pc = "enqueue"
        /\ UNCHANGED <<kv, expired, sched, batchChan, exec, eventChan, cons, panicked>>
    BY <1>1 DEF EnqueueFirst, processUp
  <1>3. /\ handler[c].item = <<w>> /\ w \in Work /\ w.call = c /\ w.request = RequestId[c] /\ WorkIn(w)
        /\ Lines[<<"item", c>>] = <<w.request>> /\ <<"item", c>> \in Places
    BY <1>2, FirstWork
  <1>4. PICK z \in Seq(Work) : z = << >>
    <2>1. << >> \in Seq(Work)
      OBVIOUS
    <2> QED BY <2>1, Zenon
  <1>5. CASE full(w)
    <2>1. /\ handler' = [handler EXCEPT ![c].pc = "rejected", ![c].client = "error", ![c].item = z]
          /\ UNCHANGED queue
          /\ IF exists(w.request)
             THEN deleteRequest(w.request) /\ sendFailure(requests[w.request].call, w.request)
             ELSE UNCHANGED <<requests, mgr, channel>>
      BY <1>4, <1>5 DEF EnqueueFirst
    <2>2. PICK g : g = [h EXCEPT !.pc = "rejected", !.client = "error", !.item = z]
      OBVIOUS
    <2>3. handler' = [handler EXCEPT ![c] = g]
      BY <1>1, <2>1, <2>2
    <2>4. g \in HandlerRecord /\ g.item = << >> /\ g.pc = "rejected"
      <3>1. g \in HandlerRecord /\ g.item = z /\ g.pc = "rejected"
        <4> HIDE DEF h
        <4> QED BY <1>2, <2>2 DEF HandlerRecord, HandlerPcs
      <3> QED BY <1>4, <3>1
    <2>5. \A d \in Calls : handler[d].pc # "new" => handler'[d].pc # "new"
      BY <2>3, <2>4, GivesWork
    <2>6. /\ DOMAIN requests' = DOMAIN requests \ {RequestId[c]}
          /\ \A r \in DOMAIN requests' : requests'[r] = requests[r]
          /\ RequestsTyped' /\ ManagerGood(mgr)' /\ ChannelsTyped'
      <3>1. CASE exists(w.request)
        <4>1. Kept /\ RequestsTyped' /\ ManagerGood(mgr)' /\ DOMAIN requests' = DOMAIN requests \ {w.request}
          BY <1>1, <2>1, <2>5, <3>1, DeleteKept
        <4>2. ChannelsTyped'
          <5>1. PICK d \in Calls : d = requests[w.request].call
            BY <1>1, <3>1, Fields DEF exists
          <5>2. RequestId[d] = w.request
            <6>1. RequestSound(w.request)
              BY <3>1 DEF Serving, Sound, RequestsSound, exists
            <6> QED BY <5>1, <6>1 DEF RequestSound
          <5>3. requestFailedEvent(d, w.request) \in Event
            BY <5>2, EventsTyped
          <5>4. channel' = [channel EXCEPT ![d].buf = Append(@, requestFailedEvent(d, w.request)),
                                           ![d].closed = TRUE]
            BY <2>1, <3>1, <5>1 DEF sendFailure
          <5> QED BY <1>1, <5>3, <5>4, ChannelOps DEF ChannelsTyped
        <4> QED BY <1>3, <4>1, <4>2 DEF Kept
      <3>2. CASE ~exists(w.request)
        BY <1>1, <1>3, <2>1, <3>2 DEF Typed, RequestsTyped, ChannelsTyped, exists
      <3> QED BY <3>1, <3>2
    <2> QED BY <1>2, <2>1, <2>3, <2>4, <2>6, RejectStep
  <1>6. CASE ~full(w)
    <2>1. /\ handler' = [handler EXCEPT ![c].pc = "trySchedule", ![c].item = z]
          /\ queue' = appended(queue, w) /\ UNCHANGED <<requests, mgr, channel>>
      BY <1>4, <1>6 DEF EnqueueFirst
    <2>2. PICK g : g = [h EXCEPT !.pc = "trySchedule", !.item = z]
      OBVIOUS
    <2>3. handler' = [handler EXCEPT ![c] = g]
      BY <1>1, <2>1, <2>2
    <2>4. g \in HandlerRecord /\ g.item = << >> /\ g.pc = "trySchedule"
      <3>1. g \in HandlerRecord /\ g.item = z /\ g.pc = "trySchedule"
        <4> HIDE DEF h
        <4> QED BY <1>2, <2>2 DEF HandlerRecord, HandlerPcs
      <3> QED BY <1>4, <3>1
    <2>5. /\ HandlersTyped' /\ HandlerShape'
          /\ \A d \in Calls : handler[d].pc # "new" => handler'[d].pc # "new"
          /\ Lines'[<<"item", c>>] = << >>
          /\ \A d \in Calls : d # c => handler'[d].item = handler[d].item
          /\ \A v : (\E d \in Calls : HoldsWork(handler'[d].item, v)) =>
                      \E d \in Calls : HoldsWork(handler[d].item, v)
      BY <2>3, <2>4, GivesWork
    <2> HIDE DEF w
    <2>6. /\ \A k \in {"decode", "small", "large"} : k # queueOf(w) => queue'[k] = queue[k]
          /\ QueuesTyped'
          /\ \A k \in DOMAIN queue' : \A i \in DOMAIN queue'[k] : queueOf(queue'[k][i]) = k
          /\ \A v : (\E k \in {"decode", "small", "large"} : HoldsWork(queue'[k], v)) =>
                      v = w \/ \E k \in {"decode", "small", "large"} : HoldsWork(queue[k], v)
          /\ Lines'[<<"queue", queueOf(w)>>] = Append(Lines[<<"queue", queueOf(w)>>], w.request)
          /\ <<"queue", queueOf(w)>> \in Places
      BY <1>1, <1>3, <2>1, Appended
    <2>7. Typed'
      BY <1>1, <1>2, <2>1, <2>5, <2>6
         DEF Typed, RequestsTyped, ChannelsTyped, SchedTyped, ExecTyped, ConsTyped
    <2>8. StepParts
      <3>1. QueueShape'
        BY <1>1, <1>2, <2>6 DEF QueueShape
      <3>2. Shapes'
        BY <1>1, <1>2, <2>5, <3>1 DEF Shapes, SchedShape, ExecShape, ConsShape
      <3>3. \A v : WorkIn(v)' => WorkIn(v)
        BY <1>2, <1>3, <2>5, <2>6 DEF WorkIn
      <3>4. \A e : EventIn(e)' => EventIn(e)
        BY <1>2 DEF EventIn
      <3>5. Kept
        BY <2>1, <2>5 DEF Kept
      <3> QED BY <2>7, <3>2, <3>3, <3>4, <3>5 DEF StepParts
    <2>9. Moved(Lines, Lines', <<"item", c>>, <<"queue", queueOf(w)>>)
      <3>1. Tail(<<w.request>>) = << >> /\ Head(<<w.request>>) = w.request /\ <<w.request>> # << >>
        OBVIOUS
      <3>2. ASSUME NEW p \in Places, p # <<"item", c>>, p # <<"queue", queueOf(w)>>
            PROVE  Lines'[p] = Lines[p]
        BY <1>2, <2>5, <2>6, <3>2, SamePlace DEF EventStill
      <3>3. <<"item", c>> # <<"queue", queueOf(w)>>
        OBVIOUS
      <3> QED BY <1>3, <2>5, <2>6, <3>1, <3>2, <3>3 DEF Moved
    <2> QED BY <2>1, <2>8, <2>9, MoveStep DEF DeletedAreDone
  <1> QED BY <1>5, <1>6


(* The requests with a ticket are those of the works and events on their    *)
(* way.                                                                     *)
LEMMA OccursIn ==
  ASSUME Typed, NEW r, Occurs(Lines, r)
  PROVE  (\E w : WorkIn(w) /\ w.request = r) \/ (\E e : EventIn(e) /\ e.request = r)
  <1>1. PICK p \in Places : \E i \in DOMAIN Lines[p] : Lines[p][i] = r
    BY DEF Occurs
  <1>2. /\ \A s : (\E i \in DOMAIN idsOf(s) : idsOf(s)[i] = r) => \E w : HoldsWork(s, w) /\ w.request = r
        /\ \A s : (\E i \in DOMAIN itemIdsOf(s) : itemIdsOf(s)[i] = r) =>
                  \E w : HoldsItem(s, w) /\ w.request = r
    BY DEF idsOf, itemIdsOf, HoldsWork, HoldsItem
  <1>3. ~\E i \in DOMAIN << >> : << >>[i] = r
    OBVIOUS
  <1>4. CASE \E c \in Calls : p = <<"item", c>>
    BY <1>1, <1>2, <1>4, LineAt DEF LinesAre, WorkIn
  <1>5. CASE \E k \in {"decode", "small", "large"} : p = <<"queue", k>>
    BY <1>1, <1>2, <1>5, LineAt DEF LinesAre, WorkIn
  <1>6. CASE \E n \in Nat : p = <<"submitted", n>>
    BY <1>1, <1>2, <1>3, <1>6, LineAt DEF LinesAre, WorkIn
  <1>7. CASE p \in {<<"held", 0>>, <<"batch", 0>>, <<"running", 0>>, <<"next", 0>>}
    BY <1>1, <1>2, <1>7, LineAt DEF LinesAre, WorkIn
  <1>8. CASE p \in {<<"events", 0>>, <<"delivered", 0>>, <<"event", 0>>}
    BY <1>1, <1>2, <1>3, <1>8, LineAt DEF LinesAre, EventIn
  <1> QED BY <1>4, <1>5, <1>6, <1>7, <1>8, PlaceNames

(* Create: a new request has its first work, or its call is rejected. *)
LEMMA CreateStep ==
  ASSUME Serving, DistinctIds, NEW c \in Calls, Create(c)
  PROVE  Serving' /\ \A r : Occurs(Lines', r) => Occurs(Lines, r) \/ r = RequestId[c]
  <1> DEFINE h == handler[c]
             id == RequestId[c]
             ids == matchedBlocks(mgr, Prompt[c])
             n == Len(ids) * BlockSize
             first == prefillItem(c, id, ids, n, promptTokens(c))
             q == [ call |-> c, phase |-> Running, generated |-> 0, computed |-> n, cache |-> ids ]
  <1>1. /\ Typed /\ Shapes /\ HandlerShape /\ HandlersTyped /\ ChannelsTyped /\ RequestsSound /\ TicketsSound
        /\ handler \in [Calls -> HandlerRecord] /\ OneTicket /\ Attended /\ ManagerGood(mgr)
    BY DEF Serving, Shapes, Sound, Typed, HandlersTyped, HandlerRecord
  <1>2. /\ h \in HandlerRecord /\ h.pc = "new" /\ h.item = << >>
        /\ UNCHANGED <<kv, channel, expired, queue, sched, batchChan, exec, eventChan, cons, panicked>>
    BY <1>1 DEF Create, processUp, HandlerShape
  <1>3. CASE exists(id)
    <2>1. /\ handler' = [handler EXCEPT ![c].pc = "rejected", ![c].client = "error"]
          /\ UNCHANGED <<requests, mgr>>
      BY <1>3 DEF Create
    <2>2. PICK g : g = [h EXCEPT !.pc = "rejected", !.client = "error"]
      OBVIOUS
    <2>3. handler' = [handler EXCEPT ![c] = g]
      BY <1>1, <2>1, <2>2
    <2>4. g \in HandlerRecord /\ g.item = h.item /\ g.pc = "rejected"
      <3> HIDE DEF h
      <3> QED BY <1>2, <2>2 DEF HandlerRecord, HandlerPcs
    <2>5. /\ RequestsTyped' /\ ManagerGood(mgr)' /\ ChannelsTyped' /\ expired' \subseteq Calls
          /\ DOMAIN requests' \subseteq DOMAIN requests /\ \A r \in DOMAIN requests' : requests'[r] = requests[r]
      BY <1>1, <1>2, <2>1 DEF Typed, RequestsTyped, ChannelsTyped
    <2> QED BY <1>2, <2>3, <2>4, <2>5, HandlerAdvances DEF Onward, NoNewTicket
  <1>4. CASE ~exists(id)
    <2>1. /\ ids \in Seq(BlockIds) /\ n \in Nat /\ n < promptTokens(c)
          /\ promptTokens(c) \in Nat /\ id \in Ids
      BY <1>1, MatchedTyped, Prompts
    <2>2. first \in Work
      <3> HIDE DEF ids, n
      <3> QED BY <2>1, PrefillTyped
    <2>0. PICK w \in Work : w = first
      BY <2>2
    <2>3. /\ requests' = Put(requests, id, q) /\ mgr' = MatchPrefix(mgr, id, Prompt[c])
          /\ handler' = [handler EXCEPT ![c].pc = "subscribe", ![c].item = <<w>>]
      BY <1>4, <2>0 DEF Create
    <2>4. /\ w.call = c /\ w.request = id /\ w.id = <<c, n>> /\ w.phase = Prefill /\ w.cache = ids
          /\ w.offset = n /\ w.new = promptTokens(c) - n /\ w.total = promptTokens(c) /\ w.generated = 0
      BY <2>0 DEF prefillItem
    <2>5. /\ q \in Request /\ q.call = c /\ q.phase = Running /\ q.generated = 0 /\ q.computed = n
          /\ q.cache = ids
      <3> HIDE DEF ids, n
      <3> QED BY <2>1 DEF Request
    <2> HIDE DEF first, q, ids, n
    <2>6. PICK ws \in Seq(Work) : ws = <<w>>
      <3>1. <<w>> \in Seq(Work)
        BY <2>0
      <3> QED BY <3>1, Zenon
    <2>7. PICK g : g = [h EXCEPT !.pc = "subscribe", !.item = ws]
      OBVIOUS
    <2>8. handler' = [handler EXCEPT ![c] = g]
      BY <1>1, <2>3, <2>6, <2>7
    <2>9. g \in HandlerRecord /\ g.item = ws /\ g.pc = "subscribe"
      <3> HIDE DEF h
      <3> QED BY <1>2, <2>7 DEF HandlerRecord, HandlerPcs
    <2>10. HandlersTyped' /\ handler'[c] = g /\ \A d \in Calls : d # c => handler'[d] = handler[d]
      BY <1>1, <2>8, <2>9, HandlerOps
    <2>11. /\ DOMAIN requests' = DOMAIN requests \cup {id} /\ requests'[id] = q
           /\ \A r \in DOMAIN requests : r # id /\ requests'[r] = requests[r]
           /\ id \notin DOMAIN requests
           /\ requests' = [r \in DOMAIN requests \cup {id} |-> IF r = id THEN q ELSE requests[r]]
      BY <1>4, <2>3 DEF Put, exists
    <2>12. Typed'
      <3>1. RequestsTyped'
        BY <1>1, <2>1, <2>5, <2>11 DEF Typed, RequestsTyped
      <3>2. ManagerGood(mgr)'
        BY <1>1, <2>3, MatchGood
      <3> QED BY <1>1, <1>2, <2>10, <3>1, <3>2
           DEF Typed, ChannelsTyped, QueuesTyped, SchedTyped, ExecTyped, ConsTyped
    <2>13. Shapes'
      <3>1. ws[1] = w /\ Len(ws) = 1
        BY <2>6
      <3>2. HandlerShape'
        BY <1>1, <2>4, <2>9, <2>10, <3>1 DEF HandlerShape
      <3> QED BY <1>1, <1>2, <3>2 DEF Shapes, SchedShape, QueueShape, ExecShape, ConsShape
    <2>14. RequestsSound'
      <3>1. ASSUME NEW r \in DOMAIN requests' PROVE RequestSound(r)'
        <4>1. CASE r = id
          BY <2>1, <2>5, <2>9, <2>10, <2>11, <4>1 DEF RequestSound
        <4>2. CASE r # id
          <5>1. RequestSound(r) /\ requests'[r] = requests[r] /\ requests[r].call \in Calls
            BY <1>1, <2>11, <3>1, <4>2, Fields DEF RequestsSound
          <5> QED BY <2>9, <2>10, <5>1 DEF RequestSound
        <4> QED BY <4>1, <4>2
      <3> QED BY <3>1 DEF RequestsSound
    <2>15. ASSUME NEW v, WorkIn(v) PROVE v.request # id /\ WorkSound(v)'
      <3>1. v \in Work /\ WorkSound(v) /\ v.call \in Calls
        BY <1>1, <2>15, InTyped DEF TicketsSound, Work
      <3>2. v.request # id
        BY <1>2, <3>1 DEF WorkSound, DistinctIds
      <3> QED BY <2>9, <2>10, <2>11, <3>1, <3>2 DEF WorkSound, exists
    <2>16. ASSUME NEW e, EventIn(e) PROVE e.request # id /\ EventSound(e)'
      <3>1. e \in Event /\ EventSound(e) /\ e.work[1] \in Calls
        BY <1>1, <2>16, InTyped DEF TicketsSound, Event
      <3>2. e.request # id
        BY <1>2, <3>1 DEF EventSound, DistinctIds
      <3> QED BY <2>9, <2>10, <2>11, <3>1, <3>2 DEF EventSound, exists
    <2>17. WorkSound(w)'
      <3>1. computedTokens(w) = n
        BY <2>1, <2>4 DEF computedTokens, requiredKVTokens
      <3> QED BY <2>1, <2>4, <2>5, <2>9, <2>10, <2>11, <3>1 DEF WorkSound, exists, Prefill, Decode
    <2>18. TicketsSound'
      <3>1. ASSUME NEW v, WorkIn(v)' PROVE WorkSound(v)'
        <4>1. WorkIn(v) \/ v = w
          BY <1>2, <2>6, <2>9, <2>10, <3>1, HoldsShort DEF WorkIn
        <4> QED BY <2>15, <2>17, <4>1
      <3>2. ASSUME NEW e, EventIn(e)' PROVE EventSound(e)'
        <4>1. EventIn(e)
          BY <1>2, <3>2 DEF EventIn
        <4> QED BY <2>16, <4>1
      <3> QED BY <3>1, <3>2 DEF TicketsSound
    <2>19. ~Occurs(Lines, id)
      BY <1>1, <2>15, <2>16, OccursIn
    <2>20. Added(Lines, Lines', <<"item", c>>, id)
      <3>1. Lines[<<"item", c>>] = << >> /\ Lines'[<<"item", c>>] = <<id>>
        BY <1>2, <2>4, <2>6, <2>9, <2>10, LineAt, LineAtNext, ShortIds DEF LinesAre
      <3>2. ASSUME NEW p \in Places, p # <<"item", c>> PROVE Lines'[p] = Lines[p]
        BY <1>2, <2>10, <3>2, SamePlace DEF EventStill
      <3> QED BY <2>1, <2>19, <3>1, <3>2, PlaceNames DEF Added
    <2>21. Once(Lines') /\ \A r : Occurs(Lines', r) <=> Occurs(Lines, r) \/ r = id
      <3>1. Tables(Lines, Lines') /\ Once(Lines)
        BY <1>1, <2>12, LinesTyped, LinesTypedNext DEF OneTicket, Tables
      <3> HIDE DEF id
      <3> QED BY <2>20, <3>1, AddTicket
    <2>22. Attended'
      BY <1>1, <2>11, <2>21 DEF Attended
    <2>23. OneTicket'
      BY <2>21 DEF OneTicket
    <2> QED BY <2>12, <2>13, <2>14, <2>18, <2>21, <2>22, <2>23 DEF Serving, Sound
  <1> QED BY <1>3, <1>4

=============================================================================
