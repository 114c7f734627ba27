---------------------------- MODULE Replication ----------------------------
(***************************************************************************)
(* Replication of a cached prefix between executors, end to end: the       *)
(* coordinator in the Engine (internal/placement), the block registry      *)
(* (BlockRegistry), the RPC TriggerKVPush to the source executor and       *)
(* PushKV from the source to the destination (executor/executor_service.py) *)
(* and the executors' KV caches (KVOps), while requests run on both.       *)
(*                                                                         *)
(* A handler of an executor is one step: it holds the cache lock, and what *)
(* trigger_kv_push does between its snapshot and the answer to its push    *)
(* touches no shared state.  A call may be lost, answered late or not at   *)
(* all, and an executor may restart.  A batch is a call of its own, so     *)
(* that one which its client has given up may arrive after any later one.  *)
(* Each batch has one work item; Engine has whole batches.  Bounds:        *)
(* Transfers, each used once (its id is a fresh UUID), Requests, Works,    *)
(* Prompts, MaxDecode, MaxRestarts and MaxLate.                            *)
(***************************************************************************)
EXTENDS BlockRegistry, KVOps

CONSTANTS
  KVCompatibilityID,  \* KVCompatibilityID[e], or NoCompatibility
  HasEndpoint,        \* the executors with a transfer endpoint
  BatchCap,           \* batches submitted to an executor and not answered (in the code
                      \* 101: 100 in its channel and the one that its consumer sends)
  MaxRestarts,        \* bound: restarts of executors
  MaxLate             \* bound: batches given up and perhaps still on their way to an executor

VARIABLES
  kv,       \* kv[e]: the KV cache of executor e
  epoch,    \* epoch[e]: its runtime epoch
  failed,   \* the executors whose _cache_failed is set
  batches,  \* batches[e]: the batches submitted to e; consumeExecutor sends the first one
  late,     \* late[e]: those whose call timed out, in no order
  strayed,  \* history: a batch that nobody awaits has changed a slot that was relied on
  result,   \* result[r]: what the Engine knows of the batch of request r
  call,     \* call[t]: where the Replicate call of t is
  rpc       \* rpc[t]: its TriggerKVPush call, and the push it leads to

executor == <<kv, epoch, failed>>
onTheWay == <<batches, late>>
replicationVars == <<vars, executor, onTheWay, strayed, result, call, rpc>>

NoCompatibility == "none"

(* newExecutor reads the runtime epoch of an executor once, at start-up. *)
RuntimeEpoch == 0

noRPC ==
  [step |-> "none", source |-> CHOOSE e \in Executors : TRUE,
   destination |-> CHOOSE e \in Executors : TRUE,
   sourceBlocks |-> << >>, destinationBlocks |-> << >>, payload |-> << >>]

(* A call that is over; nothing of it but its outcome matters any more. *)
over(step) == [noRPC EXCEPT !.step = step]

ReplicationInit ==
  /\ Init
  /\ kv = [e \in Executors |-> emptyCache(BlockSize[e], NumBlocks[e])]
  /\ epoch = [e \in Executors |-> RuntimeEpoch]
  /\ failed = {}
  /\ batches = [e \in Executors |-> << >>]
  /\ late = [e \in Executors |-> {}]
  /\ strayed = FALSE
  /\ result = [r \in Requests |-> "none"]
  /\ call = [t \in Transfers |-> "idle"]
  /\ rpc = [t \in Transfers |-> noRPC]

(* Mutant: the runtime epoch is not checked. *)
acceptsAnyEpoch(e) == e \notin failed

(* _ensure_healthy and _validate_epoch *)
accepts(e) == e \notin failed /\ epoch[e] = RuntimeEpoch

-----------------------------------------------------------------------------
(* Requests on the executors *)

Admit(r, e, p) ==
  /\ MatchPrefixFor(r, e, p)
  /\ UNCHANGED <<executor, onTheWay, strayed, result, call, rpc>>

(* The scheduler allocates blocks and submits the work as a batch; when the *)
(* queue is full the allocation is undone, which is no step here.           *)
Schedule(r, w, tokens) ==
  LET e    == request[r].executor
      item == workItem(w, r, tokens)
      a    == newAllocation(mgr[e], item)
  IN
  /\ result[r] = "none"
  /\ Len(batches[e]) < BatchCap
  /\ AllocateBlocksFor(r, w, tokens)
  /\ IF canAllocate(mgr[e], requiredBlocks(mgr[e], item))
     THEN /\ batches' = [batches EXCEPT ![e] = Append(@,
               [work |-> w, request |-> r, prompt |-> request[r].prompt, table |-> a.blockTable,
                allocated |-> a.allocated, from |-> request[r].computed, to |-> tokens,
                awaited |-> TRUE])]
          /\ result' = [result EXCEPT ![r] = "waiting"]
     ELSE UNCHANGED <<batches, result>>
  /\ UNCHANGED <<executor, late, strayed, call, rpc>>

(* The event of the request's batch is consumed; a request whose batch      *)
(* failed only ends.                                                        *)
FinalizeWork(e, w) ==
  LET r == mgr[e].pendingAllocations[w].request IN
  /\ w \in DOMAIN mgr[e].pendingAllocations
  /\ \/ result[r] = "ok" /\ CommitWork(e, w)
        /\ result' = [result EXCEPT ![r] = "none"]
     \/ result[r] = "error" /\ RollbackWork(e, w)
        /\ result' = [result EXCEPT ![r] = "failed"]
  /\ UNCHANGED <<executor, onTheWay, strayed, call, rpc>>

unawaited(s, r) ==
  [i \in DOMAIN s |-> IF s[i].request = r THEN [s[i] EXCEPT !.awaited = FALSE] ELSE s[i]]

(* A request finishes, fails or is cancelled, perhaps with a batch on its   *)
(* way: neither batchChan nor the executor is told.                         *)
End(r) ==
  /\ FreeRequestOf(r)
  /\ batches' = [e \in Executors |-> unawaited(batches[e], r)]
  /\ result' = [result EXCEPT ![r] = "none"]
  /\ UNCHANGED <<executor, late, strayed, call, rpc>>

-----------------------------------------------------------------------------
(* What the Engine relies on *)

tableOf(r) == Lookup(mgr[request[r].executor].requestBlocks, r)

(* How far a request's KV is taken to be computed: up to its last committed *)
(* work, or up to the work whose batch has just been run.                   *)
claimed(r) ==
  LET m == mgr[request[r].executor] IN
  IF result[r] \in {"none", "waiting"} THEN {request[r].computed}
  ELSE IF result[r] = "ok" THEN {m.pendingAllocations[w].tokens : w \in worksOf(m, r)}
  ELSE {}

(* A step keeps the slots of e that somebody relies on: those of indexed    *)
(* blocks, those that hold a live request's computed KV, and those imported *)
(* for a caller that has not committed them yet.                            *)
KeepsReliedSlots(e) ==
  LET keeps(b, s) == kv'[e][b][s] = kv[e][b][s] IN
  /\ \A h \in DOMAIN mgr[e].cachedBlocks : \A s \in 1..BlockSize[e] :
       keeps(mgr[e].cachedBlocks[h], s)
  /\ \A r \in Requests : request[r].live /\ request[r].executor = e =>
       \A n \in claimed(r) : \A p \in 1..n :
         keeps(blockAt(BlockSize[e], tableOf(r), p), slotAt(BlockSize[e], p))
  /\ \A t \in Transfers :
       call[t] = "waiting" /\ rpc[t].step = "imported" /\ transfer[t].destination = e =>
         \A b \in Range(transfer[t].destinationBlocks) : \A s \in 1..BlockSize[e] : keeps(b, s)

-----------------------------------------------------------------------------
(* execute_batch *)

content(item, p) ==
  IF p <= Len(item.prompt.tokens) THEN prefixKV(item.prompt, p) ELSE <<item.request, p>>

readsOwnKV(e, cache, item) ==
  \A p \in 1..item.from : slot(BlockSize[e], cache, item.table, p) = content(item, p)

ran(e, cache, item) ==
  write(BlockSize[e], cache, item.table,
        [p \in (item.from + 1)..item.to |->
           IF readsOwnKV(e, cache, item) THEN content(item, p) ELSE Corrupt])

answered(item, answer) == IF item.awaited THEN [result EXCEPT ![item.request] = answer] ELSE result

(* A batch runs: it clears the blocks allocated for it, gathers and writes. *)
(* It may also be refused, fail before its writes, or run with its response *)
(* lost.                                                                    *)
execute_batch(e, item) ==
  LET cleared == release(kv[e], Range(item.allocated))
      works   == gatherable(BlockSize[e], cleared, item.table, item.from)
  IN
  /\ \/ /\ accepts(e) /\ works
        /\ kv' = [kv EXCEPT ![e] = ran(e, cleared, item)]
        /\ \E answer \in {"ok", "error"} : result' = answered(item, answer)
     \/ /\ accepts(e)
        /\ kv' = [kv EXCEPT ![e] = cleared]
        /\ result' = answered(item, "error")
     \/ UNCHANGED kv /\ result' = answered(item, "error")
  /\ strayed' = (strayed \/ (~item.awaited /\ ~KeepsReliedSlots(e)))
  /\ UNCHANGED <<vars, epoch, failed, call, rpc>>

(* The batch that consumeExecutor has sent runs and is answered. *)
RunBatch(e) ==
  /\ batches[e] # << >>
  /\ execute_batch(e, Head(batches[e]))
  /\ batches' = [batches EXCEPT ![e] = Tail(@)]
  /\ UNCHANGED late

(* The HTTP client's timeout ends the call and consumeExecutor goes on to   *)
(* the next batch; the executor is not told.                                *)
TimeOut(e) ==
  LET item == Head(batches[e]) IN
  /\ batches[e] # << >>
  /\ SumFunction([f \in Executors |-> Cardinality(late[f])]) < MaxLate
  /\ batches' = [batches EXCEPT ![e] = Tail(@)]
  /\ late' = [late EXCEPT ![e] = @ \cup {[item EXCEPT !.awaited = FALSE]}]
  /\ result' = answered(item, "error")
  /\ UNCHANGED <<vars, executor, strayed, call, rpc>>

(* A batch given up arrives after all, before or behind any other: the      *)
(* executor runs batches in the order in which they get its lock.  Batches  *)
(* of two lives of a request can be equal; then one of them remains.        *)
RunLate(e, item) ==
  /\ item \in late[e]
  /\ execute_batch(e, item)
  /\ \E rest \in {late[e], late[e] \ {item}} : late' = [late EXCEPT ![e] = rest]
  /\ UNCHANGED batches

(* The process restarts with an empty cache and a new epoch. *)
Restart(e) ==
  /\ SumFunction(epoch) < MaxRestarts
  /\ epoch' = [epoch EXCEPT ![e] = @ + 1]
  /\ kv' = [kv EXCEPT ![e] = emptyCache(BlockSize[e], NumBlocks[e])]
  /\ failed' = failed \ {e}
  /\ UNCHANGED <<vars, onTheWay, strayed, result, call, rpc>>

-----------------------------------------------------------------------------
(* Coordinator.Replicate *)

(* A call that fails before PrepareTransfer has pinned the source changes   *)
(* nothing and is not a step.                                               *)
Replicate(t, source, destination, hashes) ==
  /\ call[t] = "idle"
  /\ KVCompatibilityID[source] # NoCompatibility
  /\ KVCompatibilityID[source] = KVCompatibilityID[destination]
  /\ destination \in HasEndpoint
  /\ PrepareTransfer(t, source, destination, hashes)
  /\ call' = [call EXCEPT ![t] = "preparing"]
  /\ UNCHANGED <<executor, onTheWay, strayed, result, rpc>>

(* The second half of PrepareTransfer.  The request copies the plan. *)
Reserve(t) ==
  LET plan == transfer[t]
      dst  == mgr[plan.destination]
      n    == Len(plan.hashes)
  IN
  /\ call[t] = "preparing"
  /\ ReserveDestination(t)
  /\ IF canAllocate(dst, n)
     THEN /\ call' = [call EXCEPT ![t] = "waiting"]
          /\ rpc' = [rpc EXCEPT ![t] =
               [step |-> "trigger", source |-> plan.source, destination |-> plan.destination,
                sourceBlocks |-> plan.sourceBlocks, destinationBlocks |-> popped(dst, n),
                payload |-> << >>]]
     ELSE /\ call' = [call EXCEPT ![t] = "refused"]
          /\ UNCHANGED rpc
  /\ UNCHANGED <<executor, onTheWay, strayed, result>>

(* Mutant: Replicate commits without waiting for the confirmation. *)
ConfirmUnheard(t) ==
  /\ call[t] = "waiting"
  /\ CommitTransfer(t)
  /\ call' = [call EXCEPT ![t] = "committed"]
  /\ UNCHANGED <<executor, onTheWay, strayed, result, rpc>>

(* A response arrived; it names the transfer, executors and epochs that     *)
(* both handlers have compared with their own.                              *)
validateResponse(t) == rpc[t].step = "imported"

Confirm(t) ==
  /\ call[t] = "waiting"
  /\ validateResponse(t)
  /\ CommitTransfer(t)
  /\ call' = [call EXCEPT ![t] = "committed"]
  /\ UNCHANGED <<executor, onTheWay, strayed, result, rpc>>

(* Mutant: an error returns without rolling the transfer back. *)
rollbackForgets(t) ==
  /\ call[t] = "waiting"
  /\ call' = [call EXCEPT ![t] = "aborted"]
  /\ UNCHANGED <<vars, executor, onTheWay, strayed, result, rpc>>

(* An error, or the timeout of the HTTP client, at any time before a        *)
(* response is read; the call at the executors is not undone.               *)
rollback(t) ==
  /\ call[t] = "waiting"
  /\ RollbackTransfer(t)
  /\ call' = [call EXCEPT ![t] = "aborted"]
  /\ UNCHANGED <<executor, onTheWay, strayed, result, rpc>>

(* The last half of PrepareTransfer, CommitTransfer and RollbackTransfer. *)
Release(t) ==
  /\ ReleaseSource(t)
  /\ UNCHANGED <<executor, onTheWay, strayed, result, call, rpc>>

-----------------------------------------------------------------------------
(* TriggerKVPush at the source and PushKV at the destination *)

(* A block is exported only when all its slots are valid. *)
exportable(e, ids) == \A b \in Range(ids) : \A s \in 1..BlockSize[e] : kv[e][b][s] # Empty

trigger_kv_push(t) ==
  LET q == rpc[t] IN
  /\ q.step = "trigger"
  /\ rpc' = IF accepts(q.source) /\ exportable(q.source, q.sourceBlocks)
            THEN [rpc EXCEPT ![t].step = "push",
                             ![t].payload = [i \in DOMAIN q.sourceBlocks |-> kv[q.source][q.sourceBlocks[i]]]]
            ELSE [rpc EXCEPT ![t] = over("error")]
  /\ UNCHANGED <<vars, executor, onTheWay, strayed, result, call>>

(* Mutant: the destination blocks are overwritten whatever they hold. *)
validate_destinationNever(e, ids) == TRUE

validate_destination(e, ids) ==
  \A b \in Range(ids) : \A s \in 1..BlockSize[e] : kv[e][b][s] = Empty

import_blocks(cache, ids, payload) ==
  [b \in DOMAIN cache |-> IF \E i \in DOMAIN ids : ids[i] = b
                          THEN payload[CHOOSE i \in DOMAIN ids : ids[i] = b] ELSE cache[b]]

(* The import succeeds; or it fails and the blocks are invalidated; or that *)
(* fails too, with some slots valid, and the executor refuses all further   *)
(* calls.                                                                   *)
push_kv(t) ==
  LET q == rpc[t]
      e == q.destination
  IN
  /\ q.step = "push"
  /\ IF accepts(e) /\ validate_destination(e, q.destinationBlocks)
     THEN \/ /\ kv' = [kv EXCEPT ![e] = import_blocks(@, q.destinationBlocks, q.payload)]
             /\ rpc' = [rpc EXCEPT ![t] = over("imported")]
             /\ UNCHANGED failed
          \/ /\ kv' = [kv EXCEPT ![e] = release(@, Range(q.destinationBlocks))]
             /\ rpc' = [rpc EXCEPT ![t] = over("error")]
             /\ UNCHANGED failed
          \/ /\ kv' = [kv EXCEPT ![e] = import_blocks(@, q.destinationBlocks,
                         [i \in DOMAIN q.payload |-> [s \in 1..BlockSize[e] |-> Corrupt]])]
             /\ failed' = failed \cup {e}
             /\ rpc' = [rpc EXCEPT ![t] = over("error")]
     ELSE /\ rpc' = [rpc EXCEPT ![t] = over("error")]
          /\ UNCHANGED <<kv, failed>>
  /\ UNCHANGED <<vars, epoch, onTheWay, strayed, result, call>>

(* A request or a response between the three processes is lost. *)
LoseRPC(t) ==
  /\ rpc[t].step \in {"trigger", "push", "imported"}
  /\ rpc' = [rpc EXCEPT ![t] = over(IF @.step = "imported" THEN "unheard" ELSE "error")]
  /\ UNCHANGED <<vars, executor, onTheWay, strayed, result, call>>

-----------------------------------------------------------------------------
ServingNext ==
  \/ \E r \in Requests, e \in Executors, p \in Prompts : Admit(r, e, p)
  \/ \E r \in Requests, w \in Works : \E n \in nextTokens(r) : Schedule(r, w, n)
  \/ \E e \in Executors, w \in Works : FinalizeWork(e, w)
  \/ \E r \in Requests : End(r)
  \/ \E e \in Executors : \/ RunBatch(e) \/ TimeOut(e) \/ Restart(e)
                         \/ \E item \in late[e] : RunLate(e, item)

ReplicateNext(t) ==
  \/ \E s, d \in Executors, hs \in HashPrefixes : Replicate(t, s, d, hs)
  \/ Reserve(t) \/ Confirm(t) \/ rollback(t) \/ Release(t)

ReplicationNext ==
  \/ ServingNext
  \/ \E t \in Transfers : ReplicateNext(t) \/ trigger_kv_push(t) \/ push_kv(t) \/ LoseRPC(t)

ReplicationSpec == ReplicationInit /\ [][ReplicationNext]_replicationVars

(* The goroutine of a Replicate call keeps running: a lock it waits for is  *)
(* released, and the HTTP client's timeout bounds its wait for an answer.   *)
(* Nothing is assumed of the executors and of the network.                  *)
FairSpec ==
  /\ ReplicationSpec
  /\ \A t \in Transfers : /\ WF_replicationVars(Reserve(t))
                          /\ WF_replicationVars(Confirm(t) \/ rollback(t))
                          /\ WF_replicationVars(Release(t))

-----------------------------------------------------------------------------
(* Properties *)

ReplicationTypeOK ==
  /\ TypeOK
  /\ epoch \in [Executors -> Nat] /\ failed \subseteq Executors
  /\ result \in [Requests -> {"none", "waiting", "ok", "error", "failed"}]
  /\ call \in [Transfers -> {"idle", "preparing", "refused", "waiting", "committed", "aborted"}]
  /\ \A t \in Transfers :
       /\ rpc[t].step \in {"none", "trigger", "push", "imported", "unheard", "error"}
       /\ rpc[t].destinationBlocks \in Seq(BlockIds(rpc[t].destination))

(* "Success means all layers' K/V writes have completed on the destination  *)
(* device and the imported prefix is ready for inference"                   *)
(* (proto/kvtide/v1/executor.proto:171), and the index offers "the cached   *)
(* prefix blocks that can be reused" (internal/model/component.go:28):      *)
(* while an executor keeps the epoch the Engine knows, every block that the *)
(* Engine's prefix index offers holds the KV of exactly that prefix.        *)
IndexedBlocksHoldKV ==
  \A e \in Executors : epoch[e] = RuntimeEpoch =>
    \A h \in DOMAIN mgr[e].cachedBlocks : \A s \in 1..BlockSize[e] :
      kv[e][mgr[e].cachedBlocks[h]][s] = SubSeq(h, 1, Len(h) - BlockSize[e] + s)

(* Only a batch that nobody awaits can break this, and only in the step in  *)
(* which it overwrites or clears a slot that was relied on: not a late push *)
(* or one whose caller gave up, an import or a batch that fails halfway, a  *)
(* restart, or a batch in a block that has since been given to another.     *)
OnlyStraysSpoilIndex == ~strayed => IndexedBlocksHoldKV

(* Likewise, a batch that its request waits for and that the executor would *)
(* not refuse finds the KV of its own text: a restarted executor with an    *)
(* empty cache, or one whose cache failed, never gets to run it.            *)
OnlyStraysSpoilReads ==
  ~strayed =>
    \A e \in Executors : accepts(e) =>
      \A i \in DOMAIN batches[e] :
        batches[e][i].awaited => readsOwnKV(e, kv[e], batches[e][i])

(* A Replicate call is a transaction: it commits only what the destination  *)
(* confirmed, ends whatever is lost or restarts, and undoes nothing twice.  *)
TransferStatus ==
  [t \in Transfers |->
     IF call[t] = "waiting" THEN "open"
     ELSE IF call[t] \in {"committed", "aborted"} THEN call[t] ELSE "idle"]

Transactions == INSTANCE Transaction WITH
  Transfers <- Transfers,
  status    <- TransferStatus,
  imported  <- {t \in Transfers : rpc[t].step \in {"imported", "unheard"}}

ImplementsTransaction == Transactions!Spec

(* After the call has returned, whichever way, no block is held for it. *)
TransferBlocksReturned ==
  \A t \in Transfers : call[t] = "preparing" ~> transfer[t].step = "idle"

=============================================================================
