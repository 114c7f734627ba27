---------------------------- MODULE CacheProofs -----------------------------
(***************************************************************************)
(* The composed system keeps the registry's protocol, its types and the    *)
(* transaction that a Replicate call promises; and the KV caches of the    *)
(* executors follow the Engine's prefix index: the invariant CacheFollows  *)
(* of Replication, and the lemmas that CacheTheorems needs to show that    *)
(* every step keeps it but one in which a batch strays.                    *)
(*                                                                         *)
(* The index alone says nothing of the slots.  So the invariant says of    *)
(* each kind of slot that the Engine relies on (of an indexed block, of a  *)
(* live request's computed text, of an import not yet committed) what it   *)
(* holds.  An awaited batch writes to blocks of its request alone, and an  *)
(* import to empty blocks, where nothing is relied on.  The blocks of a    *)
(* batch that nobody awaits may be anybody's by now: nothing is known of   *)
(* it but that it has not strayed.                                         *)
(***************************************************************************)
EXTENDS Replication, RegistryTheorems

-----------------------------------------------------------------------------
(* The registry within the composed system *)

(* A step of the system is a step of the block registry, or leaves it       *)
(* alone.                                                                   *)
LEMMA RegistryStep == ReplicationNext => [Next]_vars
  <1> SUFFICES ASSUME ReplicationNext PROVE Next \/ UNCHANGED vars
    OBVIOUS
  <1>1. CASE ServingNext
    <2>1. ASSUME NEW r \in Requests, NEW e \in Executors, NEW p \in Prompts, Admit(r, e, p)
          PROVE  Next
      BY <2>1 DEF Admit, Next, RequestNext
    <2>2. ASSUME NEW r \in Requests, NEW w \in Works, NEW n \in nextTokens(r), Schedule(r, w, n)
          PROVE  Next
      BY <2>2 DEF Schedule, Next, RequestNext
    <2>3. ASSUME NEW e \in Executors, NEW w \in Works, FinalizeWork(e, w)
          PROVE  Next
      BY <2>3 DEF FinalizeWork, Next, RequestNext
    <2>4. ASSUME NEW r \in Requests, End(r)
          PROVE  Next
      BY <2>4 DEF End, Next, RequestNext
    <2>5. ASSUME NEW e \in Executors, RunBatch(e) \/ TimeOut(e) \/ Restart(e)
          PROVE  UNCHANGED vars
      BY <2>5 DEF RunBatch, execute_batch, TimeOut, Restart
    <2>6. ASSUME NEW e \in Executors, NEW item \in late[e], RunLate(e, item)
          PROVE  UNCHANGED vars
      BY <2>6 DEF RunLate, execute_batch
    <2> QED
      BY <1>1, <2>1, <2>2, <2>3, <2>4, <2>5, <2>6 DEF ServingNext
  <1>2. ASSUME NEW t \in Transfers, ReplicateNext(t)
        PROVE  Next
    <2>1. ASSUME NEW s \in Executors, NEW d \in Executors, NEW hs \in HashPrefixes,
                 Replicate(t, s, d, hs)
          PROVE  Next
      BY <2>1 DEF Replicate, Next, TransferNext
    <2>2. ASSUME Reserve(t) \/ Confirm(t) \/ rollback(t) \/ Release(t)
          PROVE  Next
      BY <2>2 DEF Reserve, Confirm, rollback, Release, Next, TransferNext
    <2> QED
      BY <1>2, <2>1, <2>2 DEF ReplicateNext
  <1>3. ASSUME NEW t \in Transfers, trigger_kv_push(t) \/ push_kv(t) \/ LoseRPC(t)
        PROVE  UNCHANGED vars
    BY <1>3 DEF trigger_kv_push, push_kv, LoseRPC
  <1> QED
    BY <1>1, <1>2, <1>3 DEF ReplicationNext

(* The coordinator, the scheduler and the request state manager keep the    *)
(* registry's protocol whatever the executors and the network do, so that   *)
(* every safety theorem about the registry's Spec holds in the composed     *)
(* system.                                                                  *)
THEOREM ReplicationKeepsProtocol == ReplicationSpec => Spec
  <1>1. ReplicationInit => Init
    BY DEF ReplicationInit
  <1>2. [ReplicationNext]_replicationVars => [Next]_vars
    BY RegistryStep DEF replicationVars
  <1> QED
    BY <1>1, <1>2, PTL DEF ReplicationSpec, Spec

(* In the composed system too, the references of requests and transfers     *)
(* account for every block.                                                 *)
THEOREM ReplicationHeld == ReplicationSpec => [](Inv /\ Held)
  BY ReplicationKeepsProtocol, RegistryHeld, PTL

-----------------------------------------------------------------------------
(* Types *)

RPCFields == {"step", "source", "destination", "sourceBlocks", "destinationBlocks", "payload"}

RPCTyped(q) ==
  /\ DOMAIN q = RPCFields
  /\ q.step \in {"none", "trigger", "push", "imported", "unheard", "error"}
  /\ q.source \in Executors /\ q.destination \in Executors
  /\ q.destinationBlocks \in Seq(BlockIds(q.destination))

CallsTyped ==
  /\ call \in [Transfers -> {"idle", "preparing", "refused", "waiting", "committed", "aborted"}]
  /\ DOMAIN rpc = Transfers
  /\ \A t \in Transfers : RPCTyped(rpc[t])

ExecutorsTyped ==
  /\ epoch \in [Executors -> Nat] /\ failed \subseteq Executors
  /\ result \in [Requests -> {"none", "waiting", "ok", "error", "failed"}]

(* A call that is over names some executor and no blocks. *)
LEMMA NoRPCTyped ==
  /\ RPCTyped(noRPC) /\ noRPC.step = "none"
  /\ \A step \in {"imported", "unheard", "error"} : RPCTyped(over(step)) /\ over(step).step = step
  <1> DEFINE x == CHOOSE e \in Executors : TRUE
  <1>1. x \in Executors
    BY ExecutorsAssumption
  <1>2. noRPC = [step |-> "none", source |-> x, destination |-> x, sourceBlocks |-> << >>,
                 destinationBlocks |-> << >>, payload |-> << >>]
    BY DEF noRPC
  <1> HIDE DEF x
  <1>3. \A step : over(step) = [step |-> step, source |-> x, destination |-> x, sourceBlocks |-> << >>,
                                destinationBlocks |-> << >>, payload |-> << >>]
    BY <1>2 DEF over
  <1>4. << >> \in Seq(BlockIds(x))
    OBVIOUS
  <1>5. RPCTyped(noRPC) /\ noRPC.step = "none"
    BY <1>1, <1>2, <1>4 DEF RPCTyped, RPCFields
  <1>6. ASSUME NEW step \in {"imported", "unheard", "error"}
        PROVE  RPCTyped(over(step)) /\ over(step).step = step
    <2> DEFINE q == over(step)
    <2>1. q = [step |-> step, source |-> x, destination |-> x, sourceBlocks |-> << >>,
               destinationBlocks |-> << >>, payload |-> << >>]
      BY <1>3
    <2> HIDE DEF q
    <2>2. RPCTyped(q) /\ q.step = step
      BY <1>1, <1>4, <2>1 DEF RPCTyped, RPCFields
    <2> QED
      BY <2>2 DEF q
  <1> QED
    BY <1>5, <1>6

(* The record of one call changes, to one of the right type. *)
LEMMA RPCUpdateTyped ==
  ASSUME CallsTyped, NEW t \in Transfers, NEW q, RPCTyped(q), rpc' = [rpc EXCEPT ![t] = q]
  PROVE  DOMAIN rpc' = Transfers /\ \A u \in Transfers : RPCTyped(rpc'[u])
  <1>1. DOMAIN rpc' = Transfers /\ rpc'[t] = q /\ \A u \in Transfers : u # t => rpc'[u] = rpc[u]
    BY DEF CallsTyped
  <1> QED
    BY <1>1 DEF CallsTyped

(* The first answer of the source makes its snapshot the payload. *)
LEMMA TriggerTyped ==
  ASSUME CallsTyped, NEW t \in Transfers, trigger_kv_push(t)
  PROVE  \E q : RPCTyped(q) /\ rpc' = [rpc EXCEPT ![t] = q]
  <1> DEFINE q    == rpc[t]
             data == [i \in DOMAIN q.sourceBlocks |-> kv[q.source][q.sourceBlocks[i]]]
             next == [[q EXCEPT !.step = "push"] EXCEPT !.payload = data]
  <1>1. RPCTyped(q) /\ DOMAIN rpc = Transfers
    BY DEF CallsTyped
  <1>2. CASE rpc' = [rpc EXCEPT ![t] = over("error")]
    BY <1>2, NoRPCTyped
  <1>3. CASE rpc' = [rpc EXCEPT ![t].step = "push", ![t].payload = data]
    <2> HIDE DEF data
    <2>1. rpc' = [rpc EXCEPT ![t] = next]
      BY <1>1, <1>3 DEF RPCTyped, RPCFields
    <2>2. RPCTyped(next)
      BY <1>1 DEF RPCTyped, RPCFields
    <2> QED
      BY <2>1, <2>2
  <1> QED
    BY <1>2, <1>3 DEF trigger_kv_push

(* Every record that a step gives a call is of the right type. *)
LEMMA RPCStepTyped ==
  ASSUME CallsTyped, TypeOK, TypeOK', ReplicationNext
  PROVE  \/ UNCHANGED rpc
         \/ \E t \in Transfers : \E q : RPCTyped(q) /\ rpc' = [rpc EXCEPT ![t] = q]
  <1>1. CASE ServingNext
    BY <1>1 DEF ServingNext, Admit, Schedule, FinalizeWork, End, RunBatch, RunLate, execute_batch, TimeOut, Restart
  <1>2. ASSUME NEW t \in Transfers, ReplicateNext(t)
        PROVE  UNCHANGED rpc \/ \E q : RPCTyped(q) /\ rpc' = [rpc EXCEPT ![t] = q]
    <2>1. CASE Reserve(t)
      <3> DEFINE plan == transfer[t]
                 ids  == popped(mgr[plan.destination], Len(plan.hashes))
                 q    == [step |-> "trigger", source |-> plan.source, destination |-> plan.destination,
                          sourceBlocks |-> plan.sourceBlocks, destinationBlocks |-> ids, payload |-> << >>]
      <3>1. CASE canAllocate(mgr[plan.destination], Len(plan.hashes))
        <4>1. rpc' = [rpc EXCEPT ![t] = q]
          BY <2>1, <3>1 DEF Reserve
        <4>2. transfer' = [transfer EXCEPT ![t].step = "pending", ![t].destinationBlocks = ids]
          BY <2>1, <3>1 DEF Reserve, ReserveDestination
        <4>3. PlanOK(plan) /\ PlanOK(transfer'[t]) /\ DOMAIN transfer = Transfers
          BY DEF TypeOK
        <4> HIDE DEF plan, ids
        <4>4. transfer'[t].destinationBlocks = ids /\ transfer'[t].destination = plan.destination
          BY <4>2, <4>3 DEF PlanOK, plan
        <4>5. RPCTyped(q)
          BY <4>3, <4>4 DEF PlanOK, RPCTyped, RPCFields
        <4> QED
          BY <4>1, <4>5
      <3>2. CASE ~canAllocate(mgr[plan.destination], Len(plan.hashes))
        BY <2>1, <3>2 DEF Reserve
      <3> QED
        BY <3>1, <3>2
    <2>2. CASE ~Reserve(t)
      BY <1>2, <2>2 DEF ReplicateNext, Replicate, Confirm, rollback, Release
    <2> QED
      BY <2>1, <2>2
  <1>3. ASSUME NEW t \in Transfers, trigger_kv_push(t)
        PROVE  \E q : RPCTyped(q) /\ rpc' = [rpc EXCEPT ![t] = q]
    BY <1>3, TriggerTyped
  <1>4. ASSUME NEW t \in Transfers, push_kv(t)
        PROVE  \E q : RPCTyped(q) /\ rpc' = [rpc EXCEPT ![t] = q]
    <2>1. \E step \in {"imported", "error"} : rpc' = [rpc EXCEPT ![t] = over(step)]
      BY <1>4 DEF push_kv
    <2> QED
      BY <2>1, NoRPCTyped
  <1>5. ASSUME NEW t \in Transfers, LoseRPC(t)
        PROVE  \E q : RPCTyped(q) /\ rpc' = [rpc EXCEPT ![t] = q]
    <2>1. \E step \in {"unheard", "error"} : rpc' = [rpc EXCEPT ![t] = over(step)]
      BY <1>5 DEF LoseRPC
    <2> QED
      BY <2>1, NoRPCTyped
  <1> QED
    BY <1>1, <1>2, <1>3, <1>4, <1>5 DEF ReplicationNext

(* The Engine's view of the calls, and the calls themselves, keep their     *)
(* types.                                                                   *)
LEMMA CallsTypedStep ==
  ASSUME CallsTyped, TypeOK, TypeOK', ReplicationNext
  PROVE  CallsTyped'
  <1>1. DOMAIN rpc' = Transfers /\ \A t \in Transfers : RPCTyped(rpc'[t])
    BY RPCStepTyped, RPCUpdateTyped DEF CallsTyped
  <1>2. \/ UNCHANGED call
        \/ \E t \in Transfers : \E c \in {"preparing", "refused", "waiting", "committed", "aborted"} :
             call' = [call EXCEPT ![t] = c]
    <2>1. CASE ServingNext
      BY <2>1 DEF ServingNext, Admit, Schedule, FinalizeWork, End, RunBatch, RunLate, execute_batch, TimeOut, Restart
    <2>2. ASSUME NEW t \in Transfers, ReplicateNext(t)
          PROVE  \/ UNCHANGED call
                 \/ \E c \in {"preparing", "refused", "waiting", "committed", "aborted"} :
                      call' = [call EXCEPT ![t] = c]
      BY <2>2 DEF ReplicateNext, Replicate, Reserve, Confirm, rollback, Release
    <2>3. ASSUME NEW t \in Transfers, trigger_kv_push(t) \/ push_kv(t) \/ LoseRPC(t)
          PROVE  UNCHANGED call
      BY <2>3 DEF trigger_kv_push, push_kv, LoseRPC
    <2> QED
      BY <2>1, <2>2, <2>3 DEF ReplicationNext
  <1>3. call' \in [Transfers -> {"idle", "preparing", "refused", "waiting", "committed", "aborted"}]
    BY <1>2 DEF CallsTyped
  <1> QED
    BY <1>1, <1>3 DEF CallsTyped

(* So do the epochs, the failed executors and the results. *)
LEMMA ExecutorsTypedStep ==
  ASSUME ExecutorsTyped, CallsTyped, ReplicationNext
  PROVE  ExecutorsTyped'
  <1> DEFINE Results == {"none", "waiting", "ok", "error", "failed"}
  <1>1. \A item : \A answer \in {"ok", "error"} : answered(item, answer) \in [Requests -> Results]
    BY DEF answered, ExecutorsTyped
  <1>2. CASE ServingNext
    <2>a. ASSUME NEW e \in Executors, NEW item, execute_batch(e, item)
          PROVE  ExecutorsTyped'
      <3>1. UNCHANGED <<epoch, failed>> /\ \E answer \in {"ok", "error"} : result' = answered(item, answer)
        BY <2>a DEF execute_batch
      <3> QED
        BY <1>1, <3>1 DEF ExecutorsTyped
    <2>1. ASSUME NEW e \in Executors, RunBatch(e)
          PROVE  ExecutorsTyped'
      BY <2>1, <2>a DEF RunBatch
    <2>b. ASSUME NEW e \in Executors, NEW item \in late[e], RunLate(e, item)
          PROVE  ExecutorsTyped'
      BY <2>a, <2>b DEF RunLate
    <2>2. ASSUME NEW e \in Executors, TimeOut(e)
          PROVE  ExecutorsTyped'
      BY <1>1, <2>2 DEF TimeOut, ExecutorsTyped, executor
    <2>3. ASSUME NEW e \in Executors, Restart(e)
          PROVE  ExecutorsTyped'
      BY <2>3 DEF Restart, ExecutorsTyped
    <2>4. ASSUME UNCHANGED executor,
                 UNCHANGED result \/ \E r : \E v \in Results : result' = [result EXCEPT ![r] = v]
          PROVE  ExecutorsTyped'
      BY <2>4 DEF ExecutorsTyped, executor
    <2>5. ASSUME NEW r \in Requests, NEW e \in Executors, NEW p \in Prompts, Admit(r, e, p)
          PROVE  ExecutorsTyped'
      BY <2>4, <2>5 DEF Admit
    <2>6. ASSUME NEW r \in Requests, NEW w \in Works, NEW n \in nextTokens(r), Schedule(r, w, n)
          PROVE  ExecutorsTyped'
      <3>1. UNCHANGED result \/ result' = [result EXCEPT ![r] = "waiting"]
        BY <2>6 DEF Schedule
      <3>2. UNCHANGED executor
        BY <2>6 DEF Schedule
      <3> QED
        BY <2>4, <3>1, <3>2
    <2>7. ASSUME NEW e \in Executors, NEW w \in Works, FinalizeWork(e, w)
          PROVE  ExecutorsTyped'
      <3>1. UNCHANGED executor /\ \E r : \E v \in Results : result' = [result EXCEPT ![r] = v]
        BY <2>7 DEF FinalizeWork
      <3> QED
        BY <2>4, <3>1
    <2>8. ASSUME NEW r \in Requests, End(r)
          PROVE  ExecutorsTyped'
      BY <2>4, <2>8 DEF End
    <2> QED
      BY <1>2, <2>1, <2>2, <2>3, <2>5, <2>6, <2>7, <2>8, <2>b DEF ServingNext
  <1>3. ASSUME NEW t \in Transfers, ReplicateNext(t) \/ trigger_kv_push(t) \/ LoseRPC(t)
        PROVE  ExecutorsTyped'
    <2>1. UNCHANGED <<executor, result>>
      BY <1>3 DEF ReplicateNext, Replicate, Reserve, Confirm, rollback, Release, trigger_kv_push, LoseRPC
    <2> QED
      BY <2>1 DEF executor, ExecutorsTyped
  <1>4. ASSUME NEW t \in Transfers, push_kv(t)
        PROVE  ExecutorsTyped'
    <2>1. rpc[t].destination \in Executors
      BY DEF CallsTyped, RPCTyped
    <2>2. UNCHANGED <<epoch, result>> /\ (failed' = failed \/ failed' = failed \cup {rpc[t].destination})
      BY <1>4 DEF push_kv
    <2> QED
      BY <2>1, <2>2 DEF ExecutorsTyped
  <1> QED
    BY <1>2, <1>3, <1>4 DEF ReplicationNext

(* The calls and the executors are of their types in every state. *)
THEOREM SystemTyped == ReplicationSpec => [](Inv /\ Held /\ CallsTyped /\ ExecutorsTyped)
  <1> DEFINE Typed == CallsTyped /\ ExecutorsTyped
  <1>1. ReplicationInit => Typed
    <2> SUFFICES ASSUME ReplicationInit PROVE Typed
      OBVIOUS
    <2>1. CallsTyped
      BY NoRPCTyped DEF ReplicationInit, CallsTyped
    <2>2. ExecutorsTyped
      BY DEF ReplicationInit, ExecutorsTyped, RuntimeEpoch
    <2> QED
      BY <2>1, <2>2
  <1>2. Typed /\ Inv /\ Inv' /\ [ReplicationNext]_replicationVars => Typed'
    <2> SUFFICES ASSUME Typed, Inv, Inv', [ReplicationNext]_replicationVars PROVE Typed'
      OBVIOUS
    <2>1. TypeOK /\ TypeOK'
      BY DEF Inv
    <2>2. CASE ReplicationNext
      BY <2>1, <2>2, CallsTypedStep, ExecutorsTypedStep
    <2>3. CASE UNCHANGED replicationVars
      BY <2>3 DEF replicationVars, executor, CallsTyped, ExecutorsTyped, RPCTyped
    <2> QED
      BY <2>2, <2>3
  <1>3. Typed => CallsTyped /\ ExecutorsTyped
    OBVIOUS
  <1> HIDE DEF Typed
  <1> QED
    BY <1>1, <1>2, <1>3, ReplicationHeld, PTL DEF ReplicationSpec

(* Type correctness of the composed system: whatever is lost, late or       *)
(* restarted, a push only ever names blocks of its destination executor.    *)
THEOREM ReplicationTypes == ReplicationSpec => []ReplicationTypeOK
  <1>1. Inv /\ CallsTyped /\ ExecutorsTyped => ReplicationTypeOK
    BY DEF Inv, CallsTyped, ExecutorsTyped, RPCTyped, ReplicationTypeOK
  <1> QED
    BY <1>1, SystemTyped, PTL

-----------------------------------------------------------------------------
(* A Replicate call is a transaction *)

(* How far a call got at the executors and at its caller: nothing is sent   *)
(* before the destination is reserved, and what is committed was imported.  *)
CallOrder ==
  \A t \in Transfers :
    /\ rpc[t].step # "none" => call[t] \in {"waiting", "committed", "aborted"}
    /\ call[t] = "committed" => rpc[t].step \in {"imported", "unheard"}

ImportedTransfers == {t \in Transfers : rpc[t].step \in {"imported", "unheard"}}

(* Only the caller that waits or gave up is passed by its push. *)
LEMMA PushOrder ==
  ASSUME CallsTyped, CallOrder, NEW t \in Transfers, rpc[t].step \in {"trigger", "push"}
  PROVE  call[t] \in {"waiting", "aborted"} /\ t \notin ImportedTransfers
  BY DEF CallOrder, ImportedTransfers

(* A step that leaves the calls alone is not seen by the caller. *)
LEMMA TransactionStutter ==
  ASSUME UNCHANGED <<call, rpc>>
  PROVE  UNCHANGED <<TransferStatus, ImportedTransfers>>
  BY DEF TransferStatus, ImportedTransfers

(* Each step keeps the order and is a step of the transaction. *)
LEMMA TransactionStep ==
  ASSUME CallsTyped, CallOrder, ReplicationNext
  PROVE  /\ CallOrder'
         /\ Transactions!Next \/ UNCHANGED <<TransferStatus, ImportedTransfers>>
  <1> DEFINE S == TransferStatus
             I == ImportedTransfers
  <1>0. DOMAIN call = Transfers /\ DOMAIN rpc = Transfers
    BY DEF CallsTyped
  <1>1. ASSUME UNCHANGED <<call, rpc>>
        PROVE  CallOrder' /\ UNCHANGED <<S, I>>
    <2>1. CallOrder'
      BY <1>1 DEF CallOrder
    <2> QED
      BY <1>1, <2>1, TransactionStutter
  <1>2. CASE ServingNext
    <2>1. UNCHANGED <<call, rpc>>
      BY <1>2 DEF ServingNext, Admit, Schedule, FinalizeWork, End, RunBatch, RunLate, execute_batch, TimeOut, Restart
    <2> QED
      BY <1>1, <2>1
  <1>3. ASSUME NEW t \in Transfers, ReplicateNext(t)
        PROVE  CallOrder' /\ (Transactions!Next \/ UNCHANGED <<S, I>>)
    <2>1. ASSUME NEW c, call' = [call EXCEPT ![t] = c], UNCHANGED rpc,
                 c \in {"preparing", "refused"}, call[t] \in {"idle", "preparing"}
          PROVE  CallOrder' /\ UNCHANGED <<S, I>>
      <3>1. call'[t] = c /\ \A u \in Transfers : u # t => call'[u] = call[u]
        BY <1>0, <2>1
      <3>2. CallOrder'
        BY <2>1, <3>1 DEF CallOrder
      <3>3. S' = S
        BY <2>1, <3>1 DEF TransferStatus
      <3> QED
        BY <2>1, <3>2, <3>3 DEF ImportedTransfers
    <2>2. ASSUME NEW s \in Executors, NEW d \in Executors, NEW hs \in HashPrefixes,
                 Replicate(t, s, d, hs)
          PROVE  CallOrder' /\ UNCHANGED <<S, I>>
      BY <2>1, <2>2 DEF Replicate
    <2>3. CASE Reserve(t)
      <3>1. CASE rpc' = rpc /\ call' = [call EXCEPT ![t] = "refused"]
        BY <2>1, <2>3, <3>1 DEF Reserve
      <3>2. CASE call' = [call EXCEPT ![t] = "waiting"] /\
                 \E q : q.step = "trigger" /\ rpc' = [rpc EXCEPT ![t] = q]
        <4>1. /\ call'[t] = "waiting" /\ rpc'[t].step = "trigger"
              /\ \A u \in Transfers : u # t => call'[u] = call[u] /\ rpc'[u] = rpc[u]
          BY <1>0, <3>2
        <4>2. call[t] = "preparing"
          BY <2>3 DEF Reserve
        <4>3. rpc[t].step = "none"
          BY <4>2 DEF CallOrder
        <4>4. CallOrder'
          BY <4>1 DEF CallOrder
        <4>5. I' = I
          BY <4>1, <4>3 DEF ImportedTransfers
        <4>6. S[t] = "idle" /\ S' = [S EXCEPT ![t] = "open"]
          BY <4>1, <4>2 DEF TransferStatus
        <4> QED
          BY <4>4, <4>5, <4>6 DEF Transactions!Next, Transactions!Open, ImportedTransfers
      <3> QED
        BY <2>3, <3>1, <3>2 DEF Reserve
    <2>4. CASE Confirm(t)
      <3>1. call[t] = "waiting" /\ rpc[t].step = "imported" /\ UNCHANGED rpc
            /\ call' = [call EXCEPT ![t] = "committed"]
        BY <2>4 DEF Confirm, validateResponse
      <3>2. call'[t] = "committed" /\ \A u \in Transfers : u # t => call'[u] = call[u]
        BY <1>0, <3>1
      <3>3. CallOrder'
        BY <3>1, <3>2 DEF CallOrder
      <3>4. S[t] = "open" /\ S' = [S EXCEPT ![t] = "committed"] /\ t \in I /\ I' = I
        BY <3>1, <3>2 DEF TransferStatus, ImportedTransfers
      <3> QED
        BY <3>3, <3>4 DEF Transactions!Next, Transactions!Commit, ImportedTransfers
    <2>5. CASE rollback(t)
      <3>1. call[t] = "waiting" /\ UNCHANGED rpc /\ call' = [call EXCEPT ![t] = "aborted"]
        BY <2>5 DEF rollback
      <3>2. call'[t] = "aborted" /\ \A u \in Transfers : u # t => call'[u] = call[u]
        BY <1>0, <3>1
      <3>3. CallOrder'
        BY <3>1, <3>2 DEF CallOrder
      <3>4. S[t] = "open" /\ S' = [S EXCEPT ![t] = "aborted"] /\ I' = I
        BY <3>1, <3>2 DEF TransferStatus, ImportedTransfers
      <3> QED
        BY <3>3, <3>4 DEF Transactions!Next, Transactions!Abort, ImportedTransfers
    <2>6. CASE Release(t)
      BY <1>1, <2>6 DEF Release
    <2> QED
      BY <1>3, <2>2, <2>3, <2>4, <2>5, <2>6 DEF ReplicateNext
  <1>4. ASSUME NEW t \in Transfers, trigger_kv_push(t) \/ push_kv(t) \/ LoseRPC(t)
        PROVE  CallOrder' /\ (Transactions!Next \/ UNCHANGED <<S, I>>)
    <2>1. UNCHANGED call
      BY <1>4 DEF trigger_kv_push, push_kv, LoseRPC
    <2>2. ASSUME NEW q, rpc' = [rpc EXCEPT ![t] = q], rpc[t].step \in {"trigger", "push"},
                 q.step \in {"push", "error"}
          PROVE  CallOrder' /\ UNCHANGED <<S, I>>
      <3>1. rpc'[t] = q /\ \A u \in Transfers : u # t => rpc'[u] = rpc[u]
        BY <1>0, <2>2
      <3>2. call[t] \in {"waiting", "aborted"} /\ t \notin I
        BY <2>2, PushOrder
      <3>3. CallOrder'
        BY <2>1, <2>2, <3>1, <3>2 DEF CallOrder
      <3>4. I' = I
        BY <2>2, <3>1, <3>2 DEF ImportedTransfers
      <3> QED
        BY <2>1, <3>3, <3>4 DEF TransferStatus
    <2>3. CASE trigger_kv_push(t)
      <3>1. rpc[t].step = "trigger" /\ RPCTyped(rpc[t])
        BY <2>3 DEF trigger_kv_push, CallsTyped
      <3>2. CASE rpc' = [rpc EXCEPT ![t] = over("error")]
        BY <2>2, <3>1, <3>2, NoRPCTyped
      <3>3. ASSUME NEW data, rpc' = [rpc EXCEPT ![t].step = "push", ![t].payload = data]
            PROVE  CallOrder' /\ UNCHANGED <<S, I>>
        <4> DEFINE q == [[rpc[t] EXCEPT !.step = "push"] EXCEPT !.payload = data]
        <4>1. rpc' = [rpc EXCEPT ![t] = q] /\ q.step = "push"
          BY <1>0, <3>1, <3>3 DEF RPCTyped, RPCFields
        <4> HIDE DEF q
        <4> QED
          BY <2>2, <3>1, <4>1
      <3> QED
        BY <2>3, <3>2, <3>3 DEF trigger_kv_push
    <2>4. CASE push_kv(t)
      <3>1. rpc[t].step = "push"
        BY <2>4 DEF push_kv
      <3>2. CASE rpc' = [rpc EXCEPT ![t] = over("error")]
        BY <2>2, <3>1, <3>2, NoRPCTyped
      <3>3. CASE rpc' = [rpc EXCEPT ![t] = over("imported")]
        <4>1. rpc'[t].step = "imported" /\ \A u \in Transfers : u # t => rpc'[u] = rpc[u]
          BY <1>0, <3>3, NoRPCTyped
        <4>2. call[t] \in {"waiting", "aborted"} /\ t \notin I
          BY <3>1, PushOrder
        <4>3. CallOrder'
          BY <2>1, <4>1, <4>2 DEF CallOrder
        <4>4. I' = I \cup {t}
          BY <4>1 DEF ImportedTransfers
        <4>5. S[t] \in {"open", "aborted"} /\ S' = S
          BY <2>1, <4>2 DEF TransferStatus
        <4> QED
          BY <4>2, <4>3, <4>4, <4>5 DEF Transactions!Next, Transactions!Import, ImportedTransfers
      <3> QED
        BY <2>4, <3>2, <3>3 DEF push_kv
    <2>5. CASE LoseRPC(t)
      <3>1. CASE rpc[t].step = "imported"
        <4>1. rpc' = [rpc EXCEPT ![t] = over("unheard")]
          BY <1>0, <2>5, <3>1 DEF LoseRPC
        <4>2. rpc'[t].step = "unheard" /\ \A u \in Transfers : u # t => rpc'[u] = rpc[u]
          BY <1>0, <4>1, NoRPCTyped
        <4>3. CallOrder'
          BY <2>1, <3>1, <4>2 DEF CallOrder
        <4>4. I' = I
          BY <3>1, <4>2 DEF ImportedTransfers
        <4> QED
          BY <2>1, <4>3, <4>4 DEF TransferStatus
      <3>2. CASE rpc[t].step # "imported"
        <4>1. rpc[t].step \in {"trigger", "push"} /\ rpc' = [rpc EXCEPT ![t] = over("error")]
          BY <1>0, <2>5, <3>2 DEF LoseRPC
        <4> QED
          BY <2>2, <4>1, NoRPCTyped
      <3> QED
        BY <3>1, <3>2
    <2> QED
      BY <1>4, <2>3, <2>4, <2>5
  <1> QED
    BY <1>2, <1>3, <1>4 DEF ReplicationNext

(* A Replicate call is a transaction, as far as safety goes: it commits     *)
(* only what the destination confirmed, and ends one way and never both,    *)
(* whatever is lost, late or restarted.                                     *)
THEOREM ReplicationTransaction == ReplicationSpec => Transactions!Safety
  <1> DEFINE step == Transactions!Next \/ UNCHANGED <<TransferStatus, ImportedTransfers>>
  <1>1. ReplicationInit => CallOrder /\ Transactions!Init
    BY NoRPCTyped DEF ReplicationInit, CallOrder, Transactions!Init, TransferStatus
  <1>2. CallsTyped /\ CallOrder /\ [ReplicationNext]_replicationVars => CallOrder' /\ step
    <2> SUFFICES ASSUME CallsTyped, CallOrder, [ReplicationNext]_replicationVars
                 PROVE  CallOrder' /\ step
      OBVIOUS
    <2>1. CASE ReplicationNext
      BY <2>1, TransactionStep
    <2>2. CASE UNCHANGED replicationVars
      <3>1. UNCHANGED <<call, rpc>>
        BY <2>2 DEF replicationVars
      <3>2. CallOrder'
        BY <3>1 DEF CallOrder
      <3> QED
        BY <3>1, <3>2, TransactionStutter
    <2> QED
      BY <2>1, <2>2
  <1>3. step => [Transactions!Next]_<<TransferStatus, {t \in Transfers : rpc[t].step \in {"imported", "unheard"}}>>
    BY DEF ImportedTransfers
  <1> HIDE DEF step
  <1> QED
    BY <1>1, <1>2, <1>3, SystemTyped, PTL DEF ReplicationSpec, Transactions!Safety

-----------------------------------------------------------------------------
(* The inductive invariant, in parts. *)

sameRuntime(e) == epoch[e] = RuntimeEpoch

(* The KV of slot s of a block cached under h. *)
kvOf(bs, h, s) == SubSeq(h, 1, Len(h) - bs + s)

Holds(e, cache, b, h) ==
  \A s \in 1..BlockSize[e] : cache[b][s] = kvOf(BlockSize[e], h, s) /\ cache[b][s] # Empty

(* The blocks that a batch may clear or write. *)
targets(e, item) == {item.table[i] : i \in {j \in DOMAIN item.table : j * BlockSize[e] > item.from}}

(* The first n positions of a table hold the KV of who. *)
Owns(e, cache, table, who, n) ==
  \A p \in 1..n : slot(BlockSize[e], cache, table, p) = content(who, p)

IndexHeld(e, m, cache) == \A h \in DOMAIN m.cachedBlocks : Holds(e, cache, m.cachedBlocks[h], h)

IndexesHeld == \A e \in Executors : sameRuntime(e) => IndexHeld(e, mgr[e], kv[e])

identity(r) == [request |-> r, prompt |-> request[r].prompt]

OwnsUpTo(r, n) ==
  LET e == request[r].executor IN Owns(e, kv[e], tableOf(r), identity(r), n)

(* A live request's computed KV is in its table. *)
ComputedOf(r) ==
  request[r].live /\ sameRuntime(request[r].executor) => \A n \in claimed(r) : OwnsUpTo(r, n)

ComputedHeld == \A r \in Requests : ComputedOf(r)

ResultsOfLive == \A r \in Requests : ~request[r].live => result[r] = "none"

(* What the destination has confirmed is still there. *)
PlanImported(plan, cache) ==
  \A i \in DOMAIN plan.destinationBlocks :
    Holds(plan.destination, cache, plan.destinationBlocks[i], plan.hashes[i])

ImportsHeld ==
  \A t \in Transfers :
    call[t] = "waiting" /\ rpc[t].step = "imported" /\ sameRuntime(transfer[t].destination) =>
      PlanImported(transfer[t], kv[transfer[t].destination])

(* Batches *)
Items(e) ==
  [ work : Works, request : Requests, prompt : Prompts, table : Seq(BlockIds(e)),
    allocated : Seq(BlockIds(e)), from : Nat, to : Nat, awaited : BOOLEAN ]

(* A batch writes within its table, which has no block twice, and clears    *)
(* only blocks of it beyond what it reads.                                  *)
ItemSound(e, item) ==
  /\ item \in Items(e)
  /\ item.from < item.to /\ item.to <= Len(item.table) * BlockSize[e]
  /\ IsInjective(item.table)
  /\ \A b \in Range(item.allocated) : b \in Range(item.table)
  /\ \A i \in DOMAIN item.table :
       item.table[i] \in Range(item.allocated) => (i - 1) * BlockSize[e] >= item.from

BatchesSound ==
  /\ DOMAIN batches = Executors
  /\ \A e \in Executors : /\ batches[e] \in Seq(Items(e))
                          /\ \A i \in DOMAIN batches[e] : ItemSound(e, batches[e][i])

(* Nobody awaits a batch whose call has timed out. *)
LateSound ==
  /\ DOMAIN late = Executors
  /\ \A e \in Executors : \A item \in late[e] : ItemSound(e, item) /\ ~item.awaited

(* The request of a batch that is awaited waits for it, and for no other. *)
ItemAwaited(e, item) ==
  LET r == item.request
      a == mgr[e].pendingAllocations[item.work]
  IN  /\ result[r] = "waiting"
      /\ request[r].live /\ request[r].executor = e
      /\ item.work \in DOMAIN mgr[e].pendingAllocations
      /\ a.request = r /\ a.blockTable = item.table /\ a.allocated = item.allocated
      /\ a.tokens = item.to
      /\ item.from = request[r].computed /\ item.prompt = request[r].prompt

Awaiting ==
  \A e \in Executors : \A i \in DOMAIN batches[e] : batches[e][i].awaited =>
    /\ ItemAwaited(e, batches[e][i])
    /\ \A j \in DOMAIN batches[e] :
         batches[e][j].awaited /\ batches[e][j].request = batches[e][i].request => j = i

(* The caches *)
CacheShape(e, cache) ==
  DOMAIN cache = BlockIds(e) /\ \A b \in BlockIds(e) : DOMAIN cache[b] = 1..BlockSize[e]

CachesShaped == DOMAIN kv = Executors /\ \A e \in Executors : CacheShape(e, kv[e])

(* The block tables reach as far as what is computed and allocated. *)
Covered ==
  /\ \A r \in Requests : request[r].live =>
       request[r].computed <= Len(tableOf(r)) * BlockSize[request[r].executor]
  /\ \A e \in Executors : \A w \in DOMAIN mgr[e].pendingAllocations :
       LET a == mgr[e].pendingAllocations[w] IN
       /\ request[a.request].computed <= (Len(a.blockTable) - Len(a.allocated)) * BlockSize[e]
       /\ a.tokens <= Len(a.blockTable) * BlockSize[e]

(* Calls and plans *)
SizesAgree ==
  \A t \in Transfers : transfer[t].step # "idle" =>
    BlockSize[transfer[t].source] = BlockSize[transfer[t].destination]

(* A call on its way names as many blocks at both ends, of one size, and    *)
(* its payload has whole blocks.                                            *)
RPCSound(q) ==
  /\ q.step \in {"trigger", "push"} =>
       /\ BlockSize[q.source] = BlockSize[q.destination]
       /\ q.sourceBlocks \in Seq(BlockIds(q.source))
       /\ Len(q.sourceBlocks) = Len(q.destinationBlocks)
  /\ q.step = "push" =>
       /\ DOMAIN q.payload = DOMAIN q.destinationBlocks
       /\ \A i \in DOMAIN q.payload : DOMAIN q.payload[i] = 1..BlockSize[q.destination]

(* While its caller waits, a call is about the blocks of the plan, and      *)
(* carries the KV of the plan's hashes.                                     *)
CallSound(q, plan) ==
  /\ plan.step = "pending"
  /\ q.step \in {"trigger", "push"} =>
       /\ q.source = plan.source /\ q.destination = plan.destination
       /\ q.sourceBlocks = plan.sourceBlocks /\ q.destinationBlocks = plan.destinationBlocks
  /\ q.step = "push" =>
       \A i \in DOMAIN plan.hashes : \A s \in 1..BlockSize[plan.destination] :
         /\ q.payload[i][s] = kvOf(BlockSize[plan.destination], plan.hashes[i], s)
         /\ q.payload[i][s] # Empty

CallsSound ==
  \A t \in Transfers : /\ RPCSound(rpc[t])
                       /\ call[t] = "waiting" => CallSound(rpc[t], transfer[t])

CacheFollows ==
  /\ IndexesHeld /\ ComputedHeld /\ ImportsHeld
  /\ BatchesSound /\ LateSound /\ Awaiting /\ ResultsOfLive
  /\ CachesShaped /\ Covered
  /\ SizesAgree /\ CallsSound

-----------------------------------------------------------------------------
(* Positions of a text, blocks and slots *)

(* Position p is slot s of the i-th block of a table. *)
LEMMA Position ==
  ASSUME NEW bs \in Nat, bs > 0, NEW p \in Nat, p >= 1
  PROVE  LET i == ((p - 1) \div bs) + 1
             s == slotAt(bs, p)
         IN  /\ i \in Nat /\ i >= 1 /\ s \in 1..bs
             /\ p = (i - 1) * bs + s /\ (i - 1) * bs < p /\ p <= i * bs
             /\ (i - 1) * bs \in Nat /\ i * bs = (i - 1) * bs + bs
  <1> DEFINE x == p - 1
             d == x \div bs
             s == x % bs
  <1>1. x \in Nat
    OBVIOUS
  <1>2. d \in Nat /\ s \in 0..(bs - 1) /\ x = bs * d + s
    BY <1>1
  <1> HIDE DEF d, s
  <1>3. bs * d = d * bs /\ d * bs \in Nat /\ (d + 1) * bs = d * bs + bs
    BY <1>2
  <1> DEFINE y == d * bs
  <1>4. y \in Nat /\ x = y + s /\ (d + 1) * bs = y + bs
    BY <1>2, <1>3
  <1> HIDE DEF y
  <1>5. /\ d + 1 \in Nat /\ d + 1 >= 1 /\ s + 1 \in 1..bs /\ (d + 1) - 1 = d
        /\ p = y + (s + 1) /\ y < p /\ p <= (d + 1) * bs
    BY <1>2, <1>4
  <1>6. ((d + 1) - 1) * bs = y
    BY <1>2 DEF y
  <1> QED
    BY <1>4, <1>5, <1>6 DEF slotAt, d, s

(* A position determines its block and slot. *)
LEMMA SlotOfPosition ==
  ASSUME NEW bs \in Nat, bs > 0, NEW i \in Nat, i >= 1, NEW s \in 1..bs, NEW p \in Nat,
         p = (i - 1) * bs + s
  PROVE  ((p - 1) \div bs) + 1 = i /\ slotAt(bs, p) = s /\ p >= 1
  <1> DEFINE d == i - 1
             y == d * bs
             x == p - 1
             c == x \div bs
             z == c * bs
             u == x % bs
  <1>1. d \in Nat /\ y \in Nat
    OBVIOUS
  <1>2. x = y + (s - 1) /\ x \in Nat /\ p >= 1
    BY <1>1
  <1>3. c \in Nat /\ u \in 0..(bs - 1) /\ x = bs * c + u
    BY <1>2
  <1>4. z \in Nat /\ bs * c = z
    BY <1>3
  <1>5. /\ c < d => z + bs <= y
        /\ d < c => y + bs <= z
    BY <1>1, <1>3, MulOrder
  <1> HIDE DEF d, y, c, z, u, x
  <1>6. c = d
    BY <1>1, <1>2, <1>3, <1>4, <1>5
  <1>7. y = z
    BY <1>6 DEF y, z
  <1>8. u = s - 1
    BY <1>1, <1>2, <1>3, <1>4, <1>7
  <1> QED
    BY <1>2, <1>6, <1>8 DEF d, c, u, x, slotAt

(* The positions a table of n blocks covers are in one of them. *)
LEMMA PositionInTable ==
  ASSUME NEW bs \in Nat, bs > 0, NEW n \in Nat, NEW p \in Nat, p >= 1, p <= n * bs
  PROVE  ((p - 1) \div bs) + 1 \in 1..n
  <1> DEFINE i == ((p - 1) \div bs) + 1
             y == (i - 1) * bs
             z == n * bs
  <1>1. i \in Nat /\ i >= 1 /\ y < p /\ y \in Nat
    BY Position
  <1>2. z \in Nat /\ p <= z
    OBVIOUS
  <1>3. n <= i - 1 => z <= y
    BY <1>1, MulOrder
  <1> HIDE DEF i, y, z
  <1> QED
    BY <1>1, <1>2, <1>3 DEF i

(* The slots of a block cached under the i-th hash of a prompt are the      *)
(* positions of that prompt in its i-th block.                              *)
LEMMA HashKV ==
  ASSUME NEW e \in Executors, NEW prompt \in Prompts,
         NEW i \in DOMAIN blockHashes(BlockSize[e], prompt), NEW s \in 1..BlockSize[e]
  PROVE  LET p == (i - 1) * BlockSize[e] + s IN
         /\ p \in Nat /\ p >= 1 /\ p <= Len(prompt.tokens)
         /\ kvOf(BlockSize[e], blockHashes(BlockSize[e], prompt)[i], s) = prefixKV(prompt, p)
  <1> DEFINE bs == BlockSize[e]
             L  == Len(prompt.tokens)
             k  == L \div bs
             h  == blockHashes(bs, prompt)[i]
             y  == (i - 1) * bs
             z  == i * bs
             p  == y + s
             tk == prompt.tokens
  <1>1. bs \in Nat /\ bs > 0 /\ tk \in Seq(Int) /\ L \in Nat
    BY SizeFacts, PromptFacts
  <1>2. k \in Nat /\ k * bs <= L
    BY <1>1, DivMul
  <1>3. i \in 1..k /\ h = <<prompt.salt>> \o SubSeq(tk, 1, z)
    BY DEF blockHashes
  <1> HIDE DEF k, h, y, z, bs, L
  <1>4. i \in Nat /\ i >= 1 /\ i <= k /\ s \in Nat /\ s >= 1 /\ s <= bs
    BY <1>1, <1>2, <1>3 DEF bs
  <1>5. y \in Nat /\ z = y + bs /\ z <= k * bs /\ k * bs \in Nat
    <2> DEFINE d == i - 1
    <2>1. d \in Nat /\ i = d + 1
      BY <1>4
    <2> HIDE DEF d
    <2>4. d * bs \in Nat /\ (d + 1) * bs = d * bs + bs
      BY <1>1, <2>1
    <2>2. y \in Nat /\ z = y + bs
      BY <2>1, <2>4 DEF y, z, d
    <2>3. z <= k * bs /\ k * bs \in Nat
      BY <1>1, <1>2, <1>4, MulOrder DEF z
    <2> QED
      BY <2>2, <2>3
  <1> DEFINE kb == k * bs
  <1>6. kb \in Nat /\ z <= kb /\ kb <= L
    BY <1>2, <1>5
  <1> HIDE DEF kb
  <1>7. z \in Nat /\ z <= L /\ p \in Nat /\ p >= 1 /\ p <= z
    BY <1>1, <1>4, <1>5, <1>6
  <1>8. Len(tk) = L /\ SubSeq(tk, 1, z) \in Seq(Int) /\ Len(SubSeq(tk, 1, z)) = z
        /\ \A j \in 1..z : SubSeq(tk, 1, z)[j] = tk[j]
    BY <1>1, <1>7 DEF L
  <1> DEFINE g == SubSeq(tk, 1, z)
             f == SubSeq(tk, 1, p)
  <1>9. f \in Seq(Int) /\ Len(f) = p /\ \A j \in 1..p : f[j] = tk[j]
    BY <1>1, <1>7, <1>8
  <1>10. g \in Seq(Int) /\ Len(g) = z /\ (\A j \in 1..z : g[j] = tk[j]) /\ h = <<prompt.salt>> \o g
    BY <1>3, <1>8
  <1> HIDE DEF g, f
  <1>11. Len(h) = z + 1 /\ h[1] = prompt.salt /\ \A j \in 1..z : h[j + 1] = g[j]
    <2> DEFINE T == Int \cup {prompt.salt}
               v == <<prompt.salt>>
    <2>1. v \in Seq(T) /\ g \in Seq(T) /\ Len(v) = 1 /\ v[1] = prompt.salt /\ h = v \o g
      BY <1>10
    <2> HIDE DEF T, v
    <2>2. /\ Len(v \o g) = Len(v) + Len(g)
          /\ \A j \in 1..(Len(v) + Len(g)) : (v \o g)[j] = IF j <= Len(v) THEN v[j] ELSE g[j - Len(v)]
      BY <2>1, ConcatProperties
    <2>3. Len(h) = z + 1 /\ \A j \in 1..(1 + z) : h[j] = IF j <= 1 THEN v[j] ELSE g[j - 1]
      BY <1>7, <1>10, <2>1, <2>2
    <2>4. /\ 1 \in 1..(1 + z) /\ 1 <= 1
          /\ \A j \in 1..z : j + 1 \in 1..(1 + z) /\ ~(j + 1 <= 1) /\ (j + 1) - 1 = j
      BY <1>7
    <2> QED
      BY <2>1, <2>3, <2>4
  <1>12. Len(h) - bs + s = p + 1
    BY <1>1, <1>4, <1>5, <1>7, <1>11
  <1> HIDE DEF p
  <1>13. kvOf(bs, h, s) = SubSeq(h, 1, p + 1)
    BY <1>12 DEF kvOf
  <1>14. SubSeq(h, 1, p + 1) = <<prompt.salt>> \o f
    <2> DEFINE a == SubSeq(h, 1, p + 1)
               b == <<prompt.salt>> \o f
    <2>1. a = [j \in 1..(p + 1) |-> h[j]]
      BY <1>7, <1>11
    <2>2. /\ b = [j \in 1..(p + 1) |-> IF j = 1 THEN prompt.salt ELSE f[j - 1]]
      BY <1>7, <1>9
    <2>3. ASSUME NEW j \in 1..(p + 1) PROVE h[j] = IF j = 1 THEN prompt.salt ELSE f[j - 1]
      <3>1. CASE j = 1
        BY <1>11, <3>1
      <3>2. CASE j # 1
        <4> DEFINE v == j - 1
        <4>1. v \in 1..p /\ v \in 1..z /\ j = v + 1
          BY <1>7, <3>2
        <4> HIDE DEF v
        <4>2. h[v + 1] = f[v]
          BY <1>9, <1>10, <1>11, <4>1
        <4> QED
          BY <3>2, <4>1, <4>2
      <3> QED
        BY <3>1, <3>2
    <2> QED
      BY <2>1, <2>2, <2>3
  <1> QED
    BY <1>7, <1>13, <1>14 DEF prefixKV, f, p, y, L, bs, h

-----------------------------------------------------------------------------
(* What the operations on a cache change *)

(* The KV of a text is never the empty slot. *)
LEMMA ContentNotEmpty ==
  ASSUME NEW who, who.prompt \in Prompts, NEW p \in Nat
  PROVE  content(who, p) # Empty
  <1> DEFINE tk == who.prompt.tokens
             v  == <<who.prompt.salt>>
             g  == SubSeq(tk, 1, p)
  <1>1. tk \in Seq(Int) /\ Len(tk) \in Nat
    BY PromptFacts
  <1>2. CASE p <= Len(tk)
    <2>1. content(who, p) = v \o g
      BY <1>2 DEF content, prefixKV
    <2>2. g \in Seq(Int)
      BY <1>1, <1>2
    <2> DEFINE T == Int \cup {who.prompt.salt}
    <2>3. v \in Seq(T) /\ g \in Seq(T) /\ Len(v) = 1 /\ Len(g) \in Nat
      BY <2>2
    <2> HIDE DEF T, v, g
    <2>4. Len(v \o g) = Len(v) + Len(g)
      BY <2>3, ConcatProperties
    <2>5. Len(v \o g) # 0
      BY <2>3, <2>4
    <2>6. Len(<< >>) = 0
      OBVIOUS
    <2> QED
      BY <2>1, <2>5, <2>6 DEF Empty
  <1>3. CASE ~(p <= Len(tk))
    <2>1. content(who, p) = <<who.request, p>>
      BY <1>3 DEF content
    <2>2. Len(<<who.request, p>>) = 2 /\ Len(<< >>) = 0
      OBVIOUS
    <2> QED
      BY <2>1, <2>2 DEF Empty
  <1> QED
    BY <1>2, <1>3

(* release empties the named blocks. *)
LEMMA ReleaseEffect ==
  ASSUME NEW e, NEW cache, CacheShape(e, cache), NEW ids
  PROVE  LET c == release(cache, ids) IN
         /\ CacheShape(e, c)
         /\ \A b \in BlockIds(e) : b \notin ids => c[b] = cache[b]
         /\ \A b \in BlockIds(e) : b \in ids => \A s \in 1..BlockSize[e] : c[b][s] = Empty
  BY DEF CacheShape, release

(* c is cache with value at its positions of the table. *)
Written(e, cache, c, table, value, to) ==
  /\ CacheShape(e, c)
  /\ \A b \in BlockIds(e), s \in 1..BlockSize[e] :
       (\A p \in DOMAIN value : ~(blockAt(BlockSize[e], table, p) = b /\ slotAt(BlockSize[e], p) = s)) =>
         c[b][s] = cache[b][s]
  /\ \A p \in DOMAIN value : slot(BlockSize[e], c, table, p) = value[p]
  /\ \A p \in 1..to : /\ blockAt(BlockSize[e], table, p) \in BlockIds(e)
                      /\ slotAt(BlockSize[e], p) \in 1..BlockSize[e]

(* write puts each value at its position and changes no other slot. *)
LEMMA WriteEffect ==
  ASSUME NEW e \in Executors, NEW cache, CacheShape(e, cache), NEW table \in Seq(BlockIds(e)),
         IsInjective(table), NEW from \in Nat, NEW to \in Nat, to <= Len(table) * BlockSize[e],
         NEW value, DOMAIN value = (from + 1)..to
  PROVE  Written(e, cache, write(BlockSize[e], cache, table, value), table, value, to)
  <1> DEFINE bs       == BlockSize[e]
             at(b, s) == {p \in DOMAIN value : blockAt(bs, table, p) = b /\ slotAt(bs, p) = s}
             c        == write(bs, cache, table, value)
  <1>1. bs \in Nat /\ bs > 0 /\ Len(table) \in Nat /\ DOMAIN table = 1..Len(table)
    BY SizeFacts
  <1>2. /\ DOMAIN c = BlockIds(e)
        /\ \A b \in BlockIds(e) : DOMAIN c[b] = 1..bs
        /\ \A b \in BlockIds(e), s \in 1..bs :
             c[b][s] = IF at(b, s) = {} THEN cache[b][s] ELSE value[Max(at(b, s))]
    BY DEF write, CacheShape
  <1>3. ASSUME NEW p \in 1..to
        PROVE  LET i == ((p - 1) \div bs) + 1 IN
               /\ i \in DOMAIN table /\ p \in Nat /\ p >= 1
               /\ p = (i - 1) * bs + slotAt(bs, p)
               /\ slotAt(bs, p) \in 1..bs /\ table[i] \in BlockIds(e)
               /\ blockAt(bs, table, p) = table[i]
    <2> DEFINE i == ((p - 1) \div bs) + 1
               z == Len(table) * bs
    <2>1. p \in Nat /\ p >= 1 /\ z \in Nat /\ to <= z /\ p <= to
      BY <1>1
    <2> HIDE DEF z
    <2>2. p <= z
      BY <2>1
    <2>3. p <= Len(table) * bs
      BY <2>2 DEF z
    <2> HIDE DEF bs
    <2>4. i \in 1..Len(table)
      BY <1>1, <2>1, <2>3, PositionInTable
    <2>5. p = (i - 1) * bs + slotAt(bs, p) /\ slotAt(bs, p) \in 1..bs
      BY <1>1, <2>1, Position
    <2> HIDE DEF i
    <2>6. table[i] \in BlockIds(e) /\ i \in DOMAIN table
      BY <1>1, <2>4
    <2>7. blockAt(bs, table, p) = table[i]
      BY DEF blockAt, i
    <2> QED
      BY <2>1, <2>5, <2>6, <2>7 DEF i
  <1> HIDE DEF c, bs
  <1>4. \A p \in DOMAIN value : p \in 1..to
    OBVIOUS
  <1>5. ASSUME NEW p \in DOMAIN value
        PROVE  slot(bs, c, table, p) = value[p]
    <2> DEFINE b == blockAt(bs, table, p)
               s == slotAt(bs, p)
    <2>1. b \in BlockIds(e) /\ s \in 1..bs
      BY <1>3, <1>4
    <2>2. ASSUME NEW q \in at(b, s) PROVE q = p
      <3> DEFINE i == ((p - 1) \div bs) + 1
                 j == ((q - 1) \div bs) + 1
      <3>1. q \in 1..to /\ p \in 1..to /\ blockAt(bs, table, q) = b /\ slotAt(bs, q) = s
        BY <1>4
      <3>2. i \in DOMAIN table /\ j \in DOMAIN table /\ table[i] = table[j]
            /\ p = (i - 1) * bs + s /\ q = (j - 1) * bs + s
        BY <1>3, <3>1
      <3> HIDE DEF i, j
      <3>3. i = j
        BY <3>2 DEF IsInjective
      <3> QED
        BY <3>2, <3>3
    <2>3. p \in at(b, s)
      OBVIOUS
    <2>4. at(b, s) = {p}
      BY <2>2, <2>3
    <2>5. Max({p}) = p
      BY <1>3, <1>4 DEF Max
    <2>6. c[b][s] = value[p]
      BY <1>2, <2>1, <2>4, <2>5
    <2> QED
      BY <2>6 DEF slot
  <1>6. ASSUME NEW b \in BlockIds(e), NEW s \in 1..bs,
               \A p \in DOMAIN value : ~(blockAt(bs, table, p) = b /\ slotAt(bs, p) = s)
        PROVE  c[b][s] = cache[b][s]
    <2>1. at(b, s) = {}
      BY <1>6
    <2> QED
      BY <1>2, <2>1
  <1>7. CacheShape(e, c)
    BY <1>2 DEF CacheShape, bs
  <1>8. \A p \in 1..to : blockAt(bs, table, p) \in BlockIds(e) /\ slotAt(bs, p) \in 1..bs
    BY <1>3
  <1> QED
    BY <1>5, <1>6, <1>7, <1>8 DEF Written, c, bs

(* A position of a table is a target of the batch when it is beyond what    *)
(* the batch reads.                                                         *)
LEMMA TargetFacts ==
  ASSUME NEW e \in Executors, NEW item, ItemSound(e, item)
  PROVE  /\ \A b \in targets(e, item) : b \in BlockIds(e) /\ b \in Range(item.table)
         /\ \A b \in Range(item.allocated) : b \in targets(e, item)
         /\ \A p \in (item.from + 1)..item.to : blockAt(BlockSize[e], item.table, p) \in targets(e, item)
         /\ \A p \in 1..item.from : blockAt(BlockSize[e], item.table, p) \notin Range(item.allocated)
         /\ \A p \in 1..item.to : p <= Len(item.table) * BlockSize[e]
  <1> DEFINE bs == BlockSize[e]
             table == item.table
             n == Len(table)
  <1>1. /\ table \in Seq(BlockIds(e)) /\ item.from \in Nat /\ item.to \in Nat
        /\ bs \in Nat /\ bs > 0 /\ n \in Nat /\ DOMAIN table = 1..n
    BY SizeFacts DEF ItemSound, Items
  <1>2. \A b \in targets(e, item) : b \in BlockIds(e) /\ b \in Range(table)
    BY <1>1 DEF targets, Range
  <1>3. ASSUME NEW b \in Range(item.allocated) PROVE b \in targets(e, item)
    <2>1. PICK i \in DOMAIN table : table[i] = b
      BY DEF ItemSound, Range
    <2>2. (i - 1) * bs >= item.from
      BY <2>1 DEF ItemSound
    <2> DEFINE d == i - 1
               y == d * bs
    <2>3. d \in Nat /\ i = d + 1
      BY <1>1
    <2> HIDE DEF d
    <2>4. y \in Nat /\ i * bs = y + bs /\ y >= item.from
      BY <1>1, <2>2, <2>3 DEF d
    <2> HIDE DEF y
    <2>5. i * bs > item.from
      BY <1>1, <2>4
    <2> QED
      BY <2>1, <2>5 DEF targets
  <1>4. item.to <= n * bs
    BY DEF ItemSound
  <1>5. \A p \in 1..item.to : p <= n * bs
    <2> DEFINE z == n * bs
    <2>1. z \in Nat /\ item.to <= z
      BY <1>1, <1>4
    <2> HIDE DEF z
    <2>2. \A p \in 1..item.to : p <= z
      BY <1>1, <2>1
    <2> QED
      BY <2>2 DEF z
  <1> HIDE DEF n, bs
  <1>6. ASSUME NEW p \in (item.from + 1)..item.to
        PROVE  blockAt(bs, table, p) \in targets(e, item)
    <2> DEFINE i == ((p - 1) \div bs) + 1
               y == i * bs
    <2>1. p \in Nat /\ p >= 1 /\ p \in 1..item.to /\ p > item.from
      BY <1>1
    <2>a. p <= n * bs
      BY <1>5, <2>1
    <2>b. i \in 1..n
      BY <1>1, <2>1, <2>a, PositionInTable
    <2>c. i \in Nat /\ p <= i * bs /\ i * bs = (i - 1) * bs + bs /\ (i - 1) * bs \in Nat
      BY <1>1, <2>1, Position
    <2>2. i \in 1..n /\ p <= y /\ y \in Nat
      BY <1>1, <2>b, <2>c
    <2> HIDE DEF y
    <2>3. y > item.from
      BY <1>1, <2>1, <2>2
    <2> HIDE DEF i
    <2> QED
      BY <1>1, <2>2, <2>3 DEF targets, blockAt, bs, i, y
  <1>7. ASSUME NEW p \in 1..item.from
        PROVE  blockAt(bs, table, p) \notin Range(item.allocated)
    <2> DEFINE i == ((p - 1) \div bs) + 1
               y == (i - 1) * bs
               x == blockAt(bs, table, p)
    <2> SUFFICES ASSUME x \in Range(item.allocated) PROVE FALSE
      OBVIOUS
    <2>1. p \in Nat /\ p >= 1 /\ p <= item.from
      BY <1>1
    <2>2. i \in Nat /\ i >= 1 /\ y < p /\ y \in Nat
      BY <1>1, <2>1, Position
    <2>3. x = table[i]
      BY DEF blockAt
    <2>4. PICK j \in DOMAIN table : table[j] = x /\ (j - 1) * bs >= item.from
      BY DEF ItemSound, Range, bs
    <2> HIDE DEF x
    <2> HIDE DEF i
    <2>5. j \in 1..n
      BY <1>1, <2>4
    <2> DEFINE z == (j - 1) * bs
    <2>6. z \in Nat /\ z >= item.from
      BY <1>1, <2>4, <2>5
    <2>7. i - 1 < j - 1
      <3>1. j - 1 \in Nat /\ i - 1 \in Nat
        BY <1>1, <2>2, <2>5
      <3>2. j - 1 <= i - 1 => z <= y
        BY <1>1, <3>1, MulOrder
      <3> HIDE DEF y, z
      <3> QED
        BY <1>1, <2>1, <2>2, <2>6, <3>1, <3>2
    <2>8. i \in DOMAIN table
      BY <1>1, <2>2, <2>5, <2>7
    <2>9. i = j
      BY <2>3, <2>4, <2>8 DEF ItemSound, IsInjective
    <2> QED
      BY <2>2, <2>5, <2>7, <2>9, <1>1
  <1> QED
    BY <1>2, <1>3, <1>5, <1>6, <1>7 DEF bs, n

(* A batch that runs changes its targets only; one that reads its own KV    *)
(* leaves its own KV in all its positions.                                  *)
LEMMA RunEffect ==
  ASSUME NEW e \in Executors, NEW item, ItemSound(e, item), NEW cache, CacheShape(e, cache)
  PROVE  LET cleared == release(cache, Range(item.allocated))
             after   == ran(e, cleared, item)
         IN  /\ CacheShape(e, cleared) /\ CacheShape(e, after)
             /\ \A b \in BlockIds(e) : b \notin targets(e, item) =>
                  \A s \in 1..BlockSize[e] : cleared[b][s] = cache[b][s] /\ after[b][s] = cache[b][s]
             /\ readsOwnKV(e, cache, item) =>
                  \A p \in 1..item.to : slot(BlockSize[e], after, item.table, p) = content(item, p)
  <1> DEFINE bs      == BlockSize[e]
             table   == item.table
             new     == Range(item.allocated)
             cleared == release(cache, new)
             value   == [p \in (item.from + 1)..item.to |->
                           IF readsOwnKV(e, cleared, item) THEN content(item, p) ELSE Corrupt]
             after   == write(bs, cleared, table, value)
  <1>1. /\ table \in Seq(BlockIds(e)) /\ item.from \in Nat /\ item.to \in Nat
        /\ item.to <= Len(table) * bs /\ item.from < item.to /\ IsInjective(table)
    BY DEF ItemSound, Items
  <1>2. /\ CacheShape(e, cleared)
        /\ \A b \in BlockIds(e) : b \notin new => cleared[b] = cache[b]
    BY ReleaseEffect
  <1>3. DOMAIN value = (item.from + 1)..item.to
    OBVIOUS
  <1>4. \A p \in DOMAIN value :
          value[p] = IF readsOwnKV(e, cleared, item) THEN content(item, p) ELSE Corrupt
    OBVIOUS
  <1> HIDE DEF cleared, value, new, table
  <1>5. /\ CacheShape(e, after)
        /\ \A b \in BlockIds(e), s \in 1..bs :
             (\A p \in DOMAIN value : ~(blockAt(bs, table, p) = b /\ slotAt(bs, p) = s)) =>
               after[b][s] = cleared[b][s]
        /\ \A p \in DOMAIN value : slot(bs, after, table, p) = value[p]
        /\ \A p \in 1..item.to : blockAt(bs, table, p) \in BlockIds(e) /\ slotAt(bs, p) \in 1..bs
    <2> DEFINE from == item.from
               to   == item.to
    <2>1. /\ from \in Nat /\ to \in Nat /\ to <= Len(table) * BlockSize[e] /\ CacheShape(e, cleared)
          /\ table \in Seq(BlockIds(e)) /\ IsInjective(table) /\ DOMAIN value = (from + 1)..to
      BY <1>1, <1>2, <1>3
    <2> HIDE DEF from, to
    <2>2. Written(e, cleared, write(BlockSize[e], cleared, table, value), table, value, to)
      BY <2>1, WriteEffect
    <2> QED
      BY <2>2 DEF Written, to
  <1>6. /\ \A b \in new : b \in targets(e, item)
        /\ \A p \in (item.from + 1)..item.to : blockAt(bs, table, p) \in targets(e, item)
        /\ \A p \in 1..item.from : blockAt(bs, table, p) \notin new
    BY TargetFacts DEF new, table
  <1> HIDE DEF after
  <1>7. ASSUME NEW b \in BlockIds(e), b \notin targets(e, item), NEW s \in 1..bs
        PROVE  cleared[b][s] = cache[b][s] /\ after[b][s] = cache[b][s]
    <2>1. b \notin new
      BY <1>6, <1>7
    <2>2. cleared[b] = cache[b]
      BY <1>2, <2>1
    <2>3. \A p \in DOMAIN value : blockAt(bs, table, p) # b
      BY <1>3, <1>6, <1>7
    <2> QED
      BY <1>5, <2>2, <2>3
  <1>8. ASSUME readsOwnKV(e, cache, item), NEW p \in 1..item.to
        PROVE  slot(bs, after, table, p) = content(item, p)
    <2>1. ASSUME NEW x \in 1..item.from
          PROVE  slot(bs, cleared, table, x) = content(item, x)
      <3> DEFINE b == blockAt(bs, table, x)
      <3>1. slot(bs, cache, table, x) = content(item, x)
        BY <1>8 DEF readsOwnKV, table
      <3>2. b \notin new
        BY <1>6
      <3>3. cleared[b] = cache[b]
        <4>1. x \in 1..item.to
          BY <1>1
        <4> QED
          BY <1>2, <1>5, <3>2, <4>1
      <3> QED
        BY <3>1, <3>3 DEF slot
    <2>2. readsOwnKV(e, cleared, item)
      BY <2>1 DEF readsOwnKV, table
    <2>3. CASE p > item.from
      <3>1. p \in DOMAIN value
        BY <1>1, <1>3, <2>3
      <3> QED
        BY <1>4, <1>5, <2>2, <3>1
    <2>4. CASE ~(p > item.from)
      <3>1. p \in 1..item.from
        BY <1>1, <2>4
      <3> DEFINE b == blockAt(bs, table, p)
                 s == slotAt(bs, p)
      <3>2. b \in BlockIds(e) /\ s \in 1..bs
        BY <1>5
      <3>3. ASSUME NEW q \in DOMAIN value PROVE ~(blockAt(bs, table, q) = b /\ slotAt(bs, q) = s)
        <4> SUFFICES ASSUME blockAt(bs, table, q) = b, slotAt(bs, q) = s PROVE FALSE
          OBVIOUS
        <4> DEFINE i == ((p - 1) \div bs) + 1
                   j == ((q - 1) \div bs) + 1
                   n == Len(table)
        <4>1. /\ p \in Nat /\ p >= 1 /\ q \in Nat /\ q >= 1 /\ q # p /\ q \in 1..item.to
              /\ bs \in Nat /\ bs > 0 /\ n \in Nat /\ DOMAIN table = 1..n
          BY <1>1, <1>3, <3>1, SizeFacts
        <4>2. p <= n * bs /\ q <= n * bs
          BY <4>1, TargetFacts DEF table
        <4>3. i \in 1..n /\ j \in 1..n
          <5> HIDE DEF n, bs
          <5> QED
            BY <4>1, <4>2, PositionInTable
        <4>4. p = (i - 1) * bs + slotAt(bs, p) /\ q = (j - 1) * bs + slotAt(bs, q)
          <5> HIDE DEF n, bs
          <5> QED
            BY <4>1, Position
        <4>5. table[i] = b /\ table[j] = b
          BY DEF blockAt
        <4> HIDE DEF i, j
        <4>6. i = j
          BY <1>1, <4>1, <4>3, <4>5 DEF IsInjective
        <4> QED
          BY <4>1, <4>4, <4>6
      <3>4. after[b][s] = cleared[b][s]
        BY <1>5, <3>2, <3>3
      <3> QED
        BY <2>1, <3>1, <3>4 DEF slot
    <2> QED
      BY <2>3, <2>4
  <1>9. after = ran(e, cleared, item)
    BY DEF ran, after, value, table
  <1> QED
    BY <1>2, <1>5, <1>7, <1>8, <1>9 DEF cleared, new, table

(* import_blocks replaces the named blocks by those of the payload. *)
LEMMA ImportEffect ==
  ASSUME NEW e, NEW cache, CacheShape(e, cache), NEW ids \in Seq(BlockIds(e)),
         NEW payload, DOMAIN payload = DOMAIN ids,
         \A i \in DOMAIN payload : DOMAIN payload[i] = 1..BlockSize[e]
  PROVE  LET c == import_blocks(cache, ids, payload) IN
         /\ CacheShape(e, c)
         /\ \A b \in BlockIds(e) : b \notin Range(ids) => c[b] = cache[b]
         /\ IsInjective(ids) => \A i \in DOMAIN ids : c[ids[i]] = payload[i]
  <1> DEFINE c == import_blocks(cache, ids, payload)
  <1>1. /\ DOMAIN c = BlockIds(e)
        /\ \A b \in BlockIds(e) : c[b] = IF \E i \in DOMAIN ids : ids[i] = b
                                         THEN payload[CHOOSE i \in DOMAIN ids : ids[i] = b] ELSE cache[b]
    BY DEF import_blocks, CacheShape
  <1> HIDE DEF c
  <1>2. ASSUME NEW b \in BlockIds(e)
        PROVE  /\ b \notin Range(ids) => c[b] = cache[b]
               /\ b \in Range(ids) => \E i \in DOMAIN ids : ids[i] = b /\ c[b] = payload[i]
    BY <1>1 DEF Range
  <1>3. CacheShape(e, c)
    BY <1>1, <1>2 DEF CacheShape
  <1>4. ASSUME IsInjective(ids), NEW i \in DOMAIN ids PROVE c[ids[i]] = payload[i]
    <2>1. ids[i] \in BlockIds(e) /\ ids[i] \in Range(ids)
      BY DEF Range
    <2>2. PICK j \in DOMAIN ids : ids[j] = ids[i] /\ c[ids[i]] = payload[j]
      BY <1>2, <2>1
    <2>3. j = i
      BY <1>4, <2>2 DEF IsInjective
    <2> QED
      BY <2>2, <2>3
  <1> QED
    BY <1>2, <1>3, <1>4 DEF c

-----------------------------------------------------------------------------
(* The blocks a work in flight writes *)

(* Block b of e is in no index, no table but that of r and no plan. *)
PrivateTo(e, b, r) ==
  /\ b \in BlockIds(e)
  /\ \A h \in DOMAIN mgr[e].cachedBlocks : mgr[e].cachedBlocks[h] # b
  /\ \A x \in Requests : x # r /\ request[x].live /\ request[x].executor = e => b \notin Range(tableOf(x))
  /\ \A t \in Transfers : transfer[t].destination = e => b \notin Range(transfer[t].destinationBlocks)

WritesPrivate ==
  \A e \in Executors : \A w \in DOMAIN mgr[e].pendingAllocations :
    LET a == mgr[e].pendingAllocations[w]
    IN  \A i \in DOMAIN a.blockTable :
          i * BlockSize[e] > request[a.request].computed => PrivateTo(e, a.blockTable[i], a.request)

(* One reference, and it is the table's. *)
LEMMA HeldPrivate == Inv /\ Held => WritesPrivate
  <1> SUFFICES ASSUME Inv, Held, NEW e \in Executors, NEW w \in DOMAIN mgr[e].pendingAllocations,
                      NEW i \in DOMAIN mgr[e].pendingAllocations[w].blockTable,
                      i * BlockSize[e] > request[mgr[e].pendingAllocations[w].request].computed
               PROVE  PrivateTo(e, mgr[e].pendingAllocations[w].blockTable[i],
                                mgr[e].pendingAllocations[w].request)
    BY DEF WritesPrivate
  <1> DEFINE m == mgr[e]
             a == m.pendingAllocations[w]
             r == a.request
             b == a.blockTable[i]
  <1>1. m.refCount[b] = 1 /\ ~m.cached[b]
    BY HeldWrites DEF WrittenBlocksExclusive
  <1>2. /\ AllocationSound(e, m, a, request[r]) /\ a.blockTable \in Seq(BlockIds(e))
    BY WorkFacts
  <1>3. Good(e, m) /\ IndexSound(m) /\ Owned(e, m, transfer)
    BY ExecutorFacts
  <1>a. b \in BlockIds(e)
    BY <1>2
  <1>b. r \in DOMAIN m.requestBlocks /\ m.requestBlocks[r] = a.blockTable
    BY <1>2 DEF AllocationSound
  <1>4. b \in BlockIds(e) /\ InTable(m, r, i, b)
    BY <1>a, <1>b DEF InTable
  <1> HIDE DEF m, a, r, b
  <1>5. m.refCount[b] <= 1
    BY <1>1
  <1>6. /\ \A x, j : InTable(m, x, j, b) => r = x
        /\ \A t, j : ~InDestination(transfer, t, e, j, b)
    BY <1>3, <1>4, <1>5, Single
  <1>7. \A h \in DOMAIN m.cachedBlocks : m.cachedBlocks[h] # b
    BY <1>1, <1>3 DEF IndexSound, transferable
  <1>8. ASSUME NEW x \in Requests, x # r, request[x].live, request[x].executor = e,
               b \in Range(tableOf(x))
        PROVE  FALSE
    <2>1. tableOf(x) = Lookup(m.requestBlocks, x)
      BY <1>8 DEF tableOf, m
    <2>2. PICK j \in DOMAIN Lookup(m.requestBlocks, x) : Lookup(m.requestBlocks, x)[j] = b
      BY <1>8, <2>1 DEF Range
    <2>3. x \in DOMAIN m.requestBlocks
      BY <2>2 DEF Lookup
    <2>4. InTable(m, x, j, b)
      BY <2>2, <2>3 DEF Lookup, InTable
    <2> QED
      BY <1>6, <1>8, <2>4
  <1>9. ASSUME NEW t \in Transfers, transfer[t].destination = e, b \in Range(transfer[t].destinationBlocks)
        PROVE  FALSE
    <2>1. PICK j \in DOMAIN transfer[t].destinationBlocks : transfer[t].destinationBlocks[j] = b
      BY <1>9 DEF Range
    <2>2. InDestination(transfer, t, e, j, b)
      BY <1>9, <2>1 DEF InDestination
    <2> QED
      BY <1>6, <2>2
  <1> QED
    BY <1>4, <1>7, <1>8, <1>9 DEF PrivateTo, m, a, r, b

-----------------------------------------------------------------------------
(* What the registry's actions leave to the cache proofs *)

(* A step on behalf of r leaves the other requests, their tables and their  *)
(* works alone.                                                             *)
OthersSame(r) ==
  /\ DOMAIN mgr' = Executors
  /\ \A x \in Requests : x # r => request'[x] = request[x]
  /\ \A e \in Executors, x \in Requests : x # r =>
       Lookup(mgr'[e].requestBlocks, x) = Lookup(mgr[e].requestBlocks, x)
  /\ \A e \in Executors : \A w \in DOMAIN mgr[e].pendingAllocations :
       mgr[e].pendingAllocations[w].request # r =>
         /\ w \in DOMAIN mgr'[e].pendingAllocations
         /\ mgr'[e].pendingAllocations[w] = mgr[e].pendingAllocations[w]
  /\ \A e \in Executors : \A w \in DOMAIN mgr'[e].pendingAllocations :
       mgr'[e].pendingAllocations[w].request # r =>
         /\ w \in DOMAIN mgr[e].pendingAllocations
         /\ mgr'[e].pendingAllocations[w] = mgr[e].pendingAllocations[w]

(* Afterwards r has no work. *)
NoWorkOf(r) ==
  \A e \in Executors : \A w \in DOMAIN mgr'[e].pendingAllocations :
    mgr'[e].pendingAllocations[w].request # r

(* Prefixes may leave the indexes; none enters or moves. *)
IndexShrinks(m, n) ==
  \A h \in DOMAIN n.cachedBlocks : h \in DOMAIN m.cachedBlocks /\ n.cachedBlocks[h] = m.cachedBlocks[h]

IndexesShrink == \A e \in Executors : IndexShrinks(mgr[e], mgr'[e])

(* A step of one manager is one of its request. *)
LEMMA OthersSameOf ==
  ASSUME Inv, NEW e \in Executors, NEW n, mgr' = [mgr EXCEPT ![e] = n], NEW r \in Requests,
         \A x \in Requests : x # r => request'[x] = request[x],
         OthersKept(mgr[e], n, r),
         \A w \in DOMAIN mgr[e].pendingAllocations : mgr[e].pendingAllocations[w].request # r =>
           w \in DOMAIN n.pendingAllocations /\ n.pendingAllocations[w] = mgr[e].pendingAllocations[w],
         \A w \in DOMAIN n.pendingAllocations : n.pendingAllocations[w].request # r =>
           w \in DOMAIN mgr[e].pendingAllocations /\ n.pendingAllocations[w] = mgr[e].pendingAllocations[w]
  PROVE  /\ OthersSame(r) /\ mgr'[e] = n
         /\ \A f \in Executors : f # e => mgr'[f] = mgr[f]
  <1>1. DOMAIN mgr = Executors
    BY InvParts DEF ManagersInv
  <1>2. mgr'[e] = n /\ DOMAIN mgr' = Executors /\ \A f \in Executors : f # e => mgr'[f] = mgr[f]
    BY <1>1
  <1>3. ASSUME NEW x \in Requests, x # r
        PROVE  Lookup(n.requestBlocks, x) = Lookup(mgr[e].requestBlocks, x)
    BY <1>3 DEF OthersKept, Lookup
  <1>4. \A f \in Executors, x \in Requests : x # r =>
          Lookup(mgr'[f].requestBlocks, x) = Lookup(mgr[f].requestBlocks, x)
    BY <1>2, <1>3
  <1>5. \A f \in Executors : \A w \in DOMAIN mgr[f].pendingAllocations :
       mgr[f].pendingAllocations[w].request # r =>
         /\ w \in DOMAIN mgr'[f].pendingAllocations
         /\ mgr'[f].pendingAllocations[w] = mgr[f].pendingAllocations[w]
    BY <1>2
  <1>6. \A f \in Executors : \A w \in DOMAIN mgr'[f].pendingAllocations :
       mgr'[f].pendingAllocations[w].request # r =>
         /\ w \in DOMAIN mgr[f].pendingAllocations
         /\ mgr'[f].pendingAllocations[w] = mgr[f].pendingAllocations[w]
    BY <1>2
  <1> QED
    BY <1>2, <1>4, <1>5, <1>6 DEF OthersSame

(* The works of a live request are at its executor. *)
LEMMA WorksAtExecutor ==
  ASSUME Inv, Held, NEW e \in Executors, NEW w \in DOMAIN mgr[e].pendingAllocations
  PROVE  LET r == mgr[e].pendingAllocations[w].request IN
         r \in Requests /\ request[r].live /\ request[r].executor = e
  BY WorkFacts DEF AllocationSound

(* MatchPrefix *)
LEMMA AdmitEffect ==
  ASSUME Inv, Held, NEW r \in Requests, NEW e \in Executors, NEW p \in Prompts,
         MatchPrefixFor(r, e, p)
  PROVE  LET ids == matchedBlocks(mgr[e], p) IN
         /\ ~request[r].live /\ UNCHANGED transfer
         /\ OthersSame(r) /\ NoWorkOf(r) /\ IndexesShrink
         /\ request'[r] = [live |-> TRUE, executor |-> e, prompt |-> p, cache |-> ids,
                           computed |-> Len(ids) * BlockSize[e]]
         /\ Lookup(mgr'[e].requestBlocks, r) = ids
  <1> DEFINE m   == mgr[e]
             ids == matchedBlocks(m, p)
             x   == touch(m, ids)
             n   == MatchPrefix(m, r, p)
             q   == [live |-> TRUE, executor |-> e, prompt |-> p, cache |-> ids,
                     computed |-> Len(ids) * BlockSize[e]]
  <1>1. Good(e, m) /\ IndexSound(m) /\ Unshared(m) /\ DOMAIN mgr = Executors
    BY ExecutorFacts
  <1>2. DOMAIN request = Requests
    BY InvParts DEF RequestsInv
  <1>4. /\ ~request[r].live /\ mgr' = [mgr EXCEPT ![e] = n]
        /\ request' = [request EXCEPT ![r] = q] /\ transfer' = transfer
    BY DEF MatchPrefixFor
  <1>5. n = [x EXCEPT !.requestBlocks = Put(m.requestBlocks, r, ids)]
    BY DEF MatchPrefix
  <1>6. \A w \in DOMAIN m.pendingAllocations : m.pendingAllocations[w].request # r
    BY <1>4, NoWorkOfDead
  <1>7. \A f \in Executors : \A w \in DOMAIN mgr[f].pendingAllocations : mgr[f].pendingAllocations[w].request # r
    BY <1>4, NoWorkOfDead
  <1> HIDE DEF m
  <1>8. ids \in Seq(BlockIds(e)) /\ \A i \in DOMAIN ids : m.cached[ids[i]]
    BY <1>1, MatchedFacts
  <1> HIDE DEF ids
  <1>9. /\ Good(e, x) /\ SameIndex(m, x)
        /\ x.requestBlocks = m.requestBlocks /\ x.pendingAllocations = m.pendingAllocations
    BY <1>1, <1>8, TouchEffect
  <1> HIDE DEF x, n
  <1>10. /\ n.requestBlocks = Put(m.requestBlocks, r, ids)
         /\ n.pendingAllocations = m.pendingAllocations /\ n.cachedBlocks = m.cachedBlocks
    BY <1>5, <1>9 DEF SameIndex, Good, ManagerOK
  <1>11. OthersKept(m, n, r) /\ Lookup(n.requestBlocks, r) = ids
    BY <1>10, KeptPut
  <1>12. request'[r] = q /\ \A y \in Requests : y # r => request'[y] = request[y]
    BY <1>2, <1>4
  <1>13. /\ OthersSame(r) /\ mgr'[e] = n
         /\ \A f \in Executors : f # e => mgr'[f] = mgr[f]
    BY <1>4, <1>10, <1>11, <1>12, OthersSameOf DEF m
  <1>14. NoWorkOf(r)
    BY <1>7, <1>10, <1>13 DEF NoWorkOf, m
  <1>15. IndexesShrink
    BY <1>10, <1>13 DEF IndexesShrink, IndexShrinks, m
  <1> QED
    BY <1>4, <1>11, <1>12, <1>13, <1>14, <1>15 DEF m, ids

(* Enough blocks for the tokens. *)
LEMMA CeilCovers ==
  ASSUME NEW t \in Nat, NEW bs \in Nat, bs > 0, NEW n \in Nat, ceilDiv(t, bs) <= n
  PROVE  t <= n * bs
  <1> DEFINE u == t + bs - 1
             c == u \div bs
             y == c * bs
             z == n * bs
  <1>1. u \in Nat /\ c \in Nat /\ u % bs \in 0..(bs - 1) /\ u = bs * c + (u % bs) /\ c <= n
    BY DEF ceilDiv
  <1>2. y \in Nat /\ bs * c = y /\ y <= z /\ z \in Nat
    BY <1>1, MulOrder
  <1> HIDE DEF c, y, z
  <1> QED
    BY <1>1, <1>2 DEF z

(* AllocateBlocks: it fails and changes nothing, or it extends the table of *)
(* r far enough.                                                            *)
LEMMA ScheduleEffect ==
  ASSUME Inv, Held, NEW r \in Requests, NEW w \in Works, NEW tokens \in nextTokens(r),
         AllocateBlocksFor(r, w, tokens)
  PROVE  LET e    == request[r].executor
             item == workItem(w, r, tokens)
             a    == newAllocation(mgr[e], item)
             old  == Lookup(mgr[e].requestBlocks, r)
         IN
         /\ UNCHANGED <<request, transfer>> /\ request[r].live /\ e \in Executors
         /\ request[r].computed \in Nat /\ tokens \in Nat /\ request[r].computed < tokens
         /\ IF canAllocate(mgr[e], requiredBlocks(mgr[e], item))
            THEN /\ OthersSame(r) /\ IndexesShrink
                 /\ \A f \in Executors : f # e => mgr'[f] = mgr[f]
                 /\ w \in DOMAIN mgr'[e].pendingAllocations /\ mgr'[e].pendingAllocations[w] = a
                 /\ \A f \in Executors : \A v \in DOMAIN mgr'[f].pendingAllocations :
                      mgr'[f].pendingAllocations[v].request = r => f = e /\ v = w
                 /\ Lookup(mgr'[e].requestBlocks, r) = a.blockTable
                 /\ a.request = r /\ a.tokens = tokens /\ a.allocated \in Seq(BlockIds(e))
                 /\ old \in Seq(BlockIds(e)) /\ a.blockTable \in Seq(BlockIds(e))
                 /\ Len(a.blockTable) = Len(old) + Len(a.allocated)
                 /\ \A i \in 1..Len(old) : a.blockTable[i] = old[i]
                 /\ \A i \in 1..Len(a.allocated) : a.blockTable[Len(old) + i] = a.allocated[i]
                 /\ tokens <= Len(a.blockTable) * BlockSize[e]
            ELSE DOMAIN mgr' = Executors /\ \A f \in Executors : mgr'[f] = mgr[f]
  <1> DEFINE q    == request[r]
             e    == q.executor
             m    == mgr[e]
             work == workItem(w, r, tokens)
             k    == requiredBlocks(m, work)
             old  == Lookup(m.requestBlocks, r)
             ids  == popped(m, k)
             bt   == old \o ids
             a    == newAllocation(m, work)
             x    == allocate(m, k)
             n    == AllocateBlocks(m, work)
  <1>1. ManagersInv /\ RequestsInv
    BY InvParts
  <1>2. /\ q \in [live : BOOLEAN, executor : Executors, prompt : Prompts,
                  cache : Seq(BlockIds(q.executor)), computed : Nat]
        /\ e \in Executors /\ DOMAIN mgr = Executors
    BY <1>1 DEF ManagersInv, RequestsInv, RequestOK
  <1>3. Good(e, m) /\ IndexSound(m) /\ Unshared(m)
    BY <1>2, ExecutorFacts
  <1>4. /\ q.live /\ w \notin DOMAIN m.pendingAllocations /\ worksOf(m, r) = {}
        /\ mgr' = [mgr EXCEPT ![e] = n] /\ request' = request /\ transfer' = transfer
    BY <1>2 DEF AllocateBlocksFor, pendingWorks
  <1>5. work.id = w /\ work.request = r /\ work.cache = q.cache /\ work.tokens = tokens
    BY DEF workItem
  <1>6. tokens \in Nat /\ q.computed < tokens /\ q.computed \in Nat
    <2>1. Len(q.prompt.tokens) \in Nat /\ q.computed \in Nat
      BY <1>2, PromptFacts
    <2> QED
      BY <2>1 DEF nextTokens
  <1>7. TableSound(m, r, q)
    BY <1>4 DEF Held, TablesSound
  <1>8. m.blockSize = BlockSize[e] /\ BlockSize[e] \in Nat /\ BlockSize[e] > 0
    <2> HIDE DEF m, e
    <2> QED
      BY <1>2, <1>3, GoodFields, SizeFacts
  <1>9. old \in Seq(BlockIds(e)) /\ Len(q.cache) \in Nat /\ Len(q.cache) <= Len(old)
    <2>1. m.requestBlocks \in [DOMAIN m.requestBlocks -> Seq(BlockIds(e))]
      <3> HIDE DEF m, e
      <3> QED
        BY <1>3, GoodFields
    <2>2. Len(q.cache) \in Nat
      BY <1>2
    <2>3. old \in Seq(BlockIds(e))
      <3> HIDE DEF m, e
      <3> QED
        BY <2>1 DEF Lookup
    <2>4. Len(q.cache) <= Len(old)
      <3> HIDE DEF q, m
      <3> QED
        BY <1>7 DEF TableSound
    <2> QED
      BY <2>2, <2>3, <2>4
  <1>10. r \notin DOMAIN m.requestBlocks => q.cache = << >>
    <2> SUFFICES ASSUME r \notin DOMAIN m.requestBlocks PROVE q.cache = << >>
      OBVIOUS
    <2>1. old = << >>
      BY DEF Lookup
    <2>2. Len(q.cache) = 0
      BY <1>9, <2>1
    <2> QED
      BY <1>2, <2>2, EmptySeq
  <1>w. \A f \in Executors : \A v \in DOMAIN mgr[f].pendingAllocations :
          mgr[f].pendingAllocations[v].request # r
    <2> SUFFICES ASSUME NEW f \in Executors, NEW v \in DOMAIN mgr[f].pendingAllocations,
                        mgr[f].pendingAllocations[v].request = r
                 PROVE  FALSE
      OBVIOUS
    <2>1. f = e
      BY WorksAtExecutor
    <2> QED
      BY <1>4, <2>1 DEF worksOf
  <1> HIDE DEF q, e, m, work
  <1>11. existingBlocks(m, work) = old
    BY <1>5, <1>10 DEF existingBlocks, Lookup
  <1>12. restoreTable(m, work) = m
    BY <1>5, <1>10 DEF restoreTable
  <1>13. k \in Nat /\ ceilDiv(tokens, BlockSize[e]) <= Len(old) + k
    <2>1. ceilDiv(tokens, BlockSize[e]) \in Nat
      BY <1>6, <1>8, DivNat DEF ceilDiv
    <2>2. Len(old) \in Nat
      BY <1>9
    <2> HIDE DEF old
    <2> QED
      BY <1>5, <1>8, <1>11, <2>1, <2>2 DEF requiredBlocks
  <1>14. a = [request |-> r, phase |-> work.phase, blockTable |-> bt, hashes |-> work.hashes,
              allocated |-> ids, tokens |-> tokens]
    BY <1>5, <1>11 DEF newAllocation
  <1>17. ASSUME canAllocate(m, k)
         PROVE  /\ OthersSame(r) /\ IndexesShrink
                /\ \A f \in Executors : f # e => mgr'[f] = mgr[f]
                /\ w \in DOMAIN mgr'[e].pendingAllocations /\ mgr'[e].pendingAllocations[w] = a
                /\ \A f \in Executors : \A v \in DOMAIN mgr'[f].pendingAllocations :
                      mgr'[f].pendingAllocations[v].request = r => f = e /\ v = w
                /\ Lookup(mgr'[e].requestBlocks, r) = a.blockTable
                /\ a.request = r /\ a.tokens = tokens /\ a.allocated \in Seq(BlockIds(e))
                /\ old \in Seq(BlockIds(e)) /\ a.blockTable \in Seq(BlockIds(e))
                /\ Len(a.blockTable) = Len(old) + Len(a.allocated)
                /\ \A i \in 1..Len(old) : a.blockTable[i] = old[i]
                /\ \A i \in 1..Len(a.allocated) : a.blockTable[Len(old) + i] = a.allocated[i]
                /\ tokens <= Len(a.blockTable) * BlockSize[e]
    <2>1. n = [x EXCEPT !.requestBlocks      = Put(m.requestBlocks, r, bt),
                        !.pendingAllocations = Put(m.pendingAllocations, w, a)]
      BY <1>5, <1>14, <1>17 DEF AllocateBlocks
    <2> HIDE DEF k, a, n, ids
    <2>2. /\ Good(e, x) /\ ids \in Seq(BlockIds(e)) /\ Len(ids) = k
          /\ x.requestBlocks = m.requestBlocks /\ x.pendingAllocations = m.pendingAllocations
      BY <1>3, <1>13, <1>17, AllocateEffect DEF x, ids
    <2>s. IndexShrinks(m, x)
      <3>1. m \in [ blockSize          : {BlockSize[e]},
            refCount           : [BlockIds(e) -> Nat],
            tokenCount         : [BlockIds(e) -> Nat],
            hash               : [BlockIds(e) -> Hashes \cup {NoHash}],
            cached             : [BlockIds(e) -> BOOLEAN],
            free               : Seq(BlockIds(e)),
            requestBlocks      : [DOMAIN m.requestBlocks -> Seq(BlockIds(e))],
            cachedBlocks       : [DOMAIN m.cachedBlocks -> BlockIds(e)],
            pendingAllocations : [DOMAIN m.pendingAllocations -> Allocations(e)] ]
        BY <1>3 DEF Good, ManagerOK
      <3> DEFINE K == {m.hash[b] : b \in {c \in Range(popped(m, k)) : m.cached[c]}}
      <3>2. x.cachedBlocks = Without(m.cachedBlocks, K)
        BY <3>1 DEF allocate
      <3> HIDE DEF K, x
      <3> QED
        BY <3>2 DEF IndexShrinks, Without, Restrict
    <2> HIDE DEF old, x
    <2>3. /\ bt \in Seq(BlockIds(e)) /\ Len(bt) = Len(old) + Len(ids)
          /\ Len(old) \in Nat /\ Len(ids) \in Nat
          /\ \A i \in 1..Len(old) : bt[i] = old[i]
          /\ \A i \in 1..Len(ids) : bt[Len(old) + i] = ids[i]
      BY <1>9, <2>2, CutConcat, SMTT(30)
    <2> HIDE DEF bt
    <2>5. /\ n.requestBlocks = Put(m.requestBlocks, r, bt) /\ n.cachedBlocks = x.cachedBlocks
          /\ n.pendingAllocations = Put(m.pendingAllocations, w, a)
      BY <2>1, <2>2 DEF Good, ManagerOK
    <2>6. OthersKept(m, n, r) /\ Lookup(n.requestBlocks, r) = bt
      BY <2>5, KeptPut
    <2>7. /\ DOMAIN n.pendingAllocations = DOMAIN m.pendingAllocations \cup {w}
          /\ n.pendingAllocations[w] = a
          /\ \A v \in DOMAIN m.pendingAllocations : n.pendingAllocations[v] = m.pendingAllocations[v]
      BY <1>4, <2>5 DEF Put
    <2>a. /\ a.request = r /\ a.blockTable = bt /\ a.allocated = ids /\ a.tokens = tokens
      BY <1>14
    <2>8. /\ \A v \in DOMAIN m.pendingAllocations : m.pendingAllocations[v].request # r =>
               v \in DOMAIN n.pendingAllocations /\ n.pendingAllocations[v] = m.pendingAllocations[v]
          /\ \A v \in DOMAIN n.pendingAllocations : n.pendingAllocations[v].request # r =>
               v \in DOMAIN m.pendingAllocations /\ n.pendingAllocations[v] = m.pendingAllocations[v]
      BY <2>7, <2>a
    <2>9. \A y \in Requests : y # r => request'[y] = request[y]
      BY <1>4
    <2>10. /\ OthersSame(r) /\ mgr'[e] = n
           /\ \A f \in Executors : f # e => mgr'[f] = mgr[f]
      <3>1. mgr' = [mgr EXCEPT ![e] = n] /\ e \in Executors
        BY <1>2, <1>4
      <3>2. /\ OthersKept(mgr[e], n, r)
            /\ \A v \in DOMAIN mgr[e].pendingAllocations : mgr[e].pendingAllocations[v].request # r =>
                 v \in DOMAIN n.pendingAllocations /\ n.pendingAllocations[v] = mgr[e].pendingAllocations[v]
            /\ \A v \in DOMAIN n.pendingAllocations : n.pendingAllocations[v].request # r =>
                 v \in DOMAIN mgr[e].pendingAllocations /\ n.pendingAllocations[v] = mgr[e].pendingAllocations[v]
        BY <2>6, <2>8 DEF m
      <3> QED
        BY <3>1, <3>2, <2>9, OthersSameOf
    <2>11. IndexesShrink
      BY <2>5, <2>10, <2>s DEF IndexesShrink, IndexShrinks, m
    <2>12. \A f \in Executors : \A v \in DOMAIN mgr'[f].pendingAllocations :
             mgr'[f].pendingAllocations[v].request = r => f = e /\ v = w
      BY <1>w, <2>7, <2>10 DEF m
    <2>13. tokens <= Len(bt) * BlockSize[e]
      BY <1>6, <1>8, <1>13, <2>2, <2>3, CeilCovers
    <2>14. /\ w \in DOMAIN mgr'[e].pendingAllocations /\ mgr'[e].pendingAllocations[w] = a
           /\ Lookup(mgr'[e].requestBlocks, r) = a.blockTable
      BY <2>6, <2>7, <2>10, <2>a
    <2>15. /\ a.allocated \in Seq(BlockIds(e)) /\ a.blockTable \in Seq(BlockIds(e))
           /\ Len(a.blockTable) = Len(old) + Len(a.allocated)
           /\ \A i \in 1..Len(old) : a.blockTable[i] = old[i]
           /\ \A i \in 1..Len(a.allocated) : a.blockTable[Len(old) + i] = a.allocated[i]
           /\ tokens <= Len(a.blockTable) * BlockSize[e]
      BY <2>2, <2>3, <2>13, <2>a
    <2>16. old \in Seq(BlockIds(e))
      BY <1>9
    <2> QED
      BY <2>10, <2>11, <2>12, <2>14, <2>15, <2>16, <2>a
  <1>18. ASSUME ~canAllocate(m, k) PROVE DOMAIN mgr' = Executors /\ \A f \in Executors : mgr'[f] = mgr[f]
    <2>1. n = m
      BY <1>12, <1>18 DEF AllocateBlocks
    <2> QED
      BY <1>2, <1>4, <2>1 DEF m
  <1> QED
    BY <1>2, <1>4, <1>6, <1>17, <1>18 DEF q, e, m, work, k, a, old

(* The tables, the allocations and the index of a manager are the same. *)
SameTables(m, n) ==
  n.requestBlocks = m.requestBlocks /\ n.pendingAllocations = m.pendingAllocations

(* Counting and queueing leave tables and index alone; allocate shrinks the *)
(* index.                                                                   *)
LEMMA BlockOpsTables ==
  ASSUME NEW e, NEW m, Good(e, m), NEW ids, NEW k
  PROVE  /\ SameTables(m, touch(m, ids)) /\ touch(m, ids).cachedBlocks = m.cachedBlocks
         /\ SameTables(m, pushFree(m, ids)) /\ pushFree(m, ids).cachedBlocks = m.cachedBlocks
         /\ SameTables(m, allocate(m, k)) /\ IndexShrinks(m, allocate(m, k))
  <1>1. /\ SameTables(m, touch(m, ids)) /\ touch(m, ids).cachedBlocks = m.cachedBlocks
    BY DEF touch, SameTables, Good, ManagerOK
  <1>2. /\ SameTables(m, pushFree(m, ids)) /\ pushFree(m, ids).cachedBlocks = m.cachedBlocks
    BY DEF pushFree, SameTables, Good, ManagerOK
  <1>3. SameTables(m, allocate(m, k))
    BY DEF allocate, SameTables, Good, ManagerOK
  <1>4. IndexShrinks(m, allocate(m, k))
    <2> DEFINE K == {m.hash[b] : b \in {c \in Range(popped(m, k)) : m.cached[c]}}
    <2>1. allocate(m, k).cachedBlocks = Without(m.cachedBlocks, K)
      BY DEF allocate, Good, ManagerOK
    <2> HIDE DEF K
    <2> QED
      BY <2>1 DEF IndexShrinks, Without, Restrict
  <1> QED
    BY <1>1, <1>2, <1>3, <1>4

(* Of a committed work's table, the full blocks may enter the index. *)
NewlyIndexed(e, h, b, bt, hs, n) ==
  \E i \in DOMAIN bt : i \in DOMAIN hs /\ i * BlockSize[e] <= n /\ h = hs[i] /\ b = bt[i]

(* Commit *)
LEMMA CommitEffect ==
  ASSUME Inv, Held, NEW e \in Executors, NEW w \in Works, CommitWork(e, w)
  PROVE  LET a == mgr[e].pendingAllocations[w]
             r == a.request
         IN
         /\ UNCHANGED transfer /\ r \in Requests /\ OthersSame(r) /\ NoWorkOf(r)
         /\ request'[r].live = request[r].live /\ request'[r].executor = request[r].executor
         /\ request'[r].prompt = request[r].prompt /\ request'[r].computed = a.tokens
         /\ Lookup(mgr'[e].requestBlocks, r) = Lookup(mgr[e].requestBlocks, r)
         /\ \A f \in Executors : f # e => mgr'[f] = mgr[f]
         /\ \A h \in DOMAIN mgr'[e].cachedBlocks :
              \/ h \in DOMAIN mgr[e].cachedBlocks /\ mgr'[e].cachedBlocks[h] = mgr[e].cachedBlocks[h]
              \/ NewlyIndexed(e, h, mgr'[e].cachedBlocks[h], a.blockTable, a.hashes, a.tokens)
  <1> DEFINE m  == mgr[e]
             a  == m.pendingAllocations[w]
             r  == a.request
             bt == a.blockTable
             hs == a.hashes
             K  == newlyCached(m, a)
             n  == Commit(m, w)
  <1>1. Good(e, m) /\ DOMAIN mgr = Executors
    BY ExecutorFacts
  <1>2. DOMAIN request = Requests /\ \A x \in Requests : RequestOK(request[x])
    BY InvParts DEF RequestsInv
  <1>4. /\ w \in DOMAIN m.pendingAllocations /\ mgr' = [mgr EXCEPT ![e] = n]
        /\ request' = [request EXCEPT ![r].computed = a.tokens] /\ transfer' = transfer
    BY DEF CommitWork
  <1>5. /\ r \in Requests /\ hs \in Seq(Hashes) /\ bt \in Seq(BlockIds(e))
        /\ \A v \in DOMAIN m.pendingAllocations : m.pendingAllocations[v].request = r => v = w
    BY <1>4, WorkFacts
  <1>6. \A i \in DOMAIN bt : committedTokens(m, a)[bt[i]] = m.blockSize <=> i * m.blockSize <= a.tokens
    BY <1>4, CommittedFull
  <1>7. /\ request'[r].live = request[r].live /\ request'[r].executor = request[r].executor
        /\ request'[r].prompt = request[r].prompt /\ request'[r].computed = a.tokens
        /\ \A x \in Requests : x # r => request'[x] = request[x]
    <2>1. RequestOK(request[r])
      BY <1>2, <1>5
    <2> HIDE DEF a
    <2> QED
      BY <1>2, <1>4, <1>5, <2>1 DEF RequestOK
  <1>8. \A f \in Executors : \A v \in DOMAIN mgr[f].pendingAllocations :
          mgr[f].pendingAllocations[v].request = r => f = e /\ v = w
    <2> SUFFICES ASSUME NEW f \in Executors, NEW v \in DOMAIN mgr[f].pendingAllocations,
                        mgr[f].pendingAllocations[v].request = r
                 PROVE  f = e /\ v = w
      OBVIOUS
    <2>1. f = e
      <3>1. request[r].executor = f
        BY WorksAtExecutor
      <3>2. request[r].executor = e
        BY <1>4, WorksAtExecutor
      <3> QED
        BY <3>1, <3>2
    <2> QED
      BY <1>5, <2>1
  <1> HIDE DEF m, a
  <1>9. m.blockSize = BlockSize[e]
    BY <1>1, GoodFields
  <1>10. /\ n.requestBlocks = m.requestBlocks
         /\ n.pendingAllocations = Without(m.pendingAllocations, {w})
         /\ n.cachedBlocks = [h \in DOMAIN m.cachedBlocks \cup {hs[i] : i \in K} |->
                                IF \E i \in K : hs[i] = h
                                THEN bt[CHOOSE i \in K : hs[i] = h] ELSE m.cachedBlocks[h]]
    <2> HIDE DEF K
    <2>1. n = [indexBlocks(m, bt, hs, K) EXCEPT !.tokenCount = committedTokens(m, a),
                 !.pendingAllocations = Without(m.pendingAllocations, {w})]
      BY <1>4 DEF Commit, a, K
    <2> HIDE DEF n, bt, hs
    <2> QED
      BY <1>1, <2>1 DEF indexBlocks, Good, ManagerOK
  <1>11. \A i \in K : i \in DOMAIN bt /\ i \in DOMAIN hs /\ i * BlockSize[e] <= a.tokens
    <2> SUFFICES ASSUME NEW i \in K
                 PROVE  i \in DOMAIN bt /\ i \in DOMAIN hs /\ i * BlockSize[e] <= a.tokens
      OBVIOUS
    <2>1. i \in DOMAIN bt /\ committedTokens(m, a)[bt[i]] = m.blockSize /\ i <= Len(hs)
      BY DEF newlyCached, eligible
    <2>2. i \in DOMAIN hs
      <3> HIDE DEF bt, hs
      <3> QED
        BY <1>5, <2>1
    <2> QED
      BY <1>6, <1>9, <2>1, <2>2
  <1> HIDE DEF n, K, bt, hs
  <1>12. ASSUME NEW h \in DOMAIN n.cachedBlocks
         PROVE  \/ h \in DOMAIN m.cachedBlocks /\ n.cachedBlocks[h] = m.cachedBlocks[h]
                \/ NewlyIndexed(e, h, n.cachedBlocks[h], bt, hs, a.tokens)
    <2>1. CASE \E i \in K : hs[i] = h
      <3> DEFINE c == CHOOSE i \in K : hs[i] = h
      <3>1. c \in K /\ hs[c] = h
        BY <2>1
      <3>2. n.cachedBlocks[h] = bt[c]
        BY <1>10, <1>12, <2>1
      <3> HIDE DEF c
      <3> QED
        BY <1>11, <3>1, <3>2 DEF NewlyIndexed
    <2>2. CASE ~\E i \in K : hs[i] = h
      BY <1>10, <1>12, <2>2
    <2> QED
      BY <2>1, <2>2
  <1>13. /\ DOMAIN n.pendingAllocations = DOMAIN m.pendingAllocations \ {w}
         /\ \A v \in DOMAIN n.pendingAllocations : n.pendingAllocations[v] = m.pendingAllocations[v]
    BY <1>10 DEF Without, Restrict
  <1>14. /\ OthersSame(r) /\ mgr'[e] = n
         /\ \A f \in Executors : f # e => mgr'[f] = mgr[f]
    <2>1. OthersKept(mgr[e], n, r)
      BY <1>10 DEF OthersKept, m
    <2>2. /\ \A v \in DOMAIN mgr[e].pendingAllocations : mgr[e].pendingAllocations[v].request # r =>
               v \in DOMAIN n.pendingAllocations /\ n.pendingAllocations[v] = mgr[e].pendingAllocations[v]
          /\ \A v \in DOMAIN n.pendingAllocations : n.pendingAllocations[v].request # r =>
               v \in DOMAIN mgr[e].pendingAllocations /\ n.pendingAllocations[v] = mgr[e].pendingAllocations[v]
      BY <1>13 DEF m, a
    <2> HIDE DEF r
    <2> QED
      BY <1>4, <1>5, <1>7, <2>1, <2>2, OthersSameOf
  <1>15. NoWorkOf(r)
    BY <1>8, <1>13, <1>14 DEF NoWorkOf, m
  <1> QED
    BY <1>4, <1>5, <1>7, <1>10, <1>12, <1>14, <1>15 DEF m, a, bt, hs

(* Rollback *)
LEMMA RollbackEffect ==
  ASSUME Inv, Held, NEW e \in Executors, NEW w \in Works, RollbackWork(e, w)
  PROVE  LET a == mgr[e].pendingAllocations[w]
             r == a.request
         IN
         /\ UNCHANGED <<request, transfer>> /\ r \in Requests /\ OthersSame(r) /\ NoWorkOf(r)
         /\ IndexesShrink
         /\ Len(Lookup(mgr'[e].requestBlocks, r)) = Len(a.blockTable) - Len(a.allocated)
  <1> DEFINE m   == mgr[e]
             a   == m.pendingAllocations[w]
             r   == a.request
             q   == request[r]
             bt  == a.blockTable
             new == a.allocated
             cut == SubSeq(bt, 1, Len(bt) - Len(new))
             x   == pushFree(m, new)
             n   == Rollback(m, w)
  <1>1. Good(e, m) /\ DOMAIN mgr = Executors
    BY ExecutorFacts
  <1>4. /\ w \in DOMAIN m.pendingAllocations /\ mgr' = [mgr EXCEPT ![e] = n]
        /\ request' = request /\ transfer' = transfer
    BY DEF RollbackWork
  <1>5. /\ r \in Requests /\ AllocationSound(e, m, a, q) /\ Lookup(m.requestBlocks, r) = bt
        /\ bt \in Seq(BlockIds(e)) /\ new \in Seq(BlockIds(e))
        /\ \A v \in DOMAIN m.pendingAllocations : m.pendingAllocations[v].request = r => v = w
    BY <1>4, WorkFacts
  <1>6. Len(q.cache) \in Nat
    <2>1. RequestOK(q)
      BY <1>5, InvParts DEF RequestsInv
    <2> HIDE DEF q
    <2> QED
      BY <2>1 DEF RequestOK
  <1>7. /\ Len(bt) \in Nat /\ Len(new) \in Nat /\ Len(new) <= Len(bt)
    <2>1. Len(bt) \in Nat /\ Len(new) \in Nat
      BY <1>5, SMTT(30)
    <2>2. Len(q.cache) + Len(new) <= Len(bt)
      BY <1>5 DEF AllocationSound
    <2> HIDE DEF bt, new, q
    <2> QED
      BY <1>6, <2>1, <2>2
  <1>8. \A f \in Executors : \A v \in DOMAIN mgr[f].pendingAllocations :
          mgr[f].pendingAllocations[v].request = r => f = e /\ v = w
    <2> SUFFICES ASSUME NEW f \in Executors, NEW v \in DOMAIN mgr[f].pendingAllocations,
                        mgr[f].pendingAllocations[v].request = r
                 PROVE  f = e /\ v = w
      OBVIOUS
    <2>1. f = e
      <3>1. request[r].executor = f
        BY WorksAtExecutor
      <3>2. request[r].executor = e
        BY <1>4, WorksAtExecutor
      <3> QED
        BY <3>1, <3>2
    <2> QED
      BY <1>5, <2>1
  <1>9. n = [x EXCEPT !.requestBlocks      = IF cut = << >> THEN Without(m.requestBlocks, {r})
                                             ELSE Put(m.requestBlocks, r, cut),
                      !.pendingAllocations = Without(m.pendingAllocations, {w})]
    <2>1. truncated(bt, Len(new)) = cut
      <3> HIDE DEF a, bt, new, q
      <3> QED
        BY <1>7 DEF truncated
    <2> QED
      BY <1>4, <1>5, <2>1 DEF Rollback
  <1>10. Len(cut) = Len(bt) - Len(new)
    <2> HIDE DEF bt, new
    <2> QED
      BY <1>5, <1>7
  <1> HIDE DEF m, a, bt, new, cut
  <1>11. Good(e, x) /\ SameTables(m, x) /\ x.cachedBlocks = m.cachedBlocks
    BY <1>1, <1>5, BlockOpsTables, PushFreeGood
  <1> HIDE DEF x, n
  <1>15. /\ n.cachedBlocks = m.cachedBlocks
         /\ n.requestBlocks = IF cut = << >> THEN Without(m.requestBlocks, {r})
                              ELSE Put(m.requestBlocks, r, cut)
         /\ n.pendingAllocations = Without(m.pendingAllocations, {w})
    BY <1>9, <1>11 DEF Good, ManagerOK
  <1>18. OthersKept(m, n, r) /\ Lookup(n.requestBlocks, r) = cut
    <2>1. CASE cut = << >>
      BY <1>15, <2>1, KeptWithout
    <2>2. CASE cut # << >>
      <3>1. n.requestBlocks = Put(m.requestBlocks, r, cut)
        BY <1>15, <2>2
      <3> HIDE DEF r
      <3> QED
        BY <3>1, KeptPut
    <2> QED
      BY <2>1, <2>2
  <1>13. /\ DOMAIN n.pendingAllocations = DOMAIN m.pendingAllocations \ {w}
         /\ \A v \in DOMAIN n.pendingAllocations : n.pendingAllocations[v] = m.pendingAllocations[v]
    BY <1>15 DEF Without, Restrict
  <1>14. /\ OthersSame(r) /\ mgr'[e] = n
         /\ \A f \in Executors : f # e => mgr'[f] = mgr[f]
    <2>1. OthersKept(mgr[e], n, r)
      BY <1>18 DEF m
    <2>2. /\ \A v \in DOMAIN mgr[e].pendingAllocations : mgr[e].pendingAllocations[v].request # r =>
               v \in DOMAIN n.pendingAllocations /\ n.pendingAllocations[v] = mgr[e].pendingAllocations[v]
          /\ \A v \in DOMAIN n.pendingAllocations : n.pendingAllocations[v].request # r =>
               v \in DOMAIN mgr[e].pendingAllocations /\ n.pendingAllocations[v] = mgr[e].pendingAllocations[v]
      BY <1>13 DEF m, a
    <2>3. \A x2 \in Requests : x2 # r => request'[x2] = request[x2]
      BY <1>4
    <2> HIDE DEF r
    <2> QED
      BY <1>4, <1>5, <2>1, <2>2, <2>3, OthersSameOf
  <1>16. NoWorkOf(r)
    BY <1>8, <1>13, <1>14 DEF NoWorkOf, m
  <1>17. IndexesShrink
    BY <1>14, <1>15 DEF IndexesShrink, IndexShrinks, m
  <1> QED
    BY <1>4, <1>5, <1>10, <1>14, <1>16, <1>17, <1>18 DEF m, a, bt, new

(* FreeRequest *)
LEMMA EndEffect ==
  ASSUME Inv, Held, NEW r \in Requests, FreeRequestOf(r)
  PROVE  /\ UNCHANGED transfer /\ request[r].live /\ ~request'[r].live
         /\ OthersSame(r) /\ NoWorkOf(r) /\ IndexesShrink
  <1> DEFINE e     == request[r].executor
             m     == mgr[e]
             x     == pushFree(m, Lookup(m.requestBlocks, r))
             n     == FreeRequest(m, r)
             W     == worksOf(m, r)
  <1>1. ManagersInv /\ RequestsInv
    BY InvParts
  <1>2. /\ e \in Executors /\ Good(e, m) /\ DOMAIN mgr = Executors /\ DOMAIN request = Requests
    BY <1>1 DEF ManagersInv, RequestsInv, RequestOK
  <1>4. /\ request[r].live /\ mgr' = [mgr EXCEPT ![e] = n]
        /\ request' = [request EXCEPT ![r] = noRequest] /\ transfer' = transfer
    BY DEF FreeRequestOf
  <1>5. n = [x EXCEPT !.requestBlocks      = Without(m.requestBlocks, {r}),
                      !.pendingAllocations = Without(m.pendingAllocations, W)]
    BY DEF FreeRequest
  <1>6. ~request'[r].live /\ \A y \in Requests : y # r => request'[y] = request[y]
    BY <1>2, <1>4 DEF noRequest
  <1>7. \A f \in Executors : \A v \in DOMAIN mgr[f].pendingAllocations :
          mgr[f].pendingAllocations[v].request = r => f = e
    BY WorksAtExecutor
  <1>b. m.requestBlocks \in [DOMAIN m.requestBlocks -> Seq(BlockIds(e))]
    <2> HIDE DEF m, e
    <2> QED
      BY <1>2, GoodFields
  <1>c. Lookup(m.requestBlocks, r) \in Seq(BlockIds(e))
    <2> HIDE DEF m, e
    <2> QED
      BY <1>b DEF Lookup
  <1> HIDE DEF m, e
  <1>8. Good(e, x) /\ SameTables(m, x) /\ x.cachedBlocks = m.cachedBlocks
    BY <1>2, <1>c, BlockOpsTables, PushFreeGood
  <1>w. \A v : v \in W <=> v \in DOMAIN m.pendingAllocations /\ m.pendingAllocations[v].request = r
    BY DEF worksOf
  <1> HIDE DEF x, n, W
  <1>9. /\ n.cachedBlocks = m.cachedBlocks
        /\ n.requestBlocks = Without(m.requestBlocks, {r})
        /\ n.pendingAllocations = Without(m.pendingAllocations, W)
    BY <1>5, <1>8 DEF Good, ManagerOK
  <1>10. OthersKept(m, n, r)
    BY <1>9, KeptWithout
  <1>13. /\ DOMAIN n.pendingAllocations = DOMAIN m.pendingAllocations \ W
         /\ \A v \in DOMAIN n.pendingAllocations : n.pendingAllocations[v] = m.pendingAllocations[v]
    BY <1>9 DEF Without, Restrict
  <1>14. /\ OthersSame(r) /\ mgr'[e] = n
         /\ \A f \in Executors : f # e => mgr'[f] = mgr[f]
    <2>1. OthersKept(mgr[e], n, r)
      BY <1>10 DEF m
    <2>2. /\ \A v \in DOMAIN mgr[e].pendingAllocations : mgr[e].pendingAllocations[v].request # r =>
               v \in DOMAIN n.pendingAllocations /\ n.pendingAllocations[v] = mgr[e].pendingAllocations[v]
          /\ \A v \in DOMAIN n.pendingAllocations : n.pendingAllocations[v].request # r =>
               v \in DOMAIN mgr[e].pendingAllocations /\ n.pendingAllocations[v] = mgr[e].pendingAllocations[v]
      BY <1>13, <1>w DEF m
    <2>3. mgr' = [mgr EXCEPT ![e] = n] /\ e \in Executors
      BY <1>2, <1>4
    <2> QED
      BY <1>6, <2>1, <2>2, <2>3, OthersSameOf
  <1>15. NoWorkOf(r)
    BY <1>7, <1>13, <1>14, <1>w DEF NoWorkOf, m
  <1>16. IndexesShrink
    BY <1>9, <1>14 DEF IndexesShrink, IndexShrinks, m
  <1> QED
    BY <1>4, <1>6, <1>14, <1>15, <1>16

(* A step of a transfer leaves requests, tables and works alone. *)
TablesSame ==
  /\ DOMAIN mgr' = Executors /\ UNCHANGED request
  /\ \A e \in Executors : SameTables(mgr[e], mgr'[e])

OtherPlansSame(t) ==
  DOMAIN transfer' = Transfers /\ \A u \in Transfers : u # t => transfer'[u] = transfer[u]

(* A step of one manager that changes no table. *)
LEMMA TablesSameOf ==
  ASSUME Inv, Held, NEW e \in Executors, NEW n, mgr' = [mgr EXCEPT ![e] = n], UNCHANGED request,
         SameTables(mgr[e], n)
  PROVE  /\ TablesSame /\ mgr'[e] = n /\ \A f \in Executors : f # e => mgr'[f] = mgr[f]
         /\ IndexShrinks(mgr[e], n) => IndexesShrink
  <1>1. DOMAIN mgr = Executors
    BY ExecutorFacts
  <1>2. mgr'[e] = n /\ DOMAIN mgr' = Executors /\ \A f \in Executors : f # e => mgr'[f] = mgr[f]
    BY <1>1
  <1>3. TablesSame
    BY <1>2 DEF TablesSame, SameTables
  <1>4. IndexShrinks(mgr[e], n) => IndexesShrink
    BY <1>2 DEF IndexesShrink, IndexShrinks
  <1> QED
    BY <1>2, <1>3, <1>4

(* PrepareTransfer *)
LEMMA PrepareEffect ==
  ASSUME Inv, Held, NEW t \in Transfers, NEW s \in Executors, NEW d \in Executors,
         NEW hashes \in HashPrefixes, PrepareTransfer(t, s, d, hashes)
  PROVE  /\ TablesSame /\ IndexesShrink /\ OtherPlansSame(t)
         /\ transfer[t].step = "idle" /\ transfer'[t].step = "pinned"
         /\ transfer'[t].source = s /\ transfer'[t].destination = d /\ BlockSize[s] = BlockSize[d]
  <1> DEFINE n == touch(mgr[s], pinnedBlocks(mgr[s], hashes))
             plan == [step |-> "pinned", source |-> s, destination |-> d, hashes |-> hashes,
                      sourceBlocks |-> pinnedBlocks(mgr[s], hashes), destinationBlocks |-> << >>]
  <1>1. /\ transfer[t].step = "idle" /\ BlockSize[s] = BlockSize[d] /\ request' = request
        /\ mgr' = [mgr EXCEPT ![s] = n] /\ transfer' = [transfer EXCEPT ![t] = plan]
    BY DEF PrepareTransfer, pinCachedBlocks
  <1>2. Good(s, mgr[s])
    BY ExecutorFacts
  <1>3. SameTables(mgr[s], n) /\ n.cachedBlocks = mgr[s].cachedBlocks
    BY <1>2, BlockOpsTables
  <1>4. DOMAIN transfer = Transfers
    BY PlanFacts
  <1>5. transfer'[t] = plan /\ OtherPlansSame(t)
    BY <1>1, <1>4 DEF OtherPlansSame
  <1>6. IndexShrinks(mgr[s], n)
    BY <1>3 DEF IndexShrinks
  <1> HIDE DEF n
  <1>7. TablesSame /\ IndexesShrink
    BY <1>1, <1>3, <1>6, TablesSameOf
  <1> QED
    BY <1>1, <1>5, <1>7

(* ReserveDestination *)
LEMMA ReserveEffect ==
  ASSUME Inv, Held, NEW t \in Transfers, ReserveDestination(t)
  PROVE  LET plan == transfer[t]
             dst  == mgr[plan.destination]
             n    == Len(plan.hashes)
         IN
         /\ TablesSame /\ IndexesShrink /\ OtherPlansSame(t) /\ plan.step = "pinned"
         /\ transfer'[t].source = plan.source /\ transfer'[t].destination = plan.destination
         /\ transfer'[t].hashes = plan.hashes /\ transfer'[t].sourceBlocks = plan.sourceBlocks
         /\ IF canAllocate(dst, n)
            THEN /\ transfer'[t].step = "pending" /\ transfer'[t].destinationBlocks = popped(dst, n)
                 /\ popped(dst, n) \in Seq(BlockIds(plan.destination)) /\ Len(popped(dst, n)) = n
            ELSE transfer'[t].step = "settled"
  <1> DEFINE plan == transfer[t]
             d    == plan.destination
             k    == Len(plan.hashes)
             n    == reserveTransferBlocks(mgr[d], k)
  <1>1. /\ mgr' = [mgr EXCEPT ![d] = n] /\ request' = request /\ plan.step = "pinned"
        /\ IF canAllocate(mgr[d], k)
           THEN transfer' = [transfer EXCEPT ![t].step = "pending",
                                          ![t].destinationBlocks = popped(mgr[d], k)]
           ELSE transfer' = [transfer EXCEPT ![t].step = "settled"]
    BY DEF ReserveDestination
  <1>2. d \in Executors /\ k \in Nat /\ PlanOK(plan) /\ DOMAIN transfer = Transfers
    BY PlanFacts
  <1>3. Good(d, mgr[d]) /\ IndexSound(mgr[d]) /\ Unshared(mgr[d])
    BY <1>2, ExecutorFacts
  <1>4. SameTables(mgr[d], n) /\ IndexShrinks(mgr[d], n)
    <2> HIDE DEF d, k
    <2>1. SameTables(mgr[d], allocate(mgr[d], k)) /\ IndexShrinks(mgr[d], allocate(mgr[d], k))
      BY <1>3, BlockOpsTables
    <2>2. SameTables(mgr[d], mgr[d]) /\ IndexShrinks(mgr[d], mgr[d])
      BY DEF SameTables, IndexShrinks
    <2> QED
      BY <2>1, <2>2 DEF reserveTransferBlocks
  <1>5. canAllocate(mgr[d], k) => popped(mgr[d], k) \in Seq(BlockIds(d)) /\ Len(popped(mgr[d], k)) = k
    <2> HIDE DEF d, k
    <2> QED
      BY <1>2, <1>3, AllocateEffect
  <1>6. /\ OtherPlansSame(t)
        /\ transfer'[t].source = plan.source /\ transfer'[t].destination = plan.destination
        /\ transfer'[t].hashes = plan.hashes /\ transfer'[t].sourceBlocks = plan.sourceBlocks
        /\ IF canAllocate(mgr[d], k)
           THEN transfer'[t].step = "pending" /\ transfer'[t].destinationBlocks = popped(mgr[d], k)
           ELSE transfer'[t].step = "settled"
    <2> HIDE DEF d, k
    <2> QED
      BY <1>1, <1>2 DEF OtherPlansSame, PlanOK
  <1> HIDE DEF n
  <1>7. TablesSame /\ IndexesShrink
    BY <1>1, <1>2, <1>4, TablesSameOf
  <1> QED
    BY <1>1, <1>5, <1>6, <1>7

(* RollbackTransfer and ReleaseSource *)
LEMMA SettleEffect ==
  ASSUME Inv, Held, NEW t \in Transfers, RollbackTransfer(t)
  PROVE  /\ TablesSame /\ IndexesShrink /\ OtherPlansSame(t)
         /\ transfer[t].step = "pending" /\ transfer'[t].step = "settled"
         /\ transfer'[t].source = transfer[t].source
         /\ transfer'[t].destination = transfer[t].destination
  <1> DEFINE d == transfer[t].destination
             n == pushFree(mgr[d], transfer[t].destinationBlocks)
  <1>1. /\ mgr' = [mgr EXCEPT ![d] = n] /\ request' = request /\ transfer[t].step = "pending"
        /\ transfer' = [transfer EXCEPT ![t].step = "settled", ![t].destinationBlocks = << >>]
    BY DEF RollbackTransfer, releaseTransferBlocks
  <1>2. d \in Executors /\ PlanOK(transfer[t]) /\ DOMAIN transfer = Transfers
    BY PlanFacts
  <1>3. SameTables(mgr[d], n) /\ n.cachedBlocks = mgr[d].cachedBlocks
    BY <1>2, ExecutorFacts, BlockOpsTables
  <1>4. IndexShrinks(mgr[d], n)
    BY <1>3 DEF IndexShrinks
  <1>5. /\ OtherPlansSame(t) /\ transfer'[t].step = "settled"
        /\ transfer'[t].source = transfer[t].source
        /\ transfer'[t].destination = transfer[t].destination
    BY <1>1, <1>2 DEF OtherPlansSame, PlanOK
  <1> HIDE DEF n, d
  <1>6. TablesSame /\ IndexesShrink
    BY <1>1, <1>2, <1>3, <1>4, TablesSameOf
  <1> QED
    BY <1>1, <1>5, <1>6

(* Release of the source: no table and no index gains anything. *)
LEMMA UnpinEffect ==
  ASSUME Inv, Held, NEW t \in Transfers, ReleaseSource(t)
  PROVE  /\ TablesSame /\ IndexesShrink /\ OtherPlansSame(t)
         /\ transfer[t].step = "settled" /\ transfer'[t].step = "idle"
  <1> DEFINE s == transfer[t].source
             n == pushFree(mgr[s], transfer[t].sourceBlocks)
  <1>1. /\ mgr' = [mgr EXCEPT ![s] = n] /\ request' = request /\ transfer[t].step = "settled"
        /\ transfer' = [transfer EXCEPT ![t] = noTransferPlan]
    BY DEF ReleaseSource, releaseTransferBlocks
  <1>2. s \in Executors /\ DOMAIN transfer = Transfers
    BY PlanFacts
  <1>3. SameTables(mgr[s], n) /\ n.cachedBlocks = mgr[s].cachedBlocks
    BY <1>2, ExecutorFacts, BlockOpsTables
  <1>4. IndexShrinks(mgr[s], n)
    BY <1>3 DEF IndexShrinks
  <1>5. OtherPlansSame(t) /\ transfer'[t].step = "idle"
    BY <1>1, <1>2 DEF OtherPlansSame, noTransferPlan
  <1> HIDE DEF n, s
  <1>6. TablesSame /\ IndexesShrink
    BY <1>1, <1>2, <1>3, <1>4, TablesSameOf
  <1> QED
    BY <1>1, <1>5, <1>6

(* CommitTransfer *)
LEMMA ConfirmEffect ==
  ASSUME Inv, Held, NEW t \in Transfers, CommitTransfer(t)
  PROVE  LET plan == transfer[t]
             d    == plan.destination
         IN
         /\ TablesSame /\ OtherPlansSame(t) /\ d \in Executors
         /\ plan.step = "pending" /\ transfer'[t].step = "settled"
         /\ transfer'[t].source = plan.source /\ transfer'[t].destination = d
         /\ \A f \in Executors : f # d => mgr'[f] = mgr[f]
         /\ \A h \in DOMAIN mgr'[d].cachedBlocks :
              \/ h \in DOMAIN mgr[d].cachedBlocks /\ mgr'[d].cachedBlocks[h] = mgr[d].cachedBlocks[h]
              \/ \E i \in DOMAIN plan.destinationBlocks :
                   h = plan.hashes[i] /\ mgr'[d].cachedBlocks[h] = plan.destinationBlocks[i]
  <1> DEFINE plan == transfer[t]
             d      == plan.destination
             m      == mgr[d]
             ids    == plan.destinationBlocks
             hashes == plan.hashes
             K      == installed(m, ids, hashes)
             n      == commitImportedBlocks(m, ids, hashes)
  <1>1. /\ mgr' = [mgr EXCEPT ![d] = n] /\ request' = request /\ plan.step = "pending"
        /\ transfer' = [transfer EXCEPT ![t].step = "settled", ![t].destinationBlocks = << >>]
    BY DEF CommitTransfer
  <1>2. d \in Executors /\ PlanOK(plan) /\ DOMAIN transfer = Transfers
    BY PlanFacts
  <1>3. Good(d, m)
    BY <1>2, ExecutorFacts
  <1>5. /\ OtherPlansSame(t) /\ transfer'[t].step = "settled"
        /\ transfer'[t].source = plan.source /\ transfer'[t].destination = d
    BY <1>1, <1>2 DEF OtherPlansSame, PlanOK
  <1> HIDE DEF m, d, ids, hashes
  <1>4. /\ n.cachedBlocks = [h \in DOMAIN m.cachedBlocks \cup {hashes[i] : i \in K} |->
                            IF \E i \in K : hashes[i] = h
                            THEN ids[CHOOSE i \in K : hashes[i] = h] ELSE m.cachedBlocks[h]]
        /\ SameTables(m, n)
    BY <1>3 DEF commitImportedBlocks, indexBlocks, pushFree, Good, ManagerOK, SameTables
  <1>6. \A i \in K : i \in DOMAIN ids
    BY DEF installed
  <1> HIDE DEF n, K
  <1>7. ASSUME NEW h \in DOMAIN n.cachedBlocks
        PROVE  \/ h \in DOMAIN m.cachedBlocks /\ n.cachedBlocks[h] = m.cachedBlocks[h]
               \/ \E i \in DOMAIN ids : h = hashes[i] /\ n.cachedBlocks[h] = ids[i]
    <2>1. CASE \E i \in K : hashes[i] = h
      <3> DEFINE c == CHOOSE i \in K : hashes[i] = h
      <3>1. c \in K /\ hashes[c] = h
        BY <2>1
      <3>2. n.cachedBlocks[h] = ids[c]
        BY <1>4, <1>7, <2>1
      <3> HIDE DEF c
      <3> QED
        BY <1>6, <3>1, <3>2
    <2>2. CASE ~\E i \in K : hashes[i] = h
      BY <1>4, <1>7, <2>2
    <2> QED
      BY <2>1, <2>2
  <1>8. TablesSame /\ mgr'[d] = n /\ \A f \in Executors : f # d => mgr'[f] = mgr[f]
    <2>1. SameTables(mgr[d], n) /\ mgr' = [mgr EXCEPT ![d] = n]
      BY <1>1, <1>4 DEF m
    <2> QED
      BY <1>1, <1>2, <2>1, TablesSameOf
  <1> QED
    BY <1>1, <1>2, <1>5, <1>7, <1>8 DEF m, d, ids, hashes

-----------------------------------------------------------------------------
(* What is known in every state *)

System == Inv /\ Held /\ CallsTyped /\ ExecutorsTyped

(* No table names a block twice. *)
TablesInjective == \A r \in Requests : request[r].live => IsInjective(tableOf(r))

(* The blocks of a table are different owners' shares. *)
LEMMA HeldInjective == Inv /\ Held => TablesInjective
  <1> SUFFICES ASSUME Inv, Held, NEW r \in Requests, request[r].live
               PROVE  IsInjective(tableOf(r))
    BY DEF TablesInjective
  <1>1. \A i, j \in DOMAIN tableOf(r) : tableOf(r)[i] = tableOf(r)[j] => i = j
    BY TableInjective DEF tableOf
  <1> QED
    BY <1>1 DEF IsInjective

(* A live request, its executor and its table. *)
LEMMA RequestFacts ==
  ASSUME Inv, Held, NEW r \in Requests
  PROVE  LET e == request[r].executor IN
         /\ e \in Executors /\ request[r].computed \in Nat /\ request[r].prompt \in Prompts
         /\ tableOf(r) \in Seq(BlockIds(e)) /\ Len(tableOf(r)) \in Nat
         /\ BlockSize[e] \in Nat /\ BlockSize[e] > 0
         /\ DOMAIN mgr = Executors /\ DOMAIN request = Requests
  <1> DEFINE e == request[r].executor
  <1>1. RequestOK(request[r]) /\ DOMAIN request = Requests
    BY InvParts DEF RequestsInv
  <1>2. e \in Executors /\ request[r].computed \in Nat /\ request[r].prompt \in Prompts
    BY <1>1 DEF RequestOK
  <1> HIDE DEF e
  <1>3. Good(e, mgr[e]) /\ DOMAIN mgr = Executors
    BY <1>2, ExecutorFacts
  <1>4. mgr[e].requestBlocks \in [DOMAIN mgr[e].requestBlocks -> Seq(BlockIds(e))]
    BY <1>3, GoodFields
  <1> DEFINE m == mgr[e]
  <1>a. m.requestBlocks \in [DOMAIN m.requestBlocks -> Seq(BlockIds(e))]
    BY <1>4
  <1> HIDE DEF m
  <1>b. Lookup(m.requestBlocks, r) \in Seq(BlockIds(e))
    BY <1>a DEF Lookup
  <1>5. tableOf(r) \in Seq(BlockIds(e))
    BY <1>b DEF tableOf, e, m
  <1>6. Len(tableOf(r)) \in Nat
    BY <1>5
  <1>7. BlockSize[e] \in Nat /\ BlockSize[e] > 0
    BY <1>2, SizeFacts
  <1> QED
    BY <1>1, <1>2, <1>3, <1>5, <1>6, <1>7 DEF e

(* An awaited batch is the batch of its request; what it writes belongs to  *)
(* that request alone.                                                      *)
LEMMA AwaitedFacts ==
  ASSUME Inv, Held, BatchesSound, Awaiting, NEW e \in Executors, NEW i \in DOMAIN batches[e],
         batches[e][i].awaited
  PROVE  LET item == batches[e][i]
             r    == item.request
         IN  /\ ItemSound(e, item) /\ item \in Items(e) /\ r \in Requests /\ ItemAwaited(e, item)
             /\ result[r] = "waiting" /\ request[r].live /\ request[r].executor = e
             /\ item.table = tableOf(r)
             /\ \A b \in targets(e, item) : PrivateTo(e, b, r)
  <1> DEFINE item == batches[e][i]
             r    == item.request
             w    == item.work
             a    == mgr[e].pendingAllocations[w]
  <1>1. ItemSound(e, item)
    BY DEF BatchesSound
  <1>2. ItemAwaited(e, item)
    BY DEF Awaiting
  <1>3. item \in Items(e)
    BY <1>1 DEF ItemSound
  <1>4. r \in Requests
    BY <1>3 DEF Items
  <1>5. /\ result[r] = "waiting" /\ request[r].live /\ request[r].executor = e
        /\ w \in DOMAIN mgr[e].pendingAllocations /\ a.request = r /\ a.blockTable = item.table
        /\ item.from = request[r].computed
    BY <1>2 DEF ItemAwaited
  <1>a. Lookup(mgr[e].requestBlocks, a.request) = a.blockTable
    BY <1>5, WorkFacts
  <1>6. Lookup(mgr[e].requestBlocks, r) = a.blockTable
    BY <1>5, <1>a
  <1>7. \A j \in DOMAIN a.blockTable : j * BlockSize[e] > request[r].computed => PrivateTo(e, a.blockTable[j], r)
    BY <1>5, HeldPrivate DEF WritesPrivate
  <1>8. \A b \in targets(e, item) : PrivateTo(e, b, r)
    BY <1>5, <1>7 DEF targets
  <1> QED
    BY <1>1, <1>2, <1>3, <1>4, <1>5, <1>6, <1>8 DEF tableOf

(* What a request claims to have computed is within its table. *)
LEMMA ClaimCovered ==
  ASSUME Inv, Held, ExecutorsTyped, Covered, NEW r \in Requests, request[r].live, NEW n \in claimed(r)
  PROVE  n \in Nat /\ n <= Len(tableOf(r)) * BlockSize[request[r].executor]
  <1> DEFINE e == request[r].executor
             m == mgr[e]
  <1>1. e \in Executors /\ request[r].computed \in Nat
    BY RequestFacts
  <1>2. CASE result[r] \in {"none", "waiting"}
    <2>1. n = request[r].computed
      BY <1>2 DEF claimed
    <2> QED
      BY <1>1, <2>1 DEF Covered
  <1>3. CASE result[r] \notin {"none", "waiting"}
    <2>1. PICK w \in worksOf(m, r) : n = m.pendingAllocations[w].tokens
      BY <1>3 DEF claimed
    <2>2. w \in DOMAIN m.pendingAllocations /\ m.pendingAllocations[w].request = r
      BY <2>1 DEF worksOf
    <2>3. /\ m.pendingAllocations[w].tokens \in Nat
          /\ Lookup(m.requestBlocks, r) = m.pendingAllocations[w].blockTable
      BY <1>1, <2>2, WorkFacts
    <2>4. m.pendingAllocations[w].tokens <= Len(m.pendingAllocations[w].blockTable) * BlockSize[e]
      BY <1>1, <2>2 DEF Covered
    <2> QED
      BY <2>1, <2>3, <2>4 DEF tableOf
  <1> QED
    BY <1>2, <1>3

(* A claimed position lies in a block of the table. *)
LEMMA ClaimedPosition ==
  ASSUME Inv, Held, NEW r \in Requests, NEW n \in Nat,
         n <= Len(tableOf(r)) * BlockSize[request[r].executor], NEW p \in 1..n
  PROVE  LET e == request[r].executor
             b == blockAt(BlockSize[e], tableOf(r), p)
         IN  /\ b \in BlockIds(e) /\ b \in Range(tableOf(r)) /\ slotAt(BlockSize[e], p) \in 1..BlockSize[e]
             /\ ((p - 1) \div BlockSize[e]) + 1 \in 1..Len(tableOf(r))
  <1> DEFINE e  == request[r].executor
             bs == BlockSize[e]
             tb == tableOf(r)
             l  == Len(tb)
             z  == l * bs
             i  == ((p - 1) \div bs) + 1
  <1>1. tb \in Seq(BlockIds(e)) /\ l \in Nat /\ bs \in Nat /\ bs > 0 /\ DOMAIN tb = 1..l
    BY RequestFacts
  <1>2. p \in Nat /\ p >= 1 /\ p <= n /\ n <= z /\ z \in Nat
    BY <1>1
  <1> HIDE DEF z
  <1>3. p <= z
    BY <1>2
  <1> HIDE DEF l, bs, e, tb
  <1>4. i \in 1..l /\ slotAt(bs, p) \in 1..bs
    BY <1>1, <1>2, <1>3, PositionInTable, Position DEF z
  <1> HIDE DEF i
  <1>5. tb[i] \in BlockIds(e) /\ tb[i] \in Range(tb)
    BY <1>1, <1>4 DEF Range
  <1> QED
    BY <1>4, <1>5 DEF blockAt, i, bs, e, tb, l

-----------------------------------------------------------------------------
(* What a step keeps by leaving things alone *)

(* The parts of the invariant that say nothing of plans, calls and indexes. *)
ServingHeld ==
  /\ ComputedHeld /\ BatchesSound /\ LateSound /\ Awaiting /\ ResultsOfLive /\ CachesShaped /\ Covered

(* A step that leaves tables, works and caches alone keeps these parts. *)
LEMMA TransferFrame ==
  ASSUME Inv, Held, ServingHeld, TablesSame, UNCHANGED <<kv, epoch, batches, late, result>>
  PROVE  ServingHeld'
  <1>1. /\ kv' = kv /\ epoch' = epoch /\ batches' = batches /\ late' = late /\ result' = result
        /\ request' = request
        /\ DOMAIN mgr' = Executors /\ \A e \in Executors : SameTables(mgr[e], mgr'[e])
    BY DEF TablesSame
  <1>2. ASSUME NEW r \in Requests
        PROVE  tableOf(r)' = tableOf(r) /\ claimed(r)' = claimed(r) /\ identity(r)' = identity(r)
    <2>1. request[r].executor \in Executors
      BY RequestFacts
    <2> DEFINE e == request[r].executor
    <2>2. /\ mgr'[e].requestBlocks = mgr[e].requestBlocks
          /\ mgr'[e].pendingAllocations = mgr[e].pendingAllocations
      BY <1>1, <2>1 DEF SameTables
    <2>3. worksOf(mgr'[e], r) = worksOf(mgr[e], r)
      BY <2>2 DEF worksOf
    <2> QED
      BY <1>1, <2>2, <2>3 DEF tableOf, claimed, identity
  <1>3. ASSUME NEW r \in Requests PROVE ComputedOf(r)'
    <2>1. ComputedOf(r)
      BY DEF ServingHeld, ComputedHeld
    <2>2. ASSUME NEW n PROVE OwnsUpTo(r, n)' <=> OwnsUpTo(r, n)
      BY <1>1, <1>2 DEF OwnsUpTo
    <2> QED
      BY <1>1, <1>2, <2>1, <2>2 DEF ComputedOf, sameRuntime
  <1>4. ASSUME NEW e \in Executors, NEW item PROVE ItemAwaited(e, item)' <=> ItemAwaited(e, item)
    BY <1>1 DEF ItemAwaited, SameTables
  <1>5. Awaiting'
    BY <1>1, <1>4 DEF Awaiting, ServingHeld
  <1>6. Covered'
    BY <1>1, <1>2 DEF Covered, SameTables, ServingHeld
  <1>7. BatchesSound' /\ LateSound' /\ ResultsOfLive' /\ CachesShaped'
    BY <1>1 DEF ServingHeld, BatchesSound, LateSound, ResultsOfLive, CachesShaped
  <1> QED
    BY <1>3, <1>5, <1>6, <1>7 DEF ServingHeld, ComputedHeld

(* The parts of the invariant about one transfer. *)
TransferHeld(t) ==
  /\ call[t] = "waiting" /\ rpc[t].step = "imported" /\ sameRuntime(transfer[t].destination) =>
       PlanImported(transfer[t], kv[transfer[t].destination])
  /\ transfer[t].step # "idle" => BlockSize[transfer[t].source] = BlockSize[transfer[t].destination]
  /\ RPCSound(rpc[t])
  /\ call[t] = "waiting" => CallSound(rpc[t], transfer[t])

TransfersHeld == \A t \in Transfers : TransferHeld(t)

(* The invariant is the index, what serving relies on, and each transfer. *)
LEMMA TransferParts == CacheFollows <=> IndexesHeld /\ ServingHeld /\ TransfersHeld
  <1>1. TransfersHeld <=> ImportsHeld /\ SizesAgree /\ CallsSound
    BY DEF TransfersHeld, TransferHeld, ImportsHeld, SizesAgree, CallsSound
  <1> QED
    BY <1>1 DEF CacheFollows, ServingHeld

(* The same, of the next state. *)
LEMMA NextParts ==
  ASSUME IndexesHeld', ServingHeld', TransfersHeld'
  PROVE  CacheFollows'
  BY TransferParts, PTL

(* A transfer that nothing happens to. *)
LEMMA TransferKept ==
  ASSUME NEW t, TransferHeld(t), UNCHANGED <<kv, epoch>>,
         transfer'[t] = transfer[t], call'[t] = call[t], rpc'[t] = rpc[t]
  PROVE  TransferHeld(t)'
  BY DEF TransferHeld, sameRuntime

(* Prefixes that stay in an index keep their blocks. *)
LEMMA IndexFrame ==
  ASSUME IndexesHeld, IndexesShrink, UNCHANGED <<kv, epoch>>
  PROVE  IndexesHeld'
  <1>1. ASSUME NEW e \in Executors, sameRuntime(e)' PROVE IndexHeld(e, mgr[e], kv[e])'
    <2>1. IndexHeld(e, mgr[e], kv[e])
      BY <1>1 DEF IndexesHeld, sameRuntime
    <2>2. \A h \in DOMAIN mgr'[e].cachedBlocks :
            h \in DOMAIN mgr[e].cachedBlocks /\ mgr'[e].cachedBlocks[h] = mgr[e].cachedBlocks[h]
      BY DEF IndexesShrink, IndexShrinks
    <2>3. IndexHeld(e, mgr'[e], kv[e])
      BY <2>1, <2>2 DEF IndexHeld
    <2> QED
      BY <2>3
  <1> QED
    BY <1>1 DEF IndexesHeld

(* A step of transfer t in the Engine. *)
LEMMA EngineTransfer ==
  ASSUME Inv, Held, CacheFollows, NEW t \in Transfers, TablesSame, OtherPlansSame(t),
         UNCHANGED <<kv, epoch, batches, late, result>>,
         \A u \in Transfers : u # t => call'[u] = call[u] /\ rpc'[u] = rpc[u],
         IndexesHeld', TransferHeld(t)'
  PROVE  CacheFollows'
  <1>1. ServingHeld /\ TransfersHeld
    BY TransferParts
  <1>2. ServingHeld'
    BY <1>1, TransferFrame
  <1>3. ASSUME NEW u \in Transfers, u # t PROVE TransferHeld(u)'
    <2>1. transfer'[u] = transfer[u] /\ call'[u] = call[u] /\ rpc'[u] = rpc[u] /\ TransferHeld(u)
      BY <1>1, <1>3 DEF OtherPlansSame, TransfersHeld
    <2> QED
      BY <2>1, TransferKept
  <1>4. TransfersHeld'
    BY <1>3 DEF TransfersHeld
  <1> QED
    BY <1>2, <1>4, NextParts

(* Block b keeps what it holds. *)
Kept(e, b) == \A s \in 1..BlockSize[e] : kv'[e][b][s] = kv[e][b][s]

(* The parts of KeepsReliedSlots. *)
IndexKept(e) == \A h \in DOMAIN mgr[e].cachedBlocks : Kept(e, mgr[e].cachedBlocks[h])

ClaimKept(e, r) ==
  request[r].live /\ request[r].executor = e =>
    \A n \in claimed(r) : \A p \in 1..n :
      LET b == blockAt(BlockSize[e], tableOf(r), p)
          s == slotAt(BlockSize[e], p)
      IN  kv'[e][b][s] = kv[e][b][s]

ImportKept(e, t) ==
  call[t] = "waiting" /\ rpc[t].step = "imported" /\ transfer[t].destination = e =>
    \A b \in Range(transfer[t].destinationBlocks) : Kept(e, b)

(* What an executor with the known epoch keeps for the indexes and imports. *)
SettledKept ==
  \A e \in Executors : sameRuntime(e)' =>
    sameRuntime(e) /\ IndexKept(e) /\ \A t \in Transfers : ImportKept(e, t)

(* A block that is kept holds what it held. *)
LEMMA HoldsKept ==
  ASSUME NEW e, NEW b, NEW h, Kept(e, b), Holds(e, kv[e], b, h)
  PROVE  Holds(e, kv'[e], b, h)
  BY DEF Kept, Holds

(* An executor whose cache does not change keeps everything. *)
LEMMA SameKept ==
  ASSUME NEW e, kv'[e] = kv[e]
  PROVE  /\ IndexKept(e) /\ \A t \in Transfers : ImportKept(e, t)
         /\ \A r \in Requests : ClaimKept(e, r)
  BY DEF IndexKept, ImportKept, ClaimKept, Kept

(* The indexes and the imports of such a step. *)
LEMMA SettledFrame ==
  ASSUME IndexesHeld, IndexesShrink, SettledKept
  PROVE  IndexesHeld'
  <1>1. ASSUME NEW e \in Executors, sameRuntime(e)' PROVE IndexHeld(e, mgr'[e], kv'[e])
    <2>1. IndexHeld(e, mgr[e], kv[e]) /\ IndexKept(e)
      BY <1>1 DEF IndexesHeld, SettledKept
    <2>2. ASSUME NEW h \in DOMAIN mgr'[e].cachedBlocks
          PROVE  Holds(e, kv'[e], mgr'[e].cachedBlocks[h], h)
      <3> DEFINE b == mgr[e].cachedBlocks[h]
      <3>1. h \in DOMAIN mgr[e].cachedBlocks /\ mgr'[e].cachedBlocks[h] = b
        BY <2>2 DEF IndexesShrink, IndexShrinks
      <3>2. Holds(e, kv[e], b, h) /\ Kept(e, b)
        BY <2>1, <3>1 DEF IndexHeld, IndexKept
      <3> HIDE DEF b
      <3>3. Holds(e, kv'[e], b, h)
        BY <3>2, HoldsKept
      <3> QED
        BY <3>1, <3>3
    <2> QED
      BY <2>2 DEF IndexHeld
  <1> QED
    BY <1>1 DEF IndexesHeld

(* A transfer whose blocks are settled keeps what it has imported. *)
LEMMA TransferStays ==
  ASSUME Inv, Held, NEW t \in Transfers, TransferHeld(t), SettledKept,
         transfer'[t] = transfer[t], call'[t] = call[t], rpc'[t] = rpc[t]
  PROVE  TransferHeld(t)'
  <1> DEFINE plan == transfer[t]
             d    == plan.destination
  <1>1. d \in Executors
    BY PlanFacts
  <1>2. ASSUME call[t] = "waiting", rpc[t].step = "imported", epoch'[d] = RuntimeEpoch
        PROVE  PlanImported(plan, kv'[d])
    <2>1. sameRuntime(d) /\ ImportKept(d, t)
      BY <1>1, <1>2 DEF SettledKept, sameRuntime
    <2>2. PlanImported(plan, kv[d])
      BY <1>2, <2>1 DEF TransferHeld
    <2>3. ASSUME NEW i \in DOMAIN plan.destinationBlocks
          PROVE  Holds(d, kv'[d], plan.destinationBlocks[i], plan.hashes[i])
      <3> DEFINE b == plan.destinationBlocks[i]
                 h == plan.hashes[i]
      <3>1. Kept(d, b)
        BY <1>2, <2>1 DEF ImportKept, Range
      <3>2. Holds(d, kv[d], b, h)
        BY <2>2 DEF PlanImported
      <3> HIDE DEF b, h, d
      <3>3. Holds(d, kv'[d], b, h)
        BY <3>1, <3>2, HoldsKept
      <3> QED
        BY <3>3 DEF b, h, d
    <2> QED
      BY <2>3 DEF PlanImported
  <1>3. /\ transfer'[t].step # "idle" => BlockSize[transfer'[t].source] = BlockSize[transfer'[t].destination]
        /\ RPCSound(rpc'[t]) /\ (call'[t] = "waiting" => CallSound(rpc'[t], transfer'[t]))
    BY DEF TransferHeld
  <1> QED
    BY <1>2, <1>3 DEF TransferHeld, sameRuntime

(* Request x has the same text and table, and claims no more. *)
Unmoved(x) ==
  /\ request'[x].live => request[x].live
  /\ request'[x].executor = request[x].executor /\ request'[x].prompt = request[x].prompt
  /\ \A i \in DOMAIN tableOf(x) : tableOf(x)'[i] = tableOf(x)[i]
  /\ \A n : n \in claimed(x)' => n \in claimed(x)

(* A request that moves nothing keeps its computed KV in slots that are     *)
(* kept.                                                                    *)
LEMMA ComputedFrame ==
  ASSUME Inv, Held, ExecutorsTyped, Covered, NEW x \in Requests, ComputedOf(x), Unmoved(x),
         request[x].live /\ epoch'[request[x].executor] = RuntimeEpoch =>
           sameRuntime(request[x].executor) /\ ClaimKept(request[x].executor, x)
  PROVE  ComputedOf(x)'
  <1> DEFINE e  == request[x].executor
             bs == BlockSize[e]
             tb == tableOf(x)
  <1>1. tb \in Seq(BlockIds(e))
    BY RequestFacts
  <1>2. identity(x)' = identity(x) /\ request'[x].executor = e
    BY DEF Unmoved, identity
  <1>3. ASSUME request'[x].live, epoch'[e] = RuntimeEpoch, NEW n \in claimed(x)', NEW p \in 1..n
        PROVE  slot(bs, kv'[e], tableOf(x)', p) = content(identity(x), p)
    <2> DEFINE b == blockAt(bs, tb, p)
               s == slotAt(bs, p)
               i == ((p - 1) \div bs) + 1
    <2>1. request[x].live /\ sameRuntime(e) /\ n \in claimed(x) /\ ClaimKept(e, x)
      BY <1>3 DEF Unmoved, sameRuntime
    <2>2. n \in Nat /\ n <= Len(tb) * bs
      BY <2>1, ClaimCovered
    <2>3. i \in 1..Len(tb)
      BY <2>2, ClaimedPosition
    <2>4. slot(bs, kv[e], tb, p) = content(identity(x), p)
      BY <2>1 DEF ComputedOf, OwnsUpTo, Owns
    <2>5. kv[e][b][s] = content(identity(x), p)
      BY <2>4 DEF slot
    <2>6. kv'[e][b][s] = kv[e][b][s]
      BY <2>1 DEF ClaimKept
    <2>7. blockAt(bs, tableOf(x)', p) = b
      <3>1. i \in DOMAIN tb
        BY <1>1, <2>3
      <3>2. tableOf(x)'[i] = tb[i]
        BY <3>1 DEF Unmoved
      <3> QED
        BY <3>2 DEF blockAt
    <2> QED
      BY <2>5, <2>6, <2>7 DEF slot
  <1> QED
    BY <1>2, <1>3 DEF ComputedOf, OwnsUpTo, Owns, sameRuntime

(* Block b holds some KV; what is relied on does. *)
Filled(e, b) == \E s \in 1..BlockSize[e] : kv[e][b][s] # Empty

(* An executor that changes empty blocks only keeps what is relied on. *)
LEMMA FilledKept ==
  ASSUME Inv, Held, ExecutorsTyped, CacheFollows, NEW e \in Executors, sameRuntime(e),
         \A b \in BlockIds(e) : Filled(e, b) => Kept(e, b)
  PROVE  /\ IndexKept(e) /\ \A t \in Transfers : ImportKept(e, t)
         /\ \A r \in Requests : ClaimKept(e, r)
  <1> DEFINE bs == BlockSize[e]
  <1>1. bs \in Nat /\ bs > 0 /\ 1 \in 1..bs
    BY SizeFacts
  <1>2. ASSUME NEW b \in BlockIds(e), NEW h, Holds(e, kv[e], b, h) PROVE Kept(e, b)
    BY <1>1, <1>2 DEF Holds, Filled
  <1>3. IndexKept(e)
    <2>1. Good(e, mgr[e]) /\ IndexHeld(e, mgr[e], kv[e])
      BY ExecutorFacts DEF CacheFollows, IndexesHeld
    <2>2. ASSUME NEW h \in DOMAIN mgr[e].cachedBlocks PROVE Kept(e, mgr[e].cachedBlocks[h])
      <3>1. mgr[e].cachedBlocks[h] \in BlockIds(e)
        BY <2>1 DEF Good, ManagerOK
      <3>2. Holds(e, kv[e], mgr[e].cachedBlocks[h], h)
        BY <2>1 DEF IndexHeld
      <3> QED
        BY <1>2, <3>1, <3>2
    <2> QED
      BY <2>2 DEF IndexKept
  <1>4. ASSUME NEW t \in Transfers, call[t] = "waiting", rpc[t].step = "imported",
               transfer[t].destination = e, NEW b \in Range(transfer[t].destinationBlocks)
        PROVE  Kept(e, b)
    <2>1. transfer[t].destinationBlocks \in Seq(BlockIds(e))
      BY <1>4, PlanFacts
    <2>2. PlanImported(transfer[t], kv[e])
      BY <1>4 DEF CacheFollows, ImportsHeld
    <2>3. PICK i \in DOMAIN transfer[t].destinationBlocks : b = transfer[t].destinationBlocks[i]
      BY <1>4 DEF Range
    <2>4. b \in BlockIds(e) /\ Holds(e, kv[e], b, transfer[t].hashes[i])
      BY <1>4, <2>1, <2>2, <2>3 DEF PlanImported
    <2> QED
      BY <1>2, <2>4
  <1>5. ASSUME NEW r \in Requests, request[r].live, request[r].executor = e,
               NEW n \in claimed(r), NEW p \in 1..n
        PROVE  LET b == blockAt(bs, tableOf(r), p)
                   s == slotAt(bs, p)
               IN  kv'[e][b][s] = kv[e][b][s]
    <2> DEFINE b == blockAt(bs, tableOf(r), p)
               s == slotAt(bs, p)
    <2>1. Covered /\ OwnsUpTo(r, n)
      BY <1>5 DEF CacheFollows, ComputedHeld, ComputedOf
    <2>2. n \in Nat /\ n <= Len(tableOf(r)) * bs
      BY <1>5, <2>1, ClaimCovered
    <2>3. b \in BlockIds(e) /\ s \in 1..bs
      BY <1>5, <2>2, ClaimedPosition
    <2>4. kv[e][b][s] = content(identity(r), p)
      BY <1>5, <2>1 DEF OwnsUpTo, Owns, slot
    <2>5. content(identity(r), p) # Empty
      <3>1. identity(r).prompt \in Prompts /\ p \in Nat
        BY <2>2, RequestFacts DEF identity
      <3> QED
        BY <3>1, ContentNotEmpty
    <2>6. Kept(e, b)
      BY <2>3, <2>4, <2>5 DEF Filled
    <2> QED
      BY <2>3, <2>6 DEF Kept
  <1> QED
    BY <1>3, <1>4, <1>5 DEF ImportKept, ClaimKept

(* Nothing of the Engine's bookkeeping changes. *)
LEMMA RegistrySame ==
  ASSUME Inv, Held, UNCHANGED vars
  PROVE  /\ TablesSame /\ IndexesShrink /\ DOMAIN transfer' = Transfers
         /\ \A t \in Transfers : OtherPlansSame(t) /\ transfer'[t] = transfer[t]
         /\ mgr' = mgr /\ request' = request
  <1>1. mgr' = mgr /\ request' = request /\ transfer' = transfer
    BY DEF vars
  <1>2. DOMAIN mgr = Executors
    BY InvParts DEF ManagersInv
  <1>3. DOMAIN transfer = Transfers
    BY InvParts DEF TransfersInv
  <1> QED
    BY <1>1, <1>2, <1>3 DEF TablesSame, SameTables, IndexesShrink, IndexShrinks, OtherPlansSame

=============================================================================
