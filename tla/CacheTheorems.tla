---------------------------- MODULE CacheTheorems ----------------------------
(***************************************************************************)
(* Every step of the scheduler, the executors, the coordinator and the     *)
(* network keeps CacheFollows (CacheProofs), but one in which a batch that *)
(* nobody awaits changes a slot that was relied on.  So OnlyStraysSpoil-   *)
(* Index and OnlyStraysSpoilReads hold for all executors, pools, requests, *)
(* transfers, losses, late calls and restarts.                             *)
(*                                                                         *)
(* Steps are grouped by what they leave alone: those of a transfer change  *)
(* one plan and one call (EngineTransfer, CallStep), those of an executor  *)
(* nothing in the Engine (ExecutorStep), those of a request no cache       *)
(* (EngineRequest).                                                        *)
(***************************************************************************)
EXTENDS CacheProofs

-----------------------------------------------------------------------------
(* Steps of a transfer in the Engine *)

(* Coordinator.Replicate pins the source: an index may only shrink. *)
LEMMA ReplicateFollows ==
  ASSUME Inv, Held, CallsTyped, CacheFollows, NEW t \in Transfers, NEW s \in Executors,
         NEW d \in Executors, NEW hashes \in HashPrefixes, Replicate(t, s, d, hashes)
  PROVE  CacheFollows'
  <1>1. /\ PrepareTransfer(t, s, d, hashes) /\ call' = [call EXCEPT ![t] = "preparing"]
        /\ UNCHANGED <<kv, epoch, batches, late, result>> /\ rpc' = rpc
    BY DEF Replicate, executor, onTheWay
  <1>2. /\ TablesSame /\ IndexesShrink /\ OtherPlansSame(t)
        /\ transfer'[t].source = s /\ transfer'[t].destination = d /\ BlockSize[s] = BlockSize[d]
    BY <1>1, PrepareEffect
  <1>3. call'[t] = "preparing" /\ \A u \in Transfers : u # t => call'[u] = call[u]
    BY <1>1 DEF CallsTyped
  <1>4. IndexesHeld'
    BY <1>1, <1>2, IndexFrame, TransferParts
  <1>5. TransferHeld(t)
    BY TransferParts DEF TransfersHeld
  <1>6. TransferHeld(t)'
    BY <1>1, <1>2, <1>3, <1>5 DEF TransferHeld
  <1> QED
    BY <1>1, <1>2, <1>3, <1>4, <1>6, EngineTransfer

(* ReserveDestination: the call it sends names the blocks of its plan. *)
LEMMA ReserveFollows ==
  ASSUME Inv, Held, CallsTyped, CacheFollows, NEW t \in Transfers, Reserve(t)
  PROVE  CacheFollows'
  <1> DEFINE plan == transfer[t]
             d    == plan.destination
             dst  == mgr[d]
             n    == Len(plan.hashes)
             q    == [step |-> "trigger", source |-> plan.source, destination |-> d,
                      sourceBlocks |-> plan.sourceBlocks, destinationBlocks |-> popped(dst, n),
                      payload |-> << >>]
  <1>1. /\ ReserveDestination(t) /\ UNCHANGED <<kv, epoch, batches, late, result>>
        /\ IF canAllocate(dst, n)
           THEN call' = [call EXCEPT ![t] = "waiting"] /\ rpc' = [rpc EXCEPT ![t] = q]
           ELSE call' = [call EXCEPT ![t] = "refused"] /\ rpc' = rpc
    BY DEF Reserve, executor, onTheWay
  <1>2. /\ TablesSame /\ IndexesShrink /\ OtherPlansSame(t) /\ plan.step = "pinned"
        /\ transfer'[t].source = plan.source /\ transfer'[t].destination = d
        /\ transfer'[t].hashes = plan.hashes /\ transfer'[t].sourceBlocks = plan.sourceBlocks
        /\ IF canAllocate(dst, n)
           THEN /\ transfer'[t].step = "pending" /\ transfer'[t].destinationBlocks = popped(dst, n)
                /\ popped(dst, n) \in Seq(BlockIds(d)) /\ Len(popped(dst, n)) = n
           ELSE transfer'[t].step = "settled"
    BY <1>1, ReserveEffect
  <1>3. TransferHeld(t)
    BY TransferParts DEF TransfersHeld
  <1>4. /\ plan.sourceBlocks \in Seq(BlockIds(plan.source)) /\ Len(plan.sourceBlocks) = n
        /\ BlockSize[plan.source] = BlockSize[d]
    BY <1>2, <1>3, PlanFacts DEF PlanSound, TransferHeld
  <1>5. \A u \in Transfers : u # t => call'[u] = call[u] /\ rpc'[u] = rpc[u]
    BY <1>1 DEF CallsTyped
  <1>6. IndexesHeld'
    BY <1>1, <1>2, IndexFrame, TransferParts
  <1>7. TransferHeld(t)'
    <2>1. CASE canAllocate(dst, n)
      <3>1. call'[t] = "waiting" /\ rpc'[t] = q
        BY <1>1, <2>1 DEF CallsTyped
      <3>2. /\ q.step = "trigger" /\ q.source = plan.source /\ q.destination = d
            /\ q.sourceBlocks = plan.sourceBlocks /\ q.destinationBlocks = popped(dst, n)
        OBVIOUS
      <3> HIDE DEF q
      <3>3. RPCSound(q)
        BY <1>2, <1>4, <2>1, <3>2 DEF RPCSound
      <3>4. CallSound(q, transfer'[t])
        BY <1>2, <2>1, <3>2 DEF CallSound
      <3>5. BlockSize[transfer'[t].source] = BlockSize[transfer'[t].destination]
        BY <1>2, <1>4
      <3> QED
        BY <3>1, <3>2, <3>3, <3>4, <3>5 DEF TransferHeld
    <2>2. CASE ~canAllocate(dst, n)
      <3>1. call'[t] = "refused" /\ rpc'[t] = rpc[t]
        BY <1>1, <2>2 DEF CallsTyped
      <3> QED
        BY <1>2, <1>3, <1>4, <3>1 DEF TransferHeld
    <2> QED
      BY <2>1, <2>2
  <1> QED
    BY <1>1, <1>2, <1>5, <1>6, <1>7, EngineTransfer

(* An aborted call relies on nothing that its push may still write. *)
LEMMA RollbackFollows ==
  ASSUME Inv, Held, CallsTyped, CacheFollows, NEW t \in Transfers, rollback(t)
  PROVE  CacheFollows'
  <1>1. /\ RollbackTransfer(t) /\ call' = [call EXCEPT ![t] = "aborted"]
        /\ UNCHANGED <<kv, epoch, batches, late, result>> /\ rpc' = rpc
    BY DEF rollback, executor, onTheWay
  <1>2. /\ TablesSame /\ IndexesShrink /\ OtherPlansSame(t) /\ transfer[t].step = "pending"
        /\ transfer'[t].source = transfer[t].source
        /\ transfer'[t].destination = transfer[t].destination
    BY <1>1, SettleEffect
  <1>3. call'[t] = "aborted" /\ \A u \in Transfers : u # t => call'[u] = call[u]
    BY <1>1 DEF CallsTyped
  <1>4. IndexesHeld'
    BY <1>1, <1>2, IndexFrame, TransferParts
  <1>5. TransferHeld(t)
    BY TransferParts DEF TransfersHeld
  <1>6. TransferHeld(t)'
    BY <1>1, <1>2, <1>3, <1>5 DEF TransferHeld
  <1> QED
    BY <1>1, <1>2, <1>3, <1>4, <1>6, EngineTransfer

(* ReleaseSource ends the plan. *)
LEMMA ReleaseFollows ==
  ASSUME Inv, Held, CallsTyped, CacheFollows, NEW t \in Transfers, Release(t)
  PROVE  CacheFollows'
  <1>1. ReleaseSource(t) /\ UNCHANGED <<kv, epoch, batches, late, result>> /\ call' = call /\ rpc' = rpc
    BY DEF Release, executor, onTheWay
  <1>2. /\ TablesSame /\ IndexesShrink /\ OtherPlansSame(t)
        /\ transfer[t].step = "settled" /\ transfer'[t].step = "idle"
    BY <1>1, UnpinEffect
  <1>4. IndexesHeld'
    BY <1>1, <1>2, IndexFrame, TransferParts
  <1>5. TransferHeld(t)
    BY TransferParts DEF TransfersHeld
  <1>6. call[t] # "waiting"
    BY <1>2, <1>5 DEF TransferHeld, CallSound
  <1>7. TransferHeld(t)'
    BY <1>1, <1>2, <1>5, <1>6 DEF TransferHeld
  <1> QED
    BY <1>1, <1>2, <1>4, <1>7, EngineTransfer

(* CommitTransfer: what enters the destination's index was imported. *)
LEMMA ConfirmFollows ==
  ASSUME Inv, Held, CallsTyped, CacheFollows, NEW t \in Transfers, Confirm(t)
  PROVE  CacheFollows'
  <1> DEFINE plan == transfer[t]
             d    == plan.destination
  <1>1. /\ CommitTransfer(t) /\ call' = [call EXCEPT ![t] = "committed"]
        /\ UNCHANGED <<kv, epoch, batches, late, result>> /\ rpc' = rpc
        /\ call[t] = "waiting" /\ rpc[t].step = "imported"
    BY DEF Confirm, validateResponse, executor, onTheWay
  <1>2. /\ TablesSame /\ OtherPlansSame(t) /\ d \in Executors /\ plan.step = "pending"
        /\ transfer'[t].source = plan.source /\ transfer'[t].destination = d
        /\ \A f \in Executors : f # d => mgr'[f] = mgr[f]
        /\ \A h \in DOMAIN mgr'[d].cachedBlocks :
             \/ h \in DOMAIN mgr[d].cachedBlocks /\ mgr'[d].cachedBlocks[h] = mgr[d].cachedBlocks[h]
             \/ \E i \in DOMAIN plan.destinationBlocks :
                  h = plan.hashes[i] /\ mgr'[d].cachedBlocks[h] = plan.destinationBlocks[i]
    BY <1>1, ConfirmEffect
  <1>3. call'[t] = "committed" /\ \A u \in Transfers : u # t => call'[u] = call[u]
    BY <1>1 DEF CallsTyped
  <1>4. TransferHeld(t) /\ IndexesHeld
    BY TransferParts DEF TransfersHeld
  <1>5. ASSUME NEW e \in Executors, sameRuntime(e)' PROVE IndexHeld(e, mgr'[e], kv[e])
    <2>1. sameRuntime(e)
      BY <1>1, <1>5 DEF sameRuntime
    <2>2. IndexHeld(e, mgr[e], kv[e])
      BY <1>4, <2>1 DEF IndexesHeld
    <2>3. CASE e # d
      BY <1>2, <2>2, <2>3 DEF IndexHeld
    <2>4. CASE e = d
      <3>1. PlanImported(plan, kv[d])
        BY <1>1, <1>4, <2>1, <2>4 DEF TransferHeld
      <3> QED
        BY <1>2, <2>2, <2>4, <3>1 DEF IndexHeld, PlanImported
    <2> QED
      BY <2>3, <2>4
  <1>6. IndexesHeld'
    BY <1>1, <1>5 DEF IndexesHeld
  <1>7. TransferHeld(t)'
    BY <1>1, <1>2, <1>3, <1>4 DEF TransferHeld
  <1> QED
    BY <1>1, <1>2, <1>3, <1>6, <1>7, EngineTransfer

-----------------------------------------------------------------------------
(* The calls between the executors *)

(* A step of the call of t that changes no cache. *)
LEMMA CallStep ==
  ASSUME Inv, Held, CallsTyped, CacheFollows, NEW t \in Transfers, NEW q,
         UNCHANGED <<vars, executor, onTheWay, result, call>>, rpc' = [rpc EXCEPT ![t] = q],
         RPCSound(q), q.step # "imported", call[t] = "waiting" => CallSound(q, transfer[t])
  PROVE  CacheFollows'
  <1>1. /\ TablesSame /\ IndexesShrink /\ OtherPlansSame(t) /\ transfer'[t] = transfer[t]
    BY RegistrySame
  <1>2. UNCHANGED <<kv, epoch, batches, late, result>> /\ call' = call
    BY DEF executor, onTheWay
  <1>3. rpc'[t] = q /\ \A u \in Transfers : u # t => call'[u] = call[u] /\ rpc'[u] = rpc[u]
    BY <1>2 DEF CallsTyped
  <1>4. IndexesHeld'
    BY <1>1, <1>2, IndexFrame, TransferParts
  <1>5. TransferHeld(t)
    BY TransferParts DEF TransfersHeld
  <1>6. TransferHeld(t)'
    BY <1>1, <1>2, <1>3, <1>5 DEF TransferHeld
  <1> QED
    BY <1>1, <1>2, <1>3, <1>4, <1>6, EngineTransfer

(* A call that is over carries nothing. *)
LEMMA OverSound ==
  ASSUME NEW step \in {"imported", "unheard", "error"}, NEW plan, plan.step = "pending"
  PROVE  over(step).step = step /\ RPCSound(over(step)) /\ CallSound(over(step), plan)
  <1>1. over(step).step = step
    BY NoRPCTyped
  <1> QED
    BY <1>1 DEF RPCSound, CallSound

(* The same of a call whose plan is gone. *)
LEMMA OverRPC ==
  ASSUME NEW step \in {"imported", "unheard", "error"}
  PROVE  over(step).step = step /\ RPCSound(over(step))
  <1>1. over(step).step = step
    BY NoRPCTyped
  <1> QED
    BY <1>1 DEF RPCSound

(* A lost call or answer. *)
LEMMA LoseFollows ==
  ASSUME Inv, Held, CallsTyped, CacheFollows, NEW t \in Transfers, LoseRPC(t)
  PROVE  CacheFollows'
  <1> DEFINE q == over(IF rpc[t].step = "imported" THEN "unheard" ELSE "error")
  <1>1. rpc' = [rpc EXCEPT ![t] = q] /\ UNCHANGED <<vars, executor, onTheWay, result, call>>
    BY DEF LoseRPC
  <1>2. call[t] = "waiting" => transfer[t].step = "pending"
    BY TransferParts DEF TransfersHeld, TransferHeld, CallSound
  <1>3. /\ RPCSound(q) /\ q.step # "imported"
        /\ transfer[t].step = "pending" => CallSound(q, transfer[t])
    BY OverSound, OverRPC
  <1> HIDE DEF q
  <1> QED
    BY <1>1, <1>2, <1>3, CallStep

(* What the source exports is the KV of the plan's hashes. *)
LEMMA TriggerFollows ==
  ASSUME Inv, Held, CallsTyped, CacheFollows, NEW t \in Transfers, trigger_kv_push(t)
  PROVE  CacheFollows'
  <1> DEFINE q    == rpc[t]
             plan == transfer[t]
             src  == q.source
             data == [i \in DOMAIN q.sourceBlocks |-> kv[src][q.sourceBlocks[i]]]
             new  == [q EXCEPT !.step = "push", !.payload = data]
             sent == accepts(src) /\ exportable(src, q.sourceBlocks)
  <1>1. /\ q.step = "trigger" /\ UNCHANGED <<vars, executor, onTheWay, result, call>>
        /\ rpc' = IF sent
                  THEN [rpc EXCEPT ![t].step = "push", ![t].payload = data]
                  ELSE [rpc EXCEPT ![t] = over("error")]
    BY DEF trigger_kv_push
  <1>2. TransferHeld(t) /\ IndexesHeld /\ CachesShaped
    BY TransferParts DEF TransfersHeld, ServingHeld
  <1>3. call[t] = "waiting" => plan.step = "pending"
    BY <1>2 DEF TransferHeld, CallSound
  <1>4. CASE ~sent
    <2>1. RPCSound(over("error")) /\ over("error").step # "imported"
      BY OverRPC
    <2>2. plan.step = "pending" => CallSound(over("error"), plan)
      BY OverSound
    <2>3. rpc' = [rpc EXCEPT ![t] = over("error")]
      BY <1>1, <1>4
    <2> QED
      BY <1>1, <1>3, <2>1, <2>2, <2>3, CallStep
  <1>5. CASE sent
    <2>1. RPCTyped(q) /\ DOMAIN rpc = Transfers
      BY DEF CallsTyped
    <2>2. rpc' = [rpc EXCEPT ![t] = new]
      <3> HIDE DEF data, sent
      <3> QED
        BY <1>1, <1>5, <2>1
    <2>3. /\ new.step = "push" /\ new.payload = data /\ new.source = src
          /\ new.destination = q.destination /\ new.sourceBlocks = q.sourceBlocks
          /\ new.destinationBlocks = q.destinationBlocks
      <3> HIDE DEF data, q
      <3> QED
        BY <2>1 DEF RPCTyped, RPCFields
    <2>4. /\ src \in Executors /\ q.destination \in Executors
          /\ q.destinationBlocks \in Seq(BlockIds(q.destination))
      BY <2>1 DEF RPCTyped
    <2>5. /\ BlockSize[src] = BlockSize[q.destination] /\ q.sourceBlocks \in Seq(BlockIds(src))
          /\ Len(q.sourceBlocks) = Len(q.destinationBlocks)
      BY <1>1, <1>2 DEF TransferHeld, RPCSound
    <2>6. CacheShape(src, kv[src])
      BY <1>2, <2>4 DEF CachesShaped
    <2>7. /\ DOMAIN data = DOMAIN q.sourceBlocks
          /\ \A i \in DOMAIN data : data[i] = kv[src][q.sourceBlocks[i]]
      OBVIOUS
    <2> HIDE DEF data, new, src
    <2>8. DOMAIN q.sourceBlocks = DOMAIN q.destinationBlocks
      BY <2>4, <2>5
    <2>9. \A i \in DOMAIN data : DOMAIN data[i] = 1..BlockSize[q.destination]
      <3> SUFFICES ASSUME NEW i \in DOMAIN data PROVE DOMAIN data[i] = 1..BlockSize[q.destination]
        OBVIOUS
      <3>1. q.sourceBlocks[i] \in BlockIds(src)
        BY <2>5, <2>7
      <3> QED
        BY <2>5, <2>6, <2>7, <3>1 DEF CacheShape
    <2>10. RPCSound(new)
      BY <2>3, <2>5, <2>7, <2>8, <2>9 DEF RPCSound
    <2>11. ASSUME call[t] = "waiting" PROVE CallSound(new, plan)
      <3>1. /\ plan.step = "pending" /\ src = plan.source /\ q.destination = plan.destination
            /\ q.sourceBlocks = plan.sourceBlocks /\ q.destinationBlocks = plan.destinationBlocks
        BY <1>1, <1>2, <2>11 DEF TransferHeld, CallSound, src
      <3>2. /\ plan.hashes \in Seq(Hashes) /\ plan.sourceBlocks \in Seq(BlockIds(plan.source))
            /\ PlanSound(plan, mgr[plan.source], mgr[plan.destination])
        BY PlanFacts
      <3>3. sameRuntime(src)
        BY <1>5 DEF accepts, sameRuntime
      <3>4. IndexHeld(src, mgr[src], kv[src])
        BY <1>2, <2>4, <3>3 DEF IndexesHeld
      <3>5. DOMAIN plan.hashes = DOMAIN plan.sourceBlocks
        <4>1. Len(plan.sourceBlocks) = Len(plan.hashes)
          BY <3>1, <3>2 DEF PlanSound
        <4> QED
          BY <3>2, <4>1
      <3>6. ASSUME NEW i \in DOMAIN plan.hashes
            PROVE  Holds(src, kv[src], plan.sourceBlocks[i], plan.hashes[i])
        <4>1. /\ plan.hashes[i] \in DOMAIN mgr[src].cachedBlocks
              /\ mgr[src].cachedBlocks[plan.hashes[i]] = plan.sourceBlocks[i]
          BY <3>1, <3>2 DEF PlanSound
        <4> QED
          BY <3>4, <4>1 DEF IndexHeld
      <3>7. ASSUME NEW i \in DOMAIN plan.hashes, NEW s \in 1..BlockSize[plan.destination]
            PROVE  /\ data[i][s] = kvOf(BlockSize[plan.destination], plan.hashes[i], s)
                   /\ data[i][s] # Empty
        <4>1. data[i] = kv[src][plan.sourceBlocks[i]]
          BY <2>7, <3>1, <3>5
        <4> QED
          BY <2>5, <3>1, <3>6, <4>1 DEF Holds
      <3> QED
        BY <2>3, <3>1, <3>7 DEF CallSound
    <2> QED
      BY <1>1, <2>2, <2>3, <2>10, <2>11, CallStep
  <1> QED
    BY <1>4, <1>5

(* An executor's cache changes in blocks that were empty. *)
LEMMA ImportStep ==
  ASSUME Inv, Held, CallsTyped, ExecutorsTyped, CacheFollows, NEW t \in Transfers, NEW e \in Executors,
         UNCHANGED <<vars, epoch, onTheWay, result, call>>, NEW q, rpc' = [rpc EXCEPT ![t] = q],
         NEW c, kv' = [kv EXCEPT ![e] = c], CacheShape(e, c),
         \A b \in BlockIds(e) : Filled(e, b) => c[b] = kv[e][b],
         TransferHeld(t)'
  PROVE  CacheFollows'
  <1>1. /\ TablesSame /\ IndexesShrink /\ mgr' = mgr /\ request' = request
        /\ \A u \in Transfers : transfer'[u] = transfer[u]
    BY RegistrySame
  <1>2. epoch' = epoch /\ batches' = batches /\ late' = late /\ result' = result /\ call' = call
    BY DEF onTheWay
  <1>3. IndexesHeld /\ ServingHeld /\ TransfersHeld
    BY TransferParts
  <1>4. DOMAIN kv = Executors /\ \A f \in Executors : CacheShape(f, kv[f])
    BY <1>3 DEF ServingHeld, CachesShaped
  <1>5. kv'[e] = c /\ DOMAIN kv' = Executors /\ \A f \in Executors : f # e => kv'[f] = kv[f]
    BY <1>4
  <1>6. ASSUME NEW f \in Executors, sameRuntime(f)
        PROVE  /\ IndexKept(f) /\ \A u \in Transfers : ImportKept(f, u)
               /\ \A x \in Requests : ClaimKept(f, x)
    <2>1. CASE f = e
      <3>1. \A b \in BlockIds(e) : Filled(e, b) => Kept(e, b)
        BY <1>5 DEF Kept
      <3> QED
        BY <1>6, <2>1, <3>1, FilledKept
    <2>2. CASE f # e
      BY <1>5, <2>2, SameKept
    <2> QED
      BY <2>1, <2>2
  <1>7. SettledKept
    BY <1>2, <1>6 DEF SettledKept, sameRuntime
  <1>8. IndexesHeld'
    BY <1>1, <1>3, <1>7, SettledFrame
  <1>9. ASSUME NEW u \in Transfers, u # t PROVE TransferHeld(u)'
    <2>1. transfer'[u] = transfer[u] /\ call'[u] = call[u] /\ rpc'[u] = rpc[u] /\ TransferHeld(u)
      BY <1>1, <1>2, <1>3, <1>9 DEF CallsTyped, TransfersHeld
    <2> QED
      BY <1>7, <2>1, TransferStays
  <1>10. TransfersHeld'
    BY <1>9 DEF TransfersHeld
  <1>11. ASSUME NEW x \in Requests PROVE ComputedOf(x)'
    <2>1. Unmoved(x)
      BY <1>1, <1>2 DEF Unmoved, tableOf, claimed
    <2>2. request[x].executor \in Executors
      BY RequestFacts
    <2>3. ComputedOf(x) /\ Covered
      BY <1>3 DEF ServingHeld, ComputedHeld
    <2>4. epoch'[request[x].executor] = RuntimeEpoch =>
            sameRuntime(request[x].executor) /\ ClaimKept(request[x].executor, x)
      BY <1>2, <1>6, <2>2 DEF sameRuntime
    <2> QED
      BY <2>1, <2>3, <2>4, ComputedFrame
  <1>12. Awaiting' /\ Covered' /\ BatchesSound' /\ LateSound' /\ ResultsOfLive'
    <2>1. Awaiting /\ Covered /\ BatchesSound /\ LateSound /\ ResultsOfLive
      BY <1>3 DEF ServingHeld
    <2>2. Awaiting'
      BY <1>1, <1>2, <2>1, SMTT(30) DEF Awaiting, ItemAwaited
    <2>3. Covered'
      BY <1>1, <2>1 DEF Covered, tableOf
    <2> QED
      BY <1>1, <1>2, <2>1, <2>2, <2>3 DEF BatchesSound, LateSound, ResultsOfLive
  <1>13. CachesShaped'
    BY <1>4, <1>5 DEF CachesShaped
  <1>14. ServingHeld'
    BY <1>11, <1>12, <1>13 DEF ServingHeld, ComputedHeld
  <1> QED
    BY <1>8, <1>10, <1>14, NextParts

(* What the destination imports for a caller that waits is the KV of the    *)
(* plan's hashes.                                                           *)
LEMMA ImportedHolds ==
  ASSUME Inv, Held, CallsTyped, CacheFollows, NEW t \in Transfers, rpc[t].step = "push",
         call[t] = "waiting"
  PROVE  LET q == rpc[t]
             e == q.destination
         IN  /\ e = transfer[t].destination
             /\ PlanImported(transfer[t], import_blocks(kv[e], q.destinationBlocks, q.payload))
  <1> DEFINE q    == rpc[t]
             plan == transfer[t]
             e    == q.destination
             ids  == q.destinationBlocks
             c    == import_blocks(kv[e], ids, q.payload)
  <1>1. TransferHeld(t) /\ ServingHeld
    BY TransferParts DEF TransfersHeld
  <1>2. /\ plan.step = "pending" /\ e = plan.destination /\ ids = plan.destinationBlocks
        /\ \A i \in DOMAIN plan.hashes : \A s \in 1..BlockSize[e] :
             /\ q.payload[i][s] = kvOf(BlockSize[e], plan.hashes[i], s)
             /\ q.payload[i][s] # Empty
    BY <1>1 DEF TransferHeld, CallSound
  <1>3. e \in Executors /\ ids \in Seq(BlockIds(e))
    BY DEF CallsTyped, RPCTyped
  <1>4. /\ DOMAIN q.payload = DOMAIN ids
        /\ \A i \in DOMAIN q.payload : DOMAIN q.payload[i] = 1..BlockSize[e]
    BY <1>1 DEF TransferHeld, RPCSound
  <1>5. \A i, j \in DOMAIN ids : ids[i] = ids[j] => i = j
    BY <1>2, DestinationHeld
  <1>6. DOMAIN ids = DOMAIN plan.hashes
    <2>1. Len(ids) = Len(plan.hashes) /\ plan.hashes \in Seq(Hashes)
      BY <1>2, PlanFacts
    <2> QED
      BY <1>3, <2>1
  <1>7. CacheShape(e, kv[e])
    BY <1>1, <1>3 DEF ServingHeld, CachesShaped
  <1>8. \A i \in DOMAIN ids : c[ids[i]] = q.payload[i]
    <2>1. IsInjective(ids)
      BY <1>5 DEF IsInjective
    <2> HIDE DEF ids, e
    <2> QED
      BY <1>3, <1>4, <1>7, <2>1, ImportEffect
  <1> HIDE DEF c
  <1>9. ASSUME NEW i \in DOMAIN ids PROVE Holds(e, c, ids[i], plan.hashes[i])
    BY <1>2, <1>6, <1>8 DEF Holds
  <1> QED
    BY <1>2, <1>9 DEF PlanImported, c

(* push_kv: imported, invalidated, or failed halfway.                       *)
LEMMA PushFollows ==
  ASSUME Inv, Held, CallsTyped, ExecutorsTyped, CacheFollows, NEW t \in Transfers, push_kv(t)
  PROVE  CacheFollows'
  <1> DEFINE q   == rpc[t]
             e   == q.destination
             ids == q.destinationBlocks
             bad == [i \in DOMAIN q.payload |-> [s \in 1..BlockSize[e] |-> Corrupt]]
             c1  == import_blocks(kv[e], ids, q.payload)
             c2  == release(kv[e], Range(ids))
             c3  == import_blocks(kv[e], ids, bad)
  <1>1. /\ q.step = "push" /\ UNCHANGED <<vars, epoch, onTheWay, result, call>>
        /\ IF accepts(e) /\ validate_destination(e, ids)
           THEN \/ kv' = [kv EXCEPT ![e] = c1] /\ rpc' = [rpc EXCEPT ![t] = over("imported")]
                \/ kv' = [kv EXCEPT ![e] = c2] /\ rpc' = [rpc EXCEPT ![t] = over("error")]
                \/ kv' = [kv EXCEPT ![e] = c3] /\ rpc' = [rpc EXCEPT ![t] = over("error")]
           ELSE rpc' = [rpc EXCEPT ![t] = over("error")] /\ kv' = kv /\ failed' = failed
    BY DEF push_kv
  <1>2. TransferHeld(t) /\ ServingHeld
    BY TransferParts DEF TransfersHeld
  <1>3. e \in Executors /\ ids \in Seq(BlockIds(e)) /\ DOMAIN rpc = Transfers
    BY DEF CallsTyped, RPCTyped
  <1>4. /\ DOMAIN q.payload = DOMAIN ids
        /\ \A i \in DOMAIN q.payload : DOMAIN q.payload[i] = 1..BlockSize[e]
    BY <1>1, <1>2 DEF TransferHeld, RPCSound
  <1>5. DOMAIN kv = Executors /\ CacheShape(e, kv[e])
    BY <1>2, <1>3 DEF ServingHeld, CachesShaped
  <1>6. transfer'[t] = transfer[t] /\ call'[t] = call[t]
    BY <1>1, RegistrySame
  <1>7. DOMAIN bad = DOMAIN ids /\ \A i \in DOMAIN bad : DOMAIN bad[i] = 1..BlockSize[e]
    BY <1>4
  <1>8. call[t] = "waiting" => transfer[t].step = "pending"
    BY <1>2 DEF TransferHeld, CallSound
  <1> DEFINE keeps(c) == CacheShape(e, c) /\ \A b \in BlockIds(e) : b \notin Range(ids) => c[b] = kv[e][b]
  <1>9. keeps(c1) /\ keeps(c2) /\ keeps(c3)
    <2> HIDE DEF e, ids, bad
    <2>1. keeps(c1)
      BY <1>3, <1>4, <1>5, ImportEffect
    <2>2. keeps(c3)
      BY <1>3, <1>5, <1>7, ImportEffect
    <2>3. keeps(c2)
      BY <1>5, ReleaseEffect
    <2> QED
      BY <2>1, <2>2, <2>3
  <1>10. validate_destination(e, ids) => \A b \in BlockIds(e) : Filled(e, b) => b \notin Range(ids)
    BY DEF validate_destination, Filled
  <1>11. ASSUME rpc' = [rpc EXCEPT ![t] = over("error")] PROVE TransferHeld(t)'
    <2>1. rpc'[t] = over("error") /\ over("error").step = "error" /\ RPCSound(over("error"))
      BY <1>3, <1>11, OverRPC
    <2>2. call[t] = "waiting" => CallSound(over("error"), transfer[t])
      BY <1>8, OverSound
    <2> QED
      BY <1>2, <1>6, <2>1, <2>2 DEF TransferHeld
  <1>12. ASSUME kv' = [kv EXCEPT ![e] = c1], rpc' = [rpc EXCEPT ![t] = over("imported")]
         PROVE  TransferHeld(t)'
    <2>1. rpc'[t] = over("imported") /\ over("imported").step = "imported" /\ RPCSound(over("imported"))
      BY <1>3, <1>12, OverRPC
    <2>2. call[t] = "waiting" => CallSound(over("imported"), transfer[t])
      BY <1>8, OverSound
    <2>3. kv'[e] = c1
      BY <1>3, <1>5, <1>12
    <2>4. call[t] = "waiting" => e = transfer[t].destination /\ PlanImported(transfer[t], c1)
      BY <1>1, ImportedHolds
    <2> HIDE DEF c1, e
    <2>5. call[t] = "waiting" => PlanImported(transfer[t], kv'[transfer[t].destination])
      BY <2>3, <2>4
    <2> QED
      BY <1>2, <1>6, <2>1, <2>2, <2>5 DEF TransferHeld
  <1>13. ASSUME NEW c, keeps(c), kv' = [kv EXCEPT ![e] = c], accepts(e) /\ validate_destination(e, ids),
                NEW v, rpc' = [rpc EXCEPT ![t] = v], TransferHeld(t)'
         PROVE  CacheFollows'
    <2>1. CacheShape(e, c) /\ \A b \in BlockIds(e) : Filled(e, b) => c[b] = kv[e][b]
      BY <1>10, <1>13
    <2> HIDE DEF e
    <2> QED
      BY <1>1, <1>3, <1>13, <2>1, ImportStep
  <1>14. CASE ~(accepts(e) /\ validate_destination(e, ids))
    <2>1. kv' = kv /\ rpc' = [rpc EXCEPT ![t] = over("error")]
      BY <1>1, <1>14
    <2>2. UNCHANGED <<vars, executor, onTheWay, result, call>>
      BY <1>1, <1>14, <2>1 DEF executor
    <2>3. RPCSound(over("error")) /\ over("error").step # "imported"
      BY OverRPC
    <2>4. call[t] = "waiting" => CallSound(over("error"), transfer[t])
      BY <1>8, OverSound
    <2> QED
      BY <2>1, <2>2, <2>3, <2>4, CallStep
  <1> HIDE DEF c1, c2, c3, keeps, e, ids
  <1> QED
    BY <1>1, <1>9, <1>11, <1>12, <1>13, <1>14

-----------------------------------------------------------------------------
(* Steps of the executors *)

(* The parts of the invariant that such a step does not keep by itself. *)
QueuesHeld == BatchesSound /\ LateSound /\ Awaiting /\ ResultsOfLive /\ CachesShaped

(* The parts that serving relies on, regrouped for the executors' steps. *)
LEMMA QueueParts == ServingHeld <=> ComputedHeld /\ Covered /\ QueuesHeld
  BY DEF ServingHeld, QueuesHeld

(* A step of an executor is invisible to the Engine: it keeps the invariant *)
(* when settled blocks, queues and computed KV stay sound.                  *)
LEMMA ExecutorStep ==
  ASSUME Inv, Held, CallsTyped, CacheFollows, UNCHANGED <<vars, call, rpc>>, SettledKept,
         QueuesHeld', \A x \in Requests : ComputedOf(x)'
  PROVE  CacheFollows'
  <1>1. /\ IndexesShrink /\ mgr' = mgr /\ request' = request /\ call' = call /\ rpc' = rpc
        /\ \A u \in Transfers : transfer'[u] = transfer[u]
    BY RegistrySame
  <1>2. IndexesHeld /\ ServingHeld /\ TransfersHeld
    BY TransferParts
  <1>3. IndexesHeld'
    BY <1>1, <1>2, SettledFrame
  <1>4. \A u \in Transfers : TransferHeld(u)'
    BY <1>1, <1>2, TransferStays DEF TransfersHeld
  <1>5. Covered'
    BY <1>1, <1>2 DEF ServingHeld, Covered, tableOf
  <1>6. ServingHeld'
    BY <1>5 DEF ServingHeld, ComputedHeld, QueuesHeld
  <1> QED
    BY <1>3, <1>4, <1>6, NextParts DEF TransfersHeld

(* A request of which nothing is known anew. *)
LEMMA SameClaims ==
  ASSUME Inv, Held, UNCHANGED vars, NEW x \in Requests,
         result'[x] = result[x] \/ result'[x] = "error"
  PROVE  Unmoved(x)
  <1>1. mgr' = mgr /\ request' = request
    BY RegistrySame
  <1>2. tableOf(x)' = tableOf(x)
    BY <1>1 DEF tableOf
  <1>3. \A n : n \in claimed(x)' => n \in claimed(x)
    BY <1>1 DEF claimed
  <1> QED
    BY <1>1, <1>2, <1>3 DEF Unmoved

(* The new epoch is another one. *)
LEMMA RestartFollows ==
  ASSUME Inv, Held, CallsTyped, ExecutorsTyped, CacheFollows, NEW e \in Executors, Restart(e)
  PROVE  CacheFollows'
  <1> DEFINE c == emptyCache(BlockSize[e], NumBlocks[e])
  <1>1. /\ epoch' = [epoch EXCEPT ![e] = @ + 1] /\ kv' = [kv EXCEPT ![e] = c]
        /\ UNCHANGED <<vars, batches, late, result, call, rpc>>
    BY DEF Restart, onTheWay
  <1>2. ServingHeld
    BY TransferParts
  <1>3. DOMAIN kv = Executors /\ \A f \in Executors : CacheShape(f, kv[f])
    BY <1>2 DEF ServingHeld, CachesShaped
  <1>4. CacheShape(e, c)
    BY DEF CacheShape, emptyCache, emptyBlock, BlockIds
  <1>5. epoch \in [Executors -> Nat]
    BY DEF ExecutorsTyped
  <1>6. epoch'[e] # RuntimeEpoch /\ \A f \in Executors : f # e => epoch'[f] = epoch[f] /\ kv'[f] = kv[f]
    <2>1. epoch'[e] = epoch[e] + 1 /\ epoch[e] \in Nat
      BY <1>1, <1>5
    <2>2. epoch'[e] # RuntimeEpoch
      BY <2>1 DEF RuntimeEpoch
    <2> QED
      BY <1>1, <1>3, <1>5, <2>2
  <1>7. SettledKept
    BY <1>6, SameKept DEF SettledKept, sameRuntime
  <1>8. QueuesHeld'
    <2>1. QueuesHeld
      BY <1>2, QueueParts
    <2>2. mgr' = mgr /\ request' = request
      BY <1>1, RegistrySame
    <2>3. Awaiting'
      BY <1>1, <2>1, <2>2, SMTT(30) DEF QueuesHeld, Awaiting, ItemAwaited
    <2>4. BatchesSound' /\ LateSound' /\ ResultsOfLive'
      BY <1>1, <2>1, <2>2 DEF QueuesHeld, BatchesSound, LateSound, ResultsOfLive
    <2> HIDE DEF c
    <2>5. DOMAIN kv' = Executors /\ kv'[e] = c
      BY <1>1, <1>3
    <2>6. CachesShaped'
      BY <1>3, <1>4, <1>6, <2>5 DEF CachesShaped
    <2> QED
      BY <2>3, <2>4, <2>6 DEF QueuesHeld
  <1>9. ASSUME NEW x \in Requests PROVE ComputedOf(x)'
    <2>1. Unmoved(x)
      BY <1>1, SameClaims
    <2>2. ComputedOf(x) /\ Covered
      BY <1>2 DEF ServingHeld, ComputedHeld
    <2>3. request[x].executor \in Executors
      BY RequestFacts
    <2>4. epoch'[request[x].executor] = RuntimeEpoch =>
            sameRuntime(request[x].executor) /\ ClaimKept(request[x].executor, x)
      BY <1>6, <2>3, SameKept DEF sameRuntime
    <2> QED
      BY <2>1, <2>2, <2>4, ComputedFrame
  <1> QED
    BY <1>1, <1>7, <1>8, <1>9, ExecutorStep

(* A batch that is given up writes what it would have written. *)
LEMMA GivenUpSound ==
  ASSUME NEW e \in Executors, NEW item, ItemSound(e, item)
  PROVE  LET v == [item EXCEPT !.awaited = FALSE] IN
         v \in Items(e) /\ ItemSound(e, v) /\ ~v.awaited /\ v.request = item.request
  <1> DEFINE v == [item EXCEPT !.awaited = FALSE]
  <1>1. item \in Items(e)
    BY DEF ItemSound
  <1>2. /\ v \in Items(e) /\ v.table = item.table /\ v.request = item.request /\ v.from = item.from
        /\ v.to = item.to /\ v.allocated = item.allocated /\ ~v.awaited
    BY <1>1 DEF Items
  <1> HIDE DEF v
  <1>3. ItemSound(e, v)
    BY <1>2 DEF ItemSound
  <1> QED
    BY <1>2, <1>3 DEF v

(* Some batches of a queue are no longer awaited. *)
Relabelled(q, z) ==
  /\ z = [i \in DOMAIN q |-> z[i]]
  /\ \A i \in DOMAIN q : z[i] = q[i] \/ z[i] = [q[i] EXCEPT !.awaited = FALSE]

(* The batches are the same but for being awaited. *)
LEMMA RelabelFacts ==
  ASSUME NEW e \in Executors, NEW q \in Seq(Items(e)), NEW z, Relabelled(q, z),
         \A i \in DOMAIN q : ItemSound(e, q[i])
  PROVE  /\ z \in Seq(Items(e))
         /\ \A i \in DOMAIN q :
              /\ ItemSound(e, z[i]) /\ z[i].request = q[i].request
              /\ z[i].awaited => q[i].awaited /\ z[i] = q[i]
  <1>1. ASSUME NEW i \in DOMAIN q
        PROVE  /\ z[i] \in Items(e) /\ ItemSound(e, z[i]) /\ z[i].request = q[i].request
               /\ z[i].awaited => q[i].awaited /\ z[i] = q[i]
    <2>1. q[i] \in Items(e) /\ ItemSound(e, q[i])
      BY DEF ItemSound
    <2> DEFINE y == q[i]
               v == [y EXCEPT !.awaited = FALSE]
    <2>2. z[i] = y \/ z[i] = v
      BY DEF Relabelled
    <2>3. CASE z[i] = y
      BY <2>1, <2>3
    <2>4. CASE z[i] = v
      <3>1. ItemSound(e, y)
        BY <2>1
      <3> HIDE DEF y
      <3>2. v \in Items(e) /\ ItemSound(e, v) /\ ~v.awaited /\ v.request = y.request
        BY <3>1, GivenUpSound
      <3> HIDE DEF v
      <3> QED
        BY <2>4, <3>2 DEF y
    <2> QED
      BY <2>2, <2>3, <2>4
  <1>2. z \in Seq(Items(e))
    <2>1. Len(q) \in Nat /\ DOMAIN q = 1..Len(q) /\ z = [i \in DOMAIN q |-> z[i]]
      BY DEF Relabelled
    <2>2. z \in [1..Len(q) -> Items(e)]
      BY <1>1, <2>1
    <2> QED
      BY <2>1, <2>2
  <1> QED
    BY <1>1, <1>2

(* A batch that is awaited has the only awaited batch of its request.       *)
LEMMA OneAwaited ==
  ASSUME Awaiting, NEW e \in Executors, NEW f \in Executors, NEW i \in DOMAIN batches[e],
         NEW j \in DOMAIN batches[f], batches[e][i].awaited, batches[f][j].awaited,
         batches[e][i].request = batches[f][j].request
  PROVE  e = f /\ i = j
  <1>1. ItemAwaited(e, batches[e][i]) /\ ItemAwaited(f, batches[f][j])
    BY DEF Awaiting
  <1>2. e = f
    BY <1>1 DEF ItemAwaited
  <1> QED
    BY <1>2 DEF Awaiting

(* A step that changes at most the cache of e and keeps what is relied on   *)
(* there; of a request that loses KV, the computed KV is shown separately.  *)
LEMMA CacheStep ==
  ASSUME Inv, Held, CallsTyped, ExecutorsTyped, CacheFollows, NEW e \in Executors,
         UNCHANGED <<vars, epoch, call, rpc>>, \A f \in Executors : f # e => kv'[f] = kv[f],
         IndexKept(e), \A t \in Transfers : ImportKept(e, t), QueuesHeld',
         \A x \in Requests :
           \/ ComputedOf(x)'
           \/ ClaimKept(e, x) /\ (result'[x] = result[x] \/ result'[x] = "error")
  PROVE  CacheFollows'
  <1>1. UNCHANGED <<vars, call, rpc>> /\ UNCHANGED vars /\ epoch' = epoch
    OBVIOUS
  <1>2. ServingHeld
    BY TransferParts
  <1>3. \A f \in Executors : f # e =>
          /\ IndexKept(f) /\ \A t \in Transfers : ImportKept(f, t)
          /\ \A x \in Requests : ClaimKept(f, x)
    BY SameKept
  <1>4. SettledKept
    BY <1>1, <1>3 DEF SettledKept, sameRuntime
  <1>5. ASSUME NEW x \in Requests, ClaimKept(e, x), result'[x] = result[x] \/ result'[x] = "error"
        PROVE  ComputedOf(x)'
    <2>1. Unmoved(x)
      BY <1>1, <1>5, SameClaims
    <2>2. ComputedOf(x) /\ Covered
      BY <1>2 DEF ServingHeld, ComputedHeld
    <2>3. request[x].executor \in Executors
      BY RequestFacts
    <2>4. request[x].live /\ epoch'[request[x].executor] = RuntimeEpoch =>
            sameRuntime(request[x].executor) /\ ClaimKept(request[x].executor, x)
      BY <1>1, <1>3, <1>5, <2>3 DEF sameRuntime
    <2> QED
      BY <2>1, <2>2, <2>4, ComputedFrame
  <1> QED
    BY <1>1, <1>4, <1>5, ExecutorStep

(* The rest of a queue. *)
LEMMA RestOf ==
  ASSUME NEW e, NEW q \in Seq(Items(e)), q # << >>
  PROVE  LET z == Tail(q) IN
         /\ z \in Seq(Items(e)) /\ 1 \in DOMAIN q /\ Head(q) = q[1]
         /\ \A i \in DOMAIN z : i \in Nat /\ i >= 1 /\ i + 1 \in DOMAIN q /\ i + 1 # 1 /\ z[i] = q[i + 1]
  <1>1. Len(q) \in Nat /\ Len(q) > 0 /\ DOMAIN q = 1..Len(q)
    BY EmptySeq
  <1>2. Tail(q) \in Seq(Items(e)) /\ Len(Tail(q)) = Len(q) - 1 /\ Head(q) = q[1]
    BY <1>1
  <1>3. ASSUME NEW i \in 1..(Len(q) - 1) PROVE Tail(q)[i] = q[i + 1]
    BY <1>1
  <1>4. DOMAIN Tail(q) = 1..(Len(q) - 1)
    BY <1>2
  <1>5. \A i \in 1..(Len(q) - 1) : i \in Nat /\ i >= 1 /\ i + 1 \in 1..Len(q) /\ i + 1 # 1
    BY <1>1
  <1>6. 1 \in DOMAIN q
    BY <1>1
  <1> QED
    BY <1>1, <1>2, <1>3, <1>4, <1>5, <1>6

(* The queue moves up and its first batch is answered. *)
LEMMA RunQueue ==
  ASSUME Inv, Held, ExecutorsTyped, QueuesHeld, UNCHANGED vars,
         NEW e \in Executors, batches[e] # << >>, batches' = [batches EXCEPT ![e] = Tail(@)],
         NEW answer, result' = answered(Head(batches[e]), answer)
  PROVE  BatchesSound' /\ Awaiting' /\ ResultsOfLive'
  <1> DEFINE q    == batches[e]
             z    == Tail(q)
             item == q[1]
             r    == item.request
  <1>1. BatchesSound /\ Awaiting /\ ResultsOfLive
    BY DEF QueuesHeld
  <1>2. q \in Seq(Items(e)) /\ DOMAIN batches = Executors /\ \A i \in DOMAIN q : ItemSound(e, q[i])
    BY <1>1 DEF BatchesSound
  <1>3. /\ z \in Seq(Items(e)) /\ 1 \in DOMAIN q /\ Head(q) = item
        /\ \A i \in DOMAIN z : i \in Nat /\ i + 1 \in DOMAIN q /\ i + 1 # 1 /\ z[i] = q[i + 1]
    BY <1>2, RestOf
  <1>4. /\ batches'[e] = z /\ DOMAIN batches' = Executors
        /\ \A f \in Executors : f # e => batches'[f] = batches[f]
    BY <1>2
  <1>5. mgr' = mgr /\ request' = request
    BY RegistrySame
  <1> HIDE DEF z
  <1>6. BatchesSound'
    <2>1. \A i \in DOMAIN z : ItemSound(e, z[i])
      BY <1>2, <1>3
    <2> QED
      BY <1>1, <1>3, <1>4, <2>1 DEF BatchesSound
  <1>7. \/ ~item.awaited /\ result' = result
        \/ /\ item.awaited /\ r \in Requests /\ request[r].live
           /\ \A x \in Requests : x # r => result'[x] = result[x]
    <2>1. CASE ~item.awaited
      BY <1>3, <2>1 DEF answered
    <2>2. CASE item.awaited
      <3>1. r \in Requests /\ request[r].live
        BY <1>1, <1>3, <2>2, AwaitedFacts
      <3>2. result' = [result EXCEPT ![r] = answer]
        BY <1>3, <2>2 DEF answered
      <3> QED
        BY <2>2, <3>1, <3>2 DEF ExecutorsTyped
    <2> QED
      BY <2>1, <2>2
  <1>8. ASSUME NEW f \in Executors, NEW j \in DOMAIN batches'[f], batches'[f][j].awaited
        PROVE  \E i \in DOMAIN batches[f] :
                 /\ batches'[f][j] = batches[f][i] /\ i = (IF f = e THEN j + 1 ELSE j)
                 /\ batches[f][i].request \in Requests /\ ItemAwaited(f, batches[f][i])
                 /\ result'[batches[f][i].request] = result[batches[f][i].request]
    <2> DEFINE i == IF f = e THEN j + 1 ELSE j
    <2>1. i \in DOMAIN batches[f] /\ batches'[f][j] = batches[f][i] /\ ~(f = e /\ i = 1)
      BY <1>3, <1>4
    <2> HIDE DEF i
    <2>2. batches[f][i].request \in Requests /\ ItemAwaited(f, batches[f][i])
      BY <1>1, <1>8, <2>1, AwaitedFacts
    <2>3. item.awaited => batches[f][i].request # r
      BY <1>1, <1>3, <1>8, <2>1, OneAwaited
    <2>4. result'[batches[f][i].request] = result[batches[f][i].request]
      BY <1>7, <2>2, <2>3
    <2> QED
      BY <2>1, <2>2, <2>4 DEF i
  <1>9. Awaiting'
    <2>1. ASSUME NEW f \in Executors, NEW j \in DOMAIN batches'[f], batches'[f][j].awaited
          PROVE  ItemAwaited(f, batches[f][j])'
      <3>1. PICK i \in DOMAIN batches[f] :
                 /\ batches'[f][j] = batches[f][i]
                 /\ ItemAwaited(f, batches[f][i])
                 /\ result'[batches[f][i].request] = result[batches[f][i].request]
        BY <1>8, <2>1
      <3> DEFINE v == batches[f][i]
      <3>2. ItemAwaited(f, v) /\ result'[v.request] = result[v.request] /\ batches'[f][j] = v
        BY <3>1
      <3> HIDE DEF v
      <3> QED
        BY <1>5, <3>2 DEF ItemAwaited
    <2>2. ASSUME NEW f \in Executors, NEW j \in DOMAIN batches'[f], NEW k \in DOMAIN batches'[f],
                 batches'[f][j].awaited, batches'[f][k].awaited,
                 batches'[f][j].request = batches'[f][k].request
          PROVE  j = k
      <3> DEFINE u(n) == IF f = e THEN n + 1 ELSE n
      <3>1. /\ u(j) \in DOMAIN batches[f] /\ batches'[f][j] = batches[f][u(j)]
            /\ u(k) \in DOMAIN batches[f] /\ batches'[f][k] = batches[f][u(k)]
        BY <1>8, <2>2
      <3>2. f = e => j \in Nat /\ k \in Nat
        BY <1>3, <1>4
      <3> HIDE DEF u
      <3>3. u(j) = u(k)
        BY <1>1, <2>2, <3>1, OneAwaited
      <3> QED
        BY <3>2, <3>3 DEF u
    <2> QED
      BY <2>1, <2>2 DEF Awaiting
  <1>10. ResultsOfLive'
    BY <1>1, <1>5, <1>7 DEF ResultsOfLive
  <1> QED
    BY <1>6, <1>9, <1>10

(* The batch may still run; its request is told of an error and claims      *)
(* nothing.                                                                 *)
LEMMA TimeOutFollows ==
  ASSUME Inv, Held, CallsTyped, ExecutorsTyped, CacheFollows, NEW e \in Executors, TimeOut(e)
  PROVE  CacheFollows'
  <1> DEFINE item == Head(batches[e])
             v    == [item EXCEPT !.awaited = FALSE]
  <1>1. /\ batches[e] # << >> /\ batches' = [batches EXCEPT ![e] = Tail(@)]
        /\ late' = [late EXCEPT ![e] = @ \cup {v}] /\ result' = answered(item, "error")
        /\ UNCHANGED <<vars, executor, call, rpc>>
    BY DEF TimeOut
  <1>2. UNCHANGED vars /\ UNCHANGED <<vars, epoch, call, rpc>> /\ kv' = kv
    BY <1>1 DEF executor
  <1>3. ServingHeld
    BY TransferParts
  <1>4. QueuesHeld /\ BatchesSound /\ LateSound /\ CachesShaped
    BY <1>3, QueueParts DEF QueuesHeld
  <1>5. BatchesSound' /\ Awaiting' /\ ResultsOfLive'
    BY <1>1, <1>2, <1>4, RunQueue
  <1>6. ItemSound(e, item)
    <2>1. batches[e] \in Seq(Items(e)) /\ \A i \in DOMAIN batches[e] : ItemSound(e, batches[e][i])
      BY <1>4 DEF BatchesSound
    <2> QED
      BY <1>1, <2>1, RestOf
  <1>7. LateSound'
    <2>1. ItemSound(e, v) /\ ~v.awaited
      BY <1>6, GivenUpSound
    <2> HIDE DEF v
    <2> QED
      BY <1>1, <1>4, <2>1 DEF LateSound
  <1>8. CachesShaped'
    BY <1>2, <1>4 DEF CachesShaped
  <1>9. QueuesHeld'
    BY <1>5, <1>7, <1>8 DEF QueuesHeld
  <1>10. \A x \in Requests : result'[x] = result[x] \/ result'[x] = "error"
    BY <1>1 DEF answered, ExecutorsTyped
  <1>11. \A f \in Executors : kv'[f] = kv[f]
    BY <1>2
  <1>12. IndexKept(e) /\ (\A t \in Transfers : ImportKept(e, t)) /\ \A x \in Requests : ClaimKept(e, x)
    BY <1>11, SameKept
  <1> QED
    BY <1>2, <1>9, <1>10, <1>11, <1>12, CacheStep

-----------------------------------------------------------------------------
(* A batch runs *)

(* The batch changes only the blocks it may write. *)
OnlyTargets(e, item, c) ==
  \A b \in BlockIds(e) : b \notin targets(e, item) => \A s \in 1..BlockSize[e] : c[b][s] = kv[e][b][s]

(* execute_batch, in each of its outcomes. *)
LEMMA ExecuteEffect ==
  ASSUME CachesShaped, NEW e \in Executors, NEW item, ItemSound(e, item), execute_batch(e, item)
  PROVE  /\ UNCHANGED <<vars, epoch, call, rpc>>
         /\ CachesShaped' /\ OnlyTargets(e, item, kv'[e])
         /\ \A f \in Executors : f # e => kv'[f] = kv[f]
         /\ \E answer \in {"ok", "error"} :
              /\ result' = answered(item, answer)
              /\ answer = "ok" =>
                   accepts(e) /\ kv'[e] = ran(e, release(kv[e], Range(item.allocated)), item)
         /\ ~strayed' => item.awaited \/ KeepsReliedSlots(e)
  <1> DEFINE cleared == release(kv[e], Range(item.allocated))
             after   == ran(e, cleared, item)
  <1>1. PICK answer \in {"ok", "error"} :
          /\ result' = answered(item, answer)
          /\ \/ accepts(e) /\ kv' = [kv EXCEPT ![e] = after]
             \/ answer = "error" /\ kv' = [kv EXCEPT ![e] = cleared]
             \/ answer = "error" /\ kv' = kv
    BY DEF execute_batch
  <1>2. /\ UNCHANGED <<vars, epoch, call, rpc>>
        /\ ~strayed' => item.awaited \/ KeepsReliedSlots(e)
    BY DEF execute_batch
  <1>3. DOMAIN kv = Executors /\ CacheShape(e, kv[e])
    BY DEF CachesShaped
  <1>4. /\ CacheShape(e, cleared) /\ CacheShape(e, after)
        /\ OnlyTargets(e, item, cleared) /\ OnlyTargets(e, item, after) /\ OnlyTargets(e, item, kv[e])
    BY <1>3, RunEffect DEF OnlyTargets
  <1> HIDE DEF after, cleared
  <1>5. /\ DOMAIN kv' = Executors /\ CacheShape(e, kv'[e]) /\ OnlyTargets(e, item, kv'[e])
        /\ \A f \in Executors : f # e => kv'[f] = kv[f]
        /\ answer = "ok" => accepts(e) /\ kv'[e] = after
    <2>1. CASE accepts(e) /\ kv' = [kv EXCEPT ![e] = after]
      BY <1>3, <1>4, <2>1
    <2>2. CASE answer = "error" /\ kv' = [kv EXCEPT ![e] = cleared]
      BY <1>3, <1>4, <2>2
    <2>3. CASE answer = "error" /\ kv' = kv
      BY <1>3, <1>4, <2>3
    <2> QED
      BY <1>1, <2>1, <2>2, <2>3
  <1>6. CachesShaped'
    BY <1>5 DEF CachesShaped
  <1> QED
    BY <1>1, <1>2, <1>5, <1>6 DEF after, cleared

(* A batch that does not stray keeps whatever is relied on. *)
LEMMA ReliedKept ==
  ASSUME NEW e, KeepsReliedSlots(e)
  PROVE  /\ IndexKept(e) /\ \A t \in Transfers : ImportKept(e, t)
         /\ \A x \in Requests : ClaimKept(e, x)
  BY DEF KeepsReliedSlots, IndexKept, ImportKept, ClaimKept, Kept

(* A step that writes to private blocks of one request keeps whatever else  *)
(* is relied on.                                                            *)
LEMMA PrivateKept ==
  ASSUME Inv, Held, ExecutorsTyped, Covered, NEW e \in Executors, NEW r,
         \A b \in BlockIds(e) : ~PrivateTo(e, b, r) => Kept(e, b)
  PROVE  /\ IndexKept(e) /\ \A t \in Transfers : ImportKept(e, t)
         /\ \A x \in Requests : x # r => ClaimKept(e, x)
  <1>1. IndexKept(e)
    <2>1. Good(e, mgr[e])
      BY ExecutorFacts
    <2>2. ASSUME NEW h \in DOMAIN mgr[e].cachedBlocks PROVE Kept(e, mgr[e].cachedBlocks[h])
      <3>1. mgr[e].cachedBlocks[h] \in BlockIds(e)
        BY <2>1 DEF Good, ManagerOK
      <3> QED
        BY <3>1 DEF PrivateTo
    <2> QED
      BY <2>2 DEF IndexKept
  <1>2. ASSUME NEW t \in Transfers, transfer[t].destination = e,
               NEW b \in Range(transfer[t].destinationBlocks)
        PROVE  Kept(e, b)
    <2>1. b \in BlockIds(e)
      BY <1>2, PlanFacts DEF Range
    <2> QED
      BY <1>2, <2>1 DEF PrivateTo
  <1>3. ASSUME NEW x \in Requests, x # r, request[x].live, request[x].executor = e,
               NEW n \in claimed(x), NEW p \in 1..n
        PROVE  LET b == blockAt(BlockSize[e], tableOf(x), p)
                   s == slotAt(BlockSize[e], p)
               IN  kv'[e][b][s] = kv[e][b][s]
    <2> DEFINE b == blockAt(BlockSize[e], tableOf(x), p)
               s == slotAt(BlockSize[e], p)
    <2>1. n \in Nat /\ n <= Len(tableOf(x)) * BlockSize[e]
      BY <1>3, ClaimCovered
    <2>2. b \in BlockIds(e) /\ b \in Range(tableOf(x)) /\ s \in 1..BlockSize[e]
      BY <1>3, <2>1, ClaimedPosition
    <2>3. Kept(e, b)
      BY <1>3, <2>2 DEF PrivateTo
    <2> QED
      BY <2>2, <2>3 DEF Kept
  <1> QED
    BY <1>1, <1>2, <1>3 DEF ImportKept, ClaimKept

(* The request of an awaited batch that succeeds has its KV up to the end   *)
(* of the batch.                                                            *)
LEMMA RunOwn ==
  ASSUME Inv, Held, ExecutorsTyped, QueuesHeld, Covered, ComputedHeld, UNCHANGED <<vars, epoch>>,
         NEW e \in Executors, sameRuntime(e), NEW r, r = batches[e][1].request,
         batches[e] # << >>, batches[e][1].awaited,
         kv'[e] = ran(e, release(kv[e], Range(batches[e][1].allocated)), batches[e][1]),
         result'[r] = "ok"
  PROVE  ComputedOf(r)'
  <1> DEFINE q    == batches[e]
             item == q[1]
             bs   == BlockSize[e]
  <1>1. BatchesSound /\ Awaiting /\ CacheShape(e, kv[e])
    BY DEF QueuesHeld, CachesShaped
  <1>2. q \in Seq(Items(e))
    BY <1>1 DEF BatchesSound
  <1>3. 1 \in DOMAIN q
    BY <1>2, RestOf
  <1>4. /\ ItemSound(e, item) /\ item \in Items(e) /\ r \in Requests /\ ItemAwaited(e, item)
        /\ result[r] = "waiting" /\ request[r].live /\ request[r].executor = e
        /\ item.table = tableOf(r)
    BY <1>1, <1>3, AwaitedFacts
  <1>5. /\ item.from = request[r].computed /\ item.prompt = request[r].prompt
        /\ item.work \in DOMAIN mgr[e].pendingAllocations
        /\ mgr[e].pendingAllocations[item.work].request = r
        /\ mgr[e].pendingAllocations[item.work].tokens = item.to
    BY <1>4 DEF ItemAwaited
  <1>6. mgr' = mgr /\ request' = request
    BY RegistrySame
  <1>7. \A p : content(item, p) = content(identity(r), p)
    BY <1>5 DEF content, identity
  <1>8. readsOwnKV(e, kv[e], item)
    <2>1. item.from \in claimed(r)
      BY <1>4, <1>5 DEF claimed
    <2>2. OwnsUpTo(r, item.from)
      BY <1>4, <2>1 DEF ComputedHeld, ComputedOf
    <2> QED
      BY <1>4, <1>7, <2>2 DEF OwnsUpTo, Owns, readsOwnKV
  <1>9. \A p \in 1..item.to : slot(bs, kv'[e], item.table, p) = content(item, p)
    BY <1>1, <1>4, <1>8, RunEffect
  <1>10. ASSUME NEW n \in claimed(r)' PROVE n = item.to
    <2>1. PICK w \in worksOf(mgr[e], r) : n = mgr[e].pendingAllocations[w].tokens
      BY <1>4, <1>6, <1>10, SMTT(30) DEF claimed
    <2>2. w \in DOMAIN mgr[e].pendingAllocations /\ mgr[e].pendingAllocations[w].request = r
      BY <2>1 DEF worksOf
    <2>3. w = item.work
      <3> DEFINE a == mgr[e].pendingAllocations
                 v == item.work
      <3>1. v \in DOMAIN a /\ a[v].request = r
        BY <1>5
      <3>2. \A y \in DOMAIN a : a[y].request = a[v].request => y = v
        BY <3>1, WorkFacts
      <3> QED
        BY <2>2, <3>1, <3>2
    <2> QED
      BY <1>5, <2>1, <2>3
  <1>11. tableOf(r)' = item.table /\ identity(r)' = identity(r) /\ request'[r].executor = e
    BY <1>4, <1>6 DEF tableOf, identity
  <1>12. \A n \in claimed(r)' : OwnsUpTo(r, n)'
    BY <1>7, <1>9, <1>10, <1>11, ZenonT(30) DEF OwnsUpTo, Owns
  <1> QED
    BY <1>12 DEF ComputedOf

(* The batch that consumeExecutor has sent: if its request awaits it, it    *)
(* writes to blocks of that request alone; otherwise it has not strayed.    *)
LEMMA RunFollows ==
  ASSUME Inv, Held, CallsTyped, ExecutorsTyped, CacheFollows, NEW e \in Executors, RunBatch(e),
         ~strayed'
  PROVE  CacheFollows'
  <1> DEFINE q    == batches[e]
             item == q[1]
             r    == item.request
  <1>1. ServingHeld
    BY TransferParts
  <1>2. QueuesHeld /\ BatchesSound /\ LateSound /\ Awaiting /\ CachesShaped /\ Covered /\ ComputedHeld
    BY <1>1, QueueParts DEF QueuesHeld
  <1>3. q # << >> /\ q \in Seq(Items(e)) /\ \A i \in DOMAIN q : ItemSound(e, q[i])
    BY <1>2 DEF RunBatch, BatchesSound
  <1>4. 1 \in DOMAIN q /\ Head(q) = item /\ ItemSound(e, item)
    BY <1>3, RestOf
  <1>5. execute_batch(e, item) /\ batches' = [batches EXCEPT ![e] = Tail(@)] /\ late' = late
    BY <1>4 DEF RunBatch
  <1> HIDE DEF item
  <1>6. PICK answer \in {"ok", "error"} :
          /\ UNCHANGED <<vars, epoch, call, rpc>>
          /\ CachesShaped' /\ OnlyTargets(e, item, kv'[e])
          /\ \A f \in Executors : f # e => kv'[f] = kv[f]
          /\ result' = answered(item, answer)
          /\ answer = "ok" =>
               accepts(e) /\ kv'[e] = ran(e, release(kv[e], Range(item.allocated)), item)
          /\ item.awaited \/ KeepsReliedSlots(e)
    BY <1>2, <1>4, <1>5, ExecuteEffect
  <1>7. UNCHANGED vars /\ UNCHANGED <<vars, epoch>>
    BY <1>6
  <1>8. BatchesSound' /\ Awaiting' /\ ResultsOfLive'
    BY <1>2, <1>3, <1>4, <1>5, <1>6, <1>7, RunQueue
  <1>9. QueuesHeld'
    BY <1>2, <1>5, <1>6, <1>8 DEF QueuesHeld, LateSound
  <1>10. CASE ~item.awaited
    <2>1. IndexKept(e) /\ (\A t \in Transfers : ImportKept(e, t)) /\ \A x \in Requests : ClaimKept(e, x)
      BY <1>6, <1>10, ReliedKept
    <2>2. result' = result
      BY <1>6, <1>10 DEF answered
    <2> QED
      BY <1>6, <1>9, <2>1, <2>2, CacheStep
  <1>11. CASE item.awaited
    <2>1. PICK own \in Requests : own = r /\ \A b \in targets(e, item) : PrivateTo(e, b, own)
      BY <1>2, <1>4, <1>11, AwaitedFacts DEF item
    <2>2. \A b \in BlockIds(e) : ~PrivateTo(e, b, own) => Kept(e, b)
      BY <1>6, <2>1 DEF OnlyTargets, Kept
    <2>3. /\ IndexKept(e) /\ \A t \in Transfers : ImportKept(e, t)
          /\ \A x \in Requests : x # own => ClaimKept(e, x)
      BY <1>2, <2>2, PrivateKept
    <2>4. result'[own] = answer /\ \A x \in Requests : x # own => result'[x] = result[x]
      BY <1>6, <1>11, <2>1 DEF answered, ExecutorsTyped
    <2>5. ComputedOf(own)'
      <3>1. CASE answer = "error"
        <4>1. claimed(own)' = {}
          BY <2>4, <3>1 DEF claimed
        <4> QED
          BY <4>1 DEF ComputedOf
      <3>2. CASE answer = "ok"
        <4>1. sameRuntime(e) /\ kv'[e] = ran(e, release(kv[e], Range(item.allocated)), item)
          BY <1>6, <3>2 DEF accepts, sameRuntime
        <4>2. own = batches[e][1].request /\ batches[e] # << >> /\ batches[e][1].awaited
          BY <1>3, <1>11, <2>1 DEF item
        <4>3. kv'[e] = ran(e, release(kv[e], Range(batches[e][1].allocated)), batches[e][1])
          BY <4>1 DEF item
        <4> QED
          BY <1>2, <1>7, <2>4, <3>2, <4>1, <4>2, <4>3, RunOwn
      <3> QED
        BY <3>1, <3>2
    <2>6. \A x \in Requests :
            \/ ComputedOf(x)'
            \/ ClaimKept(e, x) /\ (result'[x] = result[x] \/ result'[x] = "error")
      BY <2>3, <2>4, <2>5
    <2> QED
      BY <1>6, <1>9, <2>3, <2>6, CacheStep
  <1> QED
    BY <1>10, <1>11

(* A batch whose call has timed out runs, before or behind any other. *)
LEMMA RunLateFollows ==
  ASSUME Inv, Held, CallsTyped, ExecutorsTyped, CacheFollows, NEW e \in Executors,
         NEW item \in late[e], RunLate(e, item), ~strayed'
  PROVE  CacheFollows'
  <1>1. ServingHeld
    BY TransferParts
  <1>2. QueuesHeld /\ LateSound /\ CachesShaped
    BY <1>1, QueueParts DEF QueuesHeld
  <1>3. ItemSound(e, item) /\ ~item.awaited
    BY <1>2 DEF LateSound
  <1>4. PICK rest \in {late[e], late[e] \ {item}} :
          execute_batch(e, item) /\ batches' = batches /\ late' = [late EXCEPT ![e] = rest]
    BY DEF RunLate
  <1>5. /\ UNCHANGED <<vars, epoch, call, rpc>> /\ CachesShaped' /\ KeepsReliedSlots(e)
        /\ \A f \in Executors : f # e => kv'[f] = kv[f]
        /\ result' = result
    BY <1>2, <1>3, <1>4, ExecuteEffect DEF answered
  <1>6. LateSound'
    BY <1>2, <1>4 DEF LateSound
  <1>7. QueuesHeld'
    <2>1. mgr' = mgr /\ request' = request
      BY <1>5, RegistrySame
    <2>2. Awaiting'
      BY <1>2, <1>4, <1>5, <2>1, SMTT(30) DEF QueuesHeld, Awaiting, ItemAwaited
    <2>3. BatchesSound' /\ ResultsOfLive'
      BY <1>2, <1>4, <1>5, <2>1 DEF QueuesHeld, BatchesSound, ResultsOfLive
    <2> QED
      BY <1>5, <1>6, <2>2, <2>3 DEF QueuesHeld
  <1>8. IndexKept(e) /\ (\A t \in Transfers : ImportKept(e, t)) /\ \A x \in Requests : ClaimKept(e, x)
    BY <1>5, ReliedKept
  <1> QED
    BY <1>5, <1>7, <1>8, CacheStep

-----------------------------------------------------------------------------
(* Steps of a request in the Engine *)

(* The other requests' awaited batches stay where they are. *)
OthersQueued(r) ==
  \A e \in Executors : \A j \in DOMAIN batches'[e] :
    batches'[e][j].awaited /\ batches'[e][j].request # r =>
      j \in DOMAIN batches[e] /\ batches'[e][j] = batches[e][j]

(* What the invariant says of the batches and of the table of r. *)
OwnAwaited(r) ==
  \A e \in Executors : \A j \in DOMAIN batches[e] :
    batches[e][j].awaited /\ batches[e][j].request = r =>
      /\ ItemAwaited(e, batches[e][j])
      /\ \A k \in DOMAIN batches[e] : batches[e][k].awaited /\ batches[e][k].request = r => k = j

CoveredOf(r) ==
  /\ request[r].live => request[r].computed <= Len(tableOf(r)) * BlockSize[request[r].executor]
  /\ \A e \in Executors : \A w \in DOMAIN mgr[e].pendingAllocations :
       LET a == mgr[e].pendingAllocations[w] IN
       a.request = r => /\ request[r].computed <= (Len(a.blockTable) - Len(a.allocated)) * BlockSize[e]
                        /\ a.tokens <= Len(a.blockTable) * BlockSize[e]

(* A request that the step is not of. *)
LEMMA OtherUnmoved ==
  ASSUME Inv, Held, NEW r, OthersSame(r), NEW x \in Requests, x # r, result'[x] = result[x]
  PROVE  Unmoved(x) /\ tableOf(x)' = tableOf(x) /\ request'[x] = request[x]
  <1> DEFINE e == request[x].executor
  <1>1. request'[x] = request[x] /\ e \in Executors
    BY RequestFacts DEF OthersSame
  <1>2. Lookup(mgr'[e].requestBlocks, x) = Lookup(mgr[e].requestBlocks, x)
    BY <1>1 DEF OthersSame
  <1>3. tableOf(x)' = tableOf(x)
    BY <1>1, <1>2 DEF tableOf
  <1>4. ASSUME NEW w \in worksOf(mgr'[e], x)
        PROVE  /\ w \in worksOf(mgr[e], x)
               /\ mgr'[e].pendingAllocations[w] = mgr[e].pendingAllocations[w]
    <2>1. w \in DOMAIN mgr'[e].pendingAllocations /\ mgr'[e].pendingAllocations[w].request = x
      BY <1>4 DEF worksOf
    <2>2. /\ w \in DOMAIN mgr[e].pendingAllocations
          /\ mgr'[e].pendingAllocations[w] = mgr[e].pendingAllocations[w]
      BY <1>1, <2>1 DEF OthersSame
    <2> QED
      BY <2>1, <2>2 DEF worksOf
  <1>5. ASSUME NEW n \in claimed(x)' PROVE n \in claimed(x)
    BY <1>1, <1>4, <1>5 DEF claimed
  <1> QED
    BY <1>1, <1>3, <1>5 DEF Unmoved

(* The awaited batch of another request. *)
LEMMA OtherAwaited ==
  ASSUME NEW r, OthersSame(r), NEW e \in Executors, NEW item, item.request \in Requests,
         item.request # r, result'[item.request] = result[item.request], ItemAwaited(e, item)
  PROVE  ItemAwaited(e, item)'
  <1> DEFINE x == item.request
             w == item.work
  <1>1. request'[x] = request[x]
    BY DEF OthersSame
  <1>2. w \in DOMAIN mgr[e].pendingAllocations /\ mgr[e].pendingAllocations[w].request = x
    BY DEF ItemAwaited
  <1>3. w \in DOMAIN mgr'[e].pendingAllocations /\ mgr'[e].pendingAllocations[w] = mgr[e].pendingAllocations[w]
    BY <1>2 DEF OthersSame
  <1> QED
    BY <1>1, <1>3 DEF ItemAwaited

(* A step of request r in the Engine keeps the invariant when it leaves the *)
(* other requests alone and the parts about r, the indexes and the          *)
(* transfers hold afterwards.                                               *)
LEMMA EngineRequest ==
  ASSUME Inv, Held, ExecutorsTyped, CacheFollows, NEW r \in Requests, OthersSame(r),
         UNCHANGED <<kv, epoch>>, \A x \in Requests : x # r => result'[x] = result[x],
         OthersQueued(r), OwnAwaited(r)', CoveredOf(r)',
         IndexesHeld', TransfersHeld', BatchesSound', LateSound', ComputedOf(r)',
         ~request'[r].live => result'[r] = "none"
  PROVE  CacheFollows'
  <1>1. ServingHeld
    BY TransferParts
  <1>2. Awaiting /\ BatchesSound /\ ResultsOfLive /\ CachesShaped /\ Covered /\ ComputedHeld
    BY <1>1 DEF ServingHeld
  <1>3. \A x \in Requests : x # r => Unmoved(x) /\ tableOf(x)' = tableOf(x) /\ request'[x] = request[x]
    BY OtherUnmoved
  <1>4. ASSUME NEW x \in Requests, x # r PROVE ComputedOf(x)'
    <2>1. Unmoved(x) /\ ComputedOf(x)
      BY <1>2, <1>3, <1>4 DEF ComputedHeld
    <2>2. epoch'[request[x].executor] = RuntimeEpoch =>
            sameRuntime(request[x].executor) /\ ClaimKept(request[x].executor, x)
      BY SameKept DEF sameRuntime
    <2> QED
      BY <1>2, <2>1, <2>2, ComputedFrame
  <1>5. Awaiting'
    <2>1. ASSUME NEW e \in Executors, NEW j \in DOMAIN batches'[e], batches'[e][j].awaited,
                 batches'[e][j].request # r
          PROVE  /\ ItemAwaited(e, batches[e][j])'
                 /\ \A k \in DOMAIN batches'[e] :
                      batches'[e][k].awaited /\ batches'[e][k].request = batches'[e][j].request => k = j
      <3>1. j \in DOMAIN batches[e] /\ batches'[e][j] = batches[e][j]
        BY <2>1 DEF OthersQueued
      <3> DEFINE v == batches[e][j]
      <3>2. v.request \in Requests /\ ItemAwaited(e, v) /\ v.request # r /\ batches'[e][j] = v
        BY <1>2, <2>1, <3>1, AwaitedFacts
      <3>3. result'[v.request] = result[v.request]
        BY <3>2
      <3>4. ASSUME NEW k \in DOMAIN batches'[e], batches'[e][k].awaited,
                   batches'[e][k].request = batches'[e][j].request
            PROVE  k = j
        <4>1. k \in DOMAIN batches[e] /\ batches'[e][k] = batches[e][k]
          BY <2>1, <3>4 DEF OthersQueued
        <4> QED
          BY <1>2, <2>1, <3>1, <3>4, <4>1 DEF Awaiting
      <3> HIDE DEF v
      <3>5. ItemAwaited(e, batches[e][j])'
        BY <3>2, <3>3, OtherAwaited
      <3> QED
        BY <3>4, <3>5
    <2> QED
      BY <2>1 DEF Awaiting, OwnAwaited
  <1>6. Covered'
    <2>1. ASSUME NEW x \in Requests, x # r, request'[x].live
          PROVE  request'[x].computed <= Len(tableOf(x)') * BlockSize[request'[x].executor]
      BY <1>2, <1>3, <2>1 DEF Covered
    <2>2. ASSUME NEW e \in Executors, NEW w \in DOMAIN mgr'[e].pendingAllocations,
                 mgr'[e].pendingAllocations[w].request # r
          PROVE  LET a == mgr'[e].pendingAllocations[w] IN
                 /\ request'[a.request].computed <= (Len(a.blockTable) - Len(a.allocated)) * BlockSize[e]
                 /\ a.tokens <= Len(a.blockTable) * BlockSize[e]
      <3> DEFINE a == mgr[e].pendingAllocations[w]
      <3>1. w \in DOMAIN mgr[e].pendingAllocations /\ mgr'[e].pendingAllocations[w] = a
        BY <2>2 DEF OthersSame
      <3>2. a.request \in Requests /\ a.request # r
        BY <2>2, <3>1, WorkFacts
      <3>3. request'[a.request] = request[a.request]
        BY <1>3, <3>2
      <3>4. /\ request[a.request].computed <= (Len(a.blockTable) - Len(a.allocated)) * BlockSize[e]
            /\ a.tokens <= Len(a.blockTable) * BlockSize[e]
        BY <1>2, <3>1 DEF Covered
      <3> QED
        BY <3>1, <3>3, <3>4
    <2> QED
      BY <2>1, <2>2 DEF Covered, CoveredOf
  <1>7. ResultsOfLive'
    BY <1>2, <1>3 DEF ResultsOfLive
  <1>8. CachesShaped'
    BY <1>2 DEF CachesShaped
  <1>9. ServingHeld'
    BY <1>4, <1>5, <1>6, <1>7, <1>8 DEF ServingHeld, ComputedHeld
  <1> QED
    BY <1>9, NextParts

(* A step of a request of which no batch is awaited, queues unchanged. *)
LEMMA SameQueues ==
  ASSUME Inv, Held, ExecutorsTyped, CacheFollows, NEW r \in Requests, OthersSame(r),
         UNCHANGED <<kv, epoch, batches, late, call, rpc>>, transfer' = transfer,
         \A x \in Requests : x # r => result'[x] = result[x], result[r] # "waiting",
         CoveredOf(r)', IndexesHeld', ComputedOf(r)', ~request'[r].live => result'[r] = "none"
  PROVE  CacheFollows'
  <1>1. ServingHeld /\ TransfersHeld
    BY TransferParts
  <1>2. OthersQueued(r)
    BY DEF OthersQueued
  <1>3. \A e \in Executors : \A j \in DOMAIN batches[e] :
          ~(batches[e][j].awaited /\ batches[e][j].request = r)
    BY <1>1 DEF ServingHeld, Awaiting, ItemAwaited
  <1>4. OwnAwaited(r)'
    BY <1>3 DEF OwnAwaited
  <1>5. BatchesSound' /\ LateSound'
    BY <1>1 DEF ServingHeld, BatchesSound, LateSound
  <1>6. UNCHANGED <<kv, epoch>>
    OBVIOUS
  <1>7. \A t \in Transfers : TransferHeld(t)'
    BY <1>1, <1>6, TransferKept DEF TransfersHeld
  <1>8. TransfersHeld'
    BY <1>7 DEF TransfersHeld
  <1> QED
    BY <1>2, <1>4, <1>5, <1>6, <1>8, EngineRequest

(* The KV of a cached block is the text of the prompt it was cached for. *)
LEMMA HashContent ==
  ASSUME NEW e \in Executors, NEW who, who.prompt \in Prompts,
         NEW i \in DOMAIN blockHashes(BlockSize[e], who.prompt), NEW s \in 1..BlockSize[e]
  PROVE  LET p == (i - 1) * BlockSize[e] + s IN
         /\ p \in Nat /\ p >= 1
         /\ kvOf(BlockSize[e], blockHashes(BlockSize[e], who.prompt)[i], s) = content(who, p)
  BY HashKV DEF content

(* MatchPrefix: the matched blocks hold the KV of the prompt. *)
LEMMA AdmitFollows ==
  ASSUME Inv, Held, ExecutorsTyped, CacheFollows, NEW r \in Requests, NEW e \in Executors,
         NEW prompt \in Prompts, Admit(r, e, prompt)
  PROVE  CacheFollows'
  <1> DEFINE m   == mgr[e]
             bs  == BlockSize[e]
             ids == matchedBlocks(m, prompt)
             hs  == blockHashes(bs, prompt)
             who == [request |-> r, prompt |-> prompt]
  <1>1. /\ MatchPrefixFor(r, e, prompt) /\ UNCHANGED <<kv, epoch, batches, late, call, rpc>>
        /\ UNCHANGED <<kv, epoch>> /\ result' = result
    BY DEF Admit, executor, onTheWay
  <1>2. /\ ~request[r].live /\ transfer' = transfer
        /\ OthersSame(r) /\ NoWorkOf(r) /\ IndexesShrink
        /\ request'[r] = [live |-> TRUE, executor |-> e, prompt |-> prompt, cache |-> ids,
                          computed |-> Len(ids) * BlockSize[e]]
        /\ Lookup(mgr'[e].requestBlocks, r) = ids
    BY <1>1, AdmitEffect
  <1>3. ServingHeld /\ IndexesHeld
    BY TransferParts
  <1>4. result[r] = "none"
    BY <1>2, <1>3 DEF ServingHeld, ResultsOfLive
  <1>5. IndexesHeld'
    BY <1>1, <1>2, <1>3, IndexFrame
  <1>6. /\ request'[r].live /\ request'[r].executor = e /\ request'[r].prompt = prompt
        /\ request'[r].computed = Len(ids) * bs
    BY <1>2
  <1>7. tableOf(r)' = ids /\ identity(r)' = who
    BY <1>2, <1>6 DEF tableOf, identity
  <1>8. Good(e, m) /\ IndexSound(m)
    BY ExecutorFacts
  <1>9. bs \in Nat /\ bs > 0
    BY SizeFacts
  <1> HIDE DEF m
  <1>10. /\ m.blockSize = bs /\ Blocks(m) = BlockIds(e)
    BY <1>8, GoodFields
  <1>11. /\ ids \in Seq(BlockIds(e)) /\ Len(ids) \in Nat /\ DOMAIN ids = 1..Len(ids)
         /\ \A i \in DOMAIN ids : i <= Len(hs) /\ m.cached[ids[i]] /\ m.hash[ids[i]] = hs[i]
    BY <1>8, <1>10, MatchedFacts
  <1> HIDE DEF ids
  <1>12. CoveredOf(r)'
    <2> DEFINE n == Len(ids) * bs
    <2>1. n \in Nat
      BY <1>9, <1>11
    <2> HIDE DEF n, bs
    <2>2. request'[r].computed = n /\ n <= n
      BY <1>6, <2>1 DEF n
    <2>3. request'[r].computed <= Len(tableOf(r)') * BlockSize[request'[r].executor]
      BY <1>6, <1>7, <2>2 DEF n, bs
    <2> QED
      BY <1>2, <2>3 DEF CoveredOf, NoWorkOf
  <1>13. ASSUME NEW i \in DOMAIN ids
         PROVE  i \in DOMAIN hs /\ hs[i] \in DOMAIN m.cachedBlocks /\ m.cachedBlocks[hs[i]] = ids[i]
    <2>1. ids[i] \in BlockIds(e)
      BY <1>11
    <2>2. hs[i] \in DOMAIN m.cachedBlocks /\ m.cachedBlocks[hs[i]] = ids[i]
      BY <1>8, <1>10, <1>11, <2>1 DEF IndexSound
    <2>3. i \in DOMAIN hs
      <3>1. hs \in Seq(Hashes)
        BY BlockHashesType
      <3> HIDE DEF hs
      <3> QED
        BY <1>11, <3>1
    <2> QED
      BY <2>2, <2>3
  <1>14. ASSUME sameRuntime(e), NEW p \in 1..(Len(ids) * bs)
         PROVE  slot(bs, kv[e], ids, p) = content(who, p)
    <2> DEFINE i == ((p - 1) \div bs) + 1
               s == slotAt(bs, p)
               z == Len(ids) * bs
    <2>1. p \in Nat /\ p >= 1 /\ p <= z
      <3>1. z \in Nat
        BY <1>9, <1>11
      <3> HIDE DEF z
      <3> QED
        BY <3>1 DEF z
    <2> HIDE DEF bs
    <2>2. i \in 1..Len(ids) /\ s \in 1..bs /\ p = (i - 1) * bs + s
      BY <1>9, <1>11, <2>1, Position, PositionInTable
    <2>3. slot(bs, kv[e], ids, p) = kv[e][ids[i]][s]
      BY DEF blockAt, slot
    <2> HIDE DEF i, s, hs
    <2>4. i \in DOMAIN hs /\ hs[i] \in DOMAIN m.cachedBlocks /\ m.cachedBlocks[hs[i]] = ids[i]
      BY <1>11, <1>13, <2>2
    <2>5. IndexHeld(e, m, kv[e])
      BY <1>3, <1>14 DEF IndexesHeld, m
    <2>6. Holds(e, kv[e], ids[i], hs[i])
      BY <2>4, <2>5 DEF IndexHeld
    <2>7. kv[e][ids[i]][s] = kvOf(bs, hs[i], s)
      BY <2>2, <2>6 DEF Holds, bs
    <2>8. kvOf(bs, hs[i], s) = content(who, p)
      <3>1. who.prompt = prompt /\ i \in DOMAIN blockHashes(BlockSize[e], who.prompt) /\ s \in 1..BlockSize[e]
        BY <2>2, <2>4 DEF hs, bs
      <3>2. kvOf(BlockSize[e], blockHashes(BlockSize[e], who.prompt)[i], s) = content(who, (i - 1) * BlockSize[e] + s)
        BY <3>1, HashContent
      <3> QED
        BY <2>2, <3>1, <3>2 DEF hs, bs
    <2> QED
      BY <2>3, <2>7, <2>8
  <1>15. ComputedOf(r)'
    <2>1. \A n \in claimed(r)' : n = Len(ids) * bs
      BY <1>1, <1>4, <1>6 DEF claimed
    <2>2. epoch' = epoch /\ kv' = kv
      BY <1>1
    <2>3. sameRuntime(e)' => \A n \in claimed(r)' : OwnsUpTo(r, n)'
      BY <1>6, <1>7, <1>14, <2>1, <2>2 DEF OwnsUpTo, Owns, sameRuntime
    <2> QED
      BY <1>6, <2>3 DEF ComputedOf, sameRuntime
  <1> QED
    BY <1>1, <1>2, <1>4, <1>5, <1>6, <1>12, <1>15, SameQueues

(* Rollback of a failed work *)
LEMMA FailFollows ==
  ASSUME Inv, Held, ExecutorsTyped, CacheFollows, NEW e \in Executors, NEW w \in Works,
         RollbackWork(e, w), UNCHANGED <<kv, epoch, batches, late, call, rpc>>,
         NEW r, r = mgr[e].pendingAllocations[w].request,
         result[r] = "error", result' = [result EXCEPT ![r] = "failed"]
  PROVE  CacheFollows'
  <1> DEFINE a == mgr[e].pendingAllocations[w]
  <1>1. /\ request' = request /\ transfer' = transfer /\ r \in Requests /\ OthersSame(r)
        /\ NoWorkOf(r) /\ IndexesShrink
        /\ Len(Lookup(mgr'[e].requestBlocks, r)) = Len(a.blockTable) - Len(a.allocated)
    BY RollbackEffect
  <1>2. w \in DOMAIN mgr[e].pendingAllocations
    BY DEF RollbackWork
  <1>3. request[r].live /\ request[r].executor = e
    BY <1>2, WorksAtExecutor
  <1>4. ServingHeld /\ IndexesHeld
    BY TransferParts
  <1>5. request[r].computed <= (Len(a.blockTable) - Len(a.allocated)) * BlockSize[e]
    BY <1>2, <1>4 DEF ServingHeld, Covered
  <1>6. CoveredOf(r)'
    <2>1. Len(tableOf(r)') = Len(a.blockTable) - Len(a.allocated)
      BY <1>1, <1>3 DEF tableOf
    <2>2. request'[r].computed <= Len(tableOf(r)') * BlockSize[request'[r].executor]
      BY <1>1, <1>3, <1>5, <2>1
    <2> QED
      BY <1>1, <2>2 DEF CoveredOf, NoWorkOf
  <1>7. result'[r] = "failed" /\ \A x \in Requests : x # r => result'[x] = result[x]
    BY <1>1 DEF ExecutorsTyped
  <1>8. ComputedOf(r)'
    BY <1>7 DEF ComputedOf, claimed
  <1>9. IndexesHeld'
    <2>1. UNCHANGED <<kv, epoch>>
      OBVIOUS
    <2> QED
      BY <1>1, <1>4, <2>1, IndexFrame
  <1> QED
    BY <1>1, <1>3, <1>6, <1>7, <1>8, <1>9, SameQueues

(* A full block of a table whose KV is computed holds the KV of its hash.   *)
LEMMA ComputedHolds ==
  ASSUME Inv, Held, NEW r \in Requests, request[r].live,
         NEW n \in Nat, OwnsUpTo(r, n), NEW i \in DOMAIN tableOf(r),
         i * BlockSize[request[r].executor] <= n,
         i \in DOMAIN blockHashes(BlockSize[request[r].executor], request[r].prompt)
  PROVE  LET e == request[r].executor
             b == tableOf(r)[i]
         IN  Holds(e, kv[e], b, blockHashes(BlockSize[e], request[r].prompt)[i])
  <1> DEFINE e   == request[r].executor
             bs  == BlockSize[e]
             tb  == tableOf(r)
             b   == tb[i]
             hs  == blockHashes(bs, request[r].prompt)
             who == identity(r)
  <1>1. e \in Executors /\ bs \in Nat /\ bs > 0 /\ tb \in Seq(BlockIds(e)) /\ request[r].prompt \in Prompts
    BY RequestFacts
  <1>2. i \in Nat /\ i >= 1
    BY <1>1
  <1>3. ASSUME NEW s \in 1..bs
        PROVE  kv[e][b][s] = kvOf(bs, hs[i], s) /\ kv[e][b][s] # Empty
    <2> DEFINE y == (i - 1) * bs
               p == y + s
    <2>1. y \in Nat /\ i * bs = y + bs
      <3> DEFINE d == i - 1
      <3>1. d \in Nat /\ i = d + 1
        BY <1>2
      <3> HIDE DEF d, bs
      <3>2. d * bs \in Nat /\ (d + 1) * bs = d * bs + bs
        BY <1>1, <3>1
      <3> QED
        BY <3>1, <3>2 DEF d
    <2>2. y + bs <= n
      BY <2>1
    <2> HIDE DEF y
    <2>3. p \in 1..n /\ p \in Nat
      BY <1>1, <2>1, <2>2
    <2>4. ((p - 1) \div bs) + 1 = i /\ slotAt(bs, p) = s
      <3>1. p = (i - 1) * bs + s
        BY DEF y
      <3>2. bs \in Nat /\ bs > 0 /\ s \in 1..bs /\ i \in Nat /\ i >= 1 /\ p \in Nat
        BY <1>1, <1>2, <2>3
      <3> HIDE DEF bs, p
      <3> QED
        BY <3>1, <3>2, SlotOfPosition
    <2> HIDE DEF p
    <2>5. slot(bs, kv[e], tb, p) = content(who, p)
      BY <2>3 DEF OwnsUpTo, Owns
    <2>6. slot(bs, kv[e], tb, p) = kv[e][b][s]
      BY <2>4 DEF blockAt, slot
    <2>7. who.prompt = request[r].prompt /\ who.prompt \in Prompts
      BY <1>1 DEF identity
    <2> HIDE DEF who
    <2>8. content(who, p) # Empty
      BY <2>3, <2>7, ContentNotEmpty
    <2>9. kvOf(bs, hs[i], s) = content(who, p)
      <3>1. i \in DOMAIN blockHashes(BlockSize[e], who.prompt)
        BY <2>7
      <3> HIDE DEF e
      <3>2. kvOf(BlockSize[e], blockHashes(BlockSize[e], who.prompt)[i], s)
              = content(who, (i - 1) * BlockSize[e] + s)
        BY <1>1, <2>7, <3>1, HashContent
      <3> QED
        BY <2>7, <3>2 DEF p, y
    <2> QED
      BY <2>5, <2>6, <2>8, <2>9
  <1> QED
    BY <1>3 DEF Holds

(* Commit: what enters the index was computed by the batch. *)
LEMMA CommitFollows ==
  ASSUME Inv, Held, ExecutorsTyped, CacheFollows, NEW e \in Executors, NEW w \in Works,
         CommitWork(e, w), UNCHANGED <<kv, epoch, batches, late, call, rpc>>,
         NEW r, r = mgr[e].pendingAllocations[w].request,
         result[r] = "ok", result' = [result EXCEPT ![r] = "none"]
  PROVE  CacheFollows'
  <1> DEFINE a == mgr[e].pendingAllocations[w]
  <1>1. /\ transfer' = transfer /\ r \in Requests /\ OthersSame(r) /\ NoWorkOf(r)
        /\ request'[r].live = request[r].live /\ request'[r].executor = request[r].executor
        /\ request'[r].prompt = request[r].prompt /\ request'[r].computed = a.tokens
        /\ Lookup(mgr'[e].requestBlocks, r) = Lookup(mgr[e].requestBlocks, r)
        /\ \A f \in Executors : f # e => mgr'[f] = mgr[f]
        /\ \A h \in DOMAIN mgr'[e].cachedBlocks :
             \/ h \in DOMAIN mgr[e].cachedBlocks /\ mgr'[e].cachedBlocks[h] = mgr[e].cachedBlocks[h]
             \/ NewlyIndexed(e, h, mgr'[e].cachedBlocks[h], a.blockTable, a.hashes, a.tokens)
    BY CommitEffect
  <1>2. w \in DOMAIN mgr[e].pendingAllocations
    BY DEF CommitWork
  <1>3. request[r].live /\ request[r].executor = e
    BY <1>2, WorksAtExecutor
  <1>4. ServingHeld /\ IndexesHeld
    BY TransferParts
  <1>5. BatchesSound /\ Awaiting /\ Covered /\ ComputedOf(r)
    BY <1>1, <1>4 DEF ServingHeld, ComputedHeld
  <1>6. a.tokens <= Len(a.blockTable) * BlockSize[e]
    BY <1>2, <1>5 DEF Covered
  <1>7. /\ AllocationSound(e, mgr[e], a, request[r]) /\ a.tokens \in Nat
        /\ Lookup(mgr[e].requestBlocks, r) = a.blockTable
    BY <1>2, WorkFacts
  <1>8. tableOf(r) = a.blockTable /\ tableOf(r)' = a.blockTable
    BY <1>1, <1>3, <1>7 DEF tableOf
  <1>9. CoveredOf(r)'
    <2>2. request'[r].computed <= Len(tableOf(r)') * BlockSize[request'[r].executor]
      BY <1>1, <1>3, <1>6, <1>8
    <2> QED
      BY <1>1, <2>2 DEF CoveredOf, NoWorkOf
  <1>10. result'[r] = "none" /\ \A x \in Requests : x # r => result'[x] = result[x]
    BY <1>1 DEF ExecutorsTyped
  <1>11. a.tokens \in claimed(r)
    <2>1. w \in worksOf(mgr[e], r)
      BY <1>2 DEF worksOf
    <2> QED
      BY <1>3, <2>1 DEF claimed
  <1>12. ComputedOf(r)'
    <2>1. Unmoved(r)
      <3>1. \A n : n \in claimed(r)' => n = a.tokens
        BY <1>1, <1>10 DEF claimed
      <3> QED
        BY <1>1, <1>8, <1>11, <3>1 DEF Unmoved
    <2>2. epoch'[request[r].executor] = RuntimeEpoch =>
            sameRuntime(request[r].executor) /\ ClaimKept(request[r].executor, r)
      BY <1>1, SameKept DEF sameRuntime
    <2> QED
      BY <1>1, <1>5, <2>1, <2>2, ComputedFrame
  <1>13. ASSUME sameRuntime(e), NEW h, NEW b, NewlyIndexed(e, h, b, a.blockTable, a.hashes, a.tokens)
         PROVE  Holds(e, kv[e], b, h)
    <2>1. PICK i \in DOMAIN a.blockTable :
            i \in DOMAIN a.hashes /\ i * BlockSize[e] <= a.tokens /\ h = a.hashes[i] /\ b = a.blockTable[i]
      BY <1>13 DEF NewlyIndexed
    <2>2. a.hashes = blockHashes(BlockSize[e], request[r].prompt)
      <3>1. Good(e, mgr[e])
        BY ExecutorFacts
      <3>2. mgr[e].blockSize = BlockSize[e]
        BY <3>1, GoodFields
      <3> QED
        BY <1>7, <3>2 DEF AllocationSound
    <2>3. OwnsUpTo(r, a.tokens)
      BY <1>3, <1>5, <1>11, <1>13 DEF ComputedOf
    <2> DEFINE n == a.tokens
    <2>4. /\ n \in Nat /\ OwnsUpTo(r, n) /\ i \in DOMAIN tableOf(r)
          /\ i * BlockSize[request[r].executor] <= n
          /\ i \in DOMAIN blockHashes(BlockSize[request[r].executor], request[r].prompt)
      BY <1>3, <1>7, <1>8, <2>1, <2>2, <2>3
    <2> HIDE DEF n
    <2>5. Holds(request[r].executor, kv[request[r].executor], tableOf(r)[i],
                blockHashes(BlockSize[request[r].executor], request[r].prompt)[i])
      BY <1>1, <1>3, <2>4, ComputedHolds
    <2> QED
      BY <1>3, <1>8, <2>1, <2>2, <2>5
  <1>14. IndexesHeld'
    <2>1. ASSUME NEW f \in Executors, sameRuntime(f)' PROVE IndexHeld(f, mgr'[f], kv[f])
      <3>1. IndexHeld(f, mgr[f], kv[f]) /\ sameRuntime(f)
        BY <1>4, <2>1 DEF IndexesHeld, sameRuntime
      <3>2. CASE f # e
        BY <1>1, <3>1, <3>2
      <3>3. CASE f = e
        BY <1>1, <1>13, <3>1, <3>3 DEF IndexHeld
      <3> QED
        BY <3>2, <3>3
    <2> QED
      BY <2>1 DEF IndexesHeld
  <1> QED
    BY <1>1, <1>3, <1>9, <1>10, <1>12, <1>14, SameQueues

(* The event of a batch: Commit or Rollback of its work. *)
LEMMA FinalizeFollows ==
  ASSUME Inv, Held, ExecutorsTyped, CacheFollows, NEW e \in Executors, NEW w \in Works, FinalizeWork(e, w)
  PROVE  CacheFollows'
  <1> DEFINE r == mgr[e].pendingAllocations[w].request
  <1>1. /\ UNCHANGED <<kv, epoch, batches, late, call, rpc>>
        /\ \/ result[r] = "ok" /\ CommitWork(e, w) /\ result' = [result EXCEPT ![r] = "none"]
           \/ result[r] = "error" /\ RollbackWork(e, w) /\ result' = [result EXCEPT ![r] = "failed"]
    BY DEF FinalizeWork, executor, onTheWay
  <1> QED
    BY <1>1, CommitFollows, FailFollows

(* FreeRequest: the batches of r that are still on their way are no longer  *)
(* awaited.                                                                 *)
LEMMA EndFollows ==
  ASSUME Inv, Held, ExecutorsTyped, CacheFollows, NEW r \in Requests, End(r)
  PROVE  CacheFollows'
  <1>1. /\ FreeRequestOf(r) /\ UNCHANGED <<kv, epoch>> /\ late' = late /\ call' = call /\ rpc' = rpc
        /\ batches' = [e \in Executors |-> unawaited(batches[e], r)]
        /\ result' = [result EXCEPT ![r] = "none"]
    BY DEF End, executor
  <1>2. /\ transfer' = transfer /\ request[r].live /\ ~request'[r].live
        /\ OthersSame(r) /\ NoWorkOf(r) /\ IndexesShrink
    BY <1>1, EndEffect
  <1>3. IndexesHeld /\ ServingHeld /\ TransfersHeld
    BY TransferParts
  <1>4. QueuesHeld /\ BatchesSound /\ Awaiting
    BY <1>3, QueueParts DEF QueuesHeld
  <1>5. result'[r] = "none" /\ \A x \in Requests : x # r => result'[x] = result[x]
    BY <1>1 DEF ExecutorsTyped
  <1>6. ASSUME NEW e \in Executors
        PROVE  /\ Relabelled(batches[e], batches'[e]) /\ DOMAIN batches'[e] = DOMAIN batches[e]
               /\ batches'[e] \in Seq(Items(e))
               /\ \A i \in DOMAIN batches[e] :
                    /\ ItemSound(e, batches'[e][i]) /\ batches'[e][i].request = batches[e][i].request
                    /\ batches'[e][i].awaited => batches'[e][i] = batches[e][i] /\ batches[e][i].request # r
                    /\ batches[e][i].request # r => batches'[e][i] = batches[e][i]
    <2> DEFINE q == batches[e]
               z == unawaited(q, r)
    <2>1. q \in Seq(Items(e)) /\ \A i \in DOMAIN q : ItemSound(e, q[i])
      BY <1>4 DEF BatchesSound
    <2>2. batches'[e] = z
      BY <1>1
    <2> HIDE DEF q
    <2>3. /\ z = [i \in DOMAIN q |-> z[i]] /\ DOMAIN z = DOMAIN q
          /\ \A i \in DOMAIN q : IF q[i].request = r THEN z[i] = [q[i] EXCEPT !.awaited = FALSE]
                                 ELSE z[i] = q[i]
      BY DEF unawaited
    <2> HIDE DEF z
    <2>4. Relabelled(q, z)
      BY <2>3 DEF Relabelled
    <2>5. /\ z \in Seq(Items(e))
          /\ \A i \in DOMAIN q :
              /\ ItemSound(e, z[i]) /\ z[i].request = q[i].request
              /\ z[i].awaited => q[i].awaited /\ z[i] = q[i]
      BY <2>1, <2>4, RelabelFacts
    <2>6. ASSUME NEW i \in DOMAIN q, q[i].request = r PROVE ~z[i].awaited
      <3> DEFINE y == q[i]
      <3>1. y \in Items(e) /\ z[i] = [y EXCEPT !.awaited = FALSE]
        BY <2>1, <2>3, <2>6
      <3> HIDE DEF y
      <3> QED
        BY <3>1 DEF Items
    <2> QED
      BY <2>2, <2>3, <2>4, <2>5, <2>6 DEF q
  <1>7. DOMAIN batches' = Executors
    BY <1>1
  <1>8. BatchesSound'
    BY <1>6, <1>7 DEF BatchesSound
  <1>9. LateSound'
    BY <1>1, <1>3 DEF ServingHeld, LateSound
  <1>10. IndexesHeld'
    BY <1>1, <1>2, <1>3, IndexFrame
  <1>11. TransfersHeld'
    <2>1. \A t \in Transfers : TransferHeld(t)'
      BY <1>1, <1>2, <1>3, TransferKept DEF TransfersHeld
    <2> QED
      BY <2>1 DEF TransfersHeld
  <1>12. OthersQueued(r) /\ OwnAwaited(r)'
    BY <1>6 DEF OthersQueued, OwnAwaited
  <1>13. CoveredOf(r)' /\ ComputedOf(r)'
    BY <1>2 DEF CoveredOf, NoWorkOf, ComputedOf
  <1> QED
    BY <1>1, <1>2, <1>5, <1>8, <1>9, <1>10, <1>11, <1>12, <1>13, EngineRequest

(* A batch is put at the end of a queue. *)
LEMMA Appended ==
  ASSUME NEW e, NEW q \in Seq(Items(e)), NEW item \in Items(e), NEW z, z = Append(q, item)
  PROVE  /\ z \in Seq(Items(e))
         /\ \A i \in DOMAIN q : i \in DOMAIN z /\ z[i] = q[i]
         /\ \A i \in DOMAIN z : (z[i] = item /\ i = Len(q) + 1) \/ (i \in DOMAIN q /\ z[i] = q[i])
  <1>1. /\ Len(q) \in Nat /\ DOMAIN q = 1..Len(q) /\ z \in Seq(Items(e)) /\ DOMAIN z = 1..(Len(q) + 1)
        /\ z[Len(q) + 1] = item /\ \A i \in 1..Len(q) : z[i] = q[i]
    OBVIOUS
  <1> QED
    BY <1>1

(* The batch of an allocation clears new blocks only. *)
LEMMA ScheduledSound ==
  ASSUME NEW e \in Executors, NEW item \in Items(e), NEW old \in Seq(BlockIds(e)),
         item.from < item.to, item.to <= Len(item.table) * BlockSize[e],
         item.from <= Len(old) * BlockSize[e], IsInjective(item.table),
         Len(item.table) = Len(old) + Len(item.allocated),
         \A i \in 1..Len(item.allocated) : item.table[Len(old) + i] = item.allocated[i]
  PROVE  ItemSound(e, item)
  <1> DEFINE bs == BlockSize[e]
             tb == item.table
             al == item.allocated
             l  == Len(old)
  <1>1. bs \in Nat /\ bs > 0
    BY SizeFacts
  <1>2. /\ tb \in Seq(BlockIds(e)) /\ al \in Seq(BlockIds(e)) /\ item.from \in Nat
        /\ l \in Nat /\ Len(al) \in Nat /\ Len(tb) \in Nat /\ DOMAIN tb = 1..Len(tb) /\ DOMAIN al = 1..Len(al)
    BY DEF Items
  <1> HIDE DEF bs, tb, al, l
  <1>3. Len(tb) = l + Len(al) /\ \A i \in 1..Len(al) : tb[l + i] = al[i] /\ l + i \in DOMAIN tb
    BY <1>2 DEF tb, al, l
  <1>4. ASSUME NEW b \in Range(al) PROVE \E k \in 1..Len(al) : b = tb[l + k] /\ l + k \in DOMAIN tb
    <2>1. PICK k \in DOMAIN al : b = al[k]
      BY <1>4 DEF Range
    <2> QED
      BY <1>2, <1>3, <2>1
  <1>5. ASSUME NEW b \in Range(al) PROVE b \in Range(tb)
    BY <1>4, <1>5 DEF Range
  <1>6. ASSUME NEW i \in DOMAIN tb, tb[i] \in Range(al) PROVE (i - 1) * bs >= item.from
    <2>1. PICK k \in 1..Len(al) : tb[i] = tb[l + k] /\ l + k \in DOMAIN tb
      BY <1>4, <1>6
    <2>2. i = l + k
      BY <1>6, <2>1 DEF IsInjective, tb
    <2> DEFINE d == i - 1
               y == d * bs
               z == l * bs
    <2>3. d \in Nat /\ l <= d
      BY <1>2, <2>1, <2>2
    <2>4. y \in Nat /\ z \in Nat
      BY <1>1, <1>2, <2>3
    <2>5. z <= y
      BY <1>1, <1>2, <2>3, MulOrder
    <2>6. item.from <= z
      BY DEF z, l, bs
    <2> HIDE DEF d, y, z
    <2>7. y >= item.from
      BY <1>2, <2>4, <2>5, <2>6
    <2> QED
      BY <2>7 DEF y, d
  <1> QED
    BY <1>5, <1>6 DEF ItemSound, bs, tb, al

(* AllocateBlocks and the batch of the work, which its request awaits.      *)
LEMMA ScheduledFollows ==
  ASSUME Inv, Held, Inv', Held', ExecutorsTyped, CacheFollows, NEW r \in Requests, NEW w \in Works,
         NEW tokens \in nextTokens(r), Schedule(r, w, tokens),
         canAllocate(mgr[request[r].executor],
                     requiredBlocks(mgr[request[r].executor], workItem(w, r, tokens)))
  PROVE  CacheFollows'
  <1>a. PICK e : e = request[r].executor
    OBVIOUS
  <1>b. PICK a : a = newAllocation(mgr[e], workItem(w, r, tokens))
    OBVIOUS
  <1>c. PICK item :
          item = [work |-> w, request |-> r, prompt |-> request[r].prompt, table |-> a.blockTable,
                  allocated |-> a.allocated, from |-> request[r].computed, to |-> tokens,
                  awaited |-> TRUE]
    OBVIOUS
  <1> DEFINE old == tableOf(r)
             q   == batches[e]
             bs  == BlockSize[e]
  <1>1. /\ AllocateBlocksFor(r, w, tokens) /\ UNCHANGED <<kv, epoch>> /\ late' = late
        /\ call' = call /\ rpc' = rpc
        /\ result[r] = "none" /\ batches' = [batches EXCEPT ![e] = Append(@, item)]
        /\ result' = [result EXCEPT ![r] = "waiting"]
    BY <1>a, <1>b, <1>c DEF Schedule, executor
  <1>2. /\ request' = request /\ transfer' = transfer /\ request[r].live /\ e = request[r].executor /\ e \in Executors
        /\ request[r].computed \in Nat /\ tokens \in Nat /\ request[r].computed < tokens
        /\ OthersSame(r) /\ IndexesShrink
        /\ \A f \in Executors : f # e => mgr'[f] = mgr[f]
        /\ w \in DOMAIN mgr'[e].pendingAllocations /\ mgr'[e].pendingAllocations[w] = a
        /\ \A f \in Executors : \A v \in DOMAIN mgr'[f].pendingAllocations :
             mgr'[f].pendingAllocations[v].request = r => f = e /\ v = w
        /\ Lookup(mgr'[e].requestBlocks, r) = a.blockTable
        /\ a.request = r /\ a.tokens = tokens /\ a.allocated \in Seq(BlockIds(e))
        /\ old \in Seq(BlockIds(e)) /\ a.blockTable \in Seq(BlockIds(e))
        /\ Len(a.blockTable) = Len(old) + Len(a.allocated)
        /\ \A i \in 1..Len(old) : a.blockTable[i] = old[i]
        /\ \A i \in 1..Len(a.allocated) : a.blockTable[Len(old) + i] = a.allocated[i]
        /\ tokens <= Len(a.blockTable) * BlockSize[e]
    <2> DEFINE f0   == request[r].executor
               work == workItem(w, r, tokens)
               b0   == newAllocation(mgr[f0], work)
               o0   == Lookup(mgr[f0].requestBlocks, r)
    <2>1. /\ request' = request /\ transfer' = transfer /\ request[r].live /\ f0 \in Executors
          /\ request[r].computed \in Nat /\ tokens \in Nat /\ request[r].computed < tokens
          /\ canAllocate(mgr[f0], requiredBlocks(mgr[f0], work)) =>
                 /\ OthersSame(r) /\ IndexesShrink
                 /\ \A f \in Executors : f # f0 => mgr'[f] = mgr[f]
                 /\ w \in DOMAIN mgr'[f0].pendingAllocations /\ mgr'[f0].pendingAllocations[w] = b0
                 /\ \A f \in Executors : \A v \in DOMAIN mgr'[f].pendingAllocations :
                      mgr'[f].pendingAllocations[v].request = r => f = f0 /\ v = w
                 /\ Lookup(mgr'[f0].requestBlocks, r) = b0.blockTable
                 /\ b0.request = r /\ b0.tokens = tokens /\ b0.allocated \in Seq(BlockIds(f0))
                 /\ o0 \in Seq(BlockIds(f0)) /\ b0.blockTable \in Seq(BlockIds(f0))
                 /\ Len(b0.blockTable) = Len(o0) + Len(b0.allocated)
                 /\ \A i \in 1..Len(o0) : b0.blockTable[i] = o0[i]
                 /\ \A i \in 1..Len(b0.allocated) : b0.blockTable[Len(o0) + i] = b0.allocated[i]
                 /\ tokens <= Len(b0.blockTable) * BlockSize[f0]
      BY <1>1, ScheduleEffect, Zenon
    <2>2. f0 = e /\ b0 = a /\ o0 = old
      BY <1>a, <1>b DEF tableOf
    <2>3. canAllocate(mgr[f0], requiredBlocks(mgr[f0], work))
      OBVIOUS
    <2> HIDE DEF f0, work, b0, o0, old
    <2> QED
      BY <1>a, <2>1, <2>2, <2>3
  <1>3. IndexesHeld /\ ServingHeld /\ TransfersHeld
    BY TransferParts
  <1>4. BatchesSound /\ LateSound /\ Awaiting /\ Covered /\ ComputedOf(r)
    BY <1>3 DEF ServingHeld, ComputedHeld
  <1>5. result'[r] = "waiting" /\ \A x \in Requests : x # r => result'[x] = result[x]
    BY <1>1 DEF ExecutorsTyped
  <1>6. tableOf(r)' = a.blockTable
    BY <1>2 DEF tableOf
  <1>7. /\ item.work = w /\ item.request = r /\ item.prompt = request[r].prompt /\ item.table = a.blockTable
        /\ item.allocated = a.allocated /\ item.from = request[r].computed /\ item.to = tokens /\ item.awaited
    BY <1>c
  <1>8. item \in Items(e)
    <2>1. request[r].prompt \in Prompts
      BY RequestFacts
    <2> QED
      BY <1>c, <1>2, <2>1 DEF Items
  <1>9. IsInjective(item.table)
    <2>1. TablesInjective'
      BY HeldInjective, PTL
    <2>2. request'[r].live
      BY <1>2
    <2>3. IsInjective(tableOf(r)')
      BY <2>1, <2>2 DEF TablesInjective
    <2> QED
      BY <1>6, <1>7, <2>3
  <1>10. request[r].computed <= Len(old) * BlockSize[e]
    BY <1>2, <1>4 DEF Covered
  <1>11. ItemSound(e, item)
    <2> HIDE DEF old
    <2>1. e \in Executors /\ item \in Items(e) /\ old \in Seq(BlockIds(e)) /\ IsInjective(item.table)
      BY <1>2, <1>8, <1>9
    <2>2. item.from < item.to /\ item.from <= Len(old) * BlockSize[e]
      BY <1>2, <1>7, <1>10
    <2>3. item.to <= Len(item.table) * BlockSize[e]
      BY <1>2, <1>7
    <2>4. /\ Len(item.table) = Len(old) + Len(item.allocated)
          /\ \A i \in 1..Len(item.allocated) : item.table[Len(old) + i] = item.allocated[i]
      BY <1>2, <1>7
    <2> QED
      BY <2>1, <2>2, <2>3, <2>4, ScheduledSound
  <1> DEFINE z == Append(q, item)
  <1>12. /\ DOMAIN batches' = Executors /\ batches'[e] = z
         /\ \A f \in Executors : f # e => batches'[f] = batches[f]
    BY <1>1, <1>2, <1>4 DEF BatchesSound
  <1>13. q \in Seq(Items(e)) /\ \A i \in DOMAIN q : ItemSound(e, q[i])
    BY <1>2, <1>4 DEF BatchesSound
  <1> HIDE DEF z, q
  <1>14. /\ z \in Seq(Items(e))
         /\ \A i \in DOMAIN q : i \in DOMAIN z /\ z[i] = q[i]
         /\ \A i \in DOMAIN z : (z[i] = item /\ i = Len(q) + 1) \/ (i \in DOMAIN q /\ z[i] = q[i])
    <2>1. q \in Seq(Items(e)) /\ item \in Items(e) /\ z = Append(q, item)
      BY <1>8, <1>13 DEF z
    <2> QED
      BY <2>1, Appended
  <1>15. BatchesSound'
    <2>1. \A i \in DOMAIN z : ItemSound(e, z[i])
      BY <1>11, <1>13, <1>14
    <2> QED
      BY <1>4, <1>12, <1>14, <2>1 DEF BatchesSound
  <1>16. LateSound'
    BY <1>1, <1>4 DEF LateSound
  <1>17. OthersQueued(r)
    <2>1. ASSUME NEW f \in Executors, NEW j \in DOMAIN batches'[f], batches'[f][j].request # r
          PROVE  j \in DOMAIN batches[f] /\ batches'[f][j] = batches[f][j]
      BY <1>7, <1>12, <1>14, <2>1 DEF q
    <2> QED
      BY <2>1 DEF OthersQueued
  <1>18. \A f \in Executors : \A j \in DOMAIN batches[f] : ~(batches[f][j].awaited /\ batches[f][j].request = r)
    BY <1>1, <1>4 DEF Awaiting, ItemAwaited
  <1>19. OwnAwaited(r)'
    <2>1. ASSUME NEW f \in Executors, NEW j \in DOMAIN batches'[f], batches'[f][j].awaited,
                 batches'[f][j].request = r
          PROVE  f = e /\ j = Len(q) + 1 /\ batches'[f][j] = item
      BY <1>12, <1>14, <1>18, <2>1 DEF q
    <2>2. ItemAwaited(e, item)'
      BY <1>2, <1>5, <1>7 DEF ItemAwaited
    <2>3. ASSUME NEW f \in Executors, NEW j \in DOMAIN batches'[f], batches'[f][j].awaited,
                 batches'[f][j].request = r
          PROVE  ItemAwaited(f, batches[f][j])'
      <3>1. f = e /\ batches'[f][j] = item
        BY <2>1, <2>3
      <3> DEFINE v == item
      <3>2. /\ batches'[f][j].request = r /\ batches'[f][j].work = w /\ batches'[f][j].table = a.blockTable
            /\ batches'[f][j].allocated = a.allocated /\ batches'[f][j].to = tokens
            /\ batches'[f][j].from = request[r].computed /\ batches'[f][j].prompt = request[r].prompt
        BY <1>7, <3>1
      <3> QED
        BY <1>2, <1>5, <3>1, <3>2 DEF ItemAwaited
    <2> QED
      BY <2>1, <2>3 DEF OwnAwaited
  <1>20. CoveredOf(r)'
    <2> DEFINE l == Len(old)
               k == Len(a.allocated)
               n == Len(a.blockTable)
               y == l * bs
               x == n * bs
    <2>1. bs \in Nat /\ bs > 0 /\ l \in Nat /\ k \in Nat /\ n = l + k
      BY <1>2, SizeFacts
    <2> HIDE DEF l, k, n, bs
    <2>2. n \in Nat /\ l <= n /\ n - k = l
      BY <2>1
    <2>3. y \in Nat /\ x \in Nat /\ y <= x
      BY <2>1, <2>2, MulOrder
    <2>4. request[r].computed <= y
      BY <1>10 DEF y, l, bs
    <2> HIDE DEF y, x
    <2>5. request[r].computed <= x
      BY <1>2, <2>3, <2>4
    <2>6. request[r].computed <= (Len(a.blockTable) - Len(a.allocated)) * BlockSize[e]
      BY <2>2, <2>4 DEF n, k, y, bs
    <2>7. request[r].computed <= Len(a.blockTable) * BlockSize[e]
      BY <2>5 DEF n, x, bs
    <2>8. request'[r].computed <= Len(tableOf(r)') * BlockSize[request'[r].executor]
      BY <1>2, <1>6, <2>7
    <2>9. ASSUME NEW f \in Executors, NEW v \in DOMAIN mgr'[f].pendingAllocations,
                 mgr'[f].pendingAllocations[v].request = r
          PROVE  LET c == mgr'[f].pendingAllocations[v] IN
                 /\ request'[r].computed <= (Len(c.blockTable) - Len(c.allocated)) * BlockSize[f]
                 /\ c.tokens <= Len(c.blockTable) * BlockSize[f]
      <3>1. f = e /\ mgr'[f].pendingAllocations[v] = a
        BY <1>2, <2>9
      <3> QED
        BY <1>2, <2>6, <3>1
    <2> QED
      BY <2>8, <2>9 DEF CoveredOf
  <1>21. ComputedOf(r)'
    <2>1. Unmoved(r)
      <3>1. \A n : n \in claimed(r)' => n \in claimed(r)
        BY <1>1, <1>2, <1>5 DEF claimed
      <3>2. \A i \in DOMAIN tableOf(r) : tableOf(r)'[i] = tableOf(r)[i]
        <4>1. DOMAIN old = 1..Len(old)
          BY <1>2
        <4> QED
          BY <1>2, <1>6, <4>1
      <3> QED
        BY <1>2, <3>1, <3>2 DEF Unmoved
    <2>2. epoch'[request[r].executor] = RuntimeEpoch =>
            sameRuntime(request[r].executor) /\ ClaimKept(request[r].executor, r)
      BY <1>1, SameKept DEF sameRuntime
    <2> QED
      BY <1>4, <2>1, <2>2, ComputedFrame
  <1>22. IndexesHeld'
    BY <1>1, <1>2, <1>3, IndexFrame
  <1>23. TransfersHeld'
    <2>1. \A t \in Transfers : TransferHeld(t)'
      BY <1>1, <1>2, <1>3, TransferKept DEF TransfersHeld
    <2> QED
      BY <2>1 DEF TransfersHeld
  <1>24. request'[r].live
    BY <1>2
  <1> QED
    BY <1>1, <1>2, <1>5, <1>15, <1>16, <1>17, <1>19, <1>20, <1>21, <1>22, <1>23, <1>24, EngineRequest

(* Nothing happens when there are not enough free blocks. *)
LEMMA ScheduleFollows ==
  ASSUME Inv, Held, Inv', Held', ExecutorsTyped, CacheFollows, NEW r \in Requests, NEW w \in Works,
         NEW tokens \in nextTokens(r), Schedule(r, w, tokens)
  PROVE  CacheFollows'
  <1> DEFINE e    == request[r].executor
             work == workItem(w, r, tokens)
             can  == canAllocate(mgr[e], requiredBlocks(mgr[e], work))
  <1>1. CASE can
    BY <1>1, ScheduledFollows
  <1>2. CASE ~can
    <2>1. /\ AllocateBlocksFor(r, w, tokens) /\ UNCHANGED <<kv, epoch>> /\ batches' = batches
          /\ late' = late /\ result' = result /\ call' = call /\ rpc' = rpc
      BY <1>2 DEF Schedule, executor
    <2>a. /\ UNCHANGED <<request, transfer>>
          /\ ~can => DOMAIN mgr' = Executors /\ \A f \in Executors : mgr'[f] = mgr[f]
      BY <2>1, ScheduleEffect, Zenon
    <2>2. /\ request' = request /\ transfer' = transfer
          /\ DOMAIN mgr' = Executors /\ \A f \in Executors : mgr'[f] = mgr[f]
      BY <1>2, <2>a
    <2>3. IndexesHeld /\ ServingHeld /\ TransfersHeld
      BY TransferParts
    <2>4. TablesSame /\ IndexesShrink
      BY <2>2 DEF TablesSame, SameTables, IndexesShrink, IndexShrinks
    <2>5. UNCHANGED <<kv, epoch, batches, late, result>>
      BY <2>1
    <2>6. ServingHeld'
      BY <2>3, <2>4, <2>5, TransferFrame
    <2>7. IndexesHeld'
      BY <2>1, <2>3, <2>4, IndexFrame
    <2>8. \A t \in Transfers : TransferHeld(t)'
      BY <2>1, <2>2, <2>3, TransferKept DEF TransfersHeld
    <2>9. TransfersHeld'
      BY <2>8 DEF TransfersHeld
    <2> QED
      BY <2>6, <2>7, <2>9, NextParts
  <1> QED
    BY <1>1, <1>2

-----------------------------------------------------------------------------
(* The theorems *)

(* At the start there is nothing to hold. *)
LEMMA InitFollows ==
  ASSUME Inv, Held, ReplicationInit
  PROVE  CacheFollows
  <1>1. /\ mgr = [e \in Executors |-> newManager(BlockSize[e], NumBlocks[e])]
        /\ request = [r \in Requests |-> noRequest] /\ transfer = [t \in Transfers |-> noTransferPlan]
        /\ kv = [e \in Executors |-> emptyCache(BlockSize[e], NumBlocks[e])]
        /\ batches = [e \in Executors |-> << >>] /\ late = [e \in Executors |-> {}]
        /\ result = [r \in Requests |-> "none"]
        /\ call = [t \in Transfers |-> "idle"] /\ rpc = [t \in Transfers |-> noRPC]
    BY DEF ReplicationInit, Init
  <1>2. \A e \in Executors :
          DOMAIN mgr[e].cachedBlocks = {} /\ DOMAIN mgr[e].pendingAllocations = {} /\ batches[e] = << >>
    BY <1>1 DEF newManager, EmptyMap
  <1>3. /\ \A r \in Requests : ~request[r].live /\ result[r] = "none"
        /\ \A t \in Transfers : call[t] = "idle" /\ transfer[t].step = "idle" /\ rpc[t].step = "none"
    BY <1>1, NoRPCTyped DEF noRequest, noTransferPlan
  <1>4. IndexesHeld
    BY <1>2 DEF IndexesHeld, IndexHeld
  <1>5. TransfersHeld
    BY <1>3 DEF TransfersHeld, TransferHeld, RPCSound
  <1>6. CachesShaped
    <2>1. \A e \in Executors : CacheShape(e, emptyCache(BlockSize[e], NumBlocks[e]))
      BY DEF CacheShape, emptyCache, emptyBlock, BlockIds
    <2> QED
      BY <1>1, <2>1 DEF CachesShaped
  <1>7. ComputedHeld /\ ResultsOfLive /\ Covered
    BY <1>2, <1>3 DEF ComputedHeld, ComputedOf, ResultsOfLive, Covered
  <1>8. BatchesSound
    <2>1. ASSUME NEW e \in Executors PROVE << >> \in Seq(Items(e)) /\ DOMAIN << >> = {}
      OBVIOUS
    <2>2. DOMAIN batches = Executors
      BY <1>1
    <2>3. \A e \in Executors : batches[e] \in Seq(Items(e)) /\ DOMAIN batches[e] = {}
      BY <1>2, <2>1, Zenon
    <2> QED
      BY <2>2, <2>3 DEF BatchesSound
  <1>9. Awaiting /\ LateSound
    BY <1>1, <1>2 DEF Awaiting, LateSound
  <1> QED
    BY <1>4, <1>5, <1>6, <1>7, <1>8, <1>9, TransferParts DEF ServingHeld

(* Steps of requests and executors. *)
LEMMA ServingFollows ==
  ASSUME System, System', CacheFollows, ServingNext, ~strayed'
  PROVE  CacheFollows'
  <1>1. Inv /\ Held /\ CallsTyped /\ ExecutorsTyped /\ Inv' /\ Held'
    BY DEF System
  <1>2. ASSUME NEW r \in Requests, NEW e \in Executors, NEW p \in Prompts, Admit(r, e, p)
        PROVE  CacheFollows'
    BY <1>1, <1>2, AdmitFollows
  <1>3. ASSUME NEW r \in Requests, NEW w \in Works, NEW n \in nextTokens(r), Schedule(r, w, n)
        PROVE  CacheFollows'
    BY <1>1, <1>3, ScheduleFollows
  <1>4. ASSUME NEW e \in Executors, NEW w \in Works, FinalizeWork(e, w)
        PROVE  CacheFollows'
    BY <1>1, <1>4, FinalizeFollows
  <1>5. ASSUME NEW r \in Requests, End(r)
        PROVE  CacheFollows'
    BY <1>1, <1>5, EndFollows
  <1>6. ASSUME NEW e \in Executors, RunBatch(e) \/ TimeOut(e) \/ Restart(e)
        PROVE  CacheFollows'
    BY <1>1, <1>6, RunFollows, TimeOutFollows, RestartFollows
  <1>7. ASSUME NEW e \in Executors, NEW item \in late[e], RunLate(e, item)
        PROVE  CacheFollows'
    BY <1>1, <1>7, RunLateFollows
  <1> QED
    BY <1>2, <1>3, <1>4, <1>5, <1>6, <1>7 DEF ServingNext

(* Steps of transfers. *)
LEMMA TransfersFollow ==
  ASSUME System, CacheFollows, NEW t \in Transfers,
         ReplicateNext(t) \/ trigger_kv_push(t) \/ push_kv(t) \/ LoseRPC(t)
  PROVE  CacheFollows'
  <1>1. Inv /\ Held /\ CallsTyped /\ ExecutorsTyped
    BY DEF System
  <1>2. ASSUME NEW s \in Executors, NEW d \in Executors, NEW hs \in HashPrefixes, Replicate(t, s, d, hs)
        PROVE  CacheFollows'
    BY <1>1, <1>2, ReplicateFollows
  <1>3. CASE Reserve(t) \/ Confirm(t) \/ rollback(t) \/ Release(t)
    BY <1>1, <1>3, ReserveFollows, ConfirmFollows, RollbackFollows, ReleaseFollows
  <1>4. CASE trigger_kv_push(t) \/ push_kv(t) \/ LoseRPC(t)
    BY <1>1, <1>4, TriggerFollows, PushFollows, LoseFollows
  <1> QED
    BY <1>2, <1>3, <1>4 DEF ReplicateNext

(* Nothing changes. *)
LEMMA StutterFollows ==
  ASSUME System, CacheFollows, UNCHANGED replicationVars
  PROVE  CacheFollows'
  <1>1. /\ UNCHANGED vars /\ UNCHANGED <<kv, epoch, batches, late, result>> /\ call' = call /\ rpc' = rpc
    BY DEF replicationVars, executor, onTheWay
  <1>2. Inv /\ Held
    BY DEF System
  <1>3. TablesSame /\ IndexesShrink /\ \A t \in Transfers : transfer'[t] = transfer[t]
    BY <1>1, <1>2, RegistrySame
  <1>4. IndexesHeld /\ ServingHeld /\ TransfersHeld
    BY TransferParts
  <1>5. UNCHANGED <<kv, epoch>>
    BY <1>1
  <1>6. \A t \in Transfers : TransferHeld(t)'
    BY <1>1, <1>3, <1>4, <1>5, TransferKept DEF TransfersHeld
  <1>7. TransfersHeld'
    BY <1>6 DEF TransfersHeld
  <1>8. IndexesHeld'
    BY <1>3, <1>4, <1>5, IndexFrame
  <1>9. ServingHeld'
    BY <1>1, <1>2, <1>3, <1>4, TransferFrame
  <1> QED
    BY <1>7, <1>8, <1>9, NextParts

(* What a batch has spoiled stays spoiled: the history is never reset.      *)
LEMMA StrayedStays ==
  ASSUME strayed, [ReplicationNext]_replicationVars
  PROVE  strayed'
  <1>1. ASSUME ServingNext PROVE strayed'
    BY <1>1 DEF ServingNext, Admit, Schedule, FinalizeWork, End, RunBatch, RunLate, execute_batch,
                TimeOut, Restart
  <1>2. ASSUME NEW t \in Transfers, ReplicateNext(t) \/ trigger_kv_push(t) \/ push_kv(t) \/ LoseRPC(t)
        PROVE  strayed'
    BY <1>2 DEF ReplicateNext, Replicate, Reserve, Confirm, rollback, Release, trigger_kv_push, push_kv,
                LoseRPC
  <1>3. CASE UNCHANGED replicationVars
    BY <1>3 DEF replicationVars
  <1> QED
    BY <1>1, <1>2, <1>3 DEF ReplicationNext

(* The invariant holds in every reachable state until a batch strays:       *)
(* caches, batches on their way, calls and the Engine's index agree at      *)
(* every step of scheduler, executors, coordinator and network, but for one *)
(* in which a batch that nobody awaits changes a slot that was relied on.   *)
THEOREM CachesFollow == ReplicationSpec => [](strayed \/ CacheFollows)
  <1> DEFINE Follows == strayed \/ CacheFollows
  <1>1. System /\ ReplicationInit => Follows
    BY InitFollows DEF System
  <1>2. System /\ System' /\ Follows /\ [ReplicationNext]_replicationVars => Follows'
    <2> SUFFICES ASSUME System, System', Follows, [ReplicationNext]_replicationVars, ~strayed'
                 PROVE  CacheFollows'
      OBVIOUS
    <2>1. CacheFollows
      BY StrayedStays
    <2>2. CASE ServingNext
      BY <2>1, <2>2, ServingFollows
    <2>3. ASSUME NEW t \in Transfers, ReplicateNext(t) \/ trigger_kv_push(t) \/ push_kv(t) \/ LoseRPC(t)
          PROVE  CacheFollows'
      BY <2>1, <2>3, TransfersFollow
    <2>4. CASE UNCHANGED replicationVars
      BY <2>1, <2>4, StutterFollows
    <2> QED
      BY <2>2, <2>3, <2>4 DEF ReplicationNext
  <1>3. ReplicationSpec => []System
    BY SystemTyped DEF System
  <1> QED
    BY <1>1, <1>2, <1>3, PTL DEF ReplicationSpec

(* While an executor keeps the epoch the Engine knows, every block that the *)
(* Engine's prefix index offers holds the KV of exactly that prefix,        *)
(* whatever calls, answers and batches are lost, late, overtaken or run     *)
(* twice and however often transfers abort: until a batch that nobody       *)
(* awaits changes a slot that was relied on, and nothing else can be why.   *)
THEOREM IndexedKV == ReplicationSpec => []OnlyStraysSpoilIndex
  <1>1. (strayed \/ CacheFollows) => OnlyStraysSpoilIndex
    BY DEF CacheFollows, IndexesHeld, IndexHeld, Holds, kvOf, sameRuntime, IndexedBlocksHoldKV,
           OnlyStraysSpoilIndex
  <1> QED
    BY <1>1, CachesFollow, PTL

(* A batch that its request awaits and that its executor would accept reads *)
(* the KV of its own text in every position it does not compute itself,     *)
(* cached, imported or computed before, until a batch has strayed.          *)
THEOREM AcceptedKV == ReplicationSpec => []OnlyStraysSpoilReads
  <1>1. System /\ (strayed \/ CacheFollows) => OnlyStraysSpoilReads
    <2> SUFFICES ASSUME System, CacheFollows, NEW e \in Executors, accepts(e),
                        NEW i \in DOMAIN batches[e], batches[e][i].awaited
                 PROVE  readsOwnKV(e, kv[e], batches[e][i])
      BY DEF OnlyStraysSpoilReads
    <2> DEFINE item == batches[e][i]
               r    == item.request
    <2>1. Inv /\ Held /\ BatchesSound /\ Awaiting /\ ComputedHeld
      BY DEF System, CacheFollows
    <2>2. /\ r \in Requests /\ ItemAwaited(e, item) /\ result[r] = "waiting" /\ request[r].live
          /\ request[r].executor = e /\ item.table = tableOf(r)
      BY <2>1, AwaitedFacts
    <2>3. item.from = request[r].computed /\ item.prompt = request[r].prompt
      BY <2>2 DEF ItemAwaited
    <2>4. ComputedOf(r)
      BY <2>1, <2>2 DEF ComputedHeld
    <2>5. OwnsUpTo(r, item.from)
      BY <2>2, <2>3, <2>4 DEF ComputedOf, claimed, accepts, sameRuntime
    <2>6. \A p \in 1..item.from : slot(BlockSize[e], kv[e], item.table, p) = content(identity(r), p)
      BY <2>2, <2>5 DEF OwnsUpTo, Owns
    <2>7. \A p : content(identity(r), p) = content(item, p)
      BY <2>3 DEF content, identity
    <2> QED
      BY <2>6, <2>7 DEF readsOwnKV
  <1>2. ReplicationSpec => []System
    BY SystemTyped DEF System
  <1> QED
    BY <1>1, <1>2, CachesFollow, PTL

=============================================================================
