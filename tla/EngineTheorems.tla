--------------------------- MODULE EngineTheorems ---------------------------
(***************************************************************************)
(* What the Engine promises of blocks and texts, from Serving and Closing  *)
(* (EngineInvariants).                                                     *)
(*                                                                         *)
(* Every allocation that awaits its commit belongs to a work on its way;   *)
(* the steps of Engine are steps of BlockRegistry with one executor, so    *)
(* that all that is proved of the registry holds of the Engine's manager,  *)
(* and its reference counts count the requests that exist; and a client    *)
(* receives its text in order.                                             *)
(***************************************************************************)
EXTENDS EngineInvariants

-----------------------------------------------------------------------------
(***************************************************************************)
(* Allocations that await their commit.                                    *)
(***************************************************************************)

(* What the operations of a manager do to the allocations awaiting commit. *)

(* A good manager has all its fields.                                       *)
LEMMA ManagerFields ==
  ASSUME NEW m, ManagerGood(m)
  PROVE  /\ DOMAIN m = {"blockSize", "refCount", "tokenCount", "hash", "cached", "free",
                        "requestBlocks", "cachedBlocks", "pendingAllocations"}
         /\ m.blockSize = BlockSize
  <1>1. R!ManagerOK(Executor, m)
    BY DEF ManagerGood, R!Good
  <1>2. DOMAIN m = {"blockSize", "refCount", "tokenCount", "hash", "cached", "free",
                    "requestBlocks", "cachedBlocks", "pendingAllocations"}
    BY <1>1 DEF R!ManagerOK
  <1>3. m.blockSize = [e \in {Executor} |-> BlockSize][Executor]
    BY R!GoodFields, RegistryConstants DEF ManagerGood
  <1> QED BY <1>2, <1>3

(* MatchPrefix and FreeRequest.                                             *)
LEMMA PendingFree ==
  ASSUME NEW m, ManagerGood(m), NEW r
  PROVE  LET P == m.pendingAllocations
             Q == FreeRequest(m, r).pendingAllocations
         IN  /\ \A p : MatchPrefix(m, r, p).pendingAllocations = P
             /\ DOMAIN Q = {w \in DOMAIN P : P[w].request # r}
             /\ \A w \in DOMAIN Q : Q[w] = P[w]
  <1>1. ASSUME NEW p PROVE MatchPrefix(m, r, p).pendingAllocations = m.pendingAllocations
    BY ManagerFields DEF MatchPrefix, touch
  <1>2. FreeRequest(m, r).pendingAllocations = Without(m.pendingAllocations, worksOf(m, r))
    BY ManagerFields DEF FreeRequest, pushFree
  <1> QED BY <1>1, <1>2 DEF Without, Restrict, worksOf

(* Commit and Rollback.                                                     *)
LEMMA PendingSettle ==
  ASSUME NEW m, ManagerGood(m), NEW v
  PROVE  LET P == m.pendingAllocations IN
         /\ DOMAIN Commit(m, v).pendingAllocations = DOMAIN P \ {v}
         /\ DOMAIN Rollback(m, v).pendingAllocations = DOMAIN P \ {v}
         /\ \A w \in DOMAIN P \ {v} : /\ Commit(m, v).pendingAllocations[w] = P[w]
                                      /\ Rollback(m, v).pendingAllocations[w] = P[w]
  <1>1. CASE v \notin DOMAIN m.pendingAllocations
    BY <1>1 DEF Commit, Rollback
  <1>2. CASE v \in DOMAIN m.pendingAllocations
    <2>1. Commit(m, v).pendingAllocations = Without(m.pendingAllocations, {v})
      BY <1>2, ManagerFields DEF Commit, indexBlocks
    <2>2. Rollback(m, v).pendingAllocations = Without(m.pendingAllocations, {v})
      BY <1>2, ManagerFields DEF Rollback, pushFree
    <2> QED BY <2>1, <2>2 DEF Without, Restrict
  <1> QED BY <1>1, <1>2

(* AllocateBlocks.                                                          *)
LEMMA PendingAllocate ==
  ASSUME NEW m, ManagerGood(m), NEW b
  PROVE  LET Q == AllocateBlocks(m, b).pendingAllocations IN
         IF canAllocate(m, requiredBlocks(m, b))
         THEN Q = Put(m.pendingAllocations, b.id, newAllocation(m, b))
         ELSE Q = m.pendingAllocations
  BY ManagerFields DEF AllocateBlocks, allocate, restoreTable

-----------------------------------------------------------------------------
(* Every work that is on its way to the executor, and every event on its    *)
(* way back, has an allocation that awaits its commit or rollback.          *)
WorkAwaits(v) ==
  \/ HoldsItem(sched.batch, v) \/ HoldsItem(exec.running, v)
  \/ \E n \in DOMAIN batchChan : HoldsItem(batchChan[n], v)

EventAwaits(e) ==
  \/ HoldsWork(exec.events, e) \/ HoldsWork(eventChan, e)
  \/ (cons.pc = "finalize" /\ HoldsWork(cons.event, e))

Awaited(w) ==
  (\E v : WorkAwaits(v) /\ v.id = w) \/ (\E e : EventAwaits(e) /\ e.work = w)

AllocatedFor(w, r) ==
  w \in DOMAIN mgr.pendingAllocations /\ mgr.pendingAllocations[w].request = r

(* The KV tokens of a request once event e has advanced it.                 *)
kvAfter(e) ==
  LET q == requests[e.request]
  IN  kvTokens(advanced(q, e, promptTokens(q.call), MaxTokens[q.call]))

Allocated ==
  /\ \A w \in DOMAIN mgr.pendingAllocations : Awaited(w)
  /\ \A v : WorkAwaits(v) =>
       AllocatedFor(v.id, v.request) /\ mgr.pendingAllocations[v.id].tokens = requiredKVTokens(v)
  /\ \A e : EventAwaits(e) =>
       /\ AllocatedFor(e.work, e.request)
       /\ e.type # "requestFailed" => mgr.pendingAllocations[e.work].tokens = kvAfter(e)

(* inFlight is what is awaited.                                             *)
LEMMA InFlightIs == \A w : w \in inFlight <=> Awaited(w)
  <1> DEFINE works(items) == {items[i].work.id : i \in DOMAIN items}
             events(s)    == {s[i].work : i \in DOMAIN s}
  <1> TAKE w
  <1>1. ASSUME NEW s PROVE w \in works(s) <=> \E v : HoldsItem(s, v) /\ v.id = w
    BY DEF HoldsItem
  <1>2. ASSUME NEW s PROVE w \in events(s) <=> \E e : HoldsWork(s, e) /\ e.work = w
    BY DEF HoldsWork
  <1>3. inFlight = (UNION {works(batchChan[i]) : i \in DOMAIN batchChan})
                   \cup works(sched.batch) \cup works(exec.running)
                   \cup events(exec.events) \cup events(eventChan)
                   \cup IF cons.pc = "finalize" THEN events(cons.event) ELSE {}
    BY DEF inFlight
  <1> HIDE DEF works, events
  <1>4. w \in UNION {works(batchChan[i]) : i \in DOMAIN batchChan} <=>
          \E n \in DOMAIN batchChan : \E v : HoldsItem(batchChan[n], v) /\ v.id = w
    BY <1>1
  <1>5. w \in inFlight <=> \/ \E n \in DOMAIN batchChan : \E v : HoldsItem(batchChan[n], v) /\ v.id = w
                           \/ w \in works(sched.batch) \/ w \in works(exec.running)
                           \/ w \in events(exec.events) \/ w \in events(eventChan)
                           \/ (cons.pc = "finalize" /\ w \in events(cons.event))
    <2>1. CASE cons.pc = "finalize"
      BY <1>3, <1>4, <2>1
    <2>2. CASE cons.pc # "finalize"
      BY <1>3, <1>4, <2>2
    <2> QED BY <2>1, <2>2
  <1>6. w \in inFlight <=> \/ \E n \in DOMAIN batchChan : \E v : HoldsItem(batchChan[n], v) /\ v.id = w
                           \/ \E v : HoldsItem(sched.batch, v) /\ v.id = w
                           \/ \E v : HoldsItem(exec.running, v) /\ v.id = w
                           \/ \E e : HoldsWork(exec.events, e) /\ e.work = w
                           \/ \E e : HoldsWork(eventChan, e) /\ e.work = w
                           \/ (cons.pc = "finalize" /\ \E e : HoldsWork(cons.event, e) /\ e.work = w)
    BY <1>1, <1>2, <1>5
  <1> QED BY <1>6, Zenon DEF Awaited, WorkAwaits, EventAwaits

(* The places of what is awaited, but for the event being handled.          *)
Flying == ({"submitted"} \X Nat) \cup ({"batch", "running", "events", "delivered"} \X {0})

FliesAt(r) == \E a \in Flying : \E i \in DOMAIN Lines[a] : Lines[a][i] = r

AwaitsAt ==
  Typed =>
    /\ \A v : WorkAwaits(v) => v \in Work /\ WorkIn(v) /\ FliesAt(v.request)
    /\ \A e : EventAwaits(e) => /\ e \in Event /\ EventIn(e)
                                /\ FliesAt(e.request) \/ (cons.pc = "finalize" /\ HoldsWork(cons.event, e))

(* A work or event that is awaited has its ticket there.                    *)
LEMMA AwaitedPlace == AwaitsAt
  <1> SUFFICES ASSUME Typed PROVE AwaitsAt
    BY DEF AwaitsAt
  <1>0. LinesAre
    BY LineAt
  <1>1. /\ \A n \in Nat : <<"submitted", n>> \in Flying
        /\ \A p \in {"batch", "running", "events", "delivered"} : <<p, 0>> \in Flying
    BY DEF Flying
  <1>2. ASSUME NEW v, WorkAwaits(v) PROVE v \in Work /\ WorkIn(v) /\ FliesAt(v.request)
    <2>1. WorkIn(v) /\ v \in Work
      BY <1>2, InTyped DEF WorkAwaits, WorkIn
    <2>2. CASE HoldsItem(sched.batch, v)
      <3>1. PICK i \in DOMAIN sched.batch : sched.batch[i].work = v
        BY <2>2 DEF HoldsItem
      <3>2. Lines[<<"batch", 0>>] = itemIdsOf(sched.batch)
        BY <1>0 DEF LinesAre
      <3>3. i \in DOMAIN itemIdsOf(sched.batch) /\ itemIdsOf(sched.batch)[i] = v.request
        BY <3>1 DEF itemIdsOf
      <3> QED BY <1>1, <2>1, <3>2, <3>3 DEF FliesAt
    <2>3. CASE HoldsItem(exec.running, v)
      <3>1. PICK i \in DOMAIN exec.running : exec.running[i].work = v
        BY <2>3 DEF HoldsItem
      <3>2. Lines[<<"running", 0>>] = itemIdsOf(exec.running)
        BY <1>0 DEF LinesAre
      <3>3. i \in DOMAIN itemIdsOf(exec.running) /\ itemIdsOf(exec.running)[i] = v.request
        BY <3>1 DEF itemIdsOf
      <3> QED BY <1>1, <2>1, <3>2, <3>3 DEF FliesAt
    <2>4. CASE \E n \in DOMAIN batchChan : HoldsItem(batchChan[n], v)
      <3>1. PICK n \in DOMAIN batchChan : \E i \in DOMAIN batchChan[n] : batchChan[n][i].work = v
        BY <2>4 DEF HoldsItem
      <3>2. n \in Nat
        BY <3>1, Fields
      <3>3. Lines[<<"submitted", n>>] = itemIdsOf(batchChan[n])
        BY <1>0, <3>1, <3>2 DEF LinesAre
      <3>4. PICK i \in DOMAIN batchChan[n] : batchChan[n][i].work = v
        BY <3>1
      <3>5. i \in DOMAIN itemIdsOf(batchChan[n]) /\ itemIdsOf(batchChan[n])[i] = v.request
        BY <3>4 DEF itemIdsOf
      <3> QED BY <1>1, <2>1, <3>2, <3>3, <3>5 DEF FliesAt
    <2> QED BY <1>2, <2>2, <2>3, <2>4 DEF WorkAwaits
  <1>3. ASSUME NEW e, EventAwaits(e)
        PROVE  /\ e \in Event /\ EventIn(e)
               /\ FliesAt(e.request) \/ (cons.pc = "finalize" /\ HoldsWork(cons.event, e))
    <2>1. EventIn(e) /\ e \in Event
      BY <1>3, InTyped DEF EventAwaits, EventIn
    <2>2. CASE HoldsWork(exec.events, e)
      <3>1. PICK i \in DOMAIN exec.events : exec.events[i] = e
        BY <2>2 DEF HoldsWork
      <3>2. Lines[<<"events", 0>>] = idsOf(exec.events)
        BY <1>0 DEF LinesAre
      <3>3. i \in DOMAIN idsOf(exec.events) /\ idsOf(exec.events)[i] = e.request
        BY <3>1 DEF idsOf
      <3>4. FliesAt(e.request)
        BY <1>1, <3>2, <3>3 DEF FliesAt
      <3> QED BY <2>1, <3>4
    <2>3. CASE HoldsWork(eventChan, e)
      <3>1. PICK i \in DOMAIN eventChan : eventChan[i] = e
        BY <2>3 DEF HoldsWork
      <3>2. Lines[<<"delivered", 0>>] = idsOf(eventChan)
        BY <1>0 DEF LinesAre
      <3>3. i \in DOMAIN idsOf(eventChan) /\ idsOf(eventChan)[i] = e.request
        BY <3>1 DEF idsOf
      <3>4. FliesAt(e.request)
        BY <1>1, <3>2, <3>3 DEF FliesAt
      <3> QED BY <2>1, <3>4
    <2> QED BY <1>3, <2>1, <2>2, <2>3 DEF EventAwaits
  <1> QED BY <1>2, <1>3 DEF AwaitsAt

(* The same after a step.                                                   *)
LEMMA AwaitedPlaceNext == AwaitsAt'
  BY AwaitedPlace, PTL

(* What a step leaves of the allocations and of what awaits them.           *)
LEMMA AllocatedStep ==
  ASSUME Allocated,
         \A w \in DOMAIN mgr'.pendingAllocations :
           /\ w \in DOMAIN mgr.pendingAllocations
           /\ mgr'.pendingAllocations[w] = mgr.pendingAllocations[w]
           /\ Awaited(w)',
         \A v : WorkAwaits(v)' => WorkAwaits(v) /\ v.id \in DOMAIN mgr'.pendingAllocations,
         \A e : EventAwaits(e)' =>
           /\ e.work \in DOMAIN mgr'.pendingAllocations
           /\ \/ EventAwaits(e)
              \/ \E v : /\ WorkAwaits(v) /\ v.id = e.work /\ v.request = e.request
                        /\ e.type # "requestFailed" => kvAfter(e) = requiredKVTokens(v)
           /\ requests'[e.request] = requests[e.request]
  PROVE  Allocated'
  <1>1. \A w \in DOMAIN mgr'.pendingAllocations : Awaited(w)'
    OBVIOUS
  <1>2. ASSUME NEW v, WorkAwaits(v)'
        PROVE  /\ v.id \in DOMAIN mgr'.pendingAllocations
               /\ mgr'.pendingAllocations[v.id].request = v.request
               /\ mgr'.pendingAllocations[v.id].tokens = requiredKVTokens(v)
    BY <1>2 DEF Allocated, AllocatedFor
  <1>3. ASSUME NEW e, EventAwaits(e)'
        PROVE  /\ e.work \in DOMAIN mgr'.pendingAllocations
               /\ mgr'.pendingAllocations[e.work].request = e.request
               /\ e.type # "requestFailed" => mgr'.pendingAllocations[e.work].tokens = kvAfter(e)'
    <2>1. kvAfter(e)' = kvAfter(e)
      BY <1>3 DEF kvAfter
    <2>2. CASE EventAwaits(e)
      BY <1>3, <2>1, <2>2 DEF Allocated, AllocatedFor
    <2>3. CASE ~EventAwaits(e)
      <3>1. PICK v : /\ WorkAwaits(v) /\ v.id = e.work /\ v.request = e.request
                     /\ e.type # "requestFailed" => kvAfter(e) = requiredKVTokens(v)
        BY <1>3, <2>3
      <3> QED BY <1>3, <2>1, <3>1 DEF Allocated, AllocatedFor
    <2> QED BY <2>2, <2>3
  <1> QED BY <1>1, <1>2, <1>3 DEF Allocated, AllocatedFor

(* A step that leaves alone what awaits an allocation.                      *)
FlightStill ==
  /\ sched'.batch = sched.batch /\ UNCHANGED <<exec, batchChan, eventChan>>
  /\ cons' = cons \/ (cons.pc # "finalize" /\ cons'.pc # "finalize")

(* A step that leaves the works in flight alone.                            *)
LEMMA FlightSame ==
  ASSUME FlightStill
  PROVE  /\ \A v : WorkAwaits(v)' <=> WorkAwaits(v)
         /\ \A e : EventAwaits(e)' <=> EventAwaits(e)
         /\ \A w : Awaited(w)' <=> Awaited(w)
  <1>1. \A v : WorkAwaits(v)' <=> WorkAwaits(v)
    BY DEF FlightStill, WorkAwaits
  <1>2. \A e : EventAwaits(e)' <=> EventAwaits(e)
    BY DEF FlightStill, EventAwaits
  <1> QED BY <1>1, <1>2 DEF Awaited

(* What is awaited belongs to a request that a step does not change.        *)
LEMMA AwaitedKept ==
  ASSUME Serving', Closing', Kept
  PROVE  \A e : EventAwaits(e)' => requests'[e.request] = requests[e.request]
  <1> TAKE e
  <1> HAVE EventAwaits(e)'
  <1>1. EventIn(e)' /\ (FliesAt(e.request)' \/ (cons'.pc = "finalize" /\ HoldsWork(cons'.event, e)))
    BY AwaitedPlaceNext DEF AwaitsAt, Serving
  <1>2. Occurs(Lines', e.request)
    <2>1. CASE FliesAt(e.request)'
      <3>1. \A a \in Flying : a \in Places
        BY DEF Flying, Places
      <3> QED BY <2>1, <3>1 DEF FliesAt, Occurs
    <2>2. CASE cons'.pc = "finalize" /\ HoldsWork(cons'.event, e)
      <3>1. Lines'[<<"event", 0>>] = idsOf(cons'.event)
        BY <2>2, LineAtNext DEF LinesAre
      <3>2. PICK i \in DOMAIN cons'.event : cons'.event[i] = e
        BY <2>2 DEF HoldsWork
      <3>3. i \in DOMAIN idsOf(cons'.event) /\ idsOf(cons'.event)[i] = e.request
        BY <3>2 DEF idsOf
      <3> QED BY <3>1, <3>3, PlaceNames DEF Occurs
    <2> QED BY <1>1, <2>1, <2>2
  <1>3. e.request \in DOMAIN requests'
    BY <1>2 DEF Closing, TicketLives, exists
  <1> QED BY <1>3 DEF Kept

(* A step that changes neither the allocations nor what awaits them.        *)
LEMMA StillAllocated ==
  ASSUME Allocated, Serving', Closing', Kept, FlightStill,
         mgr'.pendingAllocations = mgr.pendingAllocations
  PROVE  Allocated'
  BY AwaitedKept, FlightSame, AllocatedStep DEF Allocated, AllocatedFor

(* FreeRequest of a request that has no ticket any more.                    *)
LEMMA FreesAllocated ==
  ASSUME Serving, Allocated, Serving', Closing', Kept, FlightStill, NEW r,
         mgr' = FreeRequest(mgr, r), ~Occurs(Lines', r)
  PROVE  Allocated'
  <1>1. /\ DOMAIN mgr'.pendingAllocations = {w \in DOMAIN mgr.pendingAllocations : mgr.pendingAllocations[w].request # r}
        /\ \A w \in DOMAIN mgr'.pendingAllocations : mgr'.pendingAllocations[w] = mgr.pendingAllocations[w]
    BY PendingFree DEF Serving, Typed
  <1>2. \A a \in Flying : a \in Places
    BY DEF Flying, Places
  <1>3. ASSUME NEW v, WorkAwaits(v)' PROVE v.request # r
    <2>1. FliesAt(v.request)'
      BY <1>3, AwaitedPlaceNext DEF AwaitsAt, Serving
    <2> QED BY <1>2, <2>1 DEF FliesAt, Occurs
  <1>4. ASSUME NEW e, EventAwaits(e)' PROVE e.request # r
    <2>1. FliesAt(e.request)' \/ (cons'.pc = "finalize" /\ HoldsWork(cons'.event, e))
      BY <1>4, AwaitedPlaceNext DEF AwaitsAt, Serving
    <2>2. CASE FliesAt(e.request)'
      BY <1>2, <2>2 DEF FliesAt, Occurs
    <2>3. CASE cons'.pc = "finalize" /\ HoldsWork(cons'.event, e)
      <3>1. Lines'[<<"event", 0>>] = idsOf(cons'.event)
        BY <2>3, LineAtNext DEF LinesAre
      <3>2. PICK i \in DOMAIN cons'.event : cons'.event[i] = e
        BY <2>3 DEF HoldsWork
      <3>3. i \in DOMAIN idsOf(cons'.event) /\ idsOf(cons'.event)[i] = e.request
        BY <3>2 DEF idsOf
      <3> QED BY <3>1, <3>3, PlaceNames DEF Occurs
    <2> QED BY <2>1, <2>2, <2>3
  <1>5. \A w \in DOMAIN mgr'.pendingAllocations : Awaited(w)'
    BY <1>1, FlightSame DEF Allocated
  <1>6. \A v : WorkAwaits(v)' => WorkAwaits(v) /\ v.id \in DOMAIN mgr'.pendingAllocations
    BY <1>1, <1>3, FlightSame DEF Allocated, AllocatedFor
  <1>7. \A e : EventAwaits(e)' => EventAwaits(e) /\ e.work \in DOMAIN mgr'.pendingAllocations
    BY <1>1, <1>4, FlightSame DEF Allocated, AllocatedFor
  <1> QED BY <1>1, <1>5, <1>6, <1>7, AwaitedKept, AllocatedStep

-----------------------------------------------------------------------------
(* The executor's steps *)

(* The event of an executed work advances the request by what the work      *)
(* computed.                                                                *)
LEMMA EventAfter ==
  ASSUME Serving, DistinctIds, NEW v \in Work, WorkIn(v), exists(v.request), NEW done \in BOOLEAN
  PROVE  LET e == executedEvent(v, done) IN
         /\ e.work = v.id /\ e.request = v.request /\ e.type # "requestFailed"
         /\ kvAfter(e) = requiredKVTokens(v)
  <1> DEFINE q == requests[v.request]
             n == promptTokens(v.call)
  <1>1. /\ v.phase \in {Prefill, Decode} /\ v.offset \in Nat /\ v.new \in Nat /\ v.total \in Nat
        /\ v.generated \in Nat /\ v.call \in Calls /\ n \in Nat /\ Prefill # Decode
    BY Prompts DEF Work, Prefill, Decode
  <1>2. WorkSound(v)
    BY DEF Serving, Sound, TicketsSound
  <1>3. q \in Request /\ q.call = v.call /\ q.phase = Running /\ q.generated = v.generated
        /\ (v.phase = Prefill => q.computed = v.offset)
    <2>1. q \in Request /\ RequestId[q.call] = v.request /\ q.call \in Calls
      BY DEF Serving, Typed, RequestsTyped, Sound, RequestsSound, RequestSound, exists, Request
    <2> QED BY <1>1, <1>2, <2>1 DEF WorkSound, DistinctIds
  <1>4. q.computed \in Nat /\ q.generated \in Nat
    BY <1>3 DEF Request
  <1>5. CASE v.phase = Decode
    <2>1. executedEvent(v, done) =
            [ work |-> v.id, request |-> v.request, type |-> "decodeChunk", done |-> done,
              input |-> 0, output |-> 1, token |-> v.generated + 1 ]
      BY <1>5 DEF executedEvent, nextPhase, sample, Prefill, Decode
    <2>2. PICK e : e = executedEvent(v, done)
      OBVIOUS
    <2>3. /\ e.work = v.id /\ e.request = v.request /\ e.type = "decodeChunk" /\ e.output = 1
      BY <2>1, <2>2
    <2>4. PICK a : a = advanced(q, e, promptTokens(q.call), MaxTokens[q.call])
      OBVIOUS
    <2>5. a.generated = v.generated + 1 /\ a.call = v.call
      BY <1>3, <2>3, <2>4 DEF advanced, Request
    <2>6. kvTokens(a) = v.total
      BY <1>1, <1>2, <1>5, <2>5 DEF kvTokens, WorkSound
    <2>7. requiredKVTokens(v) = v.total
      BY <1>1, <1>5 DEF requiredKVTokens
    <2> QED BY <2>2, <2>3, <2>4, <2>6, <2>7 DEF kvAfter
  <1>6. CASE v.phase = Prefill /\ v.offset + v.new >= v.total
    <2>1. executedEvent(v, done) =
            [ work |-> v.id, request |-> v.request, type |-> "prefillFinished", done |-> done,
              input |-> v.new, output |-> 1, token |-> v.generated + 1 ]
      BY <1>6 DEF executedEvent, nextPhase, sample, Prefill, Decode
    <2>2. PICK e : e = executedEvent(v, done)
      OBVIOUS
    <2>3. /\ e.work = v.id /\ e.request = v.request /\ e.type = "prefillFinished" /\ e.output = 1
      BY <2>1, <2>2
    <2>4. PICK a : a = advanced(q, e, promptTokens(q.call), MaxTokens[q.call])
      OBVIOUS
    <2>5. a.generated = v.generated + 1 /\ a.call = v.call
      BY <1>3, <2>3, <2>4 DEF advanced, Request
    <2>6. kvTokens(a) = v.total /\ v.offset + v.new = v.total
      BY <1>1, <1>2, <1>6, <2>5 DEF kvTokens, WorkSound
    <2>7. requiredKVTokens(v) = v.total
      BY <1>1, <1>6, <2>6 DEF requiredKVTokens
    <2> QED BY <2>2, <2>3, <2>4, <2>6, <2>7 DEF kvAfter
  <1>7. CASE v.phase = Prefill /\ ~(v.offset + v.new >= v.total)
    <2>1. executedEvent(v, done) =
            [ work |-> v.id, request |-> v.request, type |-> "prefillChunk", done |-> done,
              input |-> v.new, output |-> 0, token |-> v.generated + 1 ]
      BY <1>7 DEF executedEvent, nextPhase, sample, Prefill, Decode
    <2>2. PICK e : e = executedEvent(v, done)
      OBVIOUS
    <2>3. /\ e.work = v.id /\ e.request = v.request /\ e.type = "prefillChunk" /\ e.input = v.new
      BY <2>1, <2>2
    <2>4. PICK a : a = advanced(q, e, promptTokens(q.call), MaxTokens[q.call])
      OBVIOUS
    <2>5. a.generated = v.generated /\ a.call = v.call /\ a.computed = v.offset + v.new
      BY <1>3, <1>7, <2>3, <2>4 DEF advanced, Request
    <2>6. v.generated = 0
      BY <1>2, <1>7 DEF WorkSound
    <2>7. kvTokens(a) = v.offset + v.new
      BY <2>5, <2>6 DEF kvTokens
    <2>8. requiredKVTokens(v) = v.offset + v.new
      BY <1>7 DEF requiredKVTokens
    <2> QED BY <2>2, <2>3, <2>4, <2>7, <2>8 DEF kvAfter
  <1> QED BY <1>1, <1>5, <1>6, <1>7

(* The works of a batch become events.                                      *)
LEMMA BatchAllocates ==
  ASSUME Serving, Allocated, NEW f \in [DOMAIN exec.running -> Event], exec.events = << >>,
         exec' = [running |-> << >>, events |-> f],
         \A i \in DOMAIN exec.running :
           LET v == exec.running[i].work IN
           /\ f[i].work = v.id /\ f[i].request = v.request
           /\ f[i].type # "requestFailed" => kvAfter(f[i]) = requiredKVTokens(v),
         UNCHANGED <<mgr, requests, sched, batchChan, eventChan, cons>>
  PROVE  Allocated'
  <1>1. exec'.running = << >> /\ exec'.events = f
    OBVIOUS
  <1>2. \A v : WorkAwaits(v)' => WorkAwaits(v)
    BY <1>1, HoldsShort DEF WorkAwaits
  <1>3. ASSUME NEW e, EventAwaits(e)'
        PROVE  EventAwaits(e) \/ \E i \in DOMAIN exec.running : e = f[i]
    BY <1>1, <1>3 DEF EventAwaits, HoldsWork
  <1>4. \A i \in DOMAIN exec.running : WorkAwaits(exec.running[i].work)
    BY DEF WorkAwaits, HoldsItem
  <1>5. ASSUME NEW w, Awaited(w) PROVE Awaited(w)'
    <2>1. CASE \E i \in DOMAIN exec.running : exec.running[i].work.id = w
      <3>1. PICK i \in DOMAIN exec.running : exec.running[i].work.id = w
        BY <2>1
      <3>2. HoldsWork(exec'.events, f[i])
        BY <1>1, <3>1 DEF HoldsWork
      <3>3. EventAwaits(f[i])'
        BY <3>2 DEF EventAwaits
      <3> QED BY <3>1, <3>3 DEF Awaited
    <2>2. CASE \E v : WorkAwaits(v) /\ v.id = w /\ ~HoldsItem(exec.running, v)
      <3>1. PICK v : WorkAwaits(v) /\ v.id = w /\ ~HoldsItem(exec.running, v)
        BY <2>2
      <3>2. WorkAwaits(v)'
        BY <3>1 DEF WorkAwaits
      <3> QED BY <3>1, <3>2 DEF Awaited
    <2>3. CASE \E e : EventAwaits(e) /\ e.work = w
      <3>1. PICK e : EventAwaits(e) /\ e.work = w
        BY <2>3
      <3>2. EventAwaits(e)'
        BY <3>1, HoldsShort DEF EventAwaits
      <3> QED BY <3>1, <3>2 DEF Awaited
    <2> QED BY <1>5, <2>1, <2>2, <2>3 DEF Awaited, HoldsItem
  <1>6. \A w \in DOMAIN mgr'.pendingAllocations :
           /\ w \in DOMAIN mgr.pendingAllocations
           /\ mgr'.pendingAllocations[w] = mgr.pendingAllocations[w]
           /\ Awaited(w)'
    BY <1>5 DEF Allocated
  <1>7. \A v : WorkAwaits(v)' => WorkAwaits(v) /\ v.id \in DOMAIN mgr'.pendingAllocations
    BY <1>2 DEF Allocated, AllocatedFor
  <1>8. ASSUME NEW e, EventAwaits(e)'
        PROVE  /\ e.work \in DOMAIN mgr'.pendingAllocations
               /\ \/ EventAwaits(e)
                  \/ \E v : /\ WorkAwaits(v) /\ v.id = e.work /\ v.request = e.request
                            /\ e.type # "requestFailed" => kvAfter(e) = requiredKVTokens(v)
               /\ requests'[e.request] = requests[e.request]
    <2>1. CASE EventAwaits(e)
      BY <2>1 DEF Allocated, AllocatedFor
    <2>2. CASE \E i \in DOMAIN exec.running : e = f[i]
      <3>1. PICK i \in DOMAIN exec.running : e = f[i]
        BY <2>2
      <3>2. PICK v : v = exec.running[i].work
        OBVIOUS
      <3>3. /\ WorkAwaits(v) /\ v.id = e.work /\ v.request = e.request
            /\ e.type # "requestFailed" => kvAfter(e) = requiredKVTokens(v)
        BY <1>4, <3>1, <3>2
      <3>4. e.work \in DOMAIN mgr.pendingAllocations
        BY <3>3 DEF Allocated, AllocatedFor
      <3> QED BY <3>3, <3>4
    <2> QED BY <1>3, <1>8, <2>1, <2>2
  <1> QED BY <1>6, <1>7, <1>8, AllocatedStep

(* TakeBatch, Deliver, Execute and ExecuteFails.                            *)
LEMMA ExecutorAllocates ==
  ASSUME Serving, Closing, DistinctIds, Allocated, ExecutorNext
  PROVE  Allocated'
  <1>1. UNCHANGED <<mgr, requests, sched, cons>>
    BY DEF ExecutorNext, TakeBatch, Execute, ExecuteFails, Deliver
  <1>2. /\ exec.running \in Seq(Item) /\ exec.events \in Seq(Event) /\ eventChan \in Seq(Event)
        /\ batchChan \in Seq(Seq(Item))
    BY Fields DEF Serving
  <1>3. ASSUME NEW v, WorkAwaits(v) PROVE v \in Work /\ WorkIn(v) /\ exists(v.request)
    <2>1. v \in Work /\ WorkIn(v) /\ FliesAt(v.request)
      BY <1>3, AwaitedPlace DEF AwaitsAt, Serving
    <2>2. \A a \in Flying : a \in Places
      BY DEF Flying, Places
    <2> QED BY <2>1, <2>2 DEF FliesAt, Occurs, Closing, TicketLives
  <1>4. \A i \in DOMAIN exec.running : WorkAwaits(exec.running[i].work)
    BY DEF WorkAwaits, HoldsItem
  <1>5. CASE TakeBatch
    <2>1. /\ batchChan # << >> /\ exec' = [exec EXCEPT !.running = Head(batchChan)]
          /\ batchChan' = Tail(batchChan) /\ eventChan' = eventChan /\ exec.running = << >>
      BY <1>5 DEF TakeBatch
    <2>2. exec'.running = batchChan[1] /\ exec'.events = exec.events
      BY <2>1 DEF Serving, Typed, ExecTyped
    <2>3. 1 \in DOMAIN batchChan
      BY <1>2, <2>1
    <2>4. \A n \in DOMAIN batchChan' : n + 1 \in DOMAIN batchChan /\ batchChan'[n] = batchChan[n + 1]
      BY <1>2, <2>1
    <2>5. \A n \in DOMAIN batchChan : n = 1 \/ (n - 1 \in DOMAIN batchChan' /\ batchChan'[n - 1] = batchChan[n])
      BY <1>2, <2>1
    <2>6. \A v : WorkAwaits(v)' => WorkAwaits(v)
      BY <1>1, <2>2, <2>3, <2>4 DEF WorkAwaits
    <2>7. \A v : WorkAwaits(v) => WorkAwaits(v)'
      BY <1>1, <2>1, <2>2, <2>5, HoldsShort DEF WorkAwaits
    <2>8. \A e : EventAwaits(e)' <=> EventAwaits(e)
      BY <1>1, <2>1, <2>2 DEF EventAwaits
    <2>9. \A w : Awaited(w) => Awaited(w)'
      BY <2>7, <2>8 DEF Awaited
    <2> QED BY <1>1, <2>6, <2>8, <2>9, AllocatedStep DEF Allocated, AllocatedFor
  <1>6. CASE Deliver
    <2>1. /\ exec.events # << >> /\ eventChan' = Append(eventChan, Head(exec.events))
          /\ exec' = [exec EXCEPT !.events = Tail(@)] /\ batchChan' = batchChan
      BY <1>6 DEF Deliver
    <2>2. exec'.running = exec.running /\ exec'.events = Tail(exec.events)
      BY <2>1 DEF Serving, Typed, ExecTyped
    <2>3. \A v : WorkAwaits(v)' <=> WorkAwaits(v)
      BY <1>1, <2>1, <2>2 DEF WorkAwaits
    <2>4. \A e : HoldsWork(exec.events, e) => e = Head(exec.events) \/ HoldsWork(Tail(exec.events), e)
      <3>3. PICK s \in Seq(Event) : s = exec.events
        BY <1>2
      <3>4. \A i \in DOMAIN s : i = 1 \/ (i - 1 \in DOMAIN Tail(s) /\ Tail(s)[i - 1] = s[i])
        BY <2>1, <3>3
      <3>1. \A i \in DOMAIN exec.events : i = 1 \/ (i - 1 \in DOMAIN Tail(exec.events)
                                                    /\ Tail(exec.events)[i - 1] = exec.events[i])
        BY <3>3, <3>4
      <3>2. Head(exec.events) = exec.events[1]
        OBVIOUS
      <3> QED BY <3>1, <3>2 DEF HoldsWork
    <2>5. \A e : HoldsWork(Append(eventChan, Head(exec.events)), e) <=>
                   HoldsWork(eventChan, e) \/ e = Head(exec.events)
      <3>1. PICK h : h = Head(exec.events)
        OBVIOUS
      <3>2. PICK s : s = Append(eventChan, h)
        OBVIOUS
      <3>3. /\ \A i \in DOMAIN eventChan : i \in DOMAIN s /\ s[i] = eventChan[i]
            /\ Len(s) \in DOMAIN s /\ s[Len(s)] = h
            /\ \A i \in DOMAIN s : i = Len(s) \/ i \in DOMAIN eventChan
        BY <1>2, <3>2
      <3>4. \A e : HoldsWork(s, e) <=> HoldsWork(eventChan, e) \/ e = h
        BY <3>3 DEF HoldsWork
      <3> QED BY <3>1, <3>2, <3>4
    <2>6. HoldsWork(exec.events, Head(exec.events)) /\ \A e : HoldsWork(Tail(exec.events), e) => HoldsWork(exec.events, e)
      BY <1>2, <2>1, HoldsTail
    <2>7. \A e : EventAwaits(e)' <=> EventAwaits(e)
      BY <1>1, <2>1, <2>2, <2>4, <2>5, <2>6 DEF EventAwaits
    <2>8. \A w : Awaited(w) => Awaited(w)'
      BY <2>3, <2>7 DEF Awaited
    <2> QED BY <1>1, <2>3, <2>7, <2>8, AllocatedStep DEF Allocated, AllocatedFor
  <1>7. CASE Execute
    <2>1. PICK stop \in SUBSET {i \in DOMAIN exec.running : mayStop(exec.running[i].work)} :
            exec' = [running |-> << >>,
                     events  |-> [i \in DOMAIN exec.running |->
                                    executedEvent(exec.running[i].work, i \in stop)]]
      BY <1>7 DEF Execute
    <2>2. UNCHANGED <<mgr, requests, sched, batchChan, eventChan, cons>> /\ exec.events = << >>
      BY <1>7 DEF Execute, Serving, Shapes, ExecShape
    <2>3. PICK f : f = [i \in DOMAIN exec.running |-> executedEvent(exec.running[i].work, i \in stop)]
      OBVIOUS
    <2>4. f \in [DOMAIN exec.running -> Event]
      <3>1. ASSUME NEW i \in DOMAIN exec.running
            PROVE  executedEvent(exec.running[i].work, i \in stop) \in Event
        <4>1. PICK v : v = exec.running[i].work
          OBVIOUS
        <4>2. v \in Work
          BY <1>3, <1>4, <4>1
        <4>3. PICK done \in BOOLEAN : done <=> i \in stop
          OBVIOUS
        <4>4. executedEvent(v, done) \in Event
          BY <4>2, EventsTyped
        <4>5. done = (i \in stop)
          BY <4>3
        <4> QED BY <4>1, <4>4, <4>5
      <3> QED BY <2>3, <3>1
    <2>5. ASSUME NEW i \in DOMAIN exec.running
          PROVE  LET v == exec.running[i].work IN
                 /\ f[i].work = v.id /\ f[i].request = v.request
                 /\ f[i].type # "requestFailed" => kvAfter(f[i]) = requiredKVTokens(v)
      <3>1. f[i] = executedEvent(exec.running[i].work, i \in stop) /\ (i \in stop) \in BOOLEAN
        BY <2>3
      <3> QED BY <1>3, <1>4, <3>1, EventAfter
    <2> QED BY <2>1, <2>2, <2>3, <2>4, <2>5, BatchAllocates
  <1>8. CASE ExecuteFails
    <2>1. exec' = [running |-> << >>,
                   events  |-> [i \in DOMAIN exec.running |-> failedEvent(exec.running[i].work)]]
      BY <1>8 DEF ExecuteFails
    <2>2. UNCHANGED <<mgr, requests, sched, batchChan, eventChan, cons>> /\ exec.events = << >>
      BY <1>8 DEF ExecuteFails, Serving, Shapes, ExecShape
    <2>3. PICK f : f = [i \in DOMAIN exec.running |-> failedEvent(exec.running[i].work)]
      OBVIOUS
    <2>4. f \in [DOMAIN exec.running -> Event]
      BY <1>3, <1>4, <2>3, EventsTyped
    <2>5. ASSUME NEW i \in DOMAIN exec.running
          PROVE  LET v == exec.running[i].work IN
                 /\ f[i].work = v.id /\ f[i].request = v.request
                 /\ f[i].type # "requestFailed" => kvAfter(f[i]) = requiredKVTokens(v)
      BY <2>3 DEF failedEvent
    <2> QED BY <2>1, <2>2, <2>3, <2>4, <2>5, BatchAllocates
  <1> QED BY <1>5, <1>6, <1>7, <1>8 DEF ExecutorNext

(* The consumer of events *)

(* TakeEvent: the event is still awaited.                                   *)
LEMMA TakeEventAllocates ==
  ASSUME Serving, Closing, Allocated, TakeEvent
  PROVE  Allocated'
  <1>1. /\ cons.pc = "idle" /\ eventChan # << >> /\ eventChan' = Tail(eventChan)
        /\ UNCHANGED <<mgr, requests, sched, batchChan, exec>> /\ eventChan \in Seq(Event)
    BY Fields DEF TakeEvent, Serving
  <1>2. PICK h : h = Head(eventChan)
    OBVIOUS
  <1>3. exists(h.request)
    <2>1. HoldsWork(eventChan, h)
      BY <1>1, <1>2, HoldsTail
    <2>2. FliesAt(h.request) \/ (cons.pc = "finalize" /\ HoldsWork(cons.event, h))
      BY <2>1, AwaitedPlace DEF AwaitsAt, Serving, EventAwaits
    <2>3. \A a \in Flying : a \in Places
      BY DEF Flying, Places
    <2> QED BY <1>1, <2>2, <2>3 DEF FliesAt, Occurs, Closing, TicketLives
  <1>4. cons'.pc = "finalize" /\ cons'.event = <<h>>
    BY <1>2, <1>3 DEF TakeEvent, idleCons
  <1>5. \A v : WorkAwaits(v)' <=> WorkAwaits(v)
    BY <1>1 DEF WorkAwaits
  <1>6. \A e : HoldsWork(eventChan, e) <=> HoldsWork(Tail(eventChan), e) \/ e = h
    <2>1. \A e : HoldsWork(eventChan, e) => e = h \/ HoldsWork(Tail(eventChan), e)
      <3>1. \A i \in DOMAIN eventChan : i = 1 \/ (i - 1 \in DOMAIN Tail(eventChan)
                                                   /\ Tail(eventChan)[i - 1] = eventChan[i])
        BY <1>1
      <3>2. h = eventChan[1]
        BY <1>2
      <3> QED BY <3>1, <3>2 DEF HoldsWork
    <2>2. HoldsWork(eventChan, h) /\ \A e : HoldsWork(Tail(eventChan), e) => HoldsWork(eventChan, e)
      BY <1>1, <1>2, HoldsTail
    <2> QED BY <2>1, <2>2
  <1>7. \A e : HoldsWork(cons'.event, e) <=> e = h
    BY <1>4, HoldsShort
  <1>8. \A e : EventAwaits(e)' <=> EventAwaits(e)
    BY <1>1, <1>4, <1>6, <1>7 DEF EventAwaits
  <1>9. \A w : Awaited(w) => Awaited(w)'
    BY <1>5, <1>8 DEF Awaited
  <1> QED BY <1>1, <1>5, <1>8, <1>9, AllocatedStep DEF Allocated, AllocatedFor

(* Finalize: the allocation is settled, and its event is awaited no more.   *)
LEMMA FinalizeAllocates ==
  ASSUME Serving, Allocated, Finalize
  PROVE  Allocated'
  <1>1. PICK e : e = cons.event[1]
    OBVIOUS
  <1>2. /\ cons.pc = "finalize" /\ cons'.pc = "onEvent"
        /\ UNCHANGED <<requests, sched, batchChan, exec, eventChan>>
        /\ mgr' = Rollback(mgr, e.work) \/ mgr' = Commit(mgr, e.work)
    BY <1>1 DEF Finalize, Serving, Typed, ConsTyped
  <1>3. /\ DOMAIN mgr'.pendingAllocations = DOMAIN mgr.pendingAllocations \ {e.work}
        /\ \A w \in DOMAIN mgr'.pendingAllocations : mgr'.pendingAllocations[w] = mgr.pendingAllocations[w]
    BY <1>2, PendingSettle DEF Serving, Typed
  <1>4. \A x : HoldsWork(cons.event, x) <=> x = e
    <2>1. cons.event \in Seq(Event) /\ Len(cons.event) = 1
      BY <1>2, Fields DEF Serving, Shapes, ConsShape
    <2> QED BY <1>1, <2>1 DEF HoldsWork
  <1>5. EventAwaits(e)
    BY <1>2, <1>4 DEF EventAwaits
  <1>6. mgr.pendingAllocations[e.work].request = e.request
    BY <1>5 DEF Allocated, AllocatedFor
  <1>7. e.request = eventRequest
    BY <1>1 DEF eventRequest
  <1>8. \A v : WorkAwaits(v)' <=> WorkAwaits(v)
    BY <1>2 DEF WorkAwaits
  <1>9. ASSUME NEW v, WorkAwaits(v) PROVE v.id \in DOMAIN mgr'.pendingAllocations
    <2>1. WorkIn(v)
      BY <1>9, AwaitedPlace DEF AwaitsAt, Serving
    <2>2. v.request # e.request
      BY <1>2, <1>7, <2>1, OnlyTicket
    <2> QED BY <1>3, <1>6, <1>9, <2>2 DEF Allocated, AllocatedFor
  <1>10. ASSUME NEW x, EventAwaits(x)' PROVE EventAwaits(x) /\ x.work \in DOMAIN mgr'.pendingAllocations
    <2>1. HoldsWork(exec.events, x) \/ HoldsWork(eventChan, x)
      BY <1>2, <1>10 DEF EventAwaits
    <2>2. x.request # e.request
      BY <1>2, <1>7, <2>1, OnlyTicket
    <2>3. EventAwaits(x)
      BY <2>1 DEF EventAwaits
    <2> QED BY <1>3, <1>6, <2>2, <2>3 DEF Allocated, AllocatedFor
  <1>11. ASSUME NEW w, Awaited(w), w # e.work PROVE Awaited(w)'
    <2>1. CASE \E v : WorkAwaits(v) /\ v.id = w
      BY <1>8, <2>1 DEF Awaited
    <2>2. CASE \E x : EventAwaits(x) /\ x.work = w
      <3>1. PICK x : EventAwaits(x) /\ x.work = w
        BY <2>2
      <3>2. HoldsWork(exec.events, x) \/ HoldsWork(eventChan, x)
        BY <1>4, <1>11, <3>1 DEF EventAwaits
      <3>3. EventAwaits(x)'
        BY <1>2, <3>2 DEF EventAwaits
      <3> QED BY <3>1, <3>3 DEF Awaited
    <2> QED BY <1>11, <2>1, <2>2 DEF Awaited
  <1>12. \A w \in DOMAIN mgr'.pendingAllocations :
           /\ w \in DOMAIN mgr.pendingAllocations
           /\ mgr'.pendingAllocations[w] = mgr.pendingAllocations[w]
           /\ Awaited(w)'
    BY <1>3, <1>11 DEF Allocated
  <1> QED BY <1>2, <1>8, <1>9, <1>10, <1>12, AllocatedStep

(* OnEvent: the request that advances has no other event.                   *)
LEMMA OnEventAllocates ==
  ASSUME Serving, Closing, Allocated, OnEvent
  PROVE  Allocated'
  <1>1. /\ cons.pc = "onEvent" /\ cons'.pc # "finalize"
        /\ UNCHANGED <<mgr, sched, batchChan, exec, eventChan>>
    BY DEF OnEvent, Serving, Typed, ConsTyped
  <1>2. FlightStill
    BY <1>1 DEF FlightStill
  <1>3. ASSUME NEW e, EventAwaits(e) PROVE requests'[e.request] = requests[e.request]
    <2>1. HoldsWork(exec.events, e) \/ HoldsWork(eventChan, e)
      BY <1>1, <1>3 DEF EventAwaits
    <2>2. e.request # eventRequest
      BY <1>1, <2>1, OnlyTicket
    <2>3. exists(e.request)
      <3>1. FliesAt(e.request)
        BY <1>1, <1>3, AwaitedPlace DEF AwaitsAt, Serving
      <3>2. \A a \in Flying : a \in Places
        BY DEF Flying, Places
      <3> QED BY <3>1, <3>2 DEF FliesAt, Occurs, Closing, TicketLives
    <2>4. PICK r : r = eventRequest
      OBVIOUS
    <2>5. requests' = requests \/ \E a : requests' = [requests EXCEPT ![r] = a]
      BY <2>4 DEF OnEvent
    <2> QED BY <2>2, <2>3, <2>4, <2>5 DEF exists
  <1> QED BY <1>1, <1>2, <1>3, FlightSame, AllocatedStep DEF Allocated, AllocatedFor

(* Every step of the consumer of events.                                    *)
LEMMA ConsumerAllocates ==
  ASSUME Serving, Closing, Allocated, ConsumerNext, Serving', Closing'
  PROVE  Allocated'
  <1>1. CASE TakeEvent
    BY <1>1, TakeEventAllocates
  <1>2. CASE Finalize
    BY <1>2, FinalizeAllocates
  <1>3. CASE OnEvent
    BY <1>3, OnEventAllocates
  <1>4. CASE Publish
    <2>1. FlightStill
      BY <1>4 DEF Publish, FlightStill, Serving, Typed, ConsTyped
    <2> QED BY <1>4, <2>1, ConsumerStep, StillAllocated DEF Publish, Onward
  <1>5. CASE Send
    <2>1. FlightStill
      BY <1>5 DEF Send, FlightStill, Serving, Typed, ConsTyped
    <2> QED BY <1>5, <2>1, SendStep, StillAllocated DEF Send, Onward
  <1>6. CASE SendFailed
    <2>1. FlightStill
      BY <1>6 DEF SendFailed, FlightStill, idleCons
    <2> QED BY <1>6, <2>1, ConsumerStep, StillAllocated DEF SendFailed, Onward
  <1>7. CASE EnqueueNext
    <2>1. FlightStill
      <3>1. cons.pc = "enqueue" /\ UNCHANGED <<sched, exec, batchChan, eventChan>>
        BY <1>7 DEF EnqueueNext
      <3>2. \/ cons' = [cons EXCEPT !.pc = "free"]
            \/ cons' = [cons EXCEPT !.pc = "trySchedule", !.next = << >>]
            \/ cons' = idleCons \/ \E c : cons' = [idleCons EXCEPT !.pc = "fail", !.to = c]
        BY <1>7 DEF EnqueueNext
      <3>3. cons'.pc # "finalize"
        <4>1. CASE \/ cons' = [cons EXCEPT !.pc = "free"]
                   \/ cons' = [cons EXCEPT !.pc = "trySchedule", !.next = << >>]
          BY <4>1 DEF Serving, Typed, ConsTyped
        <4>2. CASE cons' = idleCons
          BY <4>2 DEF idleCons
        <4>3. CASE \E c : cons' = [idleCons EXCEPT !.pc = "fail", !.to = c]
          BY <4>3 DEF idleCons
        <4> QED BY <3>2, <4>1, <4>2, <4>3
      <3> QED BY <3>1, <3>3 DEF FlightStill
    <2>2. Kept /\ DeletedAreDone
      BY <1>7, EnqueueNextStep DEF Onward
    <2>3. CASE mgr' = mgr
      BY <2>1, <2>2, <2>3, StillAllocated
    <2>4. CASE exists(eventRequest) /\ deleteRequest(eventRequest)
      <3>1. PICK r : r = eventRequest
        OBVIOUS
      <3>2. mgr' = FreeRequest(mgr, r) /\ r \in DOMAIN requests \ DOMAIN requests'
        BY <2>4, <3>1 DEF deleteRequest, exists, Without, Restrict
      <3> QED BY <2>1, <2>2, <3>2, FreesAllocated DEF DeletedAreDone
    <2> QED BY <1>7, <2>3, <2>4 DEF EnqueueNext
  <1>8. CASE FreeDone
    <2>1. FlightStill
      BY <1>8 DEF FreeDone, FlightStill, idleCons
    <2>2. Kept /\ NoNewTicket
      BY <1>8, ConsumerStep DEF Onward
    <2>3. CASE mgr' = mgr
      BY <2>1, <2>2, <2>3, StillAllocated
    <2>4. CASE cons.event[1].done /\ mgr' = FreeRequest(mgr, eventRequest)
      <3>1. PICK r : r = eventRequest
        OBVIOUS
      <3>2. cons.pc = "free" /\ cons.event[1] \in Event
        BY <1>8, Fields DEF FreeDone, Serving, Shapes, ConsShape
      <3>3. r \in Ids
        BY <3>1, <3>2 DEF eventRequest, Event
      <3>4. PICK c \in Calls : RequestId[c] = r
        BY <3>3, EngineAssumption DEF Ids, Range
      <3>5. Over(c)
        BY <2>4, <3>1, <3>2, <3>4 DEF Closing, ConsClosing
      <3>6. ~Occurs(Lines', r)
        BY <2>2, <3>4, <3>5, OverHasNone DEF NoNewTicket
      <3> QED BY <2>1, <2>2, <2>4, <3>1, <3>6, FreesAllocated
    <2> QED BY <1>8, <2>3, <2>4 DEF FreeDone
  <1>9. CASE TryScheduleNext
    <2>1. FlightStill
      BY <1>9 DEF TryScheduleNext, FlightStill, Serving, Typed, ConsTyped
    <2> QED BY <1>9, <2>1, ConsumerStep, StillAllocated DEF TryScheduleNext, Onward
  <1> QED BY <1>1, <1>2, <1>3, <1>4, <1>5, <1>6, <1>7, <1>8, <1>9 DEF ConsumerNext

-----------------------------------------------------------------------------
(* The handlers and their clients *)

(* What a finished request leaves of the allocations.                       *)
LEMMA DeletedAllocates ==
  ASSUME Serving, Allocated, Serving', Closing', Kept, FlightStill, NEW r,
         deleteRequest(r), ~Occurs(Lines', r)
  PROVE  Allocated'
  BY FreesAllocated DEF deleteRequest

(* Every step of a handler, a client or the clock.                          *)
LEMMA HandlerAllocates ==
  ASSUME Serving, Closing, Allocated, Serving', Closing', NEW c \in Calls,
         HandlerNext(c) \/ ClientReads(c) \/ ClientLeaves(c) \/ Expire(c)
  PROVE  Allocated'
  <1>1. FlightStill
    BY DEF HandlerNext, Create, Subscribe, EnqueueFirst, TrySchedule, Receive, Emit, FinishCall,
           CancelCall, ClientReads, ClientLeaves, Expire, FlightStill
  <1>2. CASE Create(c)
    <2>1. mgr'.pendingAllocations = mgr.pendingAllocations
      <3>1. mgr' = mgr \/ mgr' = MatchPrefix(mgr, RequestId[c], Prompt[c])
        BY <1>2 DEF Create
      <3>2. PICK r, p : r = RequestId[c] /\ p = Prompt[c]
        OBVIOUS
      <3>3. MatchPrefix(mgr, r, p).pendingAllocations = mgr.pendingAllocations
        <4>1. ManagerGood(mgr)
          BY DEF Serving, Typed
        <4>2. LET P == mgr.pendingAllocations
                  Q == FreeRequest(mgr, r).pendingAllocations
              IN  /\ \A q : MatchPrefix(mgr, r, q).pendingAllocations = P
                  /\ DOMAIN Q = {w \in DOMAIN P : P[w].request # r}
                  /\ \A w \in DOMAIN Q : Q[w] = P[w]
          BY <4>1, PendingFree
        <4> QED BY <4>2
      <3> QED BY <3>1, <3>2, <3>3
    <2>2. \A r \in DOMAIN requests : requests'[r] = requests[r]
      BY <1>2 DEF Create, Put, exists
    <2>3. \A e : EventAwaits(e)' => exists(e.request)
      <3>1. \A e : EventAwaits(e) => FliesAt(e.request) \/ (cons.pc = "finalize" /\ HoldsWork(cons.event, e))
        BY AwaitedPlace DEF AwaitsAt, Serving
      <3>2. ASSUME NEW e, EventAwaits(e) PROVE Occurs(Lines, e.request)
        <4>1. CASE FliesAt(e.request)
          <5>1. \A a \in Flying : a \in Places
            BY DEF Flying, Places
          <5> QED BY <4>1, <5>1 DEF FliesAt, Occurs
        <4>2. CASE cons.pc = "finalize" /\ HoldsWork(cons.event, e)
          <5>1. Lines[<<"event", 0>>] = idsOf(cons.event)
            BY <4>2, LineAt DEF LinesAre
          <5>2. PICK i \in DOMAIN cons.event : cons.event[i] = e
            BY <4>2 DEF HoldsWork
          <5>3. i \in DOMAIN idsOf(cons.event) /\ idsOf(cons.event)[i] = e.request
            BY <5>2 DEF idsOf
          <5> QED BY <5>1, <5>3, PlaceNames DEF Occurs
        <4> QED BY <3>1, <3>2, <4>1, <4>2
      <3> QED BY <1>1, <3>2, FlightSame DEF Closing, TicketLives
    <2>4. \A e : EventAwaits(e)' => requests'[e.request] = requests[e.request]
      BY <2>2, <2>3 DEF exists
    <2> QED BY <1>1, <2>1, <2>4, FlightSame, AllocatedStep DEF Allocated, AllocatedFor
  <1>3. CASE EnqueueFirst(c)
    <2>1. Kept /\ DeletedAreDone
      BY <1>3, EnqueueFirstStep DEF Onward
    <2>2. CASE mgr' = mgr
      BY <1>1, <2>1, <2>2, StillAllocated
    <2>3. CASE exists(handler[c].item[1].request) /\ deleteRequest(handler[c].item[1].request)
      <3>1. PICK r : r = handler[c].item[1].request
        OBVIOUS
      <3>2. deleteRequest(r) /\ r \in DOMAIN requests \ DOMAIN requests'
        BY <2>3, <3>1 DEF deleteRequest, exists, Without, Restrict
      <3> QED BY <1>1, <2>1, <3>2, DeletedAllocates DEF DeletedAreDone
    <2> QED BY <1>3, <2>2, <2>3 DEF EnqueueFirst
  <1>4. CASE FinishCall(c)
    <2>1. Kept /\ NoNewTicket
      BY <1>4, EndCallStep DEF Onward
    <2>2. Over(c)
      BY <1>4 DEF FinishCall, DoneSent, Closing, CallsClosing
    <2>3. ~Occurs(Lines', RequestId[c])
      BY <2>1, <2>2, OverHasNone DEF NoNewTicket
    <2>4. CASE mgr' = mgr
      BY <1>1, <2>1, <2>4, StillAllocated
    <2>5. CASE deleteRequest(RequestId[c])
      <3>1. PICK r : r = RequestId[c]
        OBVIOUS
      <3> QED BY <1>1, <2>1, <2>3, <2>5, <3>1, DeletedAllocates
    <2> QED BY <1>4, <2>4, <2>5 DEF FinishCall, Finish
  <1>5. CASE CancelCall(c)
    BY <1>5 DEF CancelCall, Closing, NobodyLeft
  <1>6. CASE \/ Subscribe(c) \/ TrySchedule(c) \/ Receive(c) \/ Emit(c)
             \/ ClientReads(c) \/ ClientLeaves(c) \/ Expire(c)
    <2>1. Kept
      BY <1>6, SubscribeStep, TryScheduleStep, ReceiveStep, EmitStep, ClientStep DEF Onward
    <2>2. mgr' = mgr
      BY <1>6 DEF Subscribe, TrySchedule, Receive, Emit, ClientReads, ClientLeaves, Expire
    <2> QED BY <1>1, <2>1, <2>2, StillAllocated
  <1> QED BY <1>2, <1>3, <1>4, <1>5, <1>6 DEF HandlerNext

-----------------------------------------------------------------------------
(* The batch loop *)

(* Works that keep waiting in a batch.                                      *)
EventsStill == UNCHANGED <<requests, exec, eventChan, cons>>

(* A batch is submitted: its works are awaited as before.                   *)
LEMMA SubmitAllocates ==
  ASSUME Serving, Allocated, Submits, EventsStill
  PROVE  Allocated'
  <1>1. /\ batchChan' = Append(batchChan, sched.batch) /\ sched'.batch = << >> /\ mgr' = mgr
        /\ batchChan \in Seq(Seq(Item)) /\ sched.batch \in Seq(Item)
    BY Fields DEF Submits, Serving
  <1>2. /\ \A n \in DOMAIN batchChan : n \in DOMAIN batchChan' /\ batchChan'[n] = batchChan[n]
        /\ Len(batchChan') \in DOMAIN batchChan' /\ batchChan'[Len(batchChan')] = sched.batch
        /\ \A n \in DOMAIN batchChan' : n = Len(batchChan') \/ n \in DOMAIN batchChan
    BY <1>1
  <1>3. \A v : (\E n \in DOMAIN batchChan' : HoldsItem(batchChan'[n], v)) <=>
                 HoldsItem(sched.batch, v) \/ \E n \in DOMAIN batchChan : HoldsItem(batchChan[n], v)
    BY <1>2
  <1>4. \A v : WorkAwaits(v)' <=> WorkAwaits(v)
    BY <1>1, <1>3, HoldsShort DEF EventsStill, WorkAwaits
  <1>5. \A e : EventAwaits(e)' <=> EventAwaits(e)
    BY DEF EventsStill, EventAwaits
  <1>6. \A w : Awaited(w) => Awaited(w)'
    BY <1>4, <1>5 DEF Awaited
  <1> QED BY <1>1, <1>4, <1>5, <1>6, AllocatedStep DEF Allocated, AllocatedFor, EventsStill

(* A request with a ticket elsewhere has nothing on its way.                *)
HeldApart ==
  Serving =>
    \A a \in Places \ (Flying \cup {<<"event", 0>>}) : \A i \in DOMAIN Lines[a] :
      /\ \A v : WorkAwaits(v) => v.request # Lines[a][i]
      /\ \A e : EventAwaits(e) => e.request # Lines[a][i]

(* No request has two works, nor a work and an event, on their way.         *)
LEMMA OnlyHeld == HeldApart
  <1> SUFFICES ASSUME Serving, NEW a \in Places, a \notin Flying, a # <<"event", 0>>,
                      NEW i \in DOMAIN Lines[a]
               PROVE  /\ \A v : WorkAwaits(v) => v.request # Lines[a][i]
                      /\ \A e : EventAwaits(e) => e.request # Lines[a][i]
    BY DEF HeldApart
  <1>1. \A b \in Flying : b \in Places
    BY DEF Flying, Places
  <1>2. ASSUME NEW r, FliesAt(r) PROVE r # Lines[a][i]
    BY <1>1, <1>2 DEF FliesAt, Serving, OneTicket, Once
  <1>3. ASSUME NEW v, WorkAwaits(v) PROVE v.request # Lines[a][i]
    BY <1>2, <1>3, AwaitedPlace DEF AwaitsAt, Serving
  <1>4. ASSUME NEW e, EventAwaits(e) PROVE e.request # Lines[a][i]
    <2>1. CASE FliesAt(e.request)
      BY <1>2, <2>1
    <2>2. CASE cons.pc = "finalize" /\ HoldsWork(cons.event, e)
      <3>1. Lines[<<"event", 0>>] = idsOf(cons.event)
        BY <2>2, LineAt DEF LinesAre
      <3>2. PICK j \in DOMAIN cons.event : cons.event[j] = e
        BY <2>2 DEF HoldsWork
      <3>3. j \in DOMAIN idsOf(cons.event) /\ idsOf(cons.event)[j] = e.request
        BY <3>2 DEF idsOf
      <3> QED BY <3>1, <3>3, PlaceNames DEF Serving, OneTicket, Once
    <2> QED BY <1>4, <2>1, <2>2, AwaitedPlace DEF AwaitsAt, Serving
  <1> QED BY <1>3, <1>4

(* The same after a step.                                                   *)
LEMMA OnlyHeldNext == HeldApart'
  BY OnlyHeld, PTL

(* RequeueWork: the allocation of a work that is refused is rolled back.    *)
LEMMA RequeueAllocates ==
  ASSUME Serving, Allocated, Serving', Requeues, EventsStill
  PROVE  Allocated'
  <1>1. PICK w : w = Head(sched.batch).work
    OBVIOUS
  <1>2. /\ sched.batch # << >> /\ sched.batch \in Seq(Item) /\ mgr' = Rollback(mgr, w.id)
        /\ queue' = appended(queue, w) /\ sched'.batch = Tail(sched.batch) /\ batchChan' = batchChan
    BY <1>1, Fields DEF Requeues, Serving
  <1>3. w \in Work /\ HoldsItem(sched.batch, w)
    <2>1. Head(sched.batch) \in Item
      BY <1>2
    <2>2. HoldsItem(sched.batch, Head(sched.batch).work)
      BY <1>2, HoldsTail
    <2> QED BY <1>1, <2>1, <2>2 DEF Item
  <1>4. /\ DOMAIN mgr'.pendingAllocations = DOMAIN mgr.pendingAllocations \ {w.id}
        /\ \A x \in DOMAIN mgr'.pendingAllocations : mgr'.pendingAllocations[x] = mgr.pendingAllocations[x]
    BY <1>2, PendingSettle DEF Serving, Typed
  <1>5. /\ \A v : WorkAwaits(v)' => v.request # w.request
        /\ \A e : EventAwaits(e)' => e.request # w.request
    <2>1. PICK a : a = <<"queue", queueOf(w)>>
      OBVIOUS
    <2>2. a \in Places /\ Lines'[a] = Append(Lines[a], w.request) /\ Lines[a] \in Seq(Ids)
      BY <1>2, <1>3, <2>1, Appended, LinesTyped DEF Serving, Shapes
    <2>3. a \notin Flying \cup {<<"event", 0>>}
      BY <2>1 DEF Flying
    <2>4. PICK s \in Seq(Ids) : s = Lines[a]
      BY <2>2
    <2>5. PICK t : t = Append(s, w.request)
      OBVIOUS
    <2>6. Len(t) \in DOMAIN t /\ t[Len(t)] = w.request
      BY <2>5
    <2>7. Lines'[a] = t
      BY <2>2, <2>4, <2>5
    <2> QED BY <2>2, <2>3, <2>6, <2>7, OnlyHeldNext DEF HeldApart
  <1>6. \A v : HoldsItem(sched.batch, v) <=> HoldsItem(Tail(sched.batch), v) \/ v = w
    <2>1. \A v : HoldsItem(sched.batch, v) => v = w \/ HoldsItem(Tail(sched.batch), v)
      <3>1. \A i \in DOMAIN sched.batch : i = 1 \/ (i - 1 \in DOMAIN Tail(sched.batch)
                                                     /\ Tail(sched.batch)[i - 1] = sched.batch[i])
        BY <1>2
      <3>2. w = sched.batch[1].work
        BY <1>1
      <3> QED BY <3>1, <3>2 DEF HoldsItem
    <2> QED BY <1>2, <1>3, <2>1, HoldsTail
  <1>7. \A v : /\ WorkAwaits(v)' => WorkAwaits(v)
               /\ WorkAwaits(v) => WorkAwaits(v)' \/ v = w
    BY <1>2, <1>6 DEF WorkAwaits, EventsStill
  <1>8. \A e : EventAwaits(e)' <=> EventAwaits(e)
    BY DEF EventsStill, EventAwaits
  <1>9. WorkAwaits(w)
    BY <1>3 DEF WorkAwaits
  <1>10. \A x : Awaited(x) /\ x # w.id => Awaited(x)'
    BY <1>7, <1>8 DEF Awaited
  <1>11. \A x \in DOMAIN mgr'.pendingAllocations :
           /\ x \in DOMAIN mgr.pendingAllocations
           /\ mgr'.pendingAllocations[x] = mgr.pendingAllocations[x]
           /\ Awaited(x)'
    BY <1>4, <1>10 DEF Allocated
  <1>12. mgr.pendingAllocations[w.id].request = w.request
    BY <1>9 DEF Allocated, AllocatedFor
  <1>13. \A v : WorkAwaits(v)' => WorkAwaits(v) /\ v.id \in DOMAIN mgr'.pendingAllocations
    BY <1>4, <1>5, <1>7, <1>12 DEF Allocated, AllocatedFor
  <1>14. \A e : EventAwaits(e)' => /\ EventAwaits(e) /\ e.work \in DOMAIN mgr'.pendingAllocations
                                   /\ requests'[e.request] = requests[e.request]
    BY <1>4, <1>5, <1>8, <1>12 DEF Allocated, AllocatedFor, EventsStill
  <1> QED BY <1>11, <1>13, <1>14, AllocatedStep

(* A held work: nothing that is on its way has its id.                      *)
LEMMA HeldFresh ==
  ASSUME Serving, NEW v \in Work, WorkSound(v), sched.held # << >>, v.request = Head(sched.held).request
  PROVE  ~Awaited(v.id)
  <1>1. PICK a : a = <<"held", 0>>
    OBVIOUS
  <1>2. a \in Places /\ a \notin Flying \cup {<<"event", 0>>}
    BY <1>1, PlaceNames DEF Flying
  <1>3. sched.held \in Seq(Work)
    BY Fields DEF Serving
  <1>4. 1 \in DOMAIN Lines[a] /\ Lines[a][1] = v.request
    <2>1. Lines[a] = idsOf(sched.held)
      BY <1>1, LineAt DEF LinesAre
    <2>2. 1 \in DOMAIN sched.held /\ sched.held[1] = Head(sched.held)
      BY <1>3
    <2> QED BY <2>1, <2>2 DEF idsOf
  <1>5. /\ \A x : WorkAwaits(x) => x.request # v.request
        /\ \A e : EventAwaits(e) => e.request # v.request
    BY <1>2, <1>4, OnlyHeld DEF HeldApart
  <1>6. v.id[1] = v.call /\ RequestId[v.call] = v.request
    BY DEF WorkSound
  <1>7. ASSUME NEW x, WorkAwaits(x), x.id = v.id PROVE FALSE
    <2>1. WorkSound(x)
      BY <1>7, AwaitedPlace DEF AwaitsAt, Serving, Sound, TicketsSound
    <2>2. x.id[1] = x.call /\ RequestId[x.call] = x.request
      BY <2>1 DEF WorkSound
    <2> QED BY <1>5, <1>6, <1>7, <2>2
  <1>8. ASSUME NEW e, EventAwaits(e), e.work = v.id PROVE FALSE
    <2>1. EventSound(e)
      BY <1>8, AwaitedPlace DEF AwaitsAt, Serving, Sound, TicketsSound
    <2>2. RequestId[e.work[1]] = e.request
      BY <2>1 DEF EventSound
    <2> QED BY <1>5, <1>6, <1>8, <2>2
  <1> QED BY <1>7, <1>8 DEF Awaited

(* A work joins the batch with the allocation made for it.                  *)
LEMMA JoinAllocates ==
  ASSUME Serving, Allocated, sched.held # << >>, NEW v \in Work, Joins(v), EventsStill
  PROVE  Allocated'
  <1>1. /\ WorkSound(v) /\ v.request = Head(sched.held).request /\ enoughBlocks(v)
        /\ mgr' = AllocateBlocks(mgr, blockWorkOf(v))
        /\ sched'.batch = Append(sched.batch, batchItem(v)) /\ batchChan' = batchChan
        /\ sched.batch \in Seq(Item)
    BY Fields DEF Joins, Serving
  <1>2. PICK P : P = mgr.pendingAllocations
    OBVIOUS
  <1>3. PICK a : a = newAllocation(mgr, blockWorkOf(v))
    OBVIOUS
  <1>4. a.request = v.request /\ a.tokens = requiredKVTokens(v)
    BY <1>3 DEF newAllocation, blockWorkOf, blockWork
  <1>5. mgr'.pendingAllocations = Put(P, v.id, a)
    <2>1. blockWorkOf(v).id = v.id
      BY DEF blockWorkOf, blockWork
    <2> QED BY <1>1, <1>2, <1>3, <2>1, PendingAllocate DEF enoughBlocks, Serving, Typed
  <1>6. PICK Q : Q = mgr'.pendingAllocations
    OBVIOUS
  <1>7. DOMAIN Q = DOMAIN P \cup {v.id} /\ Q[v.id] = a /\ \A x \in DOMAIN P : x # v.id => Q[x] = P[x]
    BY <1>5, <1>6 DEF Put
  <1>8. ~Awaited(v.id)
    BY <1>1, HeldFresh
  <1>9. \A x : HoldsItem(sched'.batch, x) <=> HoldsItem(sched.batch, x) \/ x = v
    <2>1. PICK t : t = batchItem(v)
      OBVIOUS
    <2>2. t.work = v
      BY <2>1 DEF batchItem
    <2>3. PICK s : s = Append(sched.batch, t)
      OBVIOUS
    <2>4. /\ \A i \in DOMAIN sched.batch : i \in DOMAIN s /\ s[i] = sched.batch[i]
          /\ Len(s) \in DOMAIN s /\ s[Len(s)] = t
          /\ \A i \in DOMAIN s : i = Len(s) \/ i \in DOMAIN sched.batch
      BY <1>1, <2>3
    <2>5. \A x : HoldsItem(s, x) <=> HoldsItem(sched.batch, x) \/ x = v
      BY <2>2, <2>4 DEF HoldsItem
    <2> QED BY <1>1, <2>1, <2>3, <2>5
  <1>10. \A x : WorkAwaits(x)' <=> WorkAwaits(x) \/ x = v
    BY <1>1, <1>9 DEF WorkAwaits, EventsStill
  <1>11. \A e : EventAwaits(e)' <=> EventAwaits(e)
    BY DEF EventsStill, EventAwaits
  <1>12. \A x : Awaited(x)' <=> Awaited(x) \/ x = v.id
    BY <1>10, <1>11 DEF Awaited
  <1>13. \A x \in DOMAIN Q : Awaited(x)'
    BY <1>2, <1>7, <1>12 DEF Allocated
  <1>14. ASSUME NEW x, WorkAwaits(x)'
         PROVE  x.id \in DOMAIN Q /\ Q[x.id].request = x.request /\ Q[x.id].tokens = requiredKVTokens(x)
    <2>1. CASE x = v
      BY <1>4, <1>7, <2>1
    <2>2. CASE WorkAwaits(x)
      <3>1. x.id # v.id
        BY <1>8, <2>2 DEF Awaited
      <3>2. x.id \in DOMAIN P /\ P[x.id].request = x.request /\ P[x.id].tokens = requiredKVTokens(x)
        BY <1>2, <2>2 DEF Allocated, AllocatedFor
      <3> QED BY <1>7, <3>1, <3>2
    <2> QED BY <1>10, <1>14, <2>1, <2>2
  <1>15. ASSUME NEW e, EventAwaits(e)'
         PROVE  /\ e.work \in DOMAIN Q /\ Q[e.work].request = e.request
                /\ e.type # "requestFailed" => Q[e.work].tokens = kvAfter(e)'
    <2>1. EventAwaits(e)
      BY <1>11, <1>15
    <2>2. e.work # v.id
      BY <1>8, <2>1 DEF Awaited
    <2>3. /\ e.work \in DOMAIN P /\ P[e.work].request = e.request
          /\ e.type # "requestFailed" => P[e.work].tokens = kvAfter(e)
      BY <1>2, <2>1 DEF Allocated, AllocatedFor
    <2>4. kvAfter(e)' = kvAfter(e)
      BY DEF EventsStill, kvAfter
    <2> QED BY <1>7, <2>2, <2>3, <2>4
  <1> QED BY <1>6, <1>13, <1>14, <1>15 DEF Allocated, AllocatedFor

(* Every step of the batch loop.                                            *)
LEMMA BatchLoopAllocates ==
  ASSUME Serving, Closing, Allocated, BatchLoopNext, Serving', Closing'
  PROVE  Allocated'
  <1>1. BatchFlow /\ Kept /\ UNCHANGED <<exec, eventChan, cons>>
    BY BatchLoopStep DEF Onward
  <1>2. CASE \E k \in {"decode", "small", "large"} : DropsFrom(k)
    <2>1. PICK k \in {"decode", "small", "large"} : DropsFrom(k)
      BY <1>2
    <2>2. FlightStill
      BY <1>1, <2>1 DEF DropsFrom, TakesFrom, FlightStill
    <2>3. CASE timedOut(Head(queue[k]))
      <3>1. PICK r : r = Head(queue[k]).request
        OBVIOUS
      <3>2. deleteRequest(r) /\ ~Occurs(Lines', r)
        BY <2>1, <2>3, <3>1 DEF DropsFrom
      <3> QED BY <1>1, <2>2, <3>2, DeletedAllocates
    <2>4. CASE ~timedOut(Head(queue[k]))
      <3>1. mgr' = mgr
        BY <2>1, <2>4 DEF DropsFrom
      <3> QED BY <1>1, <2>2, <3>1, StillAllocated
    <2> QED BY <2>3, <2>4
  <1>3. CASE Rests \/ \E k \in {"decode", "small", "large"} : Picks(k)
    <2>1. FlightStill /\ mgr' = mgr
      BY <1>1, <1>3 DEF Rests, Picks, TakesFrom, FlightStill
    <2> QED BY <1>1, <2>1, StillAllocated
  <1>4. CASE sched.held # << >> /\ \E v \in Work : Joins(v)
    <2>1. EventsStill
      BY <1>1, <1>4 DEF Joins, EventsStill
    <2> QED BY <1>4, <2>1, JoinAllocates
  <1>5. CASE \E v \in Work : PutsBack(v)
    <2>1. PICK v \in Work : PutsBack(v)
      BY <1>5
    <2>2. FlightStill
      BY <1>1, <2>1 DEF PutsBack, FlightStill
    <2>3. mgr'.pendingAllocations = mgr.pendingAllocations
      BY <2>1, PendingAllocate DEF PutsBack, enoughBlocks, Serving, Typed
    <2> QED BY <1>1, <2>2, <2>3, StillAllocated
  <1>6. CASE Submits
    BY <1>1, <1>6, SubmitAllocates DEF Submits, EventsStill
  <1>7. CASE Requeues
    BY <1>1, <1>7, RequeueAllocates DEF Requeues, EventsStill
  <1> QED BY <1>1, <1>2, <1>3, <1>4, <1>5, <1>6, <1>7 DEF BatchFlow

-----------------------------------------------------------------------------
(* A new Engine has no allocation.                                          *)
LEMMA InitAllocated == ASSUME Init PROVE Allocated
  <1>1. \A v : ~WorkAwaits(v)
    BY HoldsShort DEF Init, idleSched, WorkAwaits
  <1>2. \A e : ~EventAwaits(e)
    BY HoldsShort DEF Init, idleCons, EventAwaits
  <1>3. DOMAIN mgr.pendingAllocations = {}
    BY DEF Init, newManager, EmptyMap
  <1> QED BY <1>1, <1>2, <1>3 DEF Allocated

(* A step that changes nothing.                                             *)
LEMMA StutterAllocated == ASSUME Allocated, UNCHANGED vars PROVE Allocated'
  <1>1. /\ \A v : WorkAwaits(v)' <=> WorkAwaits(v)
        /\ \A e : EventAwaits(e)' <=> EventAwaits(e)
    BY DEF vars, WorkAwaits, EventAwaits
  <1>2. \A w : Awaited(w)' <=> Awaited(w)
    BY <1>1 DEF Awaited
  <1>3. mgr' = mgr /\ requests' = requests
    BY DEF vars
  <1> QED BY <1>1, <1>2, <1>3, AllocatedStep DEF Allocated, AllocatedFor

(* Every step keeps the allocations with what awaits them.                  *)
LEMMA NextAllocated ==
  ASSUME Serving, Closing, Allocated, DistinctIds, Undisturbed, [Next]_vars
  PROVE  Allocated'
  <1>1. Serving' /\ Closing'
    BY NextServing, NextClosing
  <1> QED BY <1>1, HandlerAllocates, BatchLoopAllocates, ExecutorAllocates, ConsumerAllocates,
             StutterAllocated DEF Next

(* Every allocation awaits the commit or rollback of a work that is still   *)
(* on its way.                                                              *)
THEOREM EngineAllocations == ASSUME DistinctIds, Undisturbed PROVE Spec => []AllocationsSettled
  <1>1. Init => Serving /\ Closing /\ Allocated
    BY InitServing, InitClosing, InitAllocated
  <1>2. Serving /\ Closing /\ Allocated /\ [Next]_vars => (Serving /\ Closing /\ Allocated)'
    BY NextServing, NextClosing, NextAllocated
  <1>3. Allocated => AllocationsSettled
    BY InFlightIs DEF Allocated, AllocationsSettled
  <1> QED BY <1>1, <1>2, <1>3, PTL DEF Spec

-----------------------------------------------------------------------------
(* How far a request has come *)

(* An event that does not say done is of a request that goes on; and a      *)
(* request that goes on has tokens left, or its first.                      *)
Advancing ==
  /\ cons.pc \in {"publish", "send", "enqueue", "trySchedule", "free"} /\ ~cons.event[1].done /\ exists(eventRequest)
       => requests[eventRequest].phase = Running
  /\ \A r \in DOMAIN requests : requests[r].phase = Running =>
       requests[r].generated <= 1 \/ requests[r].generated < MaxTokens[requests[r].call]

(* A step that only deletes requests, and moves the consumer on with the    *)
(* event that it publishes.                                                 *)
LEMMA AdvancingKept ==
  ASSUME Advancing, Kept,
         cons'.pc \in {"publish", "send", "enqueue", "trySchedule", "free"} =>
           cons.pc \in {"publish", "send", "enqueue", "trySchedule", "free"} /\ cons'.event = cons.event
  PROVE  Advancing'
  BY DEF Advancing, Kept, exists, eventRequest

(* Create: a new request has no token yet.                                  *)
LEMMA CreateAdvances ==
  ASSUME Advancing, NEW c \in Calls, Create(c)
  PROVE  Advancing'
  <1>1. UNCHANGED cons
    BY DEF Create
  <1>2. /\ \A r \in DOMAIN requests : r \in DOMAIN requests' /\ requests'[r] = requests[r]
        /\ \A r \in DOMAIN requests' : \/ r \in DOMAIN requests
                                       \/ requests'[r].phase = Running /\ requests'[r].generated = 0
    <2>1. CASE exists(RequestId[c])
      BY <2>1 DEF Create
    <2>2. CASE ~exists(RequestId[c])
      BY <2>2 DEF Create, Put, exists
    <2> QED BY <2>1, <2>2
  <1> QED BY <1>1, <1>2 DEF Advancing, exists, eventRequest

(* The event that OnEvent handles is of a request that exists and runs.     *)
LEMMA EventInHand ==
  ASSUME Serving, Closing, cons.pc \in {"finalize", "onEvent"}
  PROVE  LET e == cons.event[1] IN
         /\ cons.event = <<e>> /\ e \in Event /\ e.request = eventRequest /\ EventIn(e) /\ EventSound(e)
         /\ Occurs(Lines, eventRequest) /\ eventRequest \in DOMAIN requests /\ exists(eventRequest)
         /\ requests[eventRequest].phase = Running
  <1> DEFINE e == cons.event[1]
  <1>1. cons.event \in Seq(Event) /\ Len(cons.event) = 1
    BY Fields DEF Serving, Shapes, ConsShape
  <1>2. EventIn(e) /\ e \in Event /\ e.request = eventRequest /\ EventSound(e)
    <2>1. EventIn(e)
      BY <1>1 DEF EventIn, HoldsWork
    <2> QED BY <1>1, <2>1 DEF eventRequest, Serving, Sound, TicketsSound
  <1>3. Occurs(Lines, eventRequest)
    <2>1. Lines[<<"event", 0>>] = idsOf(cons.event) /\ <<"event", 0>> \in Places
      BY LineAt, PlaceNames DEF LinesAre
    <2>2. 1 \in DOMAIN Lines[<<"event", 0>>] /\ Lines[<<"event", 0>>][1] = eventRequest
      BY <1>1, <2>1 DEF idsOf, eventRequest
    <2> QED BY <2>1, <2>2 DEF Occurs
  <1>4. eventRequest \in DOMAIN requests /\ exists(eventRequest) /\ requests[eventRequest].phase = Running
    BY <1>3, TicketRuns DEF Closing, TicketLives, exists
  <1>5. cons.event = <<e>>
    BY <1>1
  <1> QED BY <1>2, <1>3, <1>4, <1>5

(* OnEvent: the request, and the event that is published.                   *)
LEMMA OnEventIs ==
  ASSUME Serving, Closing, OnEvent
  PROVE  LET e == cons.event[1]
             q == requests[eventRequest]
         IN  /\ requests' = [requests EXCEPT ![eventRequest] =
                               advanced(q, e, promptTokens(q.call), MaxTokens[q.call])]
             /\ cons'.pc = "publish"
             /\ cons'.event = <<published(q, e, MaxTokens[q.call])>>
             /\ cons'.next = followUp(q, e, promptTokens(q.call), MaxTokens[q.call])
             /\ eventRequest' = eventRequest
  <1>1. exists(eventRequest) /\ cons.event[1] \in Event /\ cons.pc = "onEvent"
    BY EventInHand DEF OnEvent
  <1> DEFINE e == cons.event[1]
             q == requests[eventRequest]
             p == published(q, e, MaxTokens[q.call])
             f == followUp(q, e, promptTokens(q.call), MaxTokens[q.call])
  <1>2. /\ requests' = [requests EXCEPT ![eventRequest] =
                          advanced(q, e, promptTokens(q.call), MaxTokens[q.call])]
        /\ cons' = [cons EXCEPT !.pc = "publish", !.event = <<p>>, !.next = f]
    BY <1>1 DEF OnEvent
  <1>3. p.request = e.request
    BY <1>1 DEF published, Event
  <1> HIDE DEF p, f
  <1>4. cons'.pc = "publish" /\ cons'.event = <<p>> /\ cons'.next = f
    BY <1>2 DEF Serving, Typed, ConsTyped
  <1>5. eventRequest' = eventRequest
    BY <1>3, <1>4 DEF eventRequest
  <1> QED BY <1>2, <1>4, <1>5 DEF p, f

(* What an event that does not say done does to its request.                *)
LEMMA AdvancedRuns ==
  ASSUME NEW q \in Request, NEW e \in Event, NEW n \in Nat, NEW max \in Nat, q.phase = Running,
         e.type = "requestFailed" => e.done,
         e.type = "prefillChunk" => q.generated = 0,
         e.type = "prefillFinished" => q.generated = 0 /\ e.output = 1,
         e.type = "decodeChunk" => e.output = 1
  PROVE  LET a == advanced(q, e, n, max) IN
         /\ ~published(q, e, max).done => a.phase = Running
         /\ a.phase = Running => a.generated <= 1 \/ a.generated < max
  <1>1. PICK a : a = advanced(q, e, n, max)
    OBVIOUS
  <1>2. PICK d : d = published(q, e, max).done
    OBVIOUS
  <1>3. e.type \in EventTypes /\ q.generated \in Nat /\ e.done \in BOOLEAN /\ e.output \in Nat
    BY DEF Event, Request
  <1>4. d = (e.done \/ (e.type = "decodeChunk" /\ reachedMax(q, e, max)))
    BY <1>2 DEF published, Event
  <1>5. CASE e.type = "prefillChunk"
    <2>1. a.phase = Running /\ a.generated = 0
      BY <1>1, <1>5 DEF advanced, Request
    <2> QED BY <1>1, <1>2, <2>1
  <1>6. CASE e.type = "prefillFinished"
    <2>1. PICK k : k = Min({q.computed + e.input, n})
      OBVIOUS
    <2>2. a = [q EXCEPT !.computed = k, !.generated = q.generated + e.output]
      BY <1>1, <1>6, <2>1 DEF advanced
    <2>3. a.phase = Running /\ a.generated = 0 + 1
      BY <1>6, <2>2 DEF Request
    <2>4. a.generated = 1
      BY <2>3
    <2> QED BY <1>1, <1>2, <2>3, <2>4
  <1>7. CASE e.type = "decodeChunk"
    <2>1. /\ a.generated = q.generated + 1
          /\ a.phase = IF e.done \/ reachedMax(q, e, max) THEN Finished ELSE Running
      BY <1>1, <1>7 DEF advanced, Request
    <2>2. reachedMax(q, e, max) <=> q.generated + 1 >= max
      BY <1>7 DEF reachedMax
    <2>3. ~d => ~e.done /\ ~reachedMax(q, e, max)
      BY <1>4, <1>7, Zenon
    <2>4. ~d => a.phase = Running
      BY <2>1, <2>3
    <2>5. a.phase = Running => ~reachedMax(q, e, max)
      BY <2>1, Zenon DEF Finished, Running
    <2>6. a.phase = Running => a.generated < max
      <3>1. ~(q.generated + 1 >= max) => q.generated + 1 < max
        BY <1>3
      <3> QED BY <2>1, <2>2, <2>5, <3>1
    <2> QED BY <1>1, <1>2, <2>4, <2>6
  <1>8. CASE e.type = "requestFailed"
    <2>1. a.phase = Failed
      BY <1>1, <1>8 DEF advanced, Request
    <2> QED BY <1>1, <1>2, <1>3, <1>4, <1>8, <2>1 DEF Failed, Running
  <1> QED BY <1>3, <1>5, <1>6, <1>7, <1>8 DEF EventTypes

(* OnEvent.                                                                 *)
LEMMA OnEventAdvances ==
  ASSUME Serving, Closing, Advancing, OnEvent
  PROVE  Advancing'
  <1>1. PICK r : r = eventRequest
    OBVIOUS
  <1>2. PICK e : e = cons.event[1]
    OBVIOUS
  <1>3. PICK q : q = requests[r]
    OBVIOUS
  <1>4. PICK a : a = advanced(q, e, promptTokens(q.call), MaxTokens[q.call])
    OBVIOUS
  <1>5. PICK p : p = published(q, e, MaxTokens[q.call])
    OBVIOUS
  <1>6. e \in Event /\ EventSound(e) /\ r \in DOMAIN requests /\ e.request = r /\ q.phase = Running
    BY <1>1, <1>2, <1>3, EventInHand DEF OnEvent
  <1>7. q \in Request /\ q.call \in Calls
    BY <1>3, <1>6, Fields DEF Serving
  <1>8. promptTokens(q.call) \in Nat /\ MaxTokens[q.call] \in Nat
    BY <1>7, Prompts
  <1>9. /\ ~p.done => a.phase = Running
        /\ a.phase = Running => a.generated <= 1 \/ a.generated < MaxTokens[q.call]
    <2>1. /\ e.type = "requestFailed" => e.done
          /\ e.type = "prefillChunk" => q.generated = 0
          /\ e.type = "prefillFinished" => q.generated = 0 /\ e.output = 1
          /\ e.type = "decodeChunk" => e.output = 1
      BY <1>3, <1>6 DEF EventSound, exists
    <2> QED BY <1>4, <1>5, <1>6, <1>7, <1>8, <2>1, AdvancedRuns
  <1>10. a.call = q.call
    BY <1>4, <1>6, <1>7 DEF advanced, Request, Event, EventTypes
  <1>11. requests' = [requests EXCEPT ![r] = a] /\ cons'.event = <<p>> /\ eventRequest' = r
    BY <1>1, <1>2, <1>3, <1>4, <1>5, OnEventIs
  <1>12. requests'[r] = a /\ DOMAIN requests' = DOMAIN requests
         /\ \A x \in DOMAIN requests : x # r => requests'[x] = requests[x]
    BY <1>6, <1>11
  <1>13. cons'.event[1] = p
    BY <1>11
  <1> QED BY <1>9, <1>10, <1>11, <1>12, <1>13 DEF Advancing

(* Every step.                                                              *)
LEMMA NextAdvancing ==
  ASSUME Serving, Closing, Advancing, [Next]_vars
  PROVE  Advancing'
  <1>1. ASSUME NEW c \in Calls, HandlerNext(c) \/ ClientReads(c) \/ ClientLeaves(c) \/ Expire(c)
        PROVE  Advancing'
    <2>1. CASE Create(c)
      BY <2>1, CreateAdvances
    <2>2. CASE ~Create(c)
      <3>1. Kept
        BY <1>1, <2>2, SubscribeStep, EnqueueFirstStep, TryScheduleStep, ReceiveStep, EmitStep, EndCallStep, ClientStep
           DEF HandlerNext, Onward
      <3>2. UNCHANGED cons
        BY <1>1 DEF HandlerNext, Create, Subscribe, EnqueueFirst, TrySchedule, Receive, Emit,
                    FinishCall, CancelCall, ClientReads, ClientLeaves, Expire
      <3> QED BY <3>1, <3>2, AdvancingKept
    <2> QED BY <2>1, <2>2
  <1>2. CASE BatchLoopNext
    BY <1>2, BatchLoopStep, AdvancingKept DEF Onward
  <1>3. CASE ExecutorNext
    <2>1. UNCHANGED <<cons, requests, handler>>
      BY <1>3 DEF ExecutorNext, TakeBatch, Execute, ExecuteFails, Deliver
    <2> QED BY <2>1, AdvancingKept DEF Kept
  <1>4. CASE ConsumerNext
    <2>1. CASE OnEvent
      BY <2>1, OnEventAdvances
    <2>2. CASE ~OnEvent
      <3>1. Kept
        BY <1>4, <2>2, TakeEventStep, ConsumerStep, SendStep, EnqueueNextStep DEF ConsumerNext, Onward
      <3>2. ASSUME cons'.pc \in {"publish", "send", "enqueue", "trySchedule", "free"}
            PROVE  cons.pc \in {"publish", "send", "enqueue", "trySchedule", "free"} /\ cons'.event = cons.event
        <4>1. CASE TakeEvent
          BY <3>2, <4>1 DEF TakeEvent, idleCons
        <4>2. CASE Finalize
          BY <3>2, <4>2 DEF Finalize, Serving, Typed, ConsTyped
        <4>3. CASE Publish
          BY <4>3 DEF Publish, Serving, Typed, ConsTyped
        <4>4. CASE Send
          BY <4>4 DEF Send, Serving, Typed, ConsTyped
        <4>5. CASE EnqueueNext
          <5>1. \/ cons' = [cons EXCEPT !.pc = "free"]
                \/ cons' = [cons EXCEPT !.pc = "trySchedule", !.next = << >>]
                \/ cons' = idleCons \/ \E c : cons' = [idleCons EXCEPT !.pc = "fail", !.to = c]
            BY <4>5 DEF EnqueueNext
          <5>2. CASE \/ cons' = [cons EXCEPT !.pc = "free"]
                     \/ cons' = [cons EXCEPT !.pc = "trySchedule", !.next = << >>]
            BY <4>5, <5>2 DEF EnqueueNext, Serving, Typed, ConsTyped
          <5>3. CASE cons' = idleCons
            BY <3>2, <5>3 DEF idleCons
          <5>4. CASE \E c : cons' = [idleCons EXCEPT !.pc = "fail", !.to = c]
            BY <3>2, <5>4 DEF idleCons
          <5> QED BY <5>1, <5>2, <5>3, <5>4
        <4>6. CASE SendFailed \/ FreeDone
          BY <3>2, <4>6 DEF SendFailed, FreeDone, idleCons
        <4>7. CASE TryScheduleNext
          BY <4>7 DEF TryScheduleNext, Serving, Typed, ConsTyped
        <4> QED BY <1>4, <2>2, <4>1, <4>2, <4>3, <4>4, <4>5, <4>6, <4>7 DEF ConsumerNext
      <3> QED BY <3>1, <3>2, AdvancingKept
    <2> QED BY <2>1, <2>2
  <1>5. CASE UNCHANGED vars
    BY <1>5 DEF vars, Advancing, exists, eventRequest
  <1> QED BY <1>1, <1>2, <1>3, <1>4, <1>5 DEF Next

(* A new Engine.                                                            *)
LEMMA InitAdvancing == ASSUME Init PROVE Advancing
  BY DEF Init, idleCons, EmptyMap, Advancing

-----------------------------------------------------------------------------
(***************************************************************************)
(* The Engine implements the block registry.                               *)
(***************************************************************************)

(* The Engine's manager takes the steps of the block registry, on behalf of *)
(* the requests that registryRequest describes.                             *)
RegistryStep == [R!Next]_(R!vars)

(* No other request of the registry changes.                                *)
OnlyRequest(r) == \A x \in Ids : x # r => registryRequest(x)' = registryRequest(x)

(* MatchPrefix.                                                             *)
LEMMA StepMatch ==
  ASSUME NEW r \in Ids, NEW c \in Calls, ~registryRequest(r).live, OnlyRequest(r),
         mgr' = MatchPrefix(mgr, r, Prompt[c]),
         registryRequest(r)' = [live |-> TRUE, executor |-> Executor, prompt |-> Prompt[c],
                                cache |-> matchedBlocks(mgr, Prompt[c]),
                                computed |-> Len(matchedBlocks(mgr, Prompt[c])) * BlockSize]
  PROVE  RegistryStep
  <1>1. PICK p : p = Prompt[c]
    OBVIOUS
  <1>2. R!MatchPrefixFor(r, Executor, p)
    BY <1>1, SameMatchPrefix, SameMatched DEF R!MatchPrefixFor, OnlyRequest
  <1>3. R!RequestNext
    BY <1>1, <1>2 DEF R!RequestNext
  <1> QED BY <1>3 DEF RegistryStep, R!Next

(* Commit, of what takes the KV of the request to the tokens of its         *)
(* allocation.                                                              *)
LEMMA StepCommit ==
  ASSUME NEW w \in DOMAIN mgr.pendingAllocations, w \in Calls \X Int, NEW r \in Ids, NEW t,
         mgr.pendingAllocations[w].request = r, mgr.pendingAllocations[w].tokens = t,
         mgr' = Commit(mgr, w), OnlyRequest(r),
         registryRequest(r)' = [registryRequest(r) EXCEPT !.computed = t]
  PROVE  RegistryStep
  <1>1. R!CommitWork(Executor, w)
    BY SameCommit DEF R!CommitWork, OnlyRequest
  <1>2. R!RequestNext
    BY <1>1 DEF R!RequestNext
  <1> QED BY <1>2 DEF RegistryStep, R!Next

(* Rollback.                                                                *)
LEMMA StepRollback ==
  ASSUME NEW w \in DOMAIN mgr.pendingAllocations, w \in Calls \X Int,
         mgr' = Rollback(mgr, w), \A x \in Ids : registryRequest(x)' = registryRequest(x)
  PROVE  RegistryStep
  <1>1. R!RollbackWork(Executor, w)
    BY SameRollback DEF R!RollbackWork
  <1>2. R!RequestNext
    BY <1>1 DEF R!RequestNext
  <1> QED BY <1>2 DEF RegistryStep, R!Next

(* FreeRequest.                                                             *)
LEMMA StepFree ==
  ASSUME NEW r \in Ids, registryRequest(r).live, registryRequest(r).executor = Executor, OnlyRequest(r),
         mgr' = FreeRequest(mgr, r), registryRequest(r)' = R!noRequest
  PROVE  RegistryStep
  <1>1. R!FreeRequestOf(r)
    BY SameFreeRequest DEF R!FreeRequestOf, OnlyRequest
  <1>2. R!RequestNext
    BY <1>1 DEF R!RequestNext
  <1> QED BY <1>2 DEF RegistryStep, R!Next

(* Nothing that concerns the manager.                                       *)
LEMMA StepStill ==
  ASSUME mgr' = mgr, \A x \in Ids : registryRequest(x)' = registryRequest(x)
  PROVE  RegistryStep
  BY DEF RegistryStep, R!vars

(* AllocateBlocks, for the next work of a request that has none.            *)
LEMMA StepAllocate ==
  ASSUME NEW r \in Ids, NEW w \in Calls \X Int, NEW tokens \in R!nextTokens(r),
         registryRequest(r).live, registryRequest(r).executor = Executor,
         \A x \in DOMAIN mgr.pendingAllocations : x # w /\ mgr.pendingAllocations[x].request # r,
         mgr' = AllocateBlocks(mgr, R!workItem(w, r, tokens)),
         \A x \in Ids : registryRequest(x)' = registryRequest(x)
  PROVE  RegistryStep
  <1>1. w \notin R!pendingWorks
    BY DEF R!pendingWorks
  <1>2. R!worksOf(mgr, r) = {}
    BY DEF R!worksOf
  <1>3. R!AllocateBlocksFor(r, w, tokens)
    BY <1>1, <1>2, SameAllocateBlocks DEF R!AllocateBlocksFor
  <1>4. R!RequestNext
    BY <1>3 DEF R!RequestNext
  <1> QED BY <1>4 DEF RegistryStep, R!Next
-----------------------------------------------------------------------------
(* What the registry knows of a request *)

(* The consumer still has steps to do for the event of r.                   *)
Publishes(r) == cons.pc \in {"publish", "send", "enqueue", "trySchedule", "free"} /\ eventRequest = r

Live(r) == exists(r) /\ (requests[r].phase = Running \/ Publishes(r))

(* A request that is live, and one that is not.                             *)
LEMMA View ==
  ASSUME NEW r \in Ids
  PROVE  /\ Live(r) => registryRequest(r) =
              [ live |-> TRUE, executor |-> Executor, prompt |-> Prompt[requests[r].call],
                cache |-> requests[r].cache,
                computed |-> IF committing(r)
                             THEN kvTokens(advanced(requests[r], cons.event[1],
                                           promptTokens(requests[r].call), MaxTokens[requests[r].call]))
                             ELSE kvTokens(requests[r]) ]
         /\ ~Live(r) => registryRequest(r) = R!noRequest
  BY DEF registryRequest, Live, Publishes, R!noRequest

(* The same after a step.                                                   *)
LEMMA ViewNext ==
  ASSUME NEW r \in Ids
  PROVE  /\ Live(r)' => registryRequest(r)' =
              [ live |-> TRUE, executor |-> Executor, prompt |-> Prompt[requests'[r].call],
                cache |-> requests'[r].cache,
                computed |-> IF committing(r)'
                             THEN kvTokens(advanced(requests'[r], cons'.event[1],
                                           promptTokens(requests'[r].call), MaxTokens[requests'[r].call]))
                             ELSE kvTokens(requests'[r]) ]
         /\ ~Live(r)' => registryRequest(r)' = R!noRequest
  BY DEF registryRequest, Live, Publishes, R!noRequest, kvTokens, exists, promptTokens

(* A request that the step leaves as it is.                                 *)
LEMMA SameView ==
  ASSUME NEW r \in Ids, Live(r)' <=> Live(r),
         Live(r) => requests'[r] = requests[r],
         \/ UNCHANGED cons
         \/ ~committing(r) /\ ~committing(r)'
  PROVE  registryRequest(r)' = registryRequest(r)
  <1>1. CASE ~Live(r)
    BY <1>1, View, ViewNext
  <1>2. CASE Live(r)
    <2>1. committing(r)' <=> committing(r)
      BY DEF committing, eventRequest
    <2>2. cons' = cons \/ ~committing(r)
      OBVIOUS
    <2> QED BY <1>2, <2>1, <2>2, View, ViewNext
  <1> QED BY <1>1, <1>2

(* A step that changes no request, and for the consumer no more than which  *)
(* of its steps is next.                                                    *)
LEMMA SameViews ==
  ASSUME UNCHANGED requests,
         \/ UNCHANGED cons
         \/ \A r \in Ids : /\ exists(r) /\ requests[r].phase # Running => (Publishes(r)' <=> Publishes(r))
                           /\ ~committing(r) /\ ~committing(r)'
  PROVE  \A r \in Ids : registryRequest(r)' = registryRequest(r)
  <1> SUFFICES ASSUME NEW r \in Ids PROVE registryRequest(r)' = registryRequest(r)
    OBVIOUS
  <1>1. exists(r)' <=> exists(r)
    BY DEF exists
  <1>2. CASE UNCHANGED cons
    <2>1. Live(r)' <=> Live(r)
      BY <1>1, <1>2 DEF Live, Publishes, eventRequest
    <2> QED BY <1>2, <2>1, SameView
  <1>3. CASE /\ exists(r) /\ requests[r].phase # Running => (Publishes(r)' <=> Publishes(r))
             /\ ~committing(r) /\ ~committing(r)'
    <2>1. Live(r)' <=> Live(r)
      BY <1>1, <1>3 DEF Live
    <2> QED BY <1>3, <2>1, SameView
  <1> QED BY <1>2, <1>3

-----------------------------------------------------------------------------
(* The end of a request *)

(* FreeRequest of a request without table and works changes nothing.        *)
LEMMA FreesNothing ==
  ASSUME NEW m, ManagerGood(m), NEW r, r \notin DOMAIN m.requestBlocks,
         \A w \in DOMAIN m.pendingAllocations : m.pendingAllocations[w].request # r
  PROVE  FreeRequest(m, r) = m
  <1>1. /\ m.refCount \in [BlockIds -> Nat] /\ Blocks(m) = BlockIds /\ m.free \in Seq(BlockIds)
        /\ m.requestBlocks \in [DOMAIN m.requestBlocks -> Seq(BlockIds)]
        /\ \E S : m.pendingAllocations \in [DOMAIN m.pendingAllocations -> S]
    BY R!GoodFields, RegistryConstants, Sizes DEF ManagerGood, Blocks
  <1>2. m = [ blockSize |-> m.blockSize, refCount |-> m.refCount, tokenCount |-> m.tokenCount,
              hash |-> m.hash, cached |-> m.cached, free |-> m.free,
              requestBlocks |-> m.requestBlocks, cachedBlocks |-> m.cachedBlocks,
              pendingAllocations |-> m.pendingAllocations ]
    <2>1. R!ManagerOK(Executor, m)
      BY DEF ManagerGood, R!Good
    <2> QED BY <2>1 DEF R!ManagerOK
  <1>3. \A b : Count(<< >>, b) = 0
    <2> TAKE b
    <2>1. {i \in DOMAIN << >> : << >>[i] = b} = {}
      OBVIOUS
    <2> QED BY <2>1, FS_EmptySet DEF Count
  <1>4. Pick(<< >>, lastReference(m, << >>)) = << >>
    <2>1. lastReference(m, << >>) = {}
      BY DEF lastReference
    <2>2. \A s : [k \in 1..Cardinality({}) |-> s[Nth({}, k)]] = << >>
      BY FS_EmptySet
    <2> QED BY <2>1, <2>2 DEF Pick
  <1>5. [b \in Blocks(m) |-> IF Count(<< >>, b) >= m.refCount[b] THEN 0
                             ELSE m.refCount[b] - Count(<< >>, b)] = m.refCount
    <2>1. \A b \in BlockIds : m.refCount[b] \in Nat
      BY <1>1
    <2>2. \A n \in Nat : (IF 0 >= n THEN 0 ELSE n - 0) = n
      OBVIOUS
    <2>3. \A b \in BlockIds : (IF Count(<< >>, b) >= m.refCount[b] THEN 0
                               ELSE m.refCount[b] - Count(<< >>, b)) = m.refCount[b]
      BY <1>3, <2>1, <2>2
    <2> QED BY <1>1, <2>3
  <1>6. m.free \o << >> = m.free
    BY <1>1
  <1>7. pushFree(m, << >>) = m
    <2>1. pushFree(m, << >>) = [m EXCEPT !.refCount = m.refCount, !.free = m.free]
      BY <1>4, <1>5, <1>6 DEF pushFree
    <2> QED BY <1>2, <2>1
  <1>8. Lookup(m.requestBlocks, r) = << >>
    BY DEF Lookup
  <1>9. Without(m.requestBlocks, {r}) = m.requestBlocks
    <2>1. DOMAIN m.requestBlocks \ {r} = DOMAIN m.requestBlocks
      OBVIOUS
    <2> QED BY <1>1, <2>1 DEF Without, Restrict
  <1>10. Without(m.pendingAllocations, worksOf(m, r)) = m.pendingAllocations
    <2>1. worksOf(m, r) = {}
      BY DEF worksOf
    <2> QED BY <1>1, <2>1 DEF Without, Restrict
  <1>11. FreeRequest(m, r) = [m EXCEPT !.requestBlocks = m.requestBlocks,
                                       !.pendingAllocations = m.pendingAllocations]
    BY <1>7, <1>8, <1>9, <1>10 DEF FreeRequest
  <1> QED BY <1>2, <1>11

(* Tables and works are of requests that are live.                          *)
LEMMA DeadHasNone ==
  ASSUME R!Held, NEW r \in Ids, ~Live(r)
  PROVE  /\ r \notin DOMAIN mgr.requestBlocks
         /\ \A w \in DOMAIN mgr.pendingAllocations : mgr.pendingAllocations[w].request # r
  <1>1. ~registryRequest(r).live
    BY View DEF R!noRequest
  <1>2. [x \in Ids |-> registryRequest(x)][r] = registryRequest(r)
    OBVIOUS
  <1>3. ~[x \in Ids |-> registryRequest(x)][r].live
    BY <1>1, <1>2
  <1>4. [e \in {Executor} |-> mgr][Executor] = mgr
    OBVIOUS
  <1>5. r \notin DOMAIN mgr.requestBlocks
    BY <1>3, <1>4 DEF R!Held, R!TablesOfLive
  <1>6. \A w \in DOMAIN [e \in {Executor} |-> mgr][Executor].pendingAllocations :
          [e \in {Executor} |-> mgr][Executor].pendingAllocations[w].request # r
    BY <1>3, R!NoWorkOfDead, RegistryConstants
  <1> QED BY <1>4, <1>5, <1>6

(* FreeRequest of a request that is not live any more.                      *)
LEMMA StepFrees ==
  ASSUME Serving, R!Held, NEW r \in Ids, mgr' = FreeRequest(mgr, r), ~Live(r)', OnlyRequest(r)
  PROVE  RegistryStep
  <1>1. registryRequest(r)' = R!noRequest
    BY ViewNext
  <1>2. CASE Live(r)
    <2>1. registryRequest(r).live /\ registryRequest(r).executor = Executor
      BY <1>2, View
    <2> QED BY <1>1, <2>1, StepFree
  <1>3. CASE ~Live(r)
    <2>1. registryRequest(r) = R!noRequest
      BY <1>3, View
    <2>2. \A x \in Ids : registryRequest(x)' = registryRequest(x)
      BY <1>1, <2>1 DEF OnlyRequest
    <2>3. mgr' = mgr
      BY <1>3, DeadHasNone, FreesNothing DEF Serving, Typed
    <2> QED BY <2>2, <2>3, StepStill
  <1> QED BY <1>2, <1>3

(* Every step that deletes a request.                                       *)
LEMMA StepDelete ==
  ASSUME Serving, R!Held, NEW r \in DOMAIN requests, deleteRequest(r),
         \/ UNCHANGED cons
         \/ cons.pc = "enqueue" /\ eventRequest = r /\ cons'.pc = "fail"
  PROVE  RegistryStep
  <1>1. r \in Ids
    BY Fields DEF Serving
  <1>2. /\ DOMAIN requests' = DOMAIN requests \ {r}
        /\ \A x \in DOMAIN requests' : requests'[x] = requests[x]
    BY DEF deleteRequest, Without, Restrict
  <1>3. ~Live(r)'
    BY <1>2 DEF Live, exists
  <1>4. ASSUME NEW x \in Ids, x # r PROVE registryRequest(x)' = registryRequest(x)
    <2>1. exists(x)' <=> exists(x)
      BY <1>2, <1>4 DEF exists
    <2>2. exists(x) => requests'[x] = requests[x]
      BY <1>2, <1>4 DEF exists
    <2>3. Publishes(x)' <=> Publishes(x)
      BY <1>4 DEF Publishes, eventRequest
    <2>4. Live(x)' <=> Live(x)
      BY <2>1, <2>2, <2>3 DEF Live
    <2>5. UNCHANGED cons \/ (~committing(x) /\ ~committing(x)')
      BY DEF committing
    <2>6. Live(x) => requests'[x] = requests[x]
      BY <2>2 DEF Live
    <2> QED BY <2>4, <2>5, <2>6, SameView
  <1>5. mgr' = FreeRequest(mgr, r)
    BY DEF deleteRequest
  <1> QED BY <1>1, <1>3, <1>4, <1>5, StepFrees DEF OnlyRequest

-----------------------------------------------------------------------------
(* The handlers *)

(* Create: the new request is live, with the tokens of its prefix match.    *)
LEMMA CreateRefines ==
  ASSUME Serving, Closing, NEW c \in Calls, Create(c)
  PROVE  RegistryStep
  <1>1. PICK r \in Ids : r = RequestId[c]
    BY Prompts
  <1>2. UNCHANGED cons
    BY DEF Create
  <1>3. CASE exists(r)
    <2>1. UNCHANGED <<requests, mgr>>
      BY <1>1, <1>3 DEF Create
    <2> QED BY <1>2, <2>1, SameViews, StepStill
  <1>4. CASE ~exists(r)
    <2>1. PICK ids : ids = matchedBlocks(mgr, Prompt[c])
      OBVIOUS
    <2>2. PICK q : q = [ call |-> c, phase |-> Running, generated |-> 0,
                         computed |-> Len(ids) * BlockSize, cache |-> ids ]
      OBVIOUS
    <2>3. requests' = Put(requests, r, q) /\ mgr' = MatchPrefix(mgr, r, Prompt[c])
      BY <1>1, <1>4, <2>1, <2>2 DEF Create
    <2>4. /\ DOMAIN requests' = DOMAIN requests \cup {r} /\ requests'[r] = q
          /\ \A x \in DOMAIN requests : x # r => requests'[x] = requests[x]
      BY <2>3 DEF Put
    <2>5. ~committing(r)
      BY <1>4, EventInHand DEF committing
    <2>6. ~committing(r)'
      BY <1>2, <2>5 DEF committing, eventRequest
    <2>7. Live(r)' /\ ~Live(r)
      BY <1>4, <2>2, <2>4 DEF Live, exists
    <2>8. kvTokens(q)' = Len(ids) * BlockSize
      BY <2>2 DEF kvTokens
    <2>9. registryRequest(r)' = [ live |-> TRUE, executor |-> Executor, prompt |-> Prompt[c],
                                  cache |-> ids, computed |-> Len(ids) * BlockSize ]
      <3>1. kvTokens(requests'[r]) = Len(ids) * BlockSize
        BY <2>2, <2>4 DEF kvTokens
      <3>2. requests'[r].call = c /\ requests'[r].cache = ids
        BY <2>2, <2>4
      <3> QED BY <2>6, <2>7, <3>1, <3>2, ViewNext
    <2>10. ~registryRequest(r).live
      BY <2>7, View DEF R!noRequest
    <2>11. OnlyRequest(r)
      <3> SUFFICES ASSUME NEW x \in Ids, x # r PROVE registryRequest(x)' = registryRequest(x)
        BY DEF OnlyRequest
      <3>1. exists(x)' <=> exists(x)
        BY <2>4 DEF exists
      <3>2. exists(x) => requests'[x] = requests[x]
        BY <2>4 DEF exists
      <3>3. Live(x)' <=> Live(x)
        BY <1>2, <3>1, <3>2 DEF Live, Publishes, eventRequest
      <3>4. Live(x) => requests'[x] = requests[x]
        BY <3>2 DEF Live
      <3> QED BY <1>2, <3>3, <3>4, SameView
    <2> QED BY <2>1, <2>3, <2>9, <2>10, <2>11, StepMatch
  <1> QED BY <1>3, <1>4

(* Every step of a handler, a client or the clock.                          *)
LEMMA HandlerRefines ==
  ASSUME Serving, Closing, R!Held, NEW c \in Calls,
         HandlerNext(c) \/ ClientReads(c) \/ ClientLeaves(c) \/ Expire(c)
  PROVE  RegistryStep
  <1>1. ASSUME UNCHANGED <<requests, mgr, cons>> PROVE RegistryStep
    BY <1>1, SameViews, StepStill
  <1>2. CASE Create(c)
    BY <1>2, CreateRefines
  <1>3. CASE \/ Subscribe(c) \/ TrySchedule(c) \/ Receive(c) \/ Emit(c)
             \/ ClientReads(c) \/ ClientLeaves(c) \/ Expire(c)
    <2>1. CASE Subscribe(c)
      BY <1>1, <2>1 DEF Subscribe
    <2>2. CASE Receive(c)
      BY <1>1, <2>2 DEF Receive
    <2>3. CASE Emit(c)
      BY <1>1, <2>3 DEF Emit
    <2>4. CASE ClientReads(c)
      BY <1>1, <2>4 DEF ClientReads
    <2>5. CASE ClientLeaves(c)
      BY <1>1, <2>5 DEF ClientLeaves
    <2>6. CASE Expire(c)
      BY <1>1, <2>6 DEF Expire
    <2>7. CASE TrySchedule(c)
      BY <1>1, <2>7 DEF TrySchedule
    <2> QED BY <1>3, <2>1, <2>2, <2>3, <2>4, <2>5, <2>6, <2>7
  <1>4. CASE EnqueueFirst(c)
    <2>1. PICK r : r = handler[c].item[1].request
      OBVIOUS
    <2>2. UNCHANGED cons /\ (UNCHANGED <<requests, mgr>> \/ (exists(r) /\ deleteRequest(r)))
      BY <1>4, <2>1 DEF EnqueueFirst
    <2>3. CASE exists(r) /\ deleteRequest(r)
      <3>1. r \in DOMAIN requests
        BY <2>3 DEF exists
      <3> QED BY <2>2, <2>3, <3>1, StepDelete
    <2> QED BY <1>1, <2>2, <2>3
  <1>5. CASE FinishCall(c)
    <2>1. PICK r : r = RequestId[c]
      OBVIOUS
    <2>2. UNCHANGED cons /\ (UNCHANGED <<requests, mgr>> \/ (exists(r) /\ deleteRequest(r)))
      BY <1>5, <2>1 DEF FinishCall, Finish
    <2>3. CASE exists(r) /\ deleteRequest(r)
      <3>1. r \in DOMAIN requests
        BY <2>3 DEF exists
      <3> QED BY <2>2, <2>3, <3>1, StepDelete
    <2> QED BY <1>1, <2>2, <2>3
  <1>6. CASE CancelCall(c)
    BY <1>6 DEF CancelCall, Closing, NobodyLeft
  <1> QED BY <1>2, <1>3, <1>4, <1>5, <1>6 DEF HandlerNext

-----------------------------------------------------------------------------
(* The batch loop *)

(* The bound on decode steps is beyond every MaxTokens.                     *)
LEMMA Decodes == DecodeBound \in Nat /\ \A c \in Calls : MaxTokens[c] < DecodeBound
  <1>1. PICK c \in Calls : \A d \in Calls : MaxTokens[d] <= MaxTokens[c]
    BY EngineAssumption
  <1>2. MaxTokens[c] \in Nat /\ \A d \in Calls : MaxTokens[d] \in Nat
    BY EngineAssumption
  <1>3. \E n \in Nat : \A d \in Calls : MaxTokens[d] <= n
    BY <1>1, <1>2
  <1>4. PICK n \in Nat : (\A d \in Calls : MaxTokens[d] <= n) /\ DecodeBound = n + 1
    BY <1>3 DEF DecodeBound
  <1> QED BY <1>2, <1>4

(* A held work is the next one of a request that is live.                   *)
LEMMA HeldNext ==
  ASSUME Serving, Closing, Advancing, DistinctIds, sched.held # << >>,
         NEW v \in Work, WorkSound(v), v.request = Head(sched.held).request
  PROVE  LET r == v.request
             q == requests[r]
             n == promptTokens(v.call)
         IN  /\ r \in Ids /\ q.call = v.call /\ q.cache = v.cache
             /\ registryRequest(r) = [ live |-> TRUE, executor |-> Executor, prompt |-> Prompt[v.call],
                                       cache |-> v.cache, computed |-> kvTokens(q) ]
             /\ v.phase = Prefill =>
                  kvTokens(q) < n /\ requiredKVTokens(v) \in (kvTokens(q) + 1)..n
             /\ v.phase = Decode =>
                  /\ ~(kvTokens(q) < n) /\ requiredKVTokens(v) = kvTokens(q) + 1
                  /\ requiredKVTokens(v) <= n + DecodeBound
  <1>1. PICK r \in Ids : r = v.request
    BY DEF Work
  <1>2. PICK a : a = <<"held", 0>>
    OBVIOUS
  <1>3. a \in Places /\ 1 \in DOMAIN Lines[a] /\ Lines[a][1] = r
    <2>1. sched.held \in Seq(Work)
      BY Fields DEF Serving
    <2>2. Lines[a] = idsOf(sched.held)
      BY <1>2, LineAt DEF LinesAre
    <2>3. 1 \in DOMAIN sched.held /\ sched.held[1] = Head(sched.held)
      BY <2>1
    <2> QED BY <1>1, <1>2, <2>2, <2>3, PlaceNames DEF idsOf
  <1>4. exists(r)
    <2>1. Occurs(Lines, r)
      BY <1>3 DEF Occurs
    <2> QED BY <2>1 DEF Closing, TicketLives
  <1>5. PICK q \in Request : q = requests[r]
    BY <1>4, Fields DEF exists, Serving
  <1>6. q.call = v.call /\ q.phase = Running /\ q.generated = v.generated /\ q.cache = v.cache
    <2>1. r \in DOMAIN requests
      BY <1>4 DEF exists
    <2>2. RequestId[v.call] = r /\ v.call \in Calls
      BY <1>1 DEF WorkSound, Work
    <2>3. q.call = v.call
      BY <1>5, <2>1, <2>2, CallOf
    <2> QED BY <1>1, <1>4, <1>5, <2>3 DEF WorkSound
  <1>7. ~committing(r)
    <2> SUFFICES ASSUME committing(r) PROVE FALSE
      OBVIOUS
    <2>1. cons.pc = "onEvent" /\ eventRequest = r
      BY DEF committing
    <2>2. cons.event = <<cons.event[1]>>
      BY <2>1, EventInHand
    <2>3. Lines[<<"event", 0>>] = idsOf(cons.event)
      BY <2>1, LineAt DEF LinesAre
    <2>4. 1 \in DOMAIN cons.event /\ cons.event[1].request = r
      BY <2>1, <2>2 DEF eventRequest
    <2>5. 1 \in DOMAIN Lines[<<"event", 0>>] /\ Lines[<<"event", 0>>][1] = r
      BY <2>3, <2>4 DEF idsOf
    <2> QED BY <1>2, <1>3, <2>5, PlaceNames DEF Serving, OneTicket, Once
  <1>8. registryRequest(r) = [ live |-> TRUE, executor |-> Executor, prompt |-> Prompt[v.call],
                               cache |-> v.cache, computed |-> kvTokens(q) ]
    <2>1. Live(r)
      BY <1>4, <1>5, <1>6 DEF Live
    <2> QED BY <1>5, <1>6, <1>7, <2>1, View
  <1>9. PICK n \in Nat : n = promptTokens(v.call)
    BY Prompts DEF Work
  <1>10. PICK k : k = kvTokens(q)
    OBVIOUS
  <1>11. k = IF q.generated = 0 THEN q.computed ELSE n + q.generated - 1
    BY <1>6, <1>9, <1>10 DEF kvTokens
  <1>12. q.generated \in Nat /\ q.computed \in Nat /\ v.offset \in Nat /\ v.new \in Nat /\ v.total \in Nat
    BY DEF Request, Work
  <1>13. v.phase = Prefill => k < n /\ requiredKVTokens(v) \in (k + 1)..n
    <2> SUFFICES ASSUME v.phase = Prefill PROVE k < n /\ requiredKVTokens(v) \in (k + 1)..n
      OBVIOUS
    <2>1. v.total = n /\ v.generated = 0 /\ v.new >= 1 /\ v.offset + v.new <= v.total /\ q.computed = v.offset
      BY <1>1, <1>4, <1>5, <1>9 DEF WorkSound
    <2>2. requiredKVTokens(v) = v.offset + v.new
      BY DEF requiredKVTokens
    <2> QED BY <1>6, <1>11, <1>12, <2>1, <2>2
  <1>14. v.phase = Decode => ~(k < n) /\ requiredKVTokens(v) = k + 1 /\ requiredKVTokens(v) <= n + DecodeBound
    <2> SUFFICES ASSUME v.phase = Decode
                 PROVE  ~(k < n) /\ requiredKVTokens(v) = k + 1 /\ requiredKVTokens(v) <= n + DecodeBound
      OBVIOUS
    <2>1. v.total = n + v.generated /\ v.generated >= 1
      BY <1>9 DEF WorkSound
    <2>2. requiredKVTokens(v) = v.total
      BY DEF requiredKVTokens, Decode, Prefill
    <2>3. PICK g \in Nat : g = q.generated
      BY <1>12
    <2>4. PICK max \in Nat : max = MaxTokens[v.call] /\ max < DecodeBound
      BY Prompts, Decodes DEF Work
    <2>5. g <= 1 \/ g < max
      <3>1. r \in DOMAIN requests
        BY <1>4 DEF exists
      <3> QED BY <1>5, <1>6, <2>3, <2>4, <3>1 DEF Advancing
    <2>6. g >= 1 /\ k = n + g - 1 /\ requiredKVTokens(v) = n + g
      BY <1>6, <1>11, <2>1, <2>2, <2>3
    <2>7. DecodeBound \in Nat
      BY Decodes
    <2> QED BY <2>4, <2>5, <2>6, <2>7
  <1> QED BY <1>1, <1>5, <1>6, <1>8, <1>9, <1>10, <1>13, <1>14

(* AllocateBlocks for a held work.                                          *)
LEMMA AllocateRefines ==
  ASSUME Serving, Closing, Allocated, Advancing, DistinctIds, sched.held # << >>,
         NEW v \in Work, WorkSound(v), v.request = Head(sched.held).request,
         mgr' = AllocateBlocks(mgr, blockWorkOf(v)), UNCHANGED <<requests, cons>>
  PROVE  RegistryStep
  <1>1. PICK r \in Ids : r = v.request
    BY DEF Work
  <1>2. PICK k : k = kvTokens(requests[r])
    OBVIOUS
  <1>3. PICK n : n = promptTokens(v.call)
    OBVIOUS
  <1>4. PICK t : t = requiredKVTokens(v)
    OBVIOUS
  <1>5. /\ registryRequest(r) = [ live |-> TRUE, executor |-> Executor, prompt |-> Prompt[v.call],
                                  cache |-> v.cache, computed |-> k ]
        /\ v.phase = Prefill => k < n /\ t \in (k + 1)..n
        /\ v.phase = Decode => ~(k < n) /\ t = k + 1 /\ t <= n + DecodeBound
    BY <1>1, <1>2, <1>3, <1>4, HeldNext
  <1>6. v.phase \in {Prefill, Decode} /\ v.id \in Calls \X Int
    BY DEF Work
  <1>7. PICK p : p = Prompt[v.call]
    OBVIOUS
  <1>8. n = Len(p.tokens)
    BY <1>3, <1>7 DEF promptTokens
  <1>9. PICK R1 : R1 = [x \in Ids |-> registryRequest(x)]
    OBVIOUS
  <1>10. R1[r] = [ live |-> TRUE, executor |-> Executor, prompt |-> p, cache |-> v.cache, computed |-> k ]
    BY <1>5, <1>7, <1>9
  <1>11. R1[r].prompt = p /\ R1[r].computed = k /\ R1[r].executor = Executor /\ R1[r].cache = v.cache
    BY <1>10
  <1>12. t \in R!nextTokens(r)
    <2>1. R!nextTokens(r) = IF k < n THEN (k + 1)..n ELSE {i \in {k + 1} : i <= n + DecodeBound}
      BY <1>8, <1>9, <1>11 DEF R!nextTokens
    <2>2. CASE v.phase = Prefill
      BY <1>5, <2>1, <2>2
    <2>3. CASE v.phase = Decode
      BY <1>5, <2>1, <2>3
    <2> QED BY <1>6, <2>2, <2>3
  <1>13. blockWorkOf(v) = R!workItem(v.id, r, t)
    <2>1. v.phase = IF k < n THEN R!Prefill ELSE R!Decode
      BY <1>5, <1>6 DEF R!Prefill, R!Decode, Prefill, Decode
    <2>2. R!blockHashes([e \in {Executor} |-> BlockSize][Executor], p) = blockHashes(BlockSize, p)
      BY DEF R!blockHashes, blockHashes
    <2>3. R!workItem(v.id, r, t) =
            [ id |-> v.id, request |-> r, phase |-> v.phase, tokens |-> t, cache |-> v.cache,
              hashes |-> blockHashes(BlockSize, p) ]
      BY <1>8, <1>9, <1>11, <2>1, <2>2 DEF R!workItem
    <2>4. blockWorkOf(v) = [ id |-> v.id, request |-> r, phase |-> v.phase, tokens |-> t,
                             cache |-> v.cache, hashes |-> blockHashes(BlockSize, p) ]
      BY <1>1, <1>4, <1>7 DEF blockWorkOf, blockWork
    <2> QED BY <2>3, <2>4
  <1>14. \A x \in DOMAIN mgr.pendingAllocations : x # v.id /\ mgr.pendingAllocations[x].request # r
    <2>1. ~Awaited(v.id)
      BY HeldFresh
    <2>2. \A x \in DOMAIN mgr.pendingAllocations : Awaited(x)
      BY DEF Allocated
    <2>3. PICK a : a = <<"held", 0>>
      OBVIOUS
    <2>4. a \in Places \ (Flying \cup {<<"event", 0>>})
      BY <2>3, PlaceNames DEF Flying
    <2>5. 1 \in DOMAIN Lines[a] /\ Lines[a][1] = r
      <3>1. sched.held \in Seq(Work)
        BY Fields DEF Serving
      <3>2. Lines[a] = idsOf(sched.held)
        BY <2>3, LineAt DEF LinesAre
      <3>3. 1 \in DOMAIN sched.held /\ sched.held[1] = Head(sched.held)
        BY <3>1
      <3> QED BY <1>1, <3>2, <3>3 DEF idsOf
    <2>6. /\ \A x : WorkAwaits(x) => x.request # r
          /\ \A e : EventAwaits(e) => e.request # r
      BY <2>4, <2>5, OnlyHeld DEF HeldApart
    <2> QED BY <2>1, <2>2, <2>6 DEF Awaited, Allocated, AllocatedFor
  <1>15. \A x \in Ids : registryRequest(x)' = registryRequest(x)
    BY SameViews
  <1>16. registryRequest(r).live /\ registryRequest(r).executor = Executor
    BY <1>5
  <1> QED BY <1>6, <1>12, <1>13, <1>14, <1>15, <1>16, StepAllocate

(* Every step of the batch loop.                                            *)
LEMMA BatchLoopRefines ==
  ASSUME Serving, Closing, Allocated, Advancing, DistinctIds, R!Held, BatchLoopNext
  PROVE  RegistryStep
  <1>1. BatchFlow /\ UNCHANGED cons
    BY BatchLoopStep
  <1>2. ASSUME UNCHANGED <<requests, mgr>> PROVE RegistryStep
    BY <1>1, <1>2, SameViews, StepStill
  <1>3. CASE \E k \in {"decode", "small", "large"} : DropsFrom(k)
    <2>1. PICK k \in {"decode", "small", "large"} : DropsFrom(k)
      BY <1>3
    <2>2. CASE timedOut(Head(queue[k]))
      <3>1. PICK r : r = Head(queue[k]).request
        OBVIOUS
      <3>2. deleteRequest(r)
        BY <2>1, <2>2, <3>1 DEF DropsFrom
      <3>3. r \in DOMAIN requests
        BY <2>2, <3>1 DEF timedOut, exists
      <3> QED BY <1>1, <3>2, <3>3, StepDelete
    <2>3. CASE ~timedOut(Head(queue[k]))
      BY <1>2, <2>1, <2>3 DEF DropsFrom
    <2> QED BY <2>2, <2>3
  <1>4. CASE Rests \/ (\E k \in {"decode", "small", "large"} : Picks(k)) \/ Submits
    BY <1>2, <1>4 DEF Rests, Picks, Submits
  <1>5. CASE sched.held # << >> /\ \E v \in Work : Joins(v) \/ PutsBack(v)
    <2>1. PICK v \in Work : Joins(v) \/ PutsBack(v)
      BY <1>5
    <2>2. /\ WorkSound(v) /\ v.request = Head(sched.held).request
          /\ mgr' = AllocateBlocks(mgr, blockWorkOf(v)) /\ UNCHANGED requests
      BY <2>1 DEF Joins, PutsBack
    <2> QED BY <1>1, <1>5, <2>2, AllocateRefines
  <1>6. CASE Requeues
    <2>1. PICK w : w = Head(sched.batch).work
      OBVIOUS
    <2>2. mgr' = Rollback(mgr, w.id) /\ UNCHANGED requests /\ sched.batch # << >>
      BY <1>6, <2>1 DEF Requeues
    <2>3. w \in Work /\ WorkAwaits(w)
      <3>1. sched.batch \in Seq(Item)
        BY Fields DEF Serving
      <3>2. Head(sched.batch) \in Item
        BY <2>2, <3>1
      <3>3. HoldsItem(sched.batch, Head(sched.batch).work)
        BY <2>2, <3>1, HoldsTail
      <3> QED BY <2>1, <3>2, <3>3 DEF Item, WorkAwaits
    <2>4. PICK x : x = w.id
      OBVIOUS
    <2>5. x \in DOMAIN mgr.pendingAllocations /\ x \in Calls \X Int
      BY <2>3, <2>4 DEF Allocated, AllocatedFor, Work
    <2>6. \A y \in Ids : registryRequest(y)' = registryRequest(y)
      BY <1>1, <2>2, SameViews
    <2> QED BY <2>2, <2>4, <2>5, <2>6, StepRollback
  <1> QED BY <1>1, <1>3, <1>4, <1>5, <1>6 DEF BatchFlow

-----------------------------------------------------------------------------
(* The consumer of events *)

(* Setting one field of what the registry knows of a request.               *)
LEMMA ComputedSet ==
  ASSUME NEW l, NEW e, NEW p, NEW c, NEW k, NEW t
  PROVE  [[live |-> l, executor |-> e, prompt |-> p, cache |-> c, computed |-> k] EXCEPT !.computed = t] =
           [live |-> l, executor |-> e, prompt |-> p, cache |-> c, computed |-> t]
  <1>1. PICK g : g = [live |-> l, executor |-> e, prompt |-> p, cache |-> c, computed |-> k]
    OBVIOUS
  <1>2. /\ DOMAIN g = {"live", "executor", "prompt", "cache", "computed"}
        /\ g.live = l /\ g.executor = e /\ g.prompt = p /\ g.cache = c
    BY <1>1
  <1>3. PICK h : h = [g EXCEPT !.computed = t]
    OBVIOUS
  <1>4. h = [x \in {"live", "executor", "prompt", "cache", "computed"} |->
               IF x = "computed" THEN t ELSE g[x]]
    BY <1>2, <1>3
  <1>5. h.live = l /\ h.executor = e /\ h.prompt = p /\ h.cache = c /\ h.computed = t
    BY <1>2, <1>4
  <1>6. h = [live |-> l, executor |-> e, prompt |-> p, cache |-> c, computed |-> t]
    BY <1>4, <1>5
  <1> QED BY <1>1, <1>3, <1>6

(* Finalize: the request has the KV that its event stands for.              *)
LEMMA FinalizeRefines ==
  ASSUME Serving, Closing, Allocated, Finalize
  PROVE  RegistryStep
  <1>1. PICK e : e = cons.event[1]
    OBVIOUS
  <1>2. /\ cons.pc = "finalize" /\ cons.event = <<e>> /\ e \in Event /\ e.request = eventRequest
        /\ exists(e.request) /\ requests[e.request].phase = Running
    BY <1>1, EventInHand DEF Finalize
  <1>3. /\ mgr' = IF e.type = "requestFailed" THEN Rollback(mgr, e.work) ELSE Commit(mgr, e.work)
        /\ cons' = [cons EXCEPT !.pc = "onEvent"] /\ UNCHANGED requests
    BY <1>1 DEF Finalize
  <1>4. cons'.pc = "onEvent" /\ cons'.event = <<e>> /\ cons'.event[1] = e
    <2>1. "pc" \in DOMAIN cons /\ "event" \in DOMAIN cons
      BY DEF Serving, Typed, ConsTyped
    <2>2. cons'.pc = "onEvent" /\ cons'.event = cons.event
      BY <1>3, <2>1
    <2> QED BY <1>2, <2>2
  <1>5. PICK r \in Ids : r = e.request
    BY <1>2 DEF Event
  <1>6. eventRequest' = r /\ eventRequest = r
    BY <1>2, <1>4, <1>5 DEF eventRequest
  <1>7. PICK w \in Calls \X Int : w = e.work
    BY <1>2 DEF Event
  <1>8. /\ w \in DOMAIN mgr.pendingAllocations /\ mgr.pendingAllocations[w].request = r
        /\ e.type # "requestFailed" => mgr.pendingAllocations[w].tokens = kvAfter(e)
    <2>1. EventAwaits(e)
      BY <1>2, HoldsShort DEF EventAwaits
    <2> QED BY <1>5, <1>7, <2>1 DEF Allocated, AllocatedFor
  <1>9. \A x \in Ids : ~committing(x)
    BY <1>2 DEF committing
  <1>10. \A x \in Ids : Live(x)' <=> Live(x)
    BY <1>2, <1>3, <1>4 DEF Live, exists, Publishes
  <1>11. CASE e.type = "requestFailed"
    <2>1. \A x \in Ids : ~committing(x)'
      BY <1>4, <1>11 DEF committing
    <2>2. \A x \in Ids : registryRequest(x)' = registryRequest(x)
      BY <1>3, <1>9, <1>10, <2>1, SameView
    <2>3. mgr' = Rollback(mgr, w)
      BY <1>3, <1>7, <1>11
    <2> QED BY <1>8, <2>2, <2>3, StepRollback
  <1>12. CASE e.type # "requestFailed"
    <2>1. OnlyRequest(r)
      <3> SUFFICES ASSUME NEW x \in Ids, x # r PROVE registryRequest(x)' = registryRequest(x)
        BY DEF OnlyRequest
      <3>1. ~committing(x)'
        BY <1>6 DEF committing
      <3> QED BY <1>3, <1>9, <1>10, <3>1, SameView
    <2>2. committing(r)' /\ ~committing(r)
      BY <1>2, <1>4, <1>6, <1>12 DEF committing
    <2>3. Live(r) /\ Live(r)'
      BY <1>2, <1>5, <1>10 DEF Live
    <2>4. PICK t : t = kvAfter(e)
      OBVIOUS
    <2>5. PICK q : q = requests[r]
      OBVIOUS
    <2>6. t = kvTokens(advanced(q, e, promptTokens(q.call), MaxTokens[q.call]))
      BY <1>5, <2>4, <2>5 DEF kvAfter
    <2>7. registryRequest(r) = [ live |-> TRUE, executor |-> Executor, prompt |-> Prompt[q.call],
                                 cache |-> q.cache, computed |-> kvTokens(q) ]
      BY <2>2, <2>3, <2>5, View
    <2>8. registryRequest(r)' = [ live |-> TRUE, executor |-> Executor, prompt |-> Prompt[q.call],
                                  cache |-> q.cache, computed |-> t ]
      <3>1. requests'[r] = q /\ cons'.event[1] = e
        BY <1>3, <1>4, <2>5
      <3> QED BY <2>2, <2>3, <2>6, <3>1, ViewNext
    <2>9. registryRequest(r)' = [registryRequest(r) EXCEPT !.computed = t]
      <3>1. PICK g : g = registryRequest(r)
        OBVIOUS
      <3>2. PICK p : p = Prompt[q.call]
        OBVIOUS
      <3>3. PICK c : c = q.cache
        OBVIOUS
      <3>4. PICK k : k = kvTokens(q)
        OBVIOUS
      <3>5. g = [live |-> TRUE, executor |-> Executor, prompt |-> p, cache |-> c, computed |-> k]
        BY <2>7, <3>1, <3>2, <3>3, <3>4
      <3>6. [g EXCEPT !.computed = t] =
              [live |-> TRUE, executor |-> Executor, prompt |-> p, cache |-> c, computed |-> t]
        <4>1. PICK l : l = TRUE
          OBVIOUS
        <4>2. PICK x : x = Executor
          OBVIOUS
        <4>3. g = [live |-> l, executor |-> x, prompt |-> p, cache |-> c, computed |-> k]
          BY <3>5, <4>1, <4>2
        <4>4. [g EXCEPT !.computed = t] = [live |-> l, executor |-> x, prompt |-> p, cache |-> c, computed |-> t]
          BY <4>3, ComputedSet
        <4> QED BY <4>1, <4>2, <4>4
      <3> QED BY <2>8, <3>1, <3>2, <3>3, <3>6
    <2>10. mgr' = Commit(mgr, w) /\ mgr.pendingAllocations[w].tokens = t
      BY <1>3, <1>7, <1>8, <1>12, <2>4
    <2> QED BY <1>8, <2>1, <2>9, <2>10, StepCommit
  <1> QED BY <1>11, <1>12

(* What an event leaves of its request.                                     *)
LEMMA AdvancedKeeps ==
  ASSUME NEW q \in Request, NEW e \in Event, NEW n, NEW max
  PROVE  LET a == advanced(q, e, n, max) IN
         /\ a.call = q.call /\ a.cache = q.cache
         /\ e.type = "requestFailed" => a.generated = q.generated /\ a.computed = q.computed
  <1>1. DOMAIN q = {"call", "phase", "generated", "computed", "cache"} /\ e.type \in EventTypes
    BY DEF Request, Event
  <1>2. CASE e.type = "prefillChunk"
    BY <1>1, <1>2 DEF advanced
  <1>3. CASE e.type = "prefillFinished"
    BY <1>1, <1>3 DEF advanced
  <1>4. CASE e.type = "decodeChunk"
    BY <1>1, <1>4 DEF advanced
  <1>5. CASE e.type = "requestFailed"
    BY <1>1, <1>5 DEF advanced
  <1> QED BY <1>1, <1>2, <1>3, <1>4, <1>5 DEF EventTypes

(* OnEvent: the request is now what Finalize has committed.                 *)
LEMMA OnEventRefines ==
  ASSUME Serving, Closing, OnEvent
  PROVE  RegistryStep
  <1>1. PICK e : e = cons.event[1]
    OBVIOUS
  <1>2. PICK r : r = eventRequest
    OBVIOUS
  <1>3. PICK q : q = requests[r]
    OBVIOUS
  <1>4. cons.pc = "onEvent" /\ mgr' = mgr
    BY DEF OnEvent
  <1>5. e \in Event /\ r \in DOMAIN requests /\ exists(r) /\ q.phase = Running
    BY <1>1, <1>2, <1>3, <1>4, EventInHand
  <1>6. r \in Ids /\ q \in Request
    BY <1>3, <1>5, Fields DEF Serving
  <1>7. PICK a : a = advanced(q, e, promptTokens(q.call), MaxTokens[q.call])
    OBVIOUS
  <1>8. requests' = [requests EXCEPT ![r] = a] /\ cons'.pc = "publish" /\ eventRequest' = r
    <2>1. LET f == cons.event[1]
              p == requests[eventRequest]
          IN  /\ requests' = [requests EXCEPT ![eventRequest] =
                                advanced(p, f, promptTokens(p.call), MaxTokens[p.call])]
              /\ cons'.pc = "publish" /\ eventRequest' = eventRequest
      BY OnEventIs
    <2> QED BY <1>1, <1>2, <1>3, <1>7, <2>1
  <1>9. /\ DOMAIN requests' = DOMAIN requests /\ requests'[r] = a
        /\ \A x \in DOMAIN requests : x # r => requests'[x] = requests[x]
    BY <1>5, <1>8
  <1>10. ASSUME NEW x \in Ids, x # r PROVE registryRequest(x)' = registryRequest(x)
    <2>1. ~committing(x) /\ ~committing(x)'
      BY <1>2, <1>8, <1>10 DEF committing
    <2>2. Live(x)' <=> Live(x)
      BY <1>2, <1>8, <1>9, <1>10 DEF Live, Publishes, exists
    <2>3. Live(x) => requests'[x] = requests[x]
      BY <1>9, <1>10 DEF Live, exists
    <2> QED BY <2>1, <2>2, <2>3, SameView
  <1>11. registryRequest(r)' = registryRequest(r)
    <2>1. /\ a.call = q.call /\ a.cache = q.cache
          /\ e.type = "requestFailed" => a.generated = q.generated /\ a.computed = q.computed
      BY <1>5, <1>6, <1>7, AdvancedKeeps
    <2>2. Live(r) /\ Live(r)' /\ ~committing(r)'
      BY <1>3, <1>5, <1>8, <1>9 DEF Live, Publishes, exists, committing
    <2>3. committing(r) <=> e.type # "requestFailed"
      BY <1>1, <1>2, <1>4 DEF committing
    <2>4. (e.type = "requestFailed") => kvTokens(a) = kvTokens(q)
      BY <2>1 DEF kvTokens
    <2>5. PICK t : t = kvTokens(a)
      OBVIOUS
    <2>6. registryRequest(r)' = [ live |-> TRUE, executor |-> Executor, prompt |-> Prompt[q.call],
                                  cache |-> q.cache, computed |-> t ]
      <3>1. PICK b : b = requests'[r]
        OBVIOUS
      <3>2. b = a /\ b.call = q.call /\ b.cache = q.cache /\ kvTokens(b) = t
        BY <1>9, <2>1, <2>5, <3>1
      <3>3. registryRequest(r)' = [ live |-> TRUE, executor |-> Executor, prompt |-> Prompt[b.call],
                                    cache |-> b.cache, computed |-> kvTokens(b) ]
        BY <1>6, <2>2, <3>1, ViewNext
      <3> QED BY <3>2, <3>3
    <2>7. registryRequest(r) = [ live |-> TRUE, executor |-> Executor, prompt |-> Prompt[q.call],
                                 cache |-> q.cache, computed |-> t ]
      BY <1>1, <1>3, <1>6, <1>7, <2>2, <2>3, <2>4, <2>5, View
    <2> QED BY <2>6, <2>7
  <1>12. \A x \in Ids : registryRequest(x)' = registryRequest(x)
    BY <1>10, <1>11
  <1> QED BY <1>4, <1>12, StepStill

(* A step of the consumer that leaves requests and blocks alone.            *)
LEMMA ConsumerStill ==
  ASSUME UNCHANGED <<requests, mgr>>, cons.pc # "onEvent", cons'.pc # "onEvent",
         \A r \in Ids : exists(r) /\ requests[r].phase # Running => (Publishes(r)' <=> Publishes(r))
  PROVE  RegistryStep
  <1>1. \A r \in Ids : ~committing(r) /\ ~committing(r)'
    BY DEF committing
  <1> QED BY <1>1, SameViews, StepStill

(* TakeEvent, Publish, Send, TryScheduleNext and SendFailed.                *)
LEMMA MovesRefine ==
  ASSUME Serving, Closing, TakeEvent \/ Publish \/ Send \/ TryScheduleNext \/ SendFailed
  PROVE  RegistryStep
  <1>1. {"pc", "event", "next", "to"} \subseteq DOMAIN cons
    BY DEF Serving, Typed, ConsTyped
  <1>2. CASE TakeEvent
    <2>1. UNCHANGED <<requests, mgr>> /\ cons.pc = "idle" /\ cons'.pc \in {"idle", "finalize"}
      BY <1>2 DEF TakeEvent, idleCons
    <2> QED BY <2>1, ConsumerStill DEF Publishes
  <1>3. CASE Publish
    <2>1. UNCHANGED <<requests, mgr>> /\ cons.pc = "publish" /\ cons'.pc \in {"send", "enqueue"}
      BY <1>1, <1>3 DEF Publish
    <2>2. cons'.event = cons.event
      BY <1>1, <1>3 DEF Publish
    <2> QED BY <2>1, <2>2, ConsumerStill DEF Publishes, eventRequest
  <1>4. CASE Send
    <2>1. UNCHANGED <<requests, mgr>> /\ cons.pc = "send" /\ cons'.pc \in {"send", "enqueue"}
      BY <1>1, <1>4 DEF Send
    <2>2. cons'.event = cons.event
      BY <1>1, <1>4 DEF Send
    <2> QED BY <2>1, <2>2, ConsumerStill DEF Publishes, eventRequest
  <1>5. CASE SendFailed
    <2>1. UNCHANGED <<requests, mgr>> /\ cons.pc = "fail" /\ cons'.pc = "idle"
      BY <1>5 DEF SendFailed, idleCons
    <2> QED BY <2>1, ConsumerStill DEF Publishes
  <1>6. CASE TryScheduleNext
    <2>1. UNCHANGED <<requests, mgr>> /\ cons.pc = "trySchedule" /\ cons'.pc = "free"
      BY <1>1, <1>6 DEF TryScheduleNext
    <2>2. cons'.event = cons.event
      BY <1>1, <1>6 DEF TryScheduleNext
    <2> QED BY <2>1, <2>2, ConsumerStill DEF Publishes, eventRequest
  <1> QED BY <1>2, <1>3, <1>4, <1>5, <1>6

(* EnqueueNext: the next work goes on, or its request fails.                *)
LEMMA EnqueueNextRefines ==
  ASSUME Serving, Closing, R!Held, EnqueueNext
  PROVE  RegistryStep
  <1>1. cons.pc = "enqueue" /\ {"pc", "event", "next", "to"} \subseteq DOMAIN cons
    BY DEF EnqueueNext, Serving, Typed, ConsTyped
  <1>2. \/ UNCHANGED <<requests, mgr>> /\ (cons' = [cons EXCEPT !.pc = "free"]
                                           \/ cons' = [cons EXCEPT !.pc = "trySchedule", !.next = << >>])
        \/ exists(eventRequest) /\ deleteRequest(eventRequest) /\ cons'.pc = "fail"
        \/ ~exists(eventRequest) /\ cons'.pc = "idle" /\ UNCHANGED <<requests, mgr>>
    <2>1. CASE cons.next = << >>
      BY <2>1 DEF EnqueueNext
    <2>2. CASE cons.next # << >> /\ ~full(cons.next[1])
      BY <2>2 DEF EnqueueNext
    <2>3. CASE cons.next # << >> /\ full(cons.next[1]) /\ exists(eventRequest)
      <3>1. deleteRequest(eventRequest) /\ cons' = [idleCons EXCEPT !.pc = "fail", !.to = requests[eventRequest].call]
        BY <2>3 DEF EnqueueNext
      <3>2. cons'.pc = "fail"
        BY <3>1 DEF idleCons
      <3> QED BY <2>3, <3>1, <3>2
    <2>4. CASE cons.next # << >> /\ full(cons.next[1]) /\ ~exists(eventRequest)
      <3>1. cons' = idleCons /\ UNCHANGED <<requests, mgr>>
        BY <2>4 DEF EnqueueNext
      <3>2. cons'.pc = "idle"
        BY <3>1 DEF idleCons
      <3> QED BY <2>4, <3>1, <3>2
    <2> QED BY <2>1, <2>2, <2>3, <2>4
  <1>3. CASE UNCHANGED <<requests, mgr>> /\ (cons' = [cons EXCEPT !.pc = "free"]
                                             \/ cons' = [cons EXCEPT !.pc = "trySchedule", !.next = << >>])
    <2>1. cons'.pc \in {"trySchedule", "free"} /\ cons'.event = cons.event
      BY <1>1, <1>3
    <2>2. \A r : Publishes(r)' <=> Publishes(r)
      BY <1>1, <2>1 DEF Publishes, eventRequest
    <2> QED BY <1>1, <1>3, <2>1, <2>2, ConsumerStill
  <1>4. CASE exists(eventRequest) /\ deleteRequest(eventRequest) /\ cons'.pc = "fail"
    <2>1. PICK r : r = eventRequest
      OBVIOUS
    <2>2. r \in DOMAIN requests /\ deleteRequest(r)
      BY <1>4, <2>1 DEF exists
    <2> QED BY <1>1, <1>4, <2>1, <2>2, StepDelete
  <1>5. CASE ~exists(eventRequest) /\ cons'.pc = "idle" /\ UNCHANGED <<requests, mgr>>
    <2>1. \A r \in Ids : exists(r) => ~Publishes(r) /\ ~Publishes(r)'
      BY <1>5 DEF Publishes
    <2> QED BY <1>1, <1>5, <2>1, ConsumerStill
  <1> QED BY <1>2, <1>3, <1>4, <1>5

(* FreeDone: what an event that says done is about is live no more.         *)
LEMMA FreeDoneRefines ==
  ASSUME Serving, Closing, Advancing, R!Held, FreeDone
  PROVE  RegistryStep
  <1>1. PICK r : r = eventRequest
    OBVIOUS
  <1>2. cons.pc = "free" /\ cons'.pc = "idle" /\ UNCHANGED requests
    BY DEF FreeDone, idleCons
  <1>3. r \in Ids
    <2>1. Len(cons.event) = 1 /\ cons.event \in Seq(Event)
      BY <1>2, Fields DEF Serving, Shapes, ConsShape
    <2>2. cons.event[1] \in Event
      BY <2>1
    <2> QED BY <1>1, <2>2 DEF eventRequest, Event
  <1>4. \A x \in Ids : ~Publishes(x)' /\ ~committing(x) /\ ~committing(x)' /\ (x # r => ~Publishes(x))
    BY <1>1, <1>2 DEF Publishes, committing
  <1>5. CASE cons.event[1].done
    <2>1. mgr' = FreeRequest(mgr, r)
      BY <1>1, <1>5 DEF FreeDone
    <2>2. exists(r) => requests[r].phase # Running
      <3> SUFFICES ASSUME exists(r) PROVE requests[r].phase # Running
        OBVIOUS
      <3>1. RequestSound(r) /\ requests[r].call \in Calls
        BY Fields DEF Serving, Sound, RequestsSound, exists
      <3>2. PICK c \in Calls : RequestId[c] = r
        BY <3>1 DEF RequestSound
      <3>3. Over(c)
        BY <1>1, <1>2, <1>5, <3>2 DEF Closing, ConsClosing
      <3> QED BY <3>2, <3>3 DEF Over
    <2>3. ~Live(r)'
      BY <1>2, <1>3, <1>4, <2>2 DEF Live, exists
    <2>4. OnlyRequest(r)
      <3> SUFFICES ASSUME NEW x \in Ids, x # r PROVE registryRequest(x)' = registryRequest(x)
        BY DEF OnlyRequest
      <3>1. Live(x)' <=> Live(x)
        BY <1>2, <1>4 DEF Live, exists
      <3> QED BY <1>2, <1>4, <3>1, SameView
    <2> QED BY <1>3, <2>1, <2>3, <2>4, StepFrees
  <1>6. CASE ~cons.event[1].done
    <2>1. mgr' = mgr
      BY <1>6 DEF FreeDone
    <2>2. exists(r) => requests[r].phase = Running
      BY <1>1, <1>2, <1>6 DEF Advancing
    <2> QED BY <1>2, <1>4, <2>1, <2>2, ConsumerStill
  <1> QED BY <1>5, <1>6

-----------------------------------------------------------------------------
(* Every step is one of the registry.                                       *)
LEMMA NextRefines ==
  ASSUME Serving, Closing, Allocated, Advancing, DistinctIds, R!Held, [Next]_vars
  PROVE  RegistryStep
  <1>1. CASE UNCHANGED vars
    <2>1. UNCHANGED <<requests, mgr, cons>>
      BY <1>1 DEF vars
    <2> QED BY <2>1, SameViews, StepStill
  <1>2. CASE \E c \in Calls : HandlerNext(c) \/ ClientReads(c) \/ ClientLeaves(c) \/ Expire(c)
    BY <1>2, HandlerRefines
  <1>3. CASE BatchLoopNext
    BY <1>3, BatchLoopRefines
  <1>4. CASE ExecutorNext
    <2>1. UNCHANGED <<requests, mgr, cons>>
      <3>1. CASE TakeBatch
        BY <3>1 DEF TakeBatch
      <3>2. CASE Execute
        BY <3>2 DEF Execute
      <3>3. CASE ExecuteFails
        BY <3>3 DEF ExecuteFails
      <3>4. CASE Deliver
        BY <3>4 DEF Deliver
      <3> QED BY <1>4, <3>1, <3>2, <3>3, <3>4 DEF ExecutorNext
    <2> QED BY <2>1, SameViews, StepStill
  <1>5. CASE ConsumerNext
    BY <1>5, MovesRefine, FinalizeRefines, OnEventRefines, EnqueueNextRefines, FreeDoneRefines DEF ConsumerNext
  <1> QED BY <1>1, <1>2, <1>3, <1>4, <1>5 DEF Next

(* A new Engine has a new registry.                                         *)
LEMMA InitRefines == ASSUME Init PROVE R!Init
  <1>1. R!newManager(BlockSize, NumBlocks) = newManager(BlockSize, NumBlocks)
    BY DEF R!newManager, newManager, R!NoHash, NoHash, R!EmptyMap, EmptyMap
  <1>2. mgr = newManager(BlockSize, NumBlocks) /\ \A r : ~exists(r)
    BY DEF Init, EmptyMap, exists
  <1>3. \A r \in Ids : registryRequest(r) = R!noRequest
    BY <1>2, View DEF Live
  <1>4. [e \in {Executor} |-> mgr] =
          [e \in {Executor} |-> R!newManager([x \in {Executor} |-> BlockSize][e], [x \in {Executor} |-> NumBlocks][e])]
    BY <1>1, <1>2
  <1>5. [r \in Ids |-> registryRequest(r)] = [r \in Ids |-> R!noRequest]
    BY <1>3
  <1>6. [t \in {} |-> t] = [t \in {} |-> R!noTransferPlan]
    OBVIOUS
  <1>7. "none" = R!NoTransfer
    BY DEF R!NoTransfer
  <1> QED BY <1>4, <1>5, <1>6, <1>7 DEF R!Init
-----------------------------------------------------------------------------
(* What carries over from the registry *)

(* The Engine's inductive invariant, and the registry's, of an Engine that  *)
(* is undisturbed.                                                          *)
Orderly == Serving /\ Closing /\ Allocated /\ Advancing /\ R!Inv /\ R!Held

(* The initial states are orderly.                                          *)
LEMMA InitOrderly == ASSUME Init PROVE Orderly
  <1>1. R!Init
    BY InitRefines
  <1>2. R!Inv /\ R!Held
    BY <1>1, R!InitInv, R!InitHeld, RegistryConstants
  <1> QED BY <1>2, InitServing, InitClosing, InitAllocated, InitAdvancing DEF Orderly

(* Every step is one of the registry, and keeps all of it.                  *)
LEMMA NextOrderly ==
  ASSUME Orderly, DistinctIds, Undisturbed, [Next]_vars
  PROVE  RegistryStep /\ Orderly'
  <1>1. RegistryStep
    BY NextRefines DEF Orderly
  <1>2. (R!Inv)' /\ (R!Held)'
    <2>1. [R!OpenNext]_(R!vars)
      BY <1>1 DEF RegistryStep, R!OpenNext
    <2>2. (R!Inv)'
      BY <2>1, R!NextInv, RegistryConstants DEF Orderly
    <2>3. (R!Held)'
      BY <1>1, R!NextHeld, RegistryConstants DEF Orderly, RegistryStep
    <2> QED BY <2>2, <2>3
  <1>3. Serving' /\ Closing' /\ Allocated' /\ Advancing'
    BY NextServing, NextClosing, NextAllocated, NextAdvancing DEF Orderly
  <1> QED BY <1>1, <1>2, <1>3 DEF Orderly

(* The Engine implements the block registry: whatever its goroutines        *)
(* interleave, its manager sees of every request a prefix match, one work   *)
(* at a time with the tokens that come next, and one free.                  *)
THEOREM EngineImplementsRegistry == ASSUME DistinctIds, Undisturbed PROVE Spec => R!Spec
  <1>1. Init => Orderly /\ R!Init
    BY InitOrderly, InitRefines
  <1>2. Orderly /\ [Next]_vars => Orderly' /\ [R!Next]_(R!vars)
    BY NextOrderly DEF RegistryStep
  <1> QED BY <1>1, <1>2, PTL DEF Spec, R!Spec

(* The table of a request names no block twice.                             *)
LEMMA TablesInjective ==
  ASSUME R!Inv, R!Held, NEW r \in DOMAIN mgr.requestBlocks
  PROVE  /\ r \in Ids /\ Live(r)
         /\ \A i, j \in DOMAIN mgr.requestBlocks[r] :
              mgr.requestBlocks[r][i] = mgr.requestBlocks[r][j] => i = j
  <1>1. [e \in {Executor} |-> mgr][Executor] = mgr
    OBVIOUS
  <1>2. r \in Ids
    BY <1>1, R!ExecutorFacts, R!GoodFields, RegistryConstants
  <1>3. PICK Q : Q = [x \in Ids |-> registryRequest(x)]
    OBVIOUS
  <1>4. Q[r].live /\ Q[r].executor = Executor
    BY <1>1, <1>3 DEF R!Held, R!TablesOfLive
  <1>5. Live(r)
    <2>1. registryRequest(r).live
      BY <1>2, <1>3, <1>4
    <2> QED BY <1>2, <2>1, View DEF R!noRequest
  <1>6. \A i, j \in DOMAIN [e \in {Executor} |-> mgr][Executor].requestBlocks[r] :
          [e \in {Executor} |-> mgr][Executor].requestBlocks[r][i]
            = [e \in {Executor} |-> mgr][Executor].requestBlocks[r][j] => i = j
    BY <1>1, R!TablesDistinct, RegistryConstants
  <1> QED BY <1>1, <1>2, <1>5, <1>6

(* The references to a block are the tables of requests that name it.       *)
LEMMA OrderlyCounts == ASSUME Orderly PROVE RefCountIsActiveRequests
  <1>1. [e \in {Executor} |-> mgr][Executor] = mgr
    OBVIOUS
  <1>2. PICK T : T = mgr.requestBlocks
    OBVIOUS
  <1>3. DOMAIN T \subseteq DOMAIN requests
    BY <1>2, TablesInjective DEF Orderly, Live, exists
  <1>4. ASSUME NEW b \in Blocks(mgr)
        PROVE  mgr.refCount[b] = Cardinality({r \in DOMAIN T : b \in Range(T[r])})
    <2>1. PICK A : A = R!TableRefs(T, b)
      OBVIOUS
    <2>2. PICK P : P = R!PlanRefs([t \in {} |-> t], Executor, b)
      OBVIOUS
    <2>3. R!IsFiniteSet(A) /\ mgr.refCount[b] = R!Cardinality(A) + R!Cardinality(P)
      <3>1. b \in R!BlockIds(Executor)
        BY <1>4, R!GoodFields, RegistryConstants, Sizes DEF Orderly, Serving, Typed, ManagerGood, Blocks
      <3> QED BY <1>1, <1>2, <2>1, <2>2, <3>1 DEF Orderly, R!Held, R!Ownership, R!Owned
    <2>4. P = {}
      BY <2>2 DEF R!PlanRefs
    <2>5. R!Cardinality(P) = 0
      BY <2>4, SameCount, FS_EmptySet
    <2>6. PICK f : f = [x \in A |-> x[1]]
      OBVIOUS
    <2>7. \A x \in A : \E r \in DOMAIN T : \E i \in DOMAIN T[r] : x = <<r, i>> /\ T[r][i] = b
      BY <2>1 DEF R!TableRefs
    <2>8. \A r \in DOMAIN T : \A i \in DOMAIN T[r] : T[r][i] = b => <<r, i>> \in A
      BY <2>1 DEF R!TableRefs
    <2>9. \A x, y \in A : f[x] = f[y] => x = y
      <3> SUFFICES ASSUME NEW x \in A, NEW y \in A, f[x] = f[y] PROVE x = y
        OBVIOUS
      <3>1. PICK r \in DOMAIN T : \E i \in DOMAIN T[r] : x = <<r, i>> /\ T[r][i] = b
        BY <2>7
      <3>2. PICK s \in DOMAIN T : \E i \in DOMAIN T[s] : y = <<s, i>> /\ T[s][i] = b
        BY <2>7
      <3>3. r = s
        BY <2>6, <3>1, <3>2
      <3>4. \A i, j \in DOMAIN T[r] : T[r][i] = T[r][j] => i = j
        BY <1>2, TablesInjective DEF Orderly
      <3> QED BY <3>1, <3>2, <3>3, <3>4
    <2>10. R!Cardinality({f[x] : x \in A}) = R!Cardinality(A)
      <3> DEFINE B == {f[x] : x \in A}
      <3>1. IsFiniteSet(A)
        BY <2>3 DEF R!IsFiniteSet, IsFiniteSet
      <3>2. f \in Bijection(A, B)
        BY <2>6, <2>9 DEF Bijection, Injection, Surjection, IsInjective
      <3>3. ExistsBijection(A, B)
        BY <3>2 DEF ExistsBijection
      <3>4. Cardinality(A) = Cardinality(B)
        BY <3>1, <3>3, FS_Bijection
      <3> QED BY <3>4, SameCount
    <2>11. {f[x] : x \in A} = {r \in DOMAIN T : b \in Range(T[r])}
      <3>1. \A x \in A : f[x] \in DOMAIN T /\ b \in Range(T[f[x]])
        BY <2>6, <2>7 DEF Range
      <3>2. ASSUME NEW r \in DOMAIN T, b \in Range(T[r]) PROVE \E x \in A : f[x] = r
        <4>1. PICK i \in DOMAIN T[r] : T[r][i] = b
          BY <3>2 DEF Range
        <4>2. <<r, i>> \in A
          BY <2>8, <4>1
        <4> QED BY <2>6, <4>2
      <3> QED BY <3>1, <3>2
    <2>12. PICK n : n = mgr.refCount[b]
      OBVIOUS
    <2>13. n = R!Cardinality(A) + 0
      BY <2>3, <2>5, <2>12
    <2>14. R!Cardinality(A) \in Nat
      BY <2>3, SameCount, FS_CardinalityType DEF R!IsFiniteSet, IsFiniteSet
    <2>15. n = R!Cardinality(A)
      BY <2>13, <2>14
    <2> QED BY <2>10, <2>11, <2>12, <2>15, SameCount
  <1> QED BY <1>2, <1>3, <1>4 DEF RefCountIsActiveRequests

(* RefCount is the number of requests that exist and have the block in      *)
(* their table: no request that ends, is refused or fails takes a count     *)
(* with it or leaves one behind.                                            *)
THEOREM EngineRefCounts == ASSUME DistinctIds, Undisturbed PROVE Spec => []RefCountIsActiveRequests
  <1>1. Init => Orderly
    BY InitOrderly
  <1>2. Orderly /\ [Next]_vars => Orderly'
    BY NextOrderly
  <1>3. Orderly => RefCountIsActiveRequests
    BY OrderlyCounts
  <1> QED BY <1>1, <1>2, <1>3, PTL DEF Spec

-----------------------------------------------------------------------------
(***************************************************************************)
(* The text of a call, from the executor to its client.                    *)
(***************************************************************************)

(* The tokens of a text, on their way to the client *)

(* Every call may have a second token: after a prefill the code asks for    *)
(* one more token than MaxTokens when that is 1.                            *)
SecondToken == \A c \in Calls : MaxTokens[c] >= 2

isToken(e) == e.type \in {"prefillFinished", "decodeChunk"}

(* The n-th output of call c is its n-th token, or says that it failed.     *)
Numbered(o, n, c) == o.type # "requestFailed" => o.token = n /\ n <= MaxTokens[c]

(* What the client has received, what waits for it in chOut, and the event  *)
(* that the handler is about to emit.                                       *)
TakenInOrder(received, out, event, c) ==
  /\ \A i \in DOMAIN received : /\ Numbered(received[i], i, c)
                                /\ received[i].done => i = Len(received) /\ out = << >>
  /\ \A i \in DOMAIN out : Numbered(out[i], Len(received) + i, c) /\ (out[i].done => i = Len(out))
  /\ \A i \in DOMAIN event : Numbered(event[i], Len(received) + Len(out) + i, c)

(* A channel's buffer when n outputs have been taken from it: p chunks of   *)
(* the prefill, which the handler skips, and then the next tokens.          *)
WaitsInOrder(buf, p, n, c) ==
  /\ \A i \in 1..p : buf[i].type = "prefillChunk"
  /\ \A i \in (p + 1)..Len(buf) : buf[i].type # "prefillChunk" /\ Numbered(buf[i], n + i - p, c)

SomeDone(s) == \E i \in DOMAIN s : s[i].done

HandlerInOrder(c) ==
  LET h == handler[c] IN
  /\ TakenInOrder(h.received, h.out, h.event, c)
  /\ SomeDone(h.received) \/ SomeDone(h.out) => h.pc \in {"finish", "ended"}
  /\ h.pc # "emit" => h.event = << >>
  /\ h.pc = "new" => h.received = << >> /\ h.out = << >> /\ channel[c].buf = << >>

taken(c) == Len(handler[c].received) + Len(handler[c].out) + Len(handler[c].event)

(* The request whose event is published counts a token that is not sent.    *)
publishing(r) == cons.pc \in {"publish", "send"} /\ eventRequest = r
unsent(r) == IF publishing(r) /\ isToken(cons.event[1]) THEN 1 ELSE 0

(* The request of call c goes on, or its last event is about to be sent.    *)
streams(c) ==
  exists(RequestId[c]) /\ (requests[RequestId[c]].phase = Running \/ publishing(RequestId[c]))

BufferInOrder(c) ==
  LET buf == channel[c].buf IN
  \E p \in 0..Len(buf) :
    /\ WaitsInOrder(buf, p, taken(c), c)
    /\ streams(c) =>
         taken(c) + (Len(buf) - p) + unsent(RequestId[c]) = requests[RequestId[c]].generated

(* The event that is published is the next one of its text.                 *)
PublishedIsNext ==
  cons.pc \in {"publish", "send"} =>
    LET e == cons.event[1]
        q == requests[eventRequest]
    IN  /\ isToken(e) => e.token = q.generated /\ e.token <= MaxTokens[q.call]
        /\ e.type = "prefillChunk" => q.generated = 0
        /\ e.type = "requestFailed" => q.phase # Running

Streaming ==
  (\A c \in Calls : HandlerInOrder(c) /\ BufferInOrder(c)) /\ PublishedIsNext

-----------------------------------------------------------------------------
(* Sequences of outputs *)

(* An event more: the next token, a failure, or a chunk of the prefill when *)
(* no token has been sent.                                                  *)
LEMMA WaitsAppend ==
  ASSUME NEW c \in Calls, NEW b \in Seq(Event), NEW e \in Event, NEW n \in Nat, NEW p \in 0..Len(b),
         WaitsInOrder(b, p, n, c),
         e.type # "prefillChunk" => Numbered(e, n + (Len(b) - p) + 1, c),
         e.type = "prefillChunk" => p = Len(b)
  PROVE  \E q \in 0..Len(Append(b, e)) :
           /\ WaitsInOrder(Append(b, e), q, n, c)
           /\ Len(Append(b, e)) - q = (Len(b) - p) + (IF e.type = "prefillChunk" THEN 0 ELSE 1)
  <1>1. PICK m \in Nat : m = Len(b)
    OBVIOUS
  <1>2. PICK a : a = Append(b, e)
    OBVIOUS
  <1>3. /\ Len(a) = m + 1 /\ a[m + 1] = e /\ \A i \in 1..m : a[i] = b[i]
        /\ p \in Nat /\ p <= m
    BY <1>1, <1>2
  <1>4. CASE e.type = "prefillChunk"
    <2>1. p = m
      BY <1>1, <1>4
    <2>2. \A i \in 1..(m + 1) : a[i].type = "prefillChunk"
      BY <1>3, <1>4, <2>1 DEF WaitsInOrder
    <2>3. WaitsInOrder(a, m + 1, n, c)
      BY <1>3, <2>2 DEF WaitsInOrder
    <2>4. Len(a) - (m + 1) = (Len(b) - p) + 0 /\ m + 1 \in 0..Len(a)
      BY <1>1, <1>3, <2>1
    <2> QED BY <1>2, <1>4, <2>3, <2>4
  <1>5. CASE e.type # "prefillChunk"
    <2>1. \A i \in 1..p : a[i].type = "prefillChunk"
      BY <1>3 DEF WaitsInOrder
    <2>2. ASSUME NEW i \in (p + 1)..(m + 1)
          PROVE  a[i].type # "prefillChunk" /\ Numbered(a[i], n + i - p, c)
      <3>1. CASE i = m + 1
        <4>1. n + (m - p) + 1 = n + i - p
          BY <1>3, <3>1
        <4> QED BY <1>1, <1>3, <1>5, <3>1, <4>1
      <3>2. CASE i # m + 1
        <4>1. i \in (p + 1)..Len(b) /\ i \in 1..m
          BY <1>1, <1>3, <3>2
        <4> QED BY <1>3, <4>1 DEF WaitsInOrder
      <3> QED BY <3>1, <3>2
    <2>3. WaitsInOrder(a, p, n, c)
      BY <1>3, <2>1, <2>2 DEF WaitsInOrder
    <2>4. Len(a) - p = (Len(b) - p) + 1 /\ p \in 0..Len(a)
      BY <1>1, <1>3
    <2> QED BY <1>2, <1>5, <2>3, <2>4
  <1> QED BY <1>4, <1>5

(* The handler takes an event.                                              *)
LEMMA WaitsTail ==
  ASSUME NEW c \in Calls, NEW b \in Seq(Event), b # << >>, NEW n \in Nat, NEW p \in 0..Len(b),
         WaitsInOrder(b, p, n, c)
  PROVE  /\ Head(b).type = "prefillChunk" =>
              \E q \in 0..Len(Tail(b)) : WaitsInOrder(Tail(b), q, n, c) /\ Len(Tail(b)) - q = Len(b) - p
         /\ Head(b).type # "prefillChunk" =>
              /\ Numbered(Head(b), n + 1, c)
              /\ \E q \in 0..Len(Tail(b)) :
                   WaitsInOrder(Tail(b), q, n + 1, c) /\ (n + 1) + (Len(Tail(b)) - q) = n + (Len(b) - p)
  <1>1. PICK m \in Nat : m = Len(b)
    OBVIOUS
  <1>2. PICK t : t = Tail(b)
    OBVIOUS
  <1>3. PICK e : e = Head(b)
    OBVIOUS
  <1>4. /\ Len(t) = m - 1 /\ m >= 1 /\ e = b[1] /\ \A i \in 1..(m - 1) : t[i] = b[i + 1]
        /\ p \in Nat /\ p <= m
    BY <1>1, <1>2, <1>3
  <1>5. CASE e.type = "prefillChunk"
    <2>1. p >= 1
      <3>1. CASE p = 0
        <4>1. 1 \in (p + 1)..Len(b)
          BY <1>1, <1>4, <3>1
        <4> QED BY <1>4, <1>5, <4>1 DEF WaitsInOrder
      <3> QED BY <1>4, <3>1
    <2>2. ASSUME NEW i \in 1..(p - 1) PROVE t[i].type = "prefillChunk"
      <3>1. i + 1 \in 1..p /\ i \in 1..(m - 1)
        BY <1>4
      <3> QED BY <1>4, <3>1 DEF WaitsInOrder
    <2>3. ASSUME NEW i \in p..(m - 1)
          PROVE  t[i].type # "prefillChunk" /\ Numbered(t[i], n + i - (p - 1), c)
      <3>1. i + 1 \in (p + 1)..Len(b) /\ i \in 1..(m - 1) /\ n + (i + 1) - p = n + i - (p - 1)
        BY <1>1, <1>4, <2>1
      <3> QED BY <1>4, <3>1 DEF WaitsInOrder
    <2>4. (p - 1) + 1 = p /\ p - 1 \in 0..Len(t) /\ Len(t) - (p - 1) = Len(b) - p
      BY <1>1, <1>4, <2>1
    <2>5. WaitsInOrder(t, p - 1, n, c)
      BY <1>4, <2>2, <2>3, <2>4 DEF WaitsInOrder
    <2> QED BY <1>2, <1>3, <1>5, <2>4, <2>5
  <1>6. CASE e.type # "prefillChunk"
    <2>1. p = 0
      <3>1. CASE p >= 1
        <4>1. 1 \in 1..p
          BY <1>4, <3>1
        <4> QED BY <1>4, <1>6, <4>1 DEF WaitsInOrder
      <3> QED BY <1>4, <3>1
    <2>2. Numbered(e, n + 1, c)
      <3>1. 1 \in (p + 1)..Len(b) /\ n + 1 - p = n + 1
        BY <1>1, <1>4, <2>1
      <3> QED BY <1>4, <3>1 DEF WaitsInOrder
    <2>3. ASSUME NEW i \in 1..(m - 1)
          PROVE  t[i].type # "prefillChunk" /\ Numbered(t[i], (n + 1) + i - 0, c)
      <3>1. i + 1 \in (p + 1)..Len(b) /\ n + (i + 1) - p = (n + 1) + i - 0
        BY <1>1, <1>4, <2>1
      <3> QED BY <1>4, <3>1 DEF WaitsInOrder
    <2>4. WaitsInOrder(t, 0, n + 1, c)
      BY <1>4, <2>3 DEF WaitsInOrder
    <2>5. 0 \in 0..Len(t) /\ (n + 1) + (Len(t) - 0) = n + (Len(b) - p)
      BY <1>1, <1>4, <2>1
    <2> QED BY <1>2, <1>3, <1>6, <2>2, <2>4, <2>5
  <1> QED BY <1>3, <1>5, <1>6

(* Receive: the handler has the next event.                                 *)
LEMMA TakenEvent ==
  ASSUME NEW c \in Calls, NEW r \in Seq(Output), NEW o \in Seq(Output), NEW e,
         TakenInOrder(r, o, << >>, c), Numbered(e, Len(r) + Len(o) + 1, c)
  PROVE  TakenInOrder(r, o, <<e>>, c)
  <1>1. \A i \in DOMAIN <<e>> : <<e>>[i] = e /\ i = 1
    OBVIOUS
  <1>2. \A i \in DOMAIN <<e>> : Numbered(<<e>>[i], Len(r) + Len(o) + i, c)
    BY <1>1
  <1> QED BY <1>2 DEF TakenInOrder

(* Emit: the event becomes an output.                                       *)
LEMMA TakenOut ==
  ASSUME NEW c \in Calls, NEW r \in Seq(Output), NEW o \in Seq(Output), NEW e \in Event,
         TakenInOrder(r, o, <<e>>, c), ~SomeDone(r), ~SomeDone(o),
         NEW x, x = [token |-> e.token, type |-> e.type, done |-> e.done]
  PROVE  /\ TakenInOrder(r, Append(o, x), << >>, c)
         /\ SomeDone(Append(o, x)) => e.done
         /\ Len(r) + Len(Append(o, x)) = Len(r) + Len(o) + 1
  <1>1. PICK k \in Nat : k = Len(r)
    OBVIOUS
  <1>2. PICK m \in Nat : m = Len(o)
    OBVIOUS
  <1>3. PICK a : a = Append(o, x)
    OBVIOUS
  <1>4. /\ Len(a) = m + 1 /\ DOMAIN a = 1..(m + 1) /\ a[m + 1] = x /\ \A i \in 1..m : a[i] = o[i]
        /\ DOMAIN o = 1..m
    BY <1>2, <1>3
  <1>5. x.token = e.token /\ x.type = e.type /\ x.done = e.done
    OBVIOUS
  <1>6. Numbered(x, k + (m + 1), c)
    <2>1. 1 \in DOMAIN <<e>> /\ <<e>>[1] = e /\ k + m + 1 = k + (m + 1)
      OBVIOUS
    <2>2. Numbered(e, k + m + 1, c)
      BY <1>1, <1>2, <2>1 DEF TakenInOrder
    <2> QED BY <1>5, <2>1, <2>2 DEF Numbered
  <1>7. \A i \in 1..m : ~a[i].done
    BY <1>4 DEF SomeDone
  <1>8. ASSUME NEW i \in DOMAIN a PROVE Numbered(a[i], k + i, c) /\ (a[i].done => i = m + 1 /\ e.done)
    <2>1. CASE i = m + 1
      BY <1>4, <1>5, <1>6, <2>1
    <2>2. CASE i # m + 1
      <3>1. i \in 1..m /\ i \in DOMAIN o
        BY <1>4, <2>2
      <3> QED BY <1>1, <1>4, <1>7, <3>1 DEF TakenInOrder
    <2> QED BY <2>1, <2>2
  <1>9. \A i \in DOMAIN r : Numbered(r[i], i, c) /\ ~r[i].done
    BY DEF TakenInOrder, SomeDone
  <1>10. TakenInOrder(r, a, << >>, c)
    BY <1>1, <1>4, <1>8, <1>9 DEF TakenInOrder
  <1>11. SomeDone(a) => e.done
    BY <1>8 DEF SomeDone
  <1> QED BY <1>1, <1>2, <1>3, <1>4, <1>10, <1>11

(* The client reads an output.                                              *)
LEMMA TakenRead ==
  ASSUME NEW c \in Calls, NEW r \in Seq(Output), NEW o \in Seq(Output), o # << >>, NEW e \in Seq(Event),
         TakenInOrder(r, o, e, c)
  PROVE  /\ TakenInOrder(Append(r, Head(o)), Tail(o), e, c)
         /\ SomeDone(Append(r, Head(o))) \/ SomeDone(Tail(o)) => SomeDone(r) \/ SomeDone(o)
         /\ Len(Append(r, Head(o))) + Len(Tail(o)) = Len(r) + Len(o)
  <1>1. PICK k \in Nat : k = Len(r)
    OBVIOUS
  <1>2. PICK m \in Nat : m = Len(o)
    OBVIOUS
  <1>3. PICK a : a = Append(r, Head(o))
    OBVIOUS
  <1>4. PICK t : t = Tail(o)
    OBVIOUS
  <1>5. /\ m >= 1 /\ DOMAIN r = 1..k /\ DOMAIN o = 1..m
        /\ Len(a) = k + 1 /\ DOMAIN a = 1..(k + 1) /\ a[k + 1] = o[1] /\ \A i \in 1..k : a[i] = r[i]
        /\ Len(t) = m - 1 /\ DOMAIN t = 1..(m - 1) /\ \A i \in 1..(m - 1) : t[i] = o[i + 1]
    BY <1>1, <1>2, <1>3, <1>4
  <1>6. \A i \in DOMAIN r : Numbered(r[i], i, c) /\ ~r[i].done
    BY <1>5 DEF TakenInOrder
  <1>7. \A i \in DOMAIN o : Numbered(o[i], k + i, c) /\ (o[i].done => i = m)
    BY <1>1, <1>2 DEF TakenInOrder
  <1>8. ASSUME NEW i \in DOMAIN a PROVE Numbered(a[i], i, c) /\ (a[i].done => i = k + 1 /\ t = << >>)
    <2>1. CASE i = k + 1
      <3>1. 1 \in DOMAIN o /\ (m = 1 => t = << >>)
        BY <1>2, <1>4, <1>5
      <3> QED BY <1>5, <1>7, <2>1, <3>1
    <2>2. CASE i # k + 1
      <3>1. i \in 1..k
        BY <1>5, <2>2
      <3> QED BY <1>5, <1>6, <3>1
    <2> QED BY <2>1, <2>2
  <1>9. ASSUME NEW i \in DOMAIN t PROVE Numbered(t[i], (k + 1) + i, c) /\ (t[i].done => i = m - 1)
    <2>1. i \in 1..(m - 1)
      BY <1>5
    <2>2. PICK j \in Nat : j = i /\ j >= 1 /\ j <= m - 1
      BY <1>2, <2>1
    <2>4. j + 1 \in 1..m /\ (j + 1 = m => j = m - 1)
      BY <1>2, <2>2
    <2>5. k + (j + 1) = (k + 1) + j
      <3>1. \A x, y \in Nat : x + (y + 1) = (x + 1) + y
        OBVIOUS
      <3>2. k \in Nat /\ j \in Nat
        BY <1>1, <2>2
      <3> QED BY <3>1, <3>2, Zenon
    <2>3. t[j] = o[j + 1] /\ j + 1 \in DOMAIN o
      BY <1>5, <2>1, <2>2, <2>4
    <2> QED BY <1>7, <2>2, <2>3, <2>4, <2>5
  <1>10. ASSUME NEW i \in DOMAIN e PROVE Numbered(e[i], (k + 1) + (m - 1) + i, c)
    <2>1. (k + 1) + (m - 1) + i = k + m + i
      OBVIOUS
    <2> QED BY <1>1, <1>2, <2>1 DEF TakenInOrder
  <1>11. TakenInOrder(a, t, e, c)
    BY <1>5, <1>8, <1>9, <1>10 DEF TakenInOrder
  <1>12. SomeDone(a) \/ SomeDone(t) => SomeDone(o)
    <2>1. \A i \in DOMAIN t : i + 1 \in DOMAIN o /\ t[i] = o[i + 1]
      BY <1>5
    <2>2. \A i \in DOMAIN a : a[i].done => a[i] = o[1] /\ 1 \in DOMAIN o
      BY <1>5, <1>8
    <2> QED BY <2>1, <2>2 DEF SomeDone
  <1>13. Len(a) + Len(t) = k + m
    BY <1>5
  <1> QED BY <1>1, <1>2, <1>3, <1>4, <1>11, <1>12, <1>13

-----------------------------------------------------------------------------
(* Steps that leave a text alone *)

(* Nobody takes an output of call c.                                        *)
NothingTaken(c) ==
  /\ handler'[c].received = handler[c].received /\ handler'[c].out = handler[c].out
  /\ handler'[c].event = handler[c].event
  /\ handler'[c].pc # "emit" => handler[c].pc # "emit"
  /\ handler[c].pc \in {"finish", "ended"} => handler'[c].pc \in {"finish", "ended"}
  /\ handler'[c].pc = "new" => handler[c].pc = "new"

(* Nor is one sent.                                                         *)
Untouched(c) == channel'[c].buf = channel[c].buf /\ NothingTaken(c)

(* Its request has as many tokens to send as before.                        *)
SameTokens(c) ==
  streams(c)' =>
    /\ streams(c)
    /\ requests'[RequestId[c]].generated + unsent(RequestId[c]) =
         requests[RequestId[c]].generated + unsent(RequestId[c])'

(* The consumer goes on publishing what it publishes, or nothing.           *)
ConsQuiet ==
  \/ UNCHANGED cons
  \/ cons.pc \notin {"publish", "send"} /\ cons'.pc \notin {"publish", "send"}
  \/ cons.pc \in {"publish", "send"} /\ cons'.pc \in {"publish", "send"} /\ cons'.event = cons.event

(* What a handler holds.                                                    *)
LEMMA TakenCount ==
  ASSUME Typed, NEW c \in Calls
  PROVE  taken(c) \in Nat
  <1>1. handler[c].received \in Seq(Output) /\ handler[c].out \in Seq(Output) /\ handler[c].event \in Seq(Event)
    BY Fields
  <1>2. PICK k \in Nat : k = Len(handler[c].received)
    BY <1>1
  <1>3. PICK m \in Nat : m = Len(handler[c].out)
    BY <1>1
  <1>4. PICK n \in Nat : n = Len(handler[c].event)
    BY <1>1
  <1>5. k + m + n \in Nat
    OBVIOUS
  <1> QED BY <1>2, <1>3, <1>4, <1>5 DEF taken

(* The handler's part.                                                      *)
LEMMA HandlerUntouched ==
  ASSUME NEW c \in Calls, HandlerInOrder(c), NothingTaken(c),
         channel'[c].buf = channel[c].buf \/ handler'[c].pc # "new"
  PROVE  HandlerInOrder(c)' /\ taken(c)' = taken(c)
  <1>1. TakenInOrder(handler'[c].received, handler'[c].out, handler'[c].event, c)
    BY DEF HandlerInOrder, NothingTaken
  <1>2. taken(c)' = taken(c)
    BY DEF taken, NothingTaken
  <1> QED BY <1>1, <1>2 DEF HandlerInOrder, NothingTaken

(* The channel's part.                                                      *)
LEMMA BufferUntouched ==
  ASSUME Typed, Typed', NEW c \in Calls, BufferInOrder(c), channel'[c].buf = channel[c].buf,
         taken(c)' = taken(c), SameTokens(c)
  PROVE  BufferInOrder(c)'
  <1>1. taken(c)' = taken(c) /\ taken(c) \in Nat
    BY TakenCount
  <1>2. PICK r : r = RequestId[c]
    OBVIOUS
  <1>3. PICK b \in Seq(Event) : b = channel[c].buf
    BY Fields
  <1>4. PICK p \in 0..Len(b) : /\ WaitsInOrder(b, p, taken(c), c)
                               /\ streams(c) => taken(c) + (Len(b) - p) + unsent(r) = requests[r].generated
    BY <1>2, <1>3 DEF BufferInOrder
  <1>5. ASSUME streams(c)' PROVE taken(c) + (Len(b) - p) + unsent(r)' = requests'[r].generated
    <2>1. streams(c) /\ requests'[r].generated + unsent(r) = requests[r].generated + unsent(r)'
      BY <1>2, <1>5 DEF SameTokens
    <2>2. requests[r].generated \in Nat /\ requests'[r].generated \in Nat
      BY <1>2, <1>5, <2>1 DEF streams, exists, Typed, RequestsTyped, Request
    <2>3. PICK u \in Nat : u = unsent(r)
      BY DEF unsent
    <2>4. PICK v \in Nat : v = unsent(r)'
      BY DEF unsent
    <2>5. PICK n \in Nat : n = Len(b) - p
      BY <1>3, <1>4
    <2>6. PICK k \in Nat : k = taken(c)
      BY <1>1
    <2>7. PICK g \in Nat : g = requests[r].generated
      BY <2>2
    <2>8. PICK h \in Nat : h = requests'[r].generated
      BY <2>2
    <2>9. k + n + u = g /\ h + u = g + v
      BY <1>4, <2>1, <2>3, <2>4, <2>5, <2>6, <2>7, <2>8
    <2>10. k + n + v = h
      BY <2>9
    <2> QED BY <2>4, <2>5, <2>6, <2>8, <2>10
  <1>6. channel'[c].buf = b
    BY <1>3
  <1> QED BY <1>1, <1>2, <1>4, <1>5, <1>6 DEF BufferInOrder

(* Both parts.                                                              *)
LEMMA TextUntouched ==
  ASSUME Typed, Typed', NEW c \in Calls, HandlerInOrder(c), BufferInOrder(c), Untouched(c), SameTokens(c)
  PROVE  HandlerInOrder(c)' /\ BufferInOrder(c)'
  <1>1. HandlerInOrder(c)' /\ taken(c)' = taken(c)
    BY HandlerUntouched DEF Untouched
  <1> QED BY <1>1, BufferUntouched DEF Untouched

(* Requests are deleted at most.                                            *)
LEMMA TokensKept ==
  ASSUME NEW c \in Calls, Typed, Kept, ConsQuiet
  PROVE  SameTokens(c)
  <1>1. PICK r : r = RequestId[c]
    OBVIOUS
  <1>2. exists(r)' => exists(r) /\ requests'[r] = requests[r] /\ requests[r].generated \in Nat
    BY DEF Kept, exists, Typed, RequestsTyped, Request
  <1>3. /\ publishing(r)' <=> publishing(r)
        /\ publishing(r) => cons'.event = cons.event
    BY DEF ConsQuiet, publishing, eventRequest
  <1>4. unsent(r)' = unsent(r) /\ unsent(r) \in Nat
    <2>1. CASE publishing(r)
      BY <1>3, <2>1 DEF unsent
    <2>2. CASE ~publishing(r)
      BY <1>3, <2>2 DEF unsent
    <2> QED BY <2>1, <2>2
  <1>5. streams(c)' => streams(c) /\ requests'[r].generated = requests[r].generated
    BY <1>1, <1>2, <1>3 DEF streams
  <1> QED BY <1>1, <1>4, <1>5 DEF SameTokens

(* The event that is published stays the next of its text.                  *)
LEMMA StillNext ==
  ASSUME PublishedIsNext, Closing', Kept, ConsQuiet
  PROVE  PublishedIsNext'
  <1>1. ASSUME cons'.pc \in {"publish", "send"}
        PROVE  cons.pc \in {"publish", "send"} /\ cons'.event = cons.event /\ eventRequest' = eventRequest
    BY <1>1 DEF ConsQuiet, eventRequest
  <1>2. cons'.pc \in {"publish", "send"} => requests'[eventRequest'] = requests[eventRequest']
    BY DEF Closing, ConsClosing, Kept, exists
  <1> QED BY <1>1, <1>2 DEF PublishedIsNext

(* A step that deletes requests at most touches few texts.                  *)
LEMMA StreamStep ==
  ASSUME Streaming, Typed, Typed', Closing', Kept, ConsQuiet,
         \A c \in Calls : Untouched(c) \/ (HandlerInOrder(c)' /\ BufferInOrder(c)')
  PROVE  Streaming'
  <1>1. \A c \in Calls : HandlerInOrder(c)' /\ BufferInOrder(c)'
    BY TokensKept, TextUntouched DEF Streaming
  <1>2. PublishedIsNext'
    BY StillNext DEF Streaming
  <1> QED BY <1>1, <1>2 DEF Streaming

(* The last words on a channel: nothing more will be sent on it.            *)
LEMMA FailureStreams ==
  ASSUME Streaming, Typed, Typed', Closing', Kept, ConsQuiet, NEW c \in Calls, NEW id, sendFailure(c, id),
         Gone(c)', \A d \in Calls : NothingTaken(d)
  PROVE  Streaming'
  <1> DEFINE e == requestFailedEvent(c, id)
  <1>1. /\ channel'[c].buf = Append(channel[c].buf, e)
        /\ \A d \in Calls : d # c => channel'[d].buf = channel[d].buf
    BY DEF sendFailure, Typed, ChannelsTyped
  <1>2. handler'[c].pc # "new" /\ ~streams(c)'
    BY DEF Gone, streams
  <1>3. HandlerInOrder(c)' /\ taken(c)' = taken(c) /\ taken(c) \in Nat
    BY <1>2, HandlerUntouched, TakenCount DEF Streaming
  <1>4. BufferInOrder(c)'
    <2>1. PICK b \in Seq(Event) : b = channel[c].buf
      BY Fields
    <2>2. PICK p \in 0..Len(b) : WaitsInOrder(b, p, taken(c), c)
      BY <2>1 DEF Streaming, BufferInOrder
    <2>3. \A i \in 1..p : Append(b, e)[i] = b[i] /\ i \in 1..Len(b)
      BY <2>2
    <2>4. \A i \in (p + 1)..Len(Append(b, e)) : i = Len(b) + 1 \/ (i \in (p + 1)..Len(b) /\ Append(b, e)[i] = b[i])
      BY <2>2
    <2>5. Append(b, e)[Len(b) + 1] = e /\ e.type = "requestFailed"
      BY DEF requestFailedEvent
    <2>6. WaitsInOrder(Append(b, e), p, taken(c), c)
      <3>1. \A i \in 1..p : Append(b, e)[i].type = "prefillChunk"
        BY <2>2, <2>3 DEF WaitsInOrder
      <3>2. ASSUME NEW i \in (p + 1)..Len(Append(b, e))
            PROVE  Append(b, e)[i].type # "prefillChunk" /\ Numbered(Append(b, e)[i], taken(c) + i - p, c)
        BY <2>2, <2>4, <2>5 DEF WaitsInOrder, Numbered
      <3> HIDE DEF e
      <3> QED BY <3>1, <3>2 DEF WaitsInOrder
    <2>7. p \in 0..Len(Append(b, e))
      BY <2>2
    <2> HIDE DEF e
    <2> QED BY <1>1, <1>2, <1>3, <2>1, <2>6, <2>7 DEF BufferInOrder
  <1> HIDE DEF e
  <1>5. \A d \in Calls : d # c => Untouched(d)
    BY <1>1 DEF Untouched
  <1> QED BY <1>3, <1>4, <1>5, StreamStep

-----------------------------------------------------------------------------
(* The batch loop, the executor and the consumer of events *)

(* The batch loop sends only the failure of a request that timed out.       *)
LEMMA BatchLoopStreams ==
  ASSUME Streaming, Serving, Closing, Closing', BatchLoopNext
  PROVE  Streaming'
  <1>1. Typed /\ Typed' /\ Kept /\ ConsQuiet /\ UNCHANGED handler
    BY BatchLoopStep DEF Serving, Onward, ConsQuiet
  <1>2. \A d \in Calls : NothingTaken(d)
    BY <1>1 DEF NothingTaken
  <1>3. CASE UNCHANGED channel
    <2>1. \A d \in Calls : Untouched(d)
      BY <1>2, <1>3 DEF Untouched
    <2> QED BY <1>1, <2>1, StreamStep
  <1>4. CASE NotifyTimeout
    <2>1. PICK c \in Calls : c = sched.notify
      BY <1>1, <1>4 DEF NotifyTimeout, Typed, SchedTyped
    <2>2. sendFailure(c, RequestId[c]) /\ Gone(c)
      BY <1>4, <2>1 DEF NotifyTimeout, Closing, CallsClosing
    <2>3. Gone(c)'
      BY <1>1, <2>2, StaysOver
    <2> QED BY <1>1, <1>2, <2>2, <2>3, FailureStreams
  <1> QED BY <1>3, <1>4, BatchLoopStep

(* The executor sends nothing.                                              *)
LEMMA ExecutorStreams ==
  ASSUME Streaming, Serving, Serving', Closing', ExecutorNext
  PROVE  Streaming'
  <1>1. UNCHANGED <<requests, channel, handler, cons>>
    BY DEF ExecutorNext, TakeBatch, Execute, ExecuteFails, Deliver
  <1>2. Kept /\ ConsQuiet /\ \A d \in Calls : Untouched(d)
    BY <1>1 DEF Kept, ConsQuiet, Untouched, NothingTaken
  <1> QED BY <1>2, StreamStep DEF Serving

(* The consumer's steps that send nothing, but OnEvent.                     *)
LEMMA ConsumerQuiet ==
  ASSUME Streaming, Serving, Closing, Closing',
         TakeEvent \/ Finalize \/ FreeDone \/ Publish \/ EnqueueNext \/ TryScheduleNext
  PROVE  Streaming'
  <1>1. Serving' /\ Kept
    BY TakeEventStep, ConsumerStep, EnqueueNextStep DEF Onward
  <1>2. UNCHANGED <<channel, handler>>
    BY DEF TakeEvent, Finalize, FreeDone, Publish, EnqueueNext, TryScheduleNext
  <1>3. \A d \in Calls : Untouched(d)
    BY <1>2 DEF Untouched, NothingTaken
  <1>4. ConsQuiet
    <2>1. CASE TakeEvent
      BY <2>1 DEF TakeEvent, idleCons, ConsQuiet
    <2>2. CASE Finalize
      BY <2>2 DEF Finalize, Serving, Typed, ConsTyped, ConsQuiet
    <2>3. CASE FreeDone
      BY <2>3 DEF FreeDone, idleCons, ConsQuiet
    <2>4. CASE Publish
      <3>1. exists(eventRequest)
        BY <2>4 DEF Publish, Closing, ConsClosing
      <3>2. cons' = [cons EXCEPT !.pc = "send", !.to = requests[eventRequest].call] /\ cons.pc = "publish"
        BY <2>4, <3>1 DEF Publish
      <3>3. cons'.pc = "send" /\ cons'.event = cons.event
        BY <3>2 DEF Serving, Typed, ConsTyped
      <3> QED BY <3>2, <3>3 DEF ConsQuiet
    <2>5. CASE EnqueueNext
      <3>1. \/ cons' = [cons EXCEPT !.pc = "free"]
            \/ cons' = [cons EXCEPT !.pc = "trySchedule", !.next = << >>]
            \/ cons' = idleCons \/ \E c : cons' = [idleCons EXCEPT !.pc = "fail", !.to = c]
        BY <2>5 DEF EnqueueNext
      <3>2. cons'.pc \notin {"publish", "send"}
        <4>1. CASE \/ cons' = [cons EXCEPT !.pc = "free"]
                   \/ cons' = [cons EXCEPT !.pc = "trySchedule", !.next = << >>]
          BY <4>1 DEF Serving, Typed, ConsTyped
        <4>2. CASE cons' = idleCons \/ \E c : cons' = [idleCons EXCEPT !.pc = "fail", !.to = c]
          <5>1. CASE cons' = idleCons
            BY <5>1 DEF idleCons
          <5>2. CASE \E c : cons' = [idleCons EXCEPT !.pc = "fail", !.to = c]
            <6>1. PICK c : cons' = [idleCons EXCEPT !.pc = "fail", !.to = c]
              BY <5>2
            <6>2. cons'.pc = "fail"
              BY <6>1 DEF idleCons
            <6> QED BY <6>2
          <5> QED BY <4>2, <5>1, <5>2
        <4> QED BY <3>1, <4>1, <4>2
      <3> QED BY <2>5, <3>2 DEF EnqueueNext, ConsQuiet
    <2>6. CASE TryScheduleNext
      BY <2>6 DEF TryScheduleNext, Serving, Typed, ConsTyped, ConsQuiet
    <2> QED BY <2>1, <2>2, <2>3, <2>4, <2>5, <2>6
  <1> QED BY <1>1, <1>3, <1>4, StreamStep DEF Serving

(* The end of Fail.                                                         *)
LEMMA SendFailedStreams ==
  ASSUME Streaming, Serving, Closing, Closing', SendFailed
  PROVE  Streaming'
  <1>1. Serving' /\ Kept
    BY ConsumerStep DEF Onward
  <1>2. PICK c \in Calls : c = cons.to
    BY DEF SendFailed, Serving, Shapes, ConsShape
  <1>3. sendFailure(c, RequestId[c]) /\ Gone(c) /\ UNCHANGED handler
    BY <1>2 DEF SendFailed, Closing, ConsClosing
  <1>4. Gone(c)'
    BY <1>1, <1>3, StaysOver
  <1>5. ConsQuiet
    BY DEF SendFailed, idleCons, ConsQuiet
  <1>6. \A d \in Calls : NothingTaken(d)
    BY <1>3 DEF NothingTaken
  <1> QED BY <1>1, <1>3, <1>4, <1>5, <1>6, FailureStreams DEF Serving

(* Send: the next event of the text joins its channel.                      *)
LEMMA SendStreams ==
  ASSUME Streaming, Serving, Closing, DistinctIds, Send
  PROVE  Streaming'
  <1>1. Typed /\ Typed'
    BY SendStep DEF Serving
  <1>2. PICK c \in Calls : c = cons.to
    BY DEF Send, Serving, Shapes, ConsShape
  <1>3. PICK r : r = eventRequest
    OBVIOUS
  <1>4. cons.pc = "send" /\ exists(r) /\ c = requests[r].call /\ RequestId[c] = r
    <2>1. cons.pc = "send" /\ exists(r) /\ c = requests[r].call
      BY <1>2, <1>3 DEF Send, Closing, ConsClosing
    <2> QED BY <2>1, CallOf DEF exists
  <1>5. ~channel[c].closed /\ handler[c].pc # "new"
    BY <1>4 DEF Closing, CallsClosing, Gone, Serving, Sound, RequestsSound, RequestSound, exists
  <1>6. PICK e \in Event : e = cons.event[1]
    <2>1. cons.event \in Seq(Event) /\ Len(cons.event) = 1
      BY <1>1, <1>4, Fields DEF Serving, Shapes, ConsShape
    <2> QED BY <2>1
  <1>7. /\ channel' = [channel EXCEPT ![c].buf = Append(@, e)]
        /\ cons' = [cons EXCEPT !.pc = "enqueue", !.to = NoCall]
        /\ UNCHANGED <<requests, handler>>
    BY <1>2, <1>5, <1>6 DEF Send
  <1>8. PICK b \in Seq(Event) : b = channel[c].buf
    BY <1>1, Fields
  <1>9. channel'[c].buf = Append(b, e) /\ \A d \in Calls : d # c => channel'[d].buf = channel[d].buf
    BY <1>1, <1>7, <1>8 DEF Typed, ChannelsTyped
  <1>10. cons'.pc = "enqueue"
    BY <1>1, <1>7 DEF Typed, ConsTyped
  <1>11. \A d \in Calls : NothingTaken(d)
    BY <1>7 DEF NothingTaken
  <1>12. ASSUME NEW d \in Calls, d # c
         PROVE  HandlerInOrder(d)' /\ BufferInOrder(d)'
    <2>1. PICK s : s = RequestId[d]
      OBVIOUS
    <2>2. ~publishing(s) /\ ~publishing(s)'
      BY <1>3, <1>4, <1>10, <1>12, <2>1 DEF DistinctIds, publishing
    <2>3. unsent(s) = 0 /\ unsent(s)' = 0
      BY <2>2 DEF unsent
    <2>4. streams(d)' => streams(d)
      BY <1>7, <2>1, <2>2 DEF streams, exists
    <2>5. SameTokens(d)
      BY <1>7, <2>1, <2>3, <2>4 DEF SameTokens
    <2> QED BY <1>1, <1>9, <1>11, <1>12, <2>5, TextUntouched DEF Untouched, Streaming
  <1>13. HandlerInOrder(c)' /\ taken(c)' = taken(c)
    BY <1>5, <1>7, <1>11, HandlerUntouched DEF Streaming
  <1>14. BufferInOrder(c)'
    <2>1. PICK n \in Nat : n = taken(c)
      BY <1>1, TakenCount
    <2>2. PICK g \in Nat : g = requests[r].generated
      BY <1>1, <1>4 DEF exists, Typed, RequestsTyped, Request
    <2>3. publishing(r) /\ streams(c) /\ ~publishing(r)' /\ unsent(r)' = 0
      BY <1>3, <1>4, <1>10 DEF publishing, streams, unsent
    <2>4. /\ isToken(e) => e.token = g /\ e.token <= MaxTokens[c]
          /\ e.type = "prefillChunk" => g = 0
          /\ e.type = "requestFailed" => requests[r].phase # Running
      BY <1>3, <1>4, <1>6, <2>2 DEF Streaming, PublishedIsNext
    <2>5. PICK u \in Nat : u = unsent(r)
      BY DEF unsent
    <2>6. u = IF isToken(e) THEN 1 ELSE 0
      BY <1>6, <2>3, <2>5 DEF unsent
    <2>7. PICK p \in 0..Len(b) : WaitsInOrder(b, p, n, c) /\ n + (Len(b) - p) + u = g
      BY <1>4, <1>8, <2>1, <2>2, <2>3, <2>5 DEF Streaming, BufferInOrder
    <2>8. PICK k \in Nat : k = Len(b) - p
      BY <2>7
    <2>9. n + k + u = g
      BY <2>7, <2>8
    <2>10. e.type # "prefillChunk" => Numbered(e, n + k + 1, c)
      <3>1. CASE isToken(e)
        BY <2>4, <2>6, <2>9, <3>1 DEF Numbered
      <3>2. CASE e.type = "requestFailed"
        BY <3>2 DEF Numbered
      <3> QED BY <3>1, <3>2 DEF isToken, Event, EventTypes
    <2>11. e.type = "prefillChunk" => p = Len(b)
      <3>1. CASE e.type = "prefillChunk"
        <4>1. k = 0
          BY <2>4, <2>9, <3>1
        <4> QED BY <2>7, <2>8, <4>1
      <3> QED BY <3>1
    <2>12. PICK a \in Seq(Event) : a = Append(b, e)
      BY SeqTyped
    <2>13. PICK q \in 0..Len(a) :
             WaitsInOrder(a, q, n, c) /\ Len(a) - q = k + (IF e.type = "prefillChunk" THEN 0 ELSE 1)
      BY <2>7, <2>8, <2>10, <2>11, <2>12, WaitsAppend
    <2>14. streams(c)' => e.type # "requestFailed"
      BY <1>4, <1>7, <2>3, <2>4 DEF streams, exists
    <2>15. streams(c)' => n + (Len(a) - q) + 0 = g
      <3>1. CASE e.type = "prefillChunk"
        BY <2>6, <2>9, <2>13, <3>1 DEF isToken
      <3>2. CASE isToken(e)
        <4>1. e.type # "prefillChunk" /\ u = 1
          BY <2>6, <3>2 DEF isToken
        <4>2. Len(a) - q = k + 1
          BY <2>13, <4>1
        <4> QED BY <2>9, <4>1, <4>2
      <3> QED BY <2>14, <3>1, <3>2 DEF isToken, Event, EventTypes
    <2> QED BY <1>4, <1>7, <1>9, <1>13, <2>1, <2>2, <2>3, <2>12, <2>13, <2>15 DEF BufferInOrder
  <1>15. PublishedIsNext'
    BY <1>10 DEF PublishedIsNext
  <1> QED BY <1>12, <1>13, <1>14, <1>15 DEF Streaming

(* OnEvent: the event that is published says the next token.                *)
LEMMA OnEventStreams ==
  ASSUME Streaming, Serving, Serving', Closing, Advancing, DistinctIds, SecondToken, OnEvent
  PROVE  Streaming'
  <1>1. PICK r : r = eventRequest
    OBVIOUS
  <1>2. PICK e : e = cons.event[1]
    OBVIOUS
  <1>3. PICK q : q = requests[r]
    OBVIOUS
  <1>4. PICK a : a = advanced(q, e, promptTokens(q.call), MaxTokens[q.call])
    OBVIOUS
  <1>5. PICK p : p = published(q, e, MaxTokens[q.call])
    OBVIOUS
  <1>6. e \in Event /\ EventSound(e) /\ r \in DOMAIN requests /\ e.request = r /\ q.phase = Running
    BY <1>1, <1>2, <1>3, EventInHand DEF OnEvent
  <1>7. q \in Request /\ q.call \in Calls
    BY <1>3, <1>6, Fields DEF Serving
  <1>8. PICK max \in Nat : max = MaxTokens[q.call] /\ max >= 2
    BY <1>7, Prompts DEF SecondToken
  <1>9. requests' = [requests EXCEPT ![r] = a] /\ cons'.pc = "publish" /\ cons'.event = <<p>>
        /\ eventRequest' = r
    BY <1>1, <1>2, <1>3, <1>4, <1>5, OnEventIs
  <1>10. requests'[r] = a /\ DOMAIN requests' = DOMAIN requests
         /\ (\A x \in DOMAIN requests : x # r => requests'[x] = requests[x])
         /\ cons'.event[1] = p
    BY <1>6, <1>9
  <1>11. p.type = e.type /\ p.token = e.token
    BY <1>5, <1>6 DEF published, Event
  <1>12. PICK g \in Nat : g = q.generated
    BY <1>7 DEF Request
  <1>13. g <= 1 \/ g < max
    BY <1>3, <1>6, <1>8, <1>12 DEF Advancing
  <1>14. /\ e.type = "prefillChunk" => a.generated = g /\ g = 0
         /\ isToken(e) => a.generated = g + 1 /\ e.token = g + 1 /\ g + 1 <= max
         /\ e.type = "requestFailed" => a.generated = g /\ a.phase = Failed
    <2>1. /\ e.type = "prefillChunk" => g = 0
          /\ e.type = "prefillFinished" => e.output = 1 /\ e.token = 1 /\ g = 0
          /\ e.type = "decodeChunk" => e.output = 1 /\ e.token = g + 1
      BY <1>3, <1>6, <1>12 DEF EventSound, exists
    <2>2. CASE e.type = "prefillChunk"
      BY <1>4, <1>7, <1>12, <2>1, <2>2 DEF advanced, Request, isToken
    <2>3. CASE e.type = "prefillFinished"
      <3>1. a.generated = g + 1
        BY <1>4, <1>7, <1>12, <2>1, <2>3 DEF advanced, Request
      <3> QED BY <1>8, <2>1, <2>3, <3>1 DEF isToken
    <2>4. CASE e.type = "decodeChunk"
      <3>1. a.generated = g + 1
        BY <1>4, <1>7, <1>12, <2>1, <2>4 DEF advanced, Request
      <3>2. g + 1 <= max
        BY <1>8, <1>13
      <3> QED BY <2>1, <2>4, <3>1, <3>2 DEF isToken
    <2>5. CASE e.type = "requestFailed"
      BY <1>4, <1>7, <1>12, <2>5 DEF advanced, Request, isToken
    <2> QED BY <1>6, <2>2, <2>3, <2>4, <2>5 DEF Event, EventTypes
  <1>15. a.call = q.call
    BY <1>4, <1>6, <1>7 DEF advanced, Request, Event, EventTypes
  <1>16. UNCHANGED <<channel, handler>> /\ cons.pc = "onEvent"
    BY DEF OnEvent
  <1>17. ASSUME NEW d \in Calls PROVE SameTokens(d)
    <2>1. PICK s : s = RequestId[d]
      OBVIOUS
    <2>2. ~publishing(s) /\ unsent(s) = 0
      BY <1>16 DEF publishing, unsent
    <2>3. CASE s # r
      <3>1. ~publishing(s)' /\ unsent(s)' = 0
        BY <1>9, <2>3 DEF publishing, unsent
      <3>2. exists(s)' => exists(s) /\ requests'[s] = requests[s]
        BY <1>10, <2>3 DEF exists
      <3> QED BY <2>1, <2>2, <3>1, <3>2 DEF SameTokens, streams
    <2>4. CASE s = r
      <3>1. streams(d)
        BY <1>3, <1>6, <2>1, <2>4 DEF streams, exists
      <3>2. unsent(s)' = IF isToken(e) THEN 1 ELSE 0
        BY <1>9, <1>10, <1>11, <2>4 DEF publishing, unsent, isToken
      <3>3. a.generated + 0 = g + (IF isToken(e) THEN 1 ELSE 0)
        <4>1. CASE isToken(e)
          BY <1>14, <4>1
        <4>2. CASE ~isToken(e)
          <5>1. a.generated = g
            BY <1>6, <1>14, <4>2 DEF isToken, Event, EventTypes
          <5> QED BY <4>2, <5>1
        <4> QED BY <4>1, <4>2
      <3> QED BY <1>3, <1>10, <1>12, <2>1, <2>2, <2>4, <3>1, <3>2, <3>3 DEF SameTokens
    <2> QED BY <2>3, <2>4
  <1>18. \A d \in Calls : HandlerInOrder(d)' /\ BufferInOrder(d)'
    <2>1. \A d \in Calls : Untouched(d)
      BY <1>16 DEF Untouched, NothingTaken
    <2> QED BY <1>17, <2>1, TextUntouched DEF Streaming, Serving
  <1>19. PublishedIsNext'
    <2>1. isToken(p) <=> isToken(e)
      BY <1>11 DEF isToken
    <2>2. a.phase = Failed => a.phase # Running
      BY DEF Failed, Running
    <2>3. /\ isToken(p) => p.token = a.generated /\ p.token <= MaxTokens[a.call]
          /\ p.type = "prefillChunk" => a.generated = 0
          /\ p.type = "requestFailed" => a.phase # Running
      BY <1>8, <1>11, <1>14, <1>15, <2>1, <2>2
    <2> QED BY <1>9, <1>10, <2>3 DEF PublishedIsNext
  <1> QED BY <1>18, <1>19 DEF Streaming

-----------------------------------------------------------------------------
(* The handlers *)

(* A step of one handler touches one text.                                  *)
LEMMA OneHandler ==
  ASSUME Streaming, Typed, Typed', Closing', Kept, UNCHANGED cons, NEW c \in Calls,
         \A d \in Calls : d # c => handler'[d] = handler[d] /\ channel'[d].buf = channel[d].buf,
         Untouched(c) \/ (HandlerInOrder(c)' /\ BufferInOrder(c)')
  PROVE  Streaming'
  <1>1. \A d \in Calls : d # c => Untouched(d)
    BY DEF Untouched, NothingTaken
  <1>2. ConsQuiet
    BY DEF ConsQuiet
  <1> QED BY <1>1, <1>2, StreamStep

(* Subscribe, TrySchedule and Expire.                                       *)
LEMMA SubscribeStreams ==
  ASSUME Streaming, Serving, Closing', NEW c \in Calls, Subscribe(c) \/ TrySchedule(c) \/ Expire(c)
  PROVE  Streaming'
  <1>1. Typed /\ Typed' /\ Kept
    BY SubscribeStep, TryScheduleStep, ClientStep DEF Serving, Onward
  <1>2. UNCHANGED <<channel, cons>>
    BY DEF Subscribe, TrySchedule, Expire
  <1>3. /\ \A d \in Calls : d # c => handler'[d] = handler[d]
        /\ NothingTaken(c)
    <2>1. CASE Expire(c)
      BY <2>1 DEF Expire, NothingTaken
    <2>2. CASE Subscribe(c)
      <3>1. CASE exists(RequestId[c])
        BY <1>1, <2>2, <3>1 DEF Subscribe, Typed, HandlersTyped, NothingTaken
      <3>2. CASE ~exists(RequestId[c])
        BY <1>1, <2>2, <3>2 DEF Subscribe, Typed, HandlersTyped, NothingTaken
      <3> QED BY <3>1, <3>2
    <2>3. CASE TrySchedule(c)
      BY <1>1, <2>3 DEF TrySchedule, Typed, HandlersTyped, NothingTaken
    <2> QED BY <2>1, <2>2, <2>3
  <1> QED BY <1>1, <1>2, <1>3, OneHandler DEF Untouched

(* FinishCall closes the channel.                                           *)
LEMMA FinishCallStreams ==
  ASSUME Streaming, Serving, Closing', NEW c \in Calls, FinishCall(c)
  PROVE  Streaming'
  <1>1. Typed /\ Typed' /\ Kept /\ UNCHANGED cons
    BY EndCallStep DEF Serving, Onward, FinishCall
  <1>2. \A d \in Calls : channel'[d].buf = channel[d].buf
    <2>1. PICK x : x = requests[RequestId[c]].call
      OBVIOUS
    <2>2. \/ UNCHANGED channel
          \/ channel' = [channel EXCEPT ![x].closed = TRUE]
      BY <2>1 DEF FinishCall, Finish
    <2>3. CASE channel' = [channel EXCEPT ![x].closed = TRUE]
      BY <1>1, <2>3 DEF Typed, ChannelsTyped
    <2> QED BY <2>2, <2>3
  <1>3. /\ \A d \in Calls : d # c => handler'[d] = handler[d]
        /\ NothingTaken(c)
    BY <1>1 DEF FinishCall, Typed, HandlersTyped, NothingTaken
  <1> QED BY <1>1, <1>2, <1>3, OneHandler DEF Untouched

(* EnqueueFirst, and the failure of a request whose queue is full.          *)
LEMMA EnqueueFirstStreams ==
  ASSUME Streaming, Serving, Closing, Closing', DistinctIds, NEW c \in Calls, EnqueueFirst(c)
  PROVE  Streaming'
  <1> DEFINE w == handler[c].item[1]
  <1>1. Typed /\ Typed' /\ Kept /\ UNCHANGED cons /\ handler[c].pc = "enqueue"
    BY EnqueueFirstStep DEF Serving, Onward, EnqueueFirst
  <1>2. w.request = RequestId[c]
    BY <1>1, FirstWork
  <1>3. /\ \A d \in Calls : d # c => handler'[d] = handler[d]
        /\ NothingTaken(c) /\ handler'[c].pc # "new"
    <2>1. CASE full(w)
      BY <1>1, <2>1 DEF EnqueueFirst, Typed, HandlersTyped, NothingTaken
    <2>2. CASE ~full(w)
      BY <1>1, <2>2 DEF EnqueueFirst, Typed, HandlersTyped, NothingTaken
    <2> QED BY <2>1, <2>2
  <1>4. CASE full(w) /\ exists(RequestId[c])
    <2>1. /\ requests' = Without(requests, {RequestId[c]})
          /\ sendFailure(requests[RequestId[c]].call, RequestId[c])
      BY <1>2, <1>4 DEF EnqueueFirst, deleteRequest
    <2>2. requests[RequestId[c]].call = c
      BY <1>4, CallOf DEF exists
    <2>3. DOMAIN requests' = DOMAIN requests \ {RequestId[c]}
      BY <2>1 DEF Without, Restrict
    <2>4. Gone(c)' /\ sendFailure(c, RequestId[c])
      BY <1>3, <2>1, <2>2, <2>3 DEF Gone, exists
    <2>5. ConsQuiet /\ \A d \in Calls : NothingTaken(d)
      BY <1>1, <1>3 DEF ConsQuiet, NothingTaken
    <2> QED BY <1>1, <2>4, <2>5, FailureStreams
  <1>5. CASE ~(full(w) /\ exists(RequestId[c]))
    <2>1. UNCHANGED channel
      BY <1>2, <1>5 DEF EnqueueFirst
    <2> QED BY <1>1, <1>3, <2>1, OneHandler DEF Untouched
  <1> QED BY <1>4, <1>5

(* Receive: the handler takes the next event of its channel.                *)
LEMMA ReceiveStreams ==
  ASSUME Streaming, Serving, Closing, Closing', NEW c \in Calls, Receive(c)
  PROVE  Streaming'
  <1>1. Typed /\ Typed' /\ Kept /\ UNCHANGED cons /\ handler[c].pc = "streaming" /\ handler[c].from = c
    BY ReceiveStep DEF Serving, Onward, Receive, Closing, NobodyLeft
  <1>2. SameTokens(c)
    BY <1>1, TokensKept DEF ConsQuiet
  <1>3. PICK b \in Seq(Event) : b = channel[c].buf
    BY <1>1, Fields
  <1>4. HandlerInOrder(c) /\ BufferInOrder(c)
    BY DEF Streaming
  <1>5. CASE channel' = channel /\ handler' = [handler EXCEPT ![c].pc = "returned"]
    <2>1. /\ \A d \in Calls : d # c => handler'[d] = handler[d]
          /\ NothingTaken(c)
      BY <1>1, <1>5 DEF Typed, HandlersTyped, NothingTaken
    <2> QED BY <1>1, <1>5, <2>1, OneHandler DEF Untouched
  <1>6. CASE b # << >> /\ channel' = [channel EXCEPT ![c].buf = Tail(@)]
    <2>1. channel'[c].buf = Tail(b) /\ \A d \in Calls : d # c => channel'[d].buf = channel[d].buf
      BY <1>1, <1>3, <1>6 DEF Typed, ChannelsTyped
    <2>2. PICK n \in Nat : n = taken(c)
      BY <1>1, TakenCount
    <2>3. PICK r : r = RequestId[c]
      OBVIOUS
    <2>4. PICK p \in 0..Len(b) : /\ WaitsInOrder(b, p, n, c)
                                 /\ streams(c) => n + (Len(b) - p) + unsent(r) = requests[r].generated
      BY <1>3, <1>4, <2>2, <2>3 DEF BufferInOrder
    <2>5. streams(c)' => n + (Len(b) - p) + unsent(r)' = requests'[r].generated
      <3>1. CASE streams(c)'
        <4>1. /\ n + (Len(b) - p) + unsent(r) = requests[r].generated
              /\ requests'[r].generated + unsent(r) = requests[r].generated + unsent(r)'
          BY <1>2, <2>3, <2>4, <3>1 DEF SameTokens
        <4>2. requests[r].generated \in Nat /\ requests'[r].generated \in Nat
          BY <1>1, <1>2, <2>3, <3>1 DEF SameTokens, streams, exists, Typed, RequestsTyped, Request
        <4>3. PICK u \in Nat : u = unsent(r)
          BY DEF unsent
        <4>4. PICK v \in Nat : v = unsent(r)'
          BY DEF unsent
        <4>5. PICK k \in Nat : k = Len(b) - p
          BY <2>4
        <4>6. PICK g \in Nat : g = requests[r].generated
          BY <4>2
        <4>7. PICK h \in Nat : h = requests'[r].generated
          BY <4>2
        <4>8. n + k + u = g /\ h + u = g + v
          BY <4>1, <4>3, <4>4, <4>5, <4>6, <4>7
        <4>9. n + k + v = h
          BY <4>8
        <4> QED BY <4>4, <4>5, <4>7, <4>9
      <3> QED BY <3>1
    <2>6. CASE Head(b).type = "prefillChunk" /\ handler' = handler
      <3>1. HandlerInOrder(c)' /\ taken(c)' = n
        <4>1. NothingTaken(c) /\ handler'[c].pc # "new"
          BY <1>1, <2>6 DEF NothingTaken
        <4> QED BY <1>4, <2>2, <4>1, HandlerUntouched
      <3>2. PICK q \in 0..Len(Tail(b)) : WaitsInOrder(Tail(b), q, n, c) /\ Len(Tail(b)) - q = Len(b) - p
        BY <1>6, <2>4, <2>6, WaitsTail
      <3>3. BufferInOrder(c)'
        <4>1. PICK t : t = Tail(b)
          OBVIOUS
        <4>2. streams(c)' => n + (Len(t) - q) + unsent(r)' = requests'[r].generated
          BY <2>5, <3>2, <4>1
        <4> QED BY <2>1, <2>3, <3>1, <3>2, <4>1, <4>2 DEF BufferInOrder
      <3> QED BY <1>1, <2>1, <2>6, <3>1, <3>3, OneHandler
    <2>7. CASE /\ Head(b).type # "prefillChunk"
               /\ handler' = [handler EXCEPT ![c].pc = "emit", ![c].event = <<Head(b)>>]
      <3>1. PICK e : e = Head(b)
        OBVIOUS
      <3>2. /\ handler'[c].pc = "emit" /\ handler'[c].event = <<e>>
            /\ handler'[c].received = handler[c].received /\ handler'[c].out = handler[c].out
            /\ \A d \in Calls : d # c => handler'[d] = handler[d]
        BY <1>1, <2>7, <3>1 DEF Typed, HandlersTyped
      <3>3. PICK x \in Seq(Output) : x = handler[c].received
        BY <1>1, Fields
      <3>4. PICK o \in Seq(Output) : o = handler[c].out
        BY <1>1, Fields
      <3>5. handler[c].event = << >> /\ ~SomeDone(x) /\ ~SomeDone(o) /\ TakenInOrder(x, o, << >>, c)
        BY <1>1, <1>4, <3>3, <3>4 DEF HandlerInOrder
      <3>6. Len(x) + Len(o) = n
        <4>1. PICK i \in Nat : i = Len(x)
          OBVIOUS
        <4>2. PICK j \in Nat : j = Len(o)
          OBVIOUS
        <4>3. n = i + j + 0
          BY <2>2, <3>3, <3>4, <3>5, <4>1, <4>2 DEF taken
        <4> QED BY <4>1, <4>2, <4>3
      <3>7. /\ Numbered(e, n + 1, c)
            /\ \E q \in 0..Len(Tail(b)) :
                 WaitsInOrder(Tail(b), q, n + 1, c) /\ (n + 1) + (Len(Tail(b)) - q) = n + (Len(b) - p)
        BY <1>6, <2>4, <2>7, <3>1, WaitsTail
      <3>8. taken(c)' = n + 1
        BY <3>2, <3>3, <3>4, <3>6 DEF taken
      <3>9. HandlerInOrder(c)'
        <4>1. TakenInOrder(x, o, <<e>>, c)
          BY <3>5, <3>6, <3>7, TakenEvent
        <4> QED BY <3>2, <3>3, <3>4, <3>5, <4>1 DEF HandlerInOrder
      <3>10. BufferInOrder(c)'
        <4>1. PICK t : t = Tail(b)
          OBVIOUS
        <4>2. PICK q \in 0..Len(t) :
                WaitsInOrder(t, q, n + 1, c) /\ (n + 1) + (Len(t) - q) = n + (Len(b) - p)
          BY <3>7, <4>1
        <4>3. streams(c)' => (n + 1) + (Len(t) - q) + unsent(r)' = requests'[r].generated
          BY <2>5, <4>2
        <4> QED BY <2>1, <2>3, <3>8, <4>1, <4>2, <4>3 DEF BufferInOrder
      <3> QED BY <1>1, <2>1, <3>2, <3>9, <3>10, OneHandler
    <2> QED BY <1>1, <1>3, <1>6, <2>6, <2>7 DEF Receive
  <1> QED BY <1>1, <1>3, <1>5, <1>6 DEF Receive

(* Emit: the event becomes an output.                                       *)
LEMMA EmitStreams ==
  ASSUME Streaming, Serving, Closing', NEW c \in Calls, Emit(c)
  PROVE  Streaming'
  <1>1. Typed /\ Typed' /\ Kept /\ UNCHANGED <<cons, channel>> /\ handler[c].pc = "emit"
    BY EmitStep DEF Serving, Onward, Emit
  <1>2. PICK e \in Event : e = handler[c].event[1] /\ handler[c].event = <<e>>
    <2>1. handler[c].event \in Seq(Event) /\ Len(handler[c].event) = 1
      BY <1>1, Fields DEF Serving, Shapes, HandlerShape
    <2> QED BY <2>1
  <1>3. PICK r \in Seq(Output) : r = handler[c].received
    BY <1>1, Fields
  <1>4. PICK o \in Seq(Output) : o = handler[c].out
    BY <1>1, Fields
  <1>5. PICK x : x = [token |-> e.token, type |-> e.type, done |-> e.done]
    OBVIOUS
  <1>6. handler' = [handler EXCEPT ![c].pc = IF e.done THEN "finish" ELSE "streaming",
                                   ![c].event = << >>, ![c].out = Append(@, x)]
    BY <1>2, <1>5 DEF Emit
  <1>7. /\ handler'[c].pc = (IF e.done THEN "finish" ELSE "streaming")
        /\ handler'[c].event = << >> /\ handler'[c].out = Append(o, x) /\ handler'[c].received = r
        /\ \A d \in Calls : d # c => handler'[d] = handler[d]
    BY <1>1, <1>3, <1>4, <1>6 DEF Typed, HandlersTyped
  <1>8. HandlerInOrder(c) /\ BufferInOrder(c)
    BY DEF Streaming
  <1>9. TakenInOrder(r, o, <<e>>, c) /\ ~SomeDone(r) /\ ~SomeDone(o)
    BY <1>1, <1>2, <1>3, <1>4, <1>8 DEF HandlerInOrder
  <1>10. /\ TakenInOrder(r, Append(o, x), << >>, c)
         /\ SomeDone(Append(o, x)) => e.done
         /\ Len(r) + Len(Append(o, x)) = Len(r) + Len(o) + 1
    BY <1>5, <1>9, TakenOut
  <1>11. HandlerInOrder(c)'
    <2>1. SomeDone(Append(o, x)) => handler'[c].pc \in {"finish", "ended"}
      BY <1>7, <1>10
    <2>2. handler'[c].pc # "new" /\ handler'[c].pc # "emit"
      BY <1>7
    <2> QED BY <1>7, <1>9, <1>10, <2>1, <2>2 DEF HandlerInOrder
  <1>12. taken(c)' = taken(c)
    <2>1. PICK k \in Nat : k = Len(r)
      OBVIOUS
    <2>2. PICK m \in Nat : m = Len(o)
      OBVIOUS
    <2>3. taken(c) = k + m + 1
      BY <1>2, <1>3, <1>4, <2>1, <2>2 DEF taken
    <2>4. PICK j \in Nat : j = Len(Append(o, x))
      BY <1>1, <1>7, Fields
    <2>5. taken(c)' = k + j + 0 /\ k + j = k + m + 1
      BY <1>7, <1>10, <2>1, <2>2, <2>4 DEF taken
    <2> QED BY <2>3, <2>5
  <1>13. BufferInOrder(c)'
    <2>1. SameTokens(c)
      BY <1>1, TokensKept DEF ConsQuiet
    <2> QED BY <1>1, <1>8, <1>12, <2>1, BufferUntouched
  <1> QED BY <1>1, <1>7, <1>11, <1>13, OneHandler

(* The client reads an output, or the end of the stream.                    *)
LEMMA ReadStreams ==
  ASSUME Streaming, Serving, Closing', NEW c \in Calls, ClientReads(c)
  PROVE  Streaming'
  <1>1. Typed /\ Typed' /\ Kept /\ UNCHANGED <<cons, channel>>
    BY ClientStep DEF Serving, Onward, ClientReads
  <1>2. CASE handler' = [handler EXCEPT ![c].client = "error"]
    <2>1. /\ \A d \in Calls : d # c => handler'[d] = handler[d]
          /\ NothingTaken(c)
      BY <1>1, <1>2 DEF Typed, HandlersTyped, NothingTaken
    <2> QED BY <1>1, <2>1, OneHandler DEF Untouched
  <1>3. CASE /\ handler[c].out # << >>
             /\ handler' = [handler EXCEPT
                  ![c].out      = Tail(@),
                  ![c].received = Append(@, Head(handler[c].out)),
                  ![c].client   = IF Head(handler[c].out).done THEN "done" ELSE "waiting"]
    <2>1. PICK r \in Seq(Output) : r = handler[c].received
      BY <1>1, Fields
    <2>2. PICK o \in Seq(Output) : o = handler[c].out
      BY <1>1, Fields
    <2>3. PICK e \in Seq(Event) : e = handler[c].event
      BY <1>1, Fields
    <2>4. /\ handler'[c].pc = handler[c].pc
          /\ handler'[c].event = e /\ handler'[c].out = Tail(o) /\ handler'[c].received = Append(r, Head(o))
          /\ \A d \in Calls : d # c => handler'[d] = handler[d]
      <3>1. PICK x : x = Head(handler[c].out)
        OBVIOUS
      <3>2. PICK k : k = IF x.done THEN "done" ELSE "waiting"
        OBVIOUS
      <3>3. handler' = [handler EXCEPT ![c].out = Tail(@), ![c].received = Append(@, x), ![c].client = k]
        BY <1>3, <3>1, <3>2
      <3>4. /\ handler'[c].pc = handler[c].pc /\ handler'[c].event = handler[c].event
            /\ handler'[c].out = Tail(handler[c].out) /\ handler'[c].received = Append(handler[c].received, x)
            /\ \A d \in Calls : d # c => handler'[d] = handler[d]
        BY <1>1, <3>3 DEF Typed, HandlersTyped
      <3> QED BY <2>1, <2>2, <2>3, <3>1, <3>4
    <2>5. HandlerInOrder(c) /\ BufferInOrder(c) /\ TakenInOrder(r, o, e, c)
      BY <2>1, <2>2, <2>3 DEF Streaming, HandlerInOrder
    <2>6. /\ TakenInOrder(Append(r, Head(o)), Tail(o), e, c)
          /\ SomeDone(Append(r, Head(o))) \/ SomeDone(Tail(o)) => SomeDone(r) \/ SomeDone(o)
          /\ Len(Append(r, Head(o))) + Len(Tail(o)) = Len(r) + Len(o)
      <3>1. o # << >> /\ TakenInOrder(r, o, e, c)
        BY <1>3, <2>2, <2>5
      <3> QED BY <3>1, TakenRead, SMTT(30)
    <2>7. HandlerInOrder(c)'
      <3>1. handler[c].pc # "new"
        BY <1>3, <2>5 DEF HandlerInOrder
      <3>2. SomeDone(r) \/ SomeDone(o) => handler[c].pc \in {"finish", "ended"}
        BY <2>1, <2>2, <2>5 DEF HandlerInOrder
      <3>3. handler[c].pc # "emit" => e = << >>
        BY <2>3, <2>5 DEF HandlerInOrder
      <3> QED BY <2>4, <2>6, <3>1, <3>2, <3>3 DEF HandlerInOrder
    <2>8. taken(c)' = taken(c)
      <3>1. PICK n : n = Len(e)
        OBVIOUS
      <3>2. taken(c) = Len(r) + Len(o) + n
        BY <2>1, <2>2, <2>3, <3>1 DEF taken
      <3>3. taken(c)' = Len(Append(r, Head(o))) + Len(Tail(o)) + n
        BY <2>4, <3>1 DEF taken
      <3> QED BY <2>6, <3>2, <3>3
    <2>9. BufferInOrder(c)'
      <3>1. SameTokens(c)
        BY <1>1, TokensKept DEF ConsQuiet
      <3> QED BY <1>1, <2>5, <2>8, <3>1, BufferUntouched
    <2> QED BY <1>1, <2>4, <2>7, <2>9, OneHandler
  <1> QED BY <1>2, <1>3 DEF ClientReads

(* Create: a new text, of which nothing is sent.                            *)
LEMMA CreateStreams ==
  ASSUME Streaming, Serving, Serving', Closing, Closing', DistinctIds, NEW c \in Calls, Create(c)
  PROVE  Streaming'
  <1>1. Typed /\ Typed' /\ UNCHANGED <<cons, channel>> /\ handler[c].pc = "new"
    BY DEF Serving, Create
  <1>2. PICK r : r = RequestId[c]
    OBVIOUS
  <1>3. /\ \A d \in Calls : d # c => handler'[d] = handler[d]
        /\ handler'[c].pc # "new" /\ handler'[c].pc # "emit" /\ NothingTaken(c)
    <2>1. CASE exists(RequestId[c])
      BY <1>1, <2>1 DEF Create, Typed, HandlersTyped, NothingTaken
    <2>2. CASE ~exists(RequestId[c])
      <3>1. PICK i : handler' = [handler EXCEPT ![c].pc = "subscribe", ![c].item = i]
        BY <2>2 DEF Create
      <3> QED BY <1>1, <3>1 DEF Typed, HandlersTyped, NothingTaken
    <2> QED BY <2>1, <2>2
  <1>4. CASE exists(r)
    <2>1. Kept
      BY <1>2, <1>3, <1>4 DEF Create, Kept
    <2> QED BY <1>1, <1>3, <2>1, OneHandler DEF Untouched
  <1>5. CASE ~exists(r)
    <2>1. /\ \A x \in DOMAIN requests : x \in DOMAIN requests' /\ requests'[x] = requests[x]
          /\ \A x \in DOMAIN requests' : x \in DOMAIN requests \/ x = r
          /\ requests'[r].generated = 0
      BY <1>2, <1>5 DEF Create, Put, exists
    <2>2. ~publishing(r) /\ ~publishing(r)' /\ \A x : unsent(x)' = unsent(x) /\ publishing(x)' = publishing(x)
      BY <1>1, <1>5 DEF publishing, unsent, eventRequest, Closing, ConsClosing
    <2>3. ASSUME NEW d \in Calls, d # c PROVE HandlerInOrder(d)' /\ BufferInOrder(d)'
      <3>1. RequestId[d] # r
        BY <1>2, <2>3 DEF DistinctIds
      <3>2. PICK s : s = RequestId[d]
        OBVIOUS
      <3>3. exists(s)' => exists(s) /\ requests'[s] = requests[s]
        BY <2>1, <3>1, <3>2 DEF exists
      <3>4. streams(d)' => streams(d) /\ requests'[s].generated = requests[s].generated
        BY <2>2, <3>2, <3>3 DEF streams
      <3>5. streams(d) => requests[s].generated \in Nat
        BY <1>1, <3>2 DEF streams, exists, Typed, RequestsTyped, Request
      <3>6. unsent(s)' = unsent(s) /\ unsent(s) \in Nat
        BY <2>2 DEF unsent
      <3>7. SameTokens(d)
        BY <3>2, <3>4, <3>5, <3>6 DEF SameTokens
      <3> QED BY <1>1, <1>3, <2>3, <3>7, TextUntouched DEF Untouched, NothingTaken, Streaming
    <2>4. /\ handler[c].received = << >> /\ handler[c].out = << >> /\ channel[c].buf = << >>
          /\ handler[c].event = << >>
      BY <1>1 DEF Streaming, HandlerInOrder
    <2>5. HandlerInOrder(c)' /\ taken(c)' = 0
      <3>1. HandlerInOrder(c)' /\ taken(c)' = taken(c)
        BY <1>1, <1>3, HandlerUntouched DEF Streaming
      <3>2. taken(c) = 0
        BY <2>4 DEF taken
      <3> QED BY <3>1, <3>2
    <2>6. BufferInOrder(c)'
      <3>1. channel'[c].buf = << >> /\ unsent(r)' = 0
        BY <1>1, <2>2, <2>4 DEF unsent
      <3>2. WaitsInOrder(<< >>, 0, 0, c)
        BY DEF WaitsInOrder
      <3>3. 0 \in 0..Len(<< >>) /\ 0 + (Len(<< >>) - 0) + 0 = 0
        OBVIOUS
      <3> QED BY <1>2, <2>1, <2>5, <3>1, <3>2, <3>3 DEF BufferInOrder
    <2>7. PublishedIsNext'
      <3>1. cons.pc \in {"publish", "send"} => requests'[eventRequest] = requests[eventRequest]
        BY <2>1 DEF Closing, ConsClosing, exists
      <3> QED BY <1>1, <3>1 DEF Streaming, PublishedIsNext, eventRequest
    <2> QED BY <2>3, <2>5, <2>6, <2>7 DEF Streaming
  <1> QED BY <1>4, <1>5

-----------------------------------------------------------------------------
(* A new Engine has sent nothing.                                           *)
LEMMA InitStreaming == ASSUME Init PROVE Streaming
  <1>1. ASSUME NEW c \in Calls PROVE HandlerInOrder(c) /\ BufferInOrder(c)
    <2>1. /\ handler[c].received = << >> /\ handler[c].out = << >> /\ handler[c].event = << >>
          /\ handler[c].pc = "new" /\ channel[c].buf = << >>
      BY DEF Init
    <2>2. HandlerInOrder(c)
      BY <2>1 DEF HandlerInOrder, TakenInOrder, SomeDone
    <2>3. ~streams(c)
      BY DEF Init, EmptyMap, streams, exists
    <2>4. WaitsInOrder(<< >>, 0, taken(c), c) /\ 0 \in 0..Len(<< >>)
      BY DEF WaitsInOrder
    <2> QED BY <2>1, <2>2, <2>3, <2>4 DEF BufferInOrder
  <1>2. PublishedIsNext
    BY DEF Init, idleCons, PublishedIsNext
  <1> QED BY <1>1, <1>2 DEF Streaming

(* Every step.                                                              *)
LEMMA NextStreaming ==
  ASSUME Serving, Closing, Advancing, Streaming, DistinctIds, Undisturbed, SecondToken, [Next]_vars
  PROVE  Streaming'
  <1>1. Serving' /\ Closing'
    BY NextServing, NextClosing
  <1>2. CASE \E c \in Calls : HandlerNext(c)
    <2>1. PICK c \in Calls : HandlerNext(c)
      BY <1>2
    <2>2. ~CancelCall(c)
      BY DEF CancelCall, Closing, NobodyLeft
    <2> QED BY <1>1, <2>1, <2>2, CreateStreams, SubscribeStreams, EnqueueFirstStreams, ReceiveStreams,
               EmitStreams, FinishCallStreams DEF HandlerNext
  <1>3. CASE \E c \in Calls : ClientReads(c) \/ ClientLeaves(c) \/ Expire(c)
    <2>1. PICK c \in Calls : ClientReads(c) \/ ClientLeaves(c) \/ Expire(c)
      BY <1>3
    <2>2. ~ClientLeaves(c)
      BY DEF ClientLeaves, Undisturbed
    <2> QED BY <1>1, <2>1, <2>2, ReadStreams, SubscribeStreams
  <1>4. CASE BatchLoopNext
    BY <1>1, <1>4, BatchLoopStreams
  <1>5. CASE ExecutorNext
    BY <1>1, <1>5, ExecutorStreams
  <1>6. CASE ConsumerNext
    BY <1>1, <1>6, ConsumerQuiet, OnEventStreams, SendStreams, SendFailedStreams DEF ConsumerNext
  <1>7. CASE UNCHANGED vars
    <2>1. UNCHANGED <<handler, channel, cons, requests>>
      BY <1>7 DEF vars
    <2>2. Kept /\ ConsQuiet /\ \A c \in Calls : Untouched(c)
      BY <2>1 DEF Kept, ConsQuiet, Untouched, NothingTaken
    <2> QED BY <1>1, <2>2, StreamStep DEF Serving
  <1> QED BY <1>2, <1>3, <1>4, <1>5, <1>6, <1>7 DEF Next

(* What a client has received and what waits for it in chOut is its text.   *)
LEMMA StreamingInOrder == ASSUME Typed, Streaming PROVE StreamInOrder
  <1> SUFFICES ASSUME NEW c \in Calls,
                      NEW i \in DOMAIN (handler[c].received \o handler[c].out)
               PROVE  LET outputs == handler[c].received \o handler[c].out IN
                      /\ outputs[i].type # "requestFailed" => outputs[i].token = i /\ i <= MaxTokens[c]
                      /\ outputs[i].done => i = Len(outputs)
    BY DEF StreamInOrder
  <1>1. PICK r \in Seq(Output) : r = handler[c].received
    BY Fields
  <1>2. PICK o \in Seq(Output) : o = handler[c].out
    BY Fields
  <1>3. PICK s : s = r \o o
    OBVIOUS
  <1>4. PICK k \in Nat : k = Len(r)
    OBVIOUS
  <1>5. PICK m \in Nat : m = Len(o)
    OBVIOUS
  <1>6. /\ DOMAIN r = 1..k /\ DOMAIN o = 1..m /\ Len(s) = k + m /\ DOMAIN s = 1..(k + m)
        /\ \A j \in 1..k : s[j] = r[j]
        /\ \A j \in (k + 1)..(k + m) : s[j] = o[j - k] /\ j - k \in 1..m
    BY <1>3, <1>4, <1>5
  <1>7. /\ \A j \in DOMAIN r : Numbered(r[j], j, c) /\ (r[j].done => j = k /\ o = << >>)
        /\ \A j \in DOMAIN o : Numbered(o[j], k + j, c) /\ (o[j].done => j = m)
    BY <1>1, <1>2, <1>4, <1>5 DEF Streaming, HandlerInOrder, TakenInOrder
  <1>8. i \in 1..(k + m)
    BY <1>1, <1>2, <1>3, <1>6
  <1>9. Numbered(s[i], i, c) /\ (s[i].done => i = k + m)
    <2>1. CASE i <= k
      <3>1. i \in 1..k /\ s[i] = r[i]
        BY <1>6, <1>8, <2>1
      <3>2. o = << >> => m = 0
        BY <1>5
      <3> QED BY <1>6, <1>7, <3>1, <3>2
    <2>2. CASE ~(i <= k)
      <3>1. i \in (k + 1)..(k + m)
        BY <1>8, <2>2
      <3>2. PICK j \in 1..m : j = i - k
        BY <1>6, <3>1
      <3>3. s[i] = o[j] /\ k + j = i /\ (j = m => i = k + m)
        BY <1>6, <3>1, <3>2
      <3> QED BY <1>6, <1>7, <3>2, <3>3
    <2> QED BY <2>1, <2>2
  <1> QED BY <1>1, <1>2, <1>3, <1>6, <1>9 DEF Numbered

(* A client receives the tokens of its text in order, without gap or        *)
(* repetition, at most MaxTokens of them, and nothing after the last; where *)
(* MaxTokens is 1 the code generates a second token all the same.           *)
THEOREM EngineStreams ==
  ASSUME DistinctIds, Undisturbed, SecondToken PROVE Spec => []StreamInOrder
  <1> DEFINE Inv == Serving /\ Closing /\ Advancing /\ Streaming
  <1>1. Init => Inv
    BY InitServing, InitClosing, InitAdvancing, InitStreaming
  <1>2. Inv /\ [Next]_vars => Inv'
    BY NextServing, NextClosing, NextAdvancing, NextStreaming
  <1>3. Inv => StreamInOrder
    BY StreamingInOrder DEF Serving
  <1> QED BY <1>1, <1>2, <1>3, PTL DEF Spec

=============================================================================
