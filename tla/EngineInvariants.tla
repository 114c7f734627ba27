-------------------------- MODULE EngineInvariants --------------------------
(***************************************************************************)
(* Every step of the batch loop, the executor and the event consumer keeps *)
(* Serving (EngineProofs), so that it is an invariant of Engine; and what  *)
(* follows from it: OneWorkPerRequest; the types and bounds, how full each *)
(* queue and channel can be; and, with Closing, the order in which a       *)
(* request ends, that nothing is sent on a closed channel.                 *)
(***************************************************************************)
EXTENDS EngineProofs

(* The batch loop's record. *)
SchedRecord ==
  [ pc : SchedPcs, held : Seq(Work), batch : Seq(Item), scanned : Nat, maxScan : Nat,
    cost : Nat, tokens : Nat, seqs : Nat, prefill : Int, large : Int,
    notify : Calls \cup {NoCall} ]

(* SchedTyped and SchedShape of any such record. *)
SchedGood(s) ==
  /\ s \in SchedRecord
  /\ s.pc \in {"idle", "peek", "popSmall", "popLarge", "submit", "requeue"} => s.held = << >>
  /\ s.pc \in {"idle", "dequeue"} => s.batch = << >>
  /\ s.pc \in {"submit", "requeue"} => s.batch # << >>
  /\ s.pc = "dequeue" =>
       Len(s.held) <= s.scanned /\ s.scanned <= s.seqs /\ s.scanned <= s.tokens
  /\ s.pc = "decode" => Len(s.held) > 0 /\ Len(s.held) <= s.seqs /\ Len(s.held) <= s.tokens
  /\ s.pc \in {"small", "large"} => Len(s.held) = 1
  /\ s.pc \in {"peek", "popSmall", "small", "popLarge", "large"} => s.seqs > 0 /\ s.tokens > 0
  /\ s.pc \in {"popSmall", "small"} => s.cost <= s.tokens
  /\ s.pc \notin {"idle", "submit", "requeue"} => Len(s.batch) + s.seqs = MaxBatchSeq
  /\ Len(s.batch) <= MaxBatchSeq /\ s.tokens <= MaxBatchTokens /\ s.seqs <= MaxBatchSeq
  /\ s.notify # NoCall => s.pc \in {"dequeue", "peek", "popSmall", "popLarge"}

(* SchedGood is SchedTyped and SchedShape. *)
LEMMA SchedParts == SchedGood(sched) <=> SchedTyped /\ SchedShape
  BY DEF SchedGood, SchedRecord, SchedTyped, SchedShape

(* The same after a step. *)
LEMMA SchedPartsNext == (SchedGood(sched) <=> SchedTyped /\ SchedShape)'
  BY SchedParts, PTL

(* A round between two parts: nothing is held, the batch and what is left   *)
(* of its sequences are MaxBatchSeq together.                               *)
Ready(s) ==
  /\ s \in SchedRecord /\ s.held = << >> /\ s.notify = NoCall
  /\ Len(s.batch) + s.seqs = MaxBatchSeq /\ s.tokens <= MaxBatchTokens

(* Where such a round goes on. *)
GoesOn(s, t) ==
  /\ SchedGood(t) /\ t.held = << >> /\ t.batch = s.batch
  /\ t.pc \notin {"dequeue", "decode", "small", "large"} /\ t.notify = NoCall

(* The batch loop's bounds. *)
LEMMA Bounds ==
  /\ MaxBatchSeq \in Nat \ {0} /\ MaxBatchTokens \in Nat \ {0} /\ QueueLength \in Nat \ {0}
  /\ MaxPartialPrefills \in Nat /\ MaxLongPartialPrefills \in Nat /\ LongPrefillThreshold \in Nat
  /\ NoCall \notin Calls
  BY EngineAssumption

(* The idle batch loop. *)
LEMMA IdleGood ==
  /\ SchedGood(idleSched) /\ idleSched \in SchedRecord
  /\ idleSched.pc = "idle" /\ idleSched.held = << >> /\ idleSched.batch = << >>
  /\ idleSched.notify = NoCall /\ idleSched.tokens = 0 /\ idleSched.seqs = 0 /\ idleSched.scanned = 0
  BY Bounds DEF idleSched, SchedGood, SchedRecord, SchedPcs

(* atSubmit: an empty batch ends the round. *)
LEMMA AtSubmit == ASSUME NEW s, Ready(s) PROVE GoesOn(s, atSubmit(s))
  <1>1. CASE s.batch = << >>
    BY <1>1, IdleGood DEF GoesOn, atSubmit
  <1>2. CASE s.batch # << >>
    <2>1. PICK b \in Seq(Item) : b = s.batch
      BY DEF Ready, SchedRecord
    <2>2. PICK t : t = [idleSched EXCEPT !.pc = "submit", !.batch = b]
      OBVIOUS
    <2>3. t = atSubmit(s)
      BY <1>2, <2>1, <2>2 DEF atSubmit
    <2>4. /\ t \in SchedRecord /\ t.pc = "submit" /\ t.batch = b /\ t.held = << >> /\ t.notify = NoCall
          /\ t.tokens = 0 /\ t.seqs = 0
      BY <2>2, IdleGood DEF SchedRecord, SchedPcs
    <2>5. Len(b) <= MaxBatchSeq
      <3>1. Len(b) \in Nat /\ s.seqs \in Nat /\ Len(b) + s.seqs = MaxBatchSeq
        BY <2>1 DEF Ready, SchedRecord
      <3> QED BY <3>1, Bounds
    <2>6. SchedGood(t)
      BY <1>2, <2>1, <2>4, <2>5, Bounds DEF SchedGood
    <2> QED BY <2>1, <2>3, <2>4, <2>6 DEF GoesOn
  <1> QED BY <1>1, <1>2

(* The next small or large prefill. *)
LEMMA AtPop ==
  ASSUME NEW s, Ready(s), budgetLeft(s), NEW pc \in {"peek", "popLarge"}
  PROVE  GoesOn(s, [s EXCEPT !.pc = pc])
  <1>1. PICK t : t = [s EXCEPT !.pc = pc]
    OBVIOUS
  <1>2. /\ t \in SchedRecord /\ t.pc = pc /\ t.batch = s.batch /\ t.held = << >> /\ t.notify = NoCall
        /\ t.tokens = s.tokens /\ t.seqs = s.seqs /\ s.tokens \in Nat /\ s.seqs \in Nat
        /\ Len(s.batch) \in Nat
    BY <1>1, SMTT(30) DEF Ready, SchedRecord, SchedPcs
  <1>3. SchedGood(t)
    BY <1>2, Bounds DEF SchedGood, Ready, budgetLeft
  <1> QED BY <1>1, <1>2, <1>3 DEF GoesOn

(* onLarge. *)
LEMMA OnLarge == ASSUME NEW s, Ready(s) PROVE GoesOn(s, onLarge(s))
  BY AtSubmit, AtPop DEF onLarge

(* atLarge. *)
LEMMA AtLarge ==
  ASSUME NEW s, Ready(s), NEW q, q.large \in Seq(Work)
  PROVE  GoesOn(s, atLarge(s, q))
  <1>1. PICK t : t = [s EXCEPT !.scanned = 0, !.maxScan = Len(q.large), !.cost = 0]
    OBVIOUS
  <1>2. Ready(t) /\ t.batch = s.batch
    <2>1. PICK n \in Nat : n = Len(q.large)
      OBVIOUS
    <2>2. t = [s EXCEPT !.scanned = 0, !.maxScan = n, !.cost = 0] /\ s \in SchedRecord
      BY <1>1, <2>1 DEF Ready
    <2>3. /\ t \in SchedRecord /\ t.held = s.held /\ t.notify = s.notify /\ t.batch = s.batch
          /\ t.seqs = s.seqs /\ t.tokens = s.tokens
      BY <2>2 DEF SchedRecord
    <2> QED BY <2>3 DEF Ready
  <1>3. GoesOn(t, onLarge(t))
    BY <1>2, OnLarge
  <1> QED BY <1>1, <1>2, <1>3 DEF GoesOn, atLarge

(* onSmall. *)
LEMMA OnSmall ==
  ASSUME NEW s, Ready(s), NEW q, q.large \in Seq(Work)
  PROVE  GoesOn(s, onSmall(s, q))
  BY AtLarge, AtPop DEF onSmall

(* atSmall. *)
LEMMA AtSmall ==
  ASSUME NEW s, Ready(s), NEW q, q.large \in Seq(Work), q.small \in Seq(Work)
  PROVE  GoesOn(s, atSmall(s, q))
  <1>1. PICK t : t = [s EXCEPT !.scanned = 0, !.maxScan = Len(q.small)]
    OBVIOUS
  <1>2. Ready(t) /\ t.batch = s.batch
    <2>1. PICK n \in Nat : n = Len(q.small)
      OBVIOUS
    <2>2. t = [s EXCEPT !.scanned = 0, !.maxScan = n] /\ s \in SchedRecord
      BY <1>1, <2>1 DEF Ready
    <2>3. /\ t \in SchedRecord /\ t.held = s.held /\ t.notify = s.notify /\ t.batch = s.batch
          /\ t.seqs = s.seqs /\ t.tokens = s.tokens
      BY <2>2 DEF SchedRecord
    <2> QED BY <2>3 DEF Ready
  <1>3. GoesOn(t, onSmall(t, q))
    BY <1>2, OnSmall
  <1> QED BY <1>1, <1>2, <1>3 DEF GoesOn, atSmall

(* The end of Dequeue. *)
LEMMA AfterDequeue ==
  ASSUME NEW s \in SchedRecord, s.notify = NoCall, s.batch = << >>, s.seqs = MaxBatchSeq,
         s.tokens <= MaxBatchTokens, Len(s.held) <= s.seqs, Len(s.held) <= s.tokens,
         NEW q, q.large \in Seq(Work), q.small \in Seq(Work)
  PROVE  LET t == afterDequeue(s, q) IN
         /\ SchedGood(t) /\ t.held = s.held /\ t.batch = s.batch /\ t.notify = NoCall
         /\ s.held # << >> => t.pc = "decode"
  <1>0. s.held \in Seq(Work) /\ s.seqs \in Nat /\ s.tokens \in Nat
    BY DEF SchedRecord
  <1>1. CASE s.held = << >>
    <2>1. PICK t : t = [s EXCEPT !.prefill = s.seqs, !.large = s.seqs]
      OBVIOUS
    <2>2. Ready(t) /\ t.batch = s.batch
      <3>1. /\ t \in SchedRecord /\ t.held = s.held /\ t.notify = s.notify /\ t.batch = s.batch
            /\ t.seqs = s.seqs /\ t.tokens = s.tokens
        <4>1. PICK n \in Int : n = s.seqs
          BY <1>0
        <4>2. t = [s EXCEPT !.prefill = n, !.large = n]
          BY <2>1, <4>1
        <4> QED BY <4>2 DEF SchedRecord
      <3>2. Len(t.batch) = 0
        BY <3>1
      <3> QED BY <1>0, <1>1, <3>1, <3>2, Bounds DEF Ready
    <2>3. GoesOn(t, atSmall(t, q))
      BY <2>2, AtSmall
    <2> QED BY <1>1, <2>1, <2>2, <2>3 DEF GoesOn, afterDequeue
  <1>2. CASE s.held # << >>
    <2>1. PICK t : t = [s EXCEPT !.pc = "decode"]
      OBVIOUS
    <2>2. /\ t \in SchedRecord /\ t.pc = "decode" /\ t.batch = s.batch /\ t.held = s.held
          /\ t.notify = NoCall /\ t.tokens = s.tokens /\ t.seqs = s.seqs
      BY <2>1 DEF SchedRecord, SchedPcs
    <2>3. Len(s.held) > 0
      BY <1>0, <1>2
    <2>4. SchedGood(t)
      BY <1>0, <2>2, <2>3, Bounds DEF SchedGood
    <2> QED BY <1>2, <2>1, <2>2, <2>4 DEF afterDequeue
  <1> QED BY <1>1, <1>2

-----------------------------------------------------------------------------
(* The kinds of the works that the batch loop holds. *)
HeldKinds(s) ==
  \A i \in DOMAIN s.held :
    /\ s.pc \in {"dequeue", "decode"} => queueOf(s.held[i]) = "decode"
    /\ s.pc = "small" => queueOf(s.held[i]) = "small"
    /\ s.pc = "large" => queueOf(s.held[i]) = "large"

(* The kinds of the works of the queues. *)
QueueKinds == \A k \in DOMAIN queue : \A i \in DOMAIN queue[k] : queueOf(queue[k][i]) = k

(* QueueShape is the two. *)
LEMMA KindsParts == QueueShape <=> QueueKinds /\ HeldKinds(sched)
  BY DEF QueueShape, QueueKinds, HeldKinds

(* The same after a step. *)
LEMMA KindsPartsNext == (QueueShape <=> QueueKinds /\ HeldKinds(sched))'
  BY KindsParts, PTL

(* A step of the batch loop. *)
BatchStep ==
  /\ Serving /\ SchedGood(sched') /\ HeldKinds(sched')
  /\ QueuesTyped' /\ QueueKinds' /\ ManagerGood(mgr)' /\ RequestsTyped' /\ ChannelsTyped'
  /\ batchChan' \in Seq(Seq(Item))
  /\ DOMAIN requests' \subseteq DOMAIN requests /\ \A r \in DOMAIN requests' : requests'[r] = requests[r]
  /\ UNCHANGED <<handler, expired, exec, eventChan, cons, panicked>>

(* Where the works of a batch step come from. *)
BatchWorks ==
  \A w : \/ \E k \in {"decode", "small", "large"} : HoldsWork(queue'[k], w)
         \/ HoldsWork(sched'.held, w) \/ HoldsItem(sched'.batch, w)
         \/ \E n \in DOMAIN batchChan' : HoldsItem(batchChan'[n], w)
         => WorkIn(w) \/ WorkSound(w)'

(* What every step but Create and OnEvent is made of, for the batch loop. *)
LEMMA BatchParts == ASSUME BatchStep, BatchWorks PROVE StepParts
  <1>1. Typed /\ Shapes
    BY DEF BatchStep, Serving
  <1>2. SchedTyped' /\ SchedShape' /\ QueueShape'
    BY SchedPartsNext, KindsPartsNext DEF BatchStep
  <1>3. Typed'
    BY <1>1, <1>2 DEF BatchStep, Typed, HandlersTyped, ExecTyped, ConsTyped
  <1>4. Shapes'
    BY <1>1, <1>2 DEF BatchStep, Shapes, HandlerShape, ExecShape, ConsShape
  <1>5. \A w : WorkIn(w)' => WorkIn(w) \/ WorkSound(w)'
    <2> SUFFICES ASSUME NEW w, WorkIn(w)' PROVE WorkIn(w) \/ WorkSound(w)'
      OBVIOUS
    <2>1. \/ (\E c \in Calls : HoldsWork(handler[c].item, w)) \/ HoldsItem(exec.running, w)
             \/ HoldsWork(cons.next, w)
          \/ \/ \E k \in {"decode", "small", "large"} : HoldsWork(queue'[k], w)
             \/ HoldsWork(sched'.held, w) \/ HoldsItem(sched'.batch, w)
             \/ \E n \in DOMAIN batchChan' : HoldsItem(batchChan'[n], w)
      BY DEF WorkIn, BatchStep
    <2> QED BY <2>1 DEF WorkIn, BatchWorks
  <1>6. \A e : EventIn(e)' => EventIn(e)
    BY DEF EventIn, BatchStep
  <1>7. Kept
    BY DEF Kept, BatchStep
  <1> QED BY <1>3, <1>4, <1>5, <1>6, <1>7 DEF StepParts, BatchStep

(* A batch step leaves every other place alone. *)
LEMMA BatchPlaces ==
  ASSUME BatchStep, NEW p \in Places,
         \A k \in {"decode", "small", "large"} : p = <<"queue", k>> => queue'[k] = queue[k],
         p[1] = "submitted" => batchChan' = batchChan,
         p = <<"held", 0>> => sched'.held = sched.held,
         p = <<"batch", 0>> => sched'.batch = sched.batch
  PROVE  Lines'[p] = Lines[p]
  BY SamePlace DEF BatchStep, EventStill

(* What a step of the batch loop does with the works, the blocks and the    *)
(* requests.                                                                *)
Rests ==
  /\ sched'.held = sched.held /\ sched'.batch = sched.batch
  /\ UNCHANGED <<mgr, requests, queue, batchChan>>

TakesFrom(k) ==
  /\ queue[k] # << >> /\ queue' = [queue EXCEPT ![k] = Tail(@)]
  /\ sched'.batch = sched.batch /\ UNCHANGED batchChan

Picks(k) ==
  /\ TakesFrom(k) /\ CanSchedule(Head(queue[k]))
  /\ sched'.held = Append(sched.held, Head(queue[k])) /\ UNCHANGED <<mgr, requests>>

DropsFrom(k) ==
  /\ TakesFrom(k) /\ ~CanSchedule(Head(queue[k])) /\ sched'.held = sched.held
  /\ ~Occurs(Lines', Head(queue[k]).request)
  /\ IF timedOut(Head(queue[k]))
     THEN /\ deleteRequest(Head(queue[k]).request)
          /\ sched'.notify = requests[Head(queue[k]).request].call
     ELSE sched'.notify = NoCall /\ UNCHANGED <<mgr, requests>>

Joins(v) ==
  /\ WorkSound(v) /\ v.request = Head(sched.held).request /\ queueOf(v) = queueOf(Head(sched.held))
  /\ enoughBlocks(v) /\ mgr' = AllocateBlocks(mgr, blockWorkOf(v))
  /\ sched'.batch = Append(sched.batch, batchItem(v)) /\ UNCHANGED <<requests, queue, batchChan>>

PutsBack(v) ==
  /\ WorkSound(v) /\ v.request = Head(sched.held).request
  /\ ~enoughBlocks(v) /\ mgr' = AllocateBlocks(mgr, blockWorkOf(v))
  /\ queue' = appended(queue, Head(sched.held))
  /\ sched'.batch = sched.batch /\ UNCHANGED <<requests, batchChan>>

Submits ==
  /\ sched.pc = "submit" /\ Len(batchChan) < BatchCap /\ batchChan' = Append(batchChan, sched.batch)
  /\ sched'.held = sched.held /\ sched'.batch = << >> /\ UNCHANGED <<mgr, requests, queue>>

Requeues ==
  /\ sched.batch # << >> /\ mgr' = Rollback(mgr, Head(sched.batch).work.id)
  /\ queue' = appended(queue, Head(sched.batch).work)
  /\ sched'.held = sched.held /\ sched'.batch = Tail(sched.batch) /\ UNCHANGED <<requests, batchChan>>

BatchFlow ==
  \/ \E k \in {"decode", "small", "large"} : DropsFrom(k)
  \/ /\ sched'.notify = NoCall
     /\ \/ Rests
        \/ \E k \in {"decode", "small", "large"} : Picks(k)
        \/ /\ sched.held # << >> /\ sched'.held = Tail(sched.held)
           /\ \E v \in Work : Joins(v) \/ PutsBack(v)
        \/ Submits
        \/ Requeues

(* A batch step that moves no work. *)
LEMMA SchedStill ==
  ASSUME BatchStep, sched'.held = sched.held, sched'.batch = sched.batch, UNCHANGED <<queue, batchChan>>
  PROVE  Serving' /\ Onward
  <1>1. BatchWorks
    BY DEF BatchWorks, WorkIn
  <1>2. StepParts
    BY <1>1, BatchParts
  <1>3. \A p \in Places : Lines'[p] = Lines[p]
    BY BatchPlaces
  <1> QED BY <1>2, <1>3, StillStep

(* What the batch loop starts from. *)
LEMMA BatchStart ==
  ASSUME Serving
  PROVE  /\ Typed /\ Shapes /\ SchedGood(sched) /\ HeldKinds(sched) /\ QueueKinds /\ TicketsSound
         /\ QueuesTyped /\ ManagerGood(mgr) /\ RequestsTyped /\ ChannelsTyped
         /\ batchChan \in Seq(Seq(Item)) /\ sched \in SchedRecord
         /\ queue.decode \in Seq(Work) /\ queue.small \in Seq(Work) /\ queue.large \in Seq(Work)
         /\ DOMAIN queue = {"decode", "small", "large"}
  <1>1. Typed /\ Shapes /\ TicketsSound
    BY DEF Serving, Sound
  <1>2. SchedGood(sched) /\ HeldKinds(sched) /\ QueueKinds
    BY <1>1, SchedParts, KindsParts DEF Typed, Shapes
  <1>3. DOMAIN queue = {"decode", "small", "large"}
    BY <1>1 DEF Typed, QueuesTyped
  <1> QED BY <1>1, <1>2, <1>3, Fields DEF Typed, ExecTyped, SchedGood

(* A batch step that changes the batch loop's record alone. *)
LEMMA SchedOnly ==
  ASSUME Serving, SchedGood(sched'), HeldKinds(sched'),
         sched'.held = sched.held, sched'.batch = sched.batch, sched'.notify = NoCall, ChannelsTyped',
         UNCHANGED <<mgr, requests, queue, batchChan, handler, expired, exec, eventChan, cons, panicked>>
  PROVE  Serving' /\ Onward /\ BatchFlow
  <1>1. BatchStep
    BY BatchStart DEF BatchStep, QueuesTyped, QueueKinds, RequestsTyped
  <1>2. BatchFlow
    BY DEF BatchFlow, Rests
  <1> QED BY <1>1, <1>2, SchedStill

(* Nothing is held, nothing is of a kind. *)
LEMMA NoKinds == ASSUME NEW s, s.held = << >> PROVE HeldKinds(s)
  BY DEF HeldKinds

(* StartRound. *)
LEMMA StartStep == ASSUME Serving, StartRound PROVE Serving' /\ Onward /\ BatchFlow
  <1>1. /\ SchedGood(sched) /\ sched \in SchedRecord /\ sched.pc = "idle"
        /\ queue.large \in Seq(Work) /\ queue.small \in Seq(Work) /\ ChannelsTyped
        /\ UNCHANGED <<mgr, kv, requests, channel, handler, expired, queue, batchChan, exec, eventChan,
                       cons, panicked>>
    BY BatchStart DEF StartRound, processUp
  <1>2. sched.held = << >> /\ sched.batch = << >>
    BY <1>1 DEF SchedGood
  <1>3. PICK s : s = [idleSched EXCEPT !.tokens = MaxBatchTokens, !.seqs = MaxBatchSeq,
                        !.prefill = MaxPartialPrefills, !.large = MaxLongPartialPrefills]
    OBVIOUS
  <1>4. /\ s \in SchedRecord /\ s.held = << >> /\ s.batch = << >> /\ s.notify = NoCall
        /\ s.tokens = MaxBatchTokens /\ s.seqs = MaxBatchSeq /\ s.scanned = 0
    <2>1. PICK u \in SchedRecord : u = idleSched
      BY IdleGood
    <2>2. u.held = << >> /\ u.batch = << >> /\ u.notify = NoCall /\ u.scanned = 0
      BY <2>1, IdleGood
    <2>3. MaxPartialPrefills \in Int /\ MaxLongPartialPrefills \in Int
      BY Bounds
    <2>4. s \in SchedRecord
      BY <1>3, <2>1, <2>3, Bounds DEF SchedRecord
    <2> QED BY <1>3, <2>1, <2>2, <2>4 DEF SchedRecord
  <1>5. SchedGood(sched') /\ sched'.held = << >> /\ sched'.batch = << >> /\ sched'.notify = NoCall
    <2>1. CASE queue.decode # << >>
      <3>1. PICK t : t = [s EXCEPT !.pc = "dequeue"]
        OBVIOUS
      <3>2. /\ t \in SchedRecord /\ t.held = << >> /\ t.batch = << >> /\ t.notify = NoCall
            /\ t.tokens = MaxBatchTokens /\ t.seqs = MaxBatchSeq /\ t.scanned = 0 /\ t.pc = "dequeue"
        BY <1>4, <3>1 DEF SchedRecord, SchedPcs
      <3>3. Len(t.held) = 0 /\ Len(t.batch) = 0
        BY <3>2
      <3>4. SchedGood(t)
        BY <3>2, <3>3, Bounds DEF SchedGood
      <3>5. sched' = t
        BY <1>3, <2>1, <3>1 DEF StartRound
      <3> QED BY <3>2, <3>4, <3>5
    <2>2. CASE queue.decode = << >>
      <3>1. sched' = afterDequeue(s, queue)
        BY <1>3, <2>2 DEF StartRound
      <3>2. Len(s.held) = 0
        BY <1>4
      <3>3. s.tokens <= MaxBatchTokens /\ Len(s.held) <= s.seqs /\ Len(s.held) <= s.tokens
        BY <1>4, <3>2, Bounds
      <3> QED BY <1>1, <1>4, <3>1, <3>3, AfterDequeue
    <2> QED BY <2>1, <2>2
  <1>6. HeldKinds(sched') /\ ChannelsTyped'
    BY <1>1, <1>5, NoKinds DEF ChannelsTyped
  <1> QED BY <1>1, <1>2, <1>5, <1>6, SchedOnly

(* DequeueEnds. *)
LEMMA DequeueEndsStep == ASSUME Serving, DequeueEnds PROVE Serving' /\ Onward /\ BatchFlow
  <1>1. /\ SchedGood(sched) /\ sched \in SchedRecord /\ sched.pc = "dequeue" /\ sched.notify = NoCall
        /\ queue.large \in Seq(Work) /\ queue.small \in Seq(Work) /\ ChannelsTyped /\ HeldKinds(sched)
        /\ sched' = afterDequeue(sched, queue)
        /\ UNCHANGED <<mgr, kv, requests, channel, handler, expired, queue, batchChan, exec, eventChan,
                       cons, panicked>>
    BY BatchStart DEF DequeueEnds, processUp
  <1>2. /\ sched.batch = << >> /\ Len(sched.held) \in Nat /\ sched.seqs \in Nat /\ sched.tokens \in Nat
        /\ sched.scanned \in Nat
        /\ Len(sched.held) <= sched.scanned /\ sched.scanned <= sched.seqs /\ sched.scanned <= sched.tokens
        /\ Len(sched.batch) + sched.seqs = MaxBatchSeq /\ sched.tokens <= MaxBatchTokens
    BY <1>1 DEF SchedGood, SchedRecord
  <1>3. sched.seqs = MaxBatchSeq /\ Len(sched.held) <= sched.seqs /\ Len(sched.held) <= sched.tokens
    <2>1. Len(sched.batch) = 0
      BY <1>2
    <2> QED BY <1>2, <2>1, Bounds
  <1>4. /\ SchedGood(sched') /\ sched'.held = sched.held /\ sched'.batch = sched.batch
        /\ sched'.notify = NoCall
        /\ sched.held # << >> => sched'.pc = "decode"
    BY <1>1, <1>2, <1>3, AfterDequeue
  <1>5. HeldKinds(sched')
    <2>1. CASE sched.held = << >>
      BY <1>4, <2>1, NoKinds
    <2>2. CASE sched.held # << >>
      BY <1>1, <1>4, <2>2 DEF HeldKinds
    <2> QED BY <2>1, <2>2
  <1>6. ChannelsTyped'
    BY <1>1 DEF ChannelsTyped
  <1> QED BY <1>1, <1>4, <1>5, <1>6, SchedOnly
-----------------------------------------------------------------------------
(* The first work of a queue is taken. *)
LEMMA TakesHead ==
  ASSUME Serving, NEW k \in {"decode", "small", "large"}, queue[k] # << >>,
         queue' = [queue EXCEPT ![k] = Tail(@)]
  PROVE  LET w == Head(queue[k])
             a == <<"queue", k>>
         IN  /\ w \in Work /\ WorkIn(w) /\ queueOf(w) = k
             /\ QueuesTyped' /\ QueueKinds'
             /\ \A j \in {"decode", "small", "large"} : j # k => queue'[j] = queue[j]
             /\ \A v : (\E j \in {"decode", "small", "large"} : HoldsWork(queue'[j], v)) => WorkIn(v)
             /\ a \in Places /\ Lines[a] # << >> /\ Head(Lines[a]) = w.request
             /\ Lines'[a] = Tail(Lines[a])
  <1> DEFINE w == Head(queue[k])
             a == <<"queue", k>>
  <1>1. /\ Typed /\ QueueKinds /\ DOMAIN queue = {"decode", "small", "large"}
        /\ queue \in [decode : Seq(Work), small : Seq(Work), large : Seq(Work)]
    BY BatchStart DEF QueuesTyped
  <1>2. queue[k] \in Seq(Work) /\ Tail(queue[k]) \in Seq(Work) /\ w \in Work
    <2>1. queue[k] \in Seq(Work)
      BY <1>1, Fields
    <2> QED BY <2>1, SeqTyped
  <1>3. /\ queue'[k] = Tail(queue[k]) /\ QueuesTyped' /\ DOMAIN queue' = {"decode", "small", "large"}
        /\ \A j \in {"decode", "small", "large"} : j # k => queue'[j] = queue[j]
    <2>1. PICK t \in Seq(Work) : t = Tail(queue[k])
      BY <1>2, Zenon
    <2>2. queue' = [queue EXCEPT ![k] = t]
      BY <2>1
    <2>3. CASE k = "decode"
      BY <1>1, <2>1, <2>2, <2>3 DEF QueuesTyped
    <2>4. CASE k = "small"
      BY <1>1, <2>1, <2>2, <2>4 DEF QueuesTyped
    <2>5. CASE k = "large"
      BY <1>1, <2>1, <2>2, <2>5 DEF QueuesTyped
    <2> QED BY <2>3, <2>4, <2>5
  <1>4. HoldsWork(queue[k], w) /\ \A v : HoldsWork(Tail(queue[k]), v) => HoldsWork(queue[k], v)
    BY <1>2, HoldsTail
  <1>5. WorkIn(w) /\ \A v : (\E j \in {"decode", "small", "large"} : HoldsWork(queue'[j], v)) => WorkIn(v)
    BY <1>3, <1>4 DEF WorkIn
  <1>6. queueOf(w) = k
    <2>1. 1 \in DOMAIN queue[k] /\ w = queue[k][1]
      BY <1>2
    <2> QED BY <1>1, <2>1 DEF QueueKinds
  <1>7. QueueKinds'
    <2>1. ASSUME NEW j \in DOMAIN queue', NEW i \in DOMAIN queue'[j] PROVE queueOf(queue'[j][i]) = j
      <3>1. CASE j = k
        <4>1. PICK t \in Seq(Work) : t = queue[k]
          BY <1>2
        <4>2. i \in DOMAIN Tail(t) /\ queue'[j][i] = Tail(t)[i]
          BY <1>3, <2>1, <3>1, <4>1
        <4>3. i + 1 \in DOMAIN t /\ Tail(t)[i] = t[i + 1]
          BY <4>1, <4>2
        <4> QED BY <1>1, <3>1, <4>1, <4>2, <4>3 DEF QueueKinds
      <3>2. CASE j # k
        <4>1. queue'[j] = queue[j] /\ j \in DOMAIN queue
          BY <1>1, <1>3, <3>2
        <4> QED BY <1>1, <2>1, <4>1 DEF QueueKinds
      <3> QED BY <3>1, <3>2
    <2> QED BY <2>1 DEF QueueKinds
  <1>8. a \in Places /\ Lines[a] # << >> /\ Head(Lines[a]) = w.request /\ Lines'[a] = Tail(Lines[a])
    <2>1. /\ idsOf(Tail(queue[k])) = Tail(idsOf(queue[k])) /\ idsOf(queue[k]) # << >>
          /\ Head(idsOf(queue[k])) = w.request
      BY <1>2, IdsOf
    <2>2. Lines[a] = idsOf(queue[k]) /\ Lines'[a] = idsOf(queue'[k])
      BY LineAt, LineAtNext DEF LinesAre
    <2> QED BY <1>3, <2>1, <2>2, PlaceNames
  <1> QED BY <1>2, <1>3, <1>5, <1>6, <1>7, <1>8

(* A timeout is noted. *)
LEMMA NotifyGood ==
  ASSUME NEW s, SchedGood(s), s.pc \in {"dequeue", "peek", "popSmall", "popLarge"},
         NEW c \in Calls \cup {NoCall}
  PROVE  LET t == [s EXCEPT !.notify = c] IN
         SchedGood(t) /\ t.held = s.held /\ t.batch = s.batch /\ t.pc = s.pc /\ t.notify = c
  <1>1. PICK t : t = [s EXCEPT !.notify = c]
    OBVIOUS
  <1>2. /\ t \in SchedRecord /\ t.held = s.held /\ t.batch = s.batch /\ t.pc = s.pc /\ t.notify = c
        /\ t.scanned = s.scanned /\ t.seqs = s.seqs /\ t.tokens = s.tokens /\ t.cost = s.cost
    BY <1>1 DEF SchedGood, SchedRecord
  <1>3. SchedGood(t)
    BY <1>2 DEF SchedGood
  <1> QED BY <1>1, <1>2, <1>3

(* Dequeue, Peek and Pop drop a work that cannot be scheduled. *)
LEMMA DropsHeadStep ==
  ASSUME Serving, NEW k \in {"decode", "small", "large"}, queue[k] # << >>,
         queue' = [queue EXCEPT ![k] = Tail(@)], ~CanSchedule(Head(queue[k])),
         NEW s, dropIfTimedOut(Head(queue[k]), s), SchedGood(s), HeldKinds(s),
         s.held = sched.held, s.batch = sched.batch, s.notify = NoCall,
         s.pc \in {"dequeue", "peek", "popSmall", "popLarge"},
         UNCHANGED <<channel, handler, expired, batchChan, exec, eventChan, cons, panicked>>
  PROVE  Serving' /\ Onward /\ BatchFlow
  <1> DEFINE w == Head(queue[k])
             a == <<"queue", k>>
  <1>1. /\ Typed /\ TicketsSound /\ RequestsTyped /\ ManagerGood(mgr) /\ ChannelsTyped
        /\ batchChan \in Seq(Seq(Item))
    BY BatchStart
  <1>2. /\ w \in Work /\ WorkIn(w) /\ QueuesTyped' /\ QueueKinds'
        /\ \A j \in {"decode", "small", "large"} : j # k => queue'[j] = queue[j]
        /\ \A v : (\E j \in {"decode", "small", "large"} : HoldsWork(queue'[j], v)) => WorkIn(v)
        /\ a \in Places /\ Lines[a] # << >> /\ Head(Lines[a]) = w.request /\ Lines'[a] = Tail(Lines[a])
    BY TakesHead
  <1>3. ~exists(w.request) \/ timedOut(w)
    <2>1. WorkSound(w)
      BY <1>1, <1>2 DEF TicketsSound
    <2> HIDE DEF w
    <2> QED BY <2>1 DEF WorkSound, CanSchedule, w
  <1>4. /\ SchedGood(sched') /\ sched'.held = s.held /\ sched'.batch = s.batch /\ sched'.pc = s.pc
        /\ RequestsTyped' /\ ManagerGood(mgr)' /\ w.request \notin DOMAIN requests'
        /\ DOMAIN requests' \subseteq DOMAIN requests /\ \A r \in DOMAIN requests' : requests'[r] = requests[r]
    <2>1. CASE timedOut(w)
      <3>1. deleteRequest(w.request) /\ sched' = [s EXCEPT !.notify = requests[w.request].call]
        BY <2>1 DEF dropIfTimedOut
      <3>2. requests[w.request].call \in Calls
        BY <1>1, <2>1, Fields DEF timedOut, exists
      <3>3. Kept /\ RequestsTyped' /\ ManagerGood(mgr)' /\ DOMAIN requests' = DOMAIN requests \ {w.request}
        <4> HIDE DEF w
        <4> QED BY <1>1, <3>1, DeleteKept
      <3>4. SchedGood(sched') /\ sched'.held = s.held /\ sched'.batch = s.batch /\ sched'.pc = s.pc
        BY <3>1, <3>2, NotifyGood
      <3> QED BY <3>3, <3>4 DEF Kept
    <2>2. CASE ~timedOut(w)
      <3>1. sched' = s /\ UNCHANGED <<requests, mgr>>
        BY <2>2 DEF dropIfTimedOut
      <3> QED BY <1>1, <1>3, <2>2, <3>1 DEF exists, RequestsTyped
    <2> QED BY <2>1, <2>2
  <1>5. HeldKinds(sched')
    BY <1>4 DEF HeldKinds
  <1>6. BatchStep
    BY <1>1, <1>2, <1>4, <1>5 DEF BatchStep, ChannelsTyped
  <1>7. BatchWorks
    BY <1>2, <1>4 DEF BatchWorks, WorkIn
  <1>8. StepParts
    BY <1>6, <1>7, BatchParts
  <1>9. Dropped(Lines, Lines', a)
    <2>1. ASSUME NEW p \in Places, p # a PROVE Lines'[p] = Lines[p]
      BY <1>2, <1>4, <1>6, <2>1, BatchPlaces
    <2> QED BY <1>2, <2>1 DEF Dropped
  <1>10. Head(Lines[a]) \notin DOMAIN requests'
    BY <1>2, <1>4
  <1>11. Serving' /\ Onward /\ ~Occurs(Lines', w.request)
    BY <1>2, <1>8, <1>9, <1>10, DropStep
  <1>12. DropsFrom(k)
    <2>1. IF timedOut(w)
          THEN deleteRequest(w.request) /\ sched'.notify = requests[w.request].call
          ELSE sched'.notify = NoCall /\ UNCHANGED <<mgr, requests>>
      <3>1. CASE timedOut(w)
        <4>1. deleteRequest(w.request) /\ sched' = [s EXCEPT !.notify = requests[w.request].call]
          BY <3>1 DEF dropIfTimedOut
        <4>2. requests[w.request].call \in Calls
          BY <1>1, <3>1, Fields DEF timedOut, exists
        <4>3. sched'.notify = requests[w.request].call
          BY <4>1, <4>2, NotifyGood
        <4> QED BY <3>1, <4>1, <4>3
      <3>2. CASE ~timedOut(w)
        BY <3>2 DEF dropIfTimedOut
      <3> QED BY <3>1, <3>2
    <2> QED BY <1>4, <1>11, <2>1 DEF DropsFrom, TakesFrom
  <1> QED BY <1>11, <1>12 DEF BatchFlow

(* Dequeue and Pop hold a work that can be scheduled. *)
LEMMA HoldsHeadStep ==
  ASSUME Serving, NEW k \in {"decode", "small", "large"}, queue[k] # << >>,
         queue' = [queue EXCEPT ![k] = Tail(@)],
         SchedGood(sched'), HeldKinds(sched'), CanSchedule(Head(queue[k])), sched'.notify = NoCall,
         sched'.held = Append(sched.held, Head(queue[k])), sched'.batch = sched.batch,
         UNCHANGED <<mgr, requests, channel, handler, expired, batchChan, exec, eventChan, cons, panicked>>
  PROVE  Serving' /\ Onward /\ BatchFlow
  <1> DEFINE w == Head(queue[k])
             a == <<"queue", k>>
  <1>1. /\ Typed /\ TicketsSound /\ RequestsTyped /\ ManagerGood(mgr) /\ ChannelsTyped
        /\ batchChan \in Seq(Seq(Item)) /\ sched.held \in Seq(Work)
    BY BatchStart, Fields
  <1>2. /\ w \in Work /\ WorkIn(w) /\ QueuesTyped' /\ QueueKinds'
        /\ \A j \in {"decode", "small", "large"} : j # k => queue'[j] = queue[j]
        /\ \A v : (\E j \in {"decode", "small", "large"} : HoldsWork(queue'[j], v)) => WorkIn(v)
        /\ a \in Places /\ Lines[a] # << >> /\ Head(Lines[a]) = w.request /\ Lines'[a] = Tail(Lines[a])
    BY TakesHead
  <1> HIDE DEF w
  <1>3. BatchStep
    BY <1>1, <1>2 DEF BatchStep, ChannelsTyped, RequestsTyped
  <1>4. BatchWorks
    <2>1. \A v : HoldsWork(Append(sched.held, w), v) => HoldsWork(sched.held, v) \/ v = w
      BY <1>1, HoldsAppend
    <2>2. sched'.held = Append(sched.held, w)
      BY DEF w
    <2> QED BY <1>2, <2>1, <2>2 DEF BatchWorks, WorkIn
  <1>5. StepParts
    BY <1>3, <1>4, BatchParts
  <1>6. Moved(Lines, Lines', a, <<"held", 0>>)
    <2>1. ASSUME NEW p \in Places, p # a, p # <<"held", 0>> PROVE Lines'[p] = Lines[p]
      BY <1>2, <1>3, <2>1, BatchPlaces
    <2>2. Lines'[<<"held", 0>>] = Append(Lines[<<"held", 0>>], w.request)
      <3>1. idsOf(Append(sched.held, w)) = Append(idsOf(sched.held), w.request)
        BY <1>1, IdsOf
      <3>2. sched'.held = Append(sched.held, w)
        BY DEF w
      <3> QED BY <3>1, <3>2, LineAt, LineAtNext DEF LinesAre
    <2>3. a # <<"held", 0>> /\ <<"held", 0>> \in Places
      BY PlaceNames
    <2> HIDE DEF a
    <2> QED BY <1>2, <2>1, <2>2, <2>3 DEF Moved
  <1>7. BatchFlow
    BY DEF BatchFlow, Picks, TakesFrom
  <1> QED BY <1>5, <1>6, <1>7, MoveStep
-----------------------------------------------------------------------------
(* Dequeue. *)
LEMMA DequeueStep == ASSUME Serving, Dequeue PROVE Serving' /\ Onward /\ BatchFlow
  <1> DEFINE w == Head(queue.decode)
             can == CanSchedule(w)
  <1>1. /\ Typed /\ SchedGood(sched) /\ sched \in SchedRecord /\ HeldKinds(sched)
        /\ sched.pc = "dequeue" /\ sched.notify = NoCall
        /\ sched.scanned < Min({sched.seqs, sched.tokens}) /\ queue["decode"] # << >>
        /\ queue' = [queue EXCEPT !["decode"] = Tail(@)]
        /\ UNCHANGED <<kv, channel, handler, expired, batchChan, exec, eventChan, cons, panicked>>
    BY BatchStart DEF Dequeue, processUp
  <1>2. w \in Work /\ queueOf(w) = "decode" /\ w = Head(queue["decode"])
    BY <1>1, TakesHead
  <1>3. PICK hs \in Seq(Work) : hs = IF can THEN Append(sched.held, w) ELSE sched.held
    <2>1. sched.held \in Seq(Work) /\ Append(sched.held, w) \in Seq(Work)
      BY <1>1, <1>2, SeqTyped, Fields
    <2>2. CASE can
      BY <2>1, <2>2, Zenon
    <2>3. CASE ~can
      BY <2>1, <2>3, Zenon
    <2> QED BY <2>2, <2>3
  <1>4. PICK n \in Nat : n = sched.scanned + 1
    BY <1>1 DEF SchedRecord
  <1>5. PICK s : s = [sched EXCEPT !.scanned = n, !.held = hs]
    OBVIOUS
  <1>6. dropIfTimedOut(w, s)
    <2>1. s = [sched EXCEPT !.scanned = @ + 1, !.held = IF CanSchedule(w) THEN Append(@, w) ELSE @]
      BY <1>1, <1>3, <1>4, <1>5 DEF SchedRecord
    <2> QED BY <2>1 DEF Dequeue
  <1>7. /\ s \in SchedRecord /\ s.pc = "dequeue" /\ s.notify = NoCall /\ s.held = hs /\ s.scanned = n
        /\ s.batch = sched.batch /\ s.seqs = sched.seqs /\ s.tokens = sched.tokens
    BY <1>1, <1>5 DEF SchedRecord
  <1>8. SchedGood(s)
    <2>1. n <= sched.seqs /\ n <= sched.tokens
      <3>1. sched.seqs \in Nat /\ sched.tokens \in Nat /\ sched.scanned \in Nat
        BY <1>1 DEF SchedRecord
      <3>2. \E x \in {sched.seqs, sched.tokens} : \A y \in {sched.seqs, sched.tokens} : x <= y
        BY <3>1
      <3>3. /\ Min({sched.seqs, sched.tokens}) \in Nat /\ Min({sched.seqs, sched.tokens}) <= sched.seqs
            /\ Min({sched.seqs, sched.tokens}) <= sched.tokens
        BY <3>1, <3>2 DEF Min
      <3> QED BY <1>1, <1>4, <3>1, <3>3
    <2>2. Len(hs) <= n
      <3>1. Len(sched.held) \in Nat /\ Len(sched.held) <= sched.scanned /\ sched.held \in Seq(Work)
            /\ sched.scanned \in Nat
        BY <1>1 DEF SchedGood, SchedRecord
      <3>2. Len(Append(sched.held, w)) = Len(sched.held) + 1
        BY <3>1
      <3>3. CASE can
        BY <1>3, <1>4, <3>1, <3>2, <3>3
      <3>4. CASE ~can
        BY <1>3, <1>4, <3>1, <3>4
      <3> QED BY <3>3, <3>4
    <2> QED BY <1>1, <1>7, <2>1, <2>2 DEF SchedGood
  <1>9. HeldKinds(s)
    <2>1. ASSUME NEW i \in DOMAIN hs PROVE queueOf(hs[i]) = "decode"
      <3>1. \A j \in DOMAIN sched.held : queueOf(sched.held[j]) = "decode"
        BY <1>1 DEF HeldKinds
      <3>2. sched.held \in Seq(Work)
        BY <1>1, Fields
      <3>3. CASE can
        <4>1. PICK t \in Seq(Work) : t = sched.held
          BY <3>2
        <4>2. hs = Append(t, w)
          BY <1>3, <3>3, <4>1
        <4>3. (i \in DOMAIN t /\ hs[i] = t[i]) \/ hs[i] = w
          BY <2>1, <4>1, <4>2
        <4> QED BY <1>2, <3>1, <4>1, <4>3
      <3>4. CASE ~can
        BY <1>3, <2>1, <3>1, <3>4
      <3> QED BY <3>3, <3>4
    <2> QED BY <1>7, <2>1 DEF HeldKinds
  <1>10. CASE can
    <2>1. ~timedOut(w)
      BY <1>10 DEF CanSchedule
    <2>2. sched' = s /\ UNCHANGED <<requests, mgr>>
      BY <1>6, <2>1 DEF dropIfTimedOut
    <2>3. /\ sched'.held = Append(sched.held, Head(queue["decode"])) /\ sched'.batch = sched.batch
          /\ sched'.notify = NoCall /\ CanSchedule(Head(queue["decode"]))
      BY <1>2, <1>3, <1>7, <1>10, <2>2
    <2> QED BY <1>1, <1>8, <1>9, <2>2, <2>3, HoldsHeadStep
  <1>11. CASE ~can
    <2>1. s.held = sched.held /\ s.batch = sched.batch
      BY <1>3, <1>7, <1>11
    <2>2. ~CanSchedule(Head(queue["decode"])) /\ dropIfTimedOut(Head(queue["decode"]), s)
      BY <1>2, <1>6, <1>11
    <2> QED BY <1>1, <1>7, <1>8, <1>9, <2>1, <2>2, DropsHeadStep
  <1> QED BY <1>10, <1>11

(* The cost of a work. *)
LEMMA CostTyped == ASSUME NEW w \in Work PROVE WorkBudgetCost(w) \in Nat
  BY DEF WorkBudgetCost, Work

(* PeekSmall. *)
LEMMA PeekStep == ASSUME Serving, PeekSmall PROVE Serving' /\ Onward /\ BatchFlow
  <1> DEFINE w == Head(queue.small)
             cost == WorkBudgetCost(w)
  <1>1. /\ Typed /\ SchedGood(sched) /\ sched \in SchedRecord /\ HeldKinds(sched) /\ ChannelsTyped
        /\ sched.pc = "peek" /\ sched.notify = NoCall /\ queue.large \in Seq(Work)
        /\ queue.small \in Seq(Work)
        /\ UNCHANGED <<kv, channel, handler, expired, batchChan, exec, eventChan, cons, panicked>>
    BY BatchStart DEF PeekSmall, processUp
  <1>2. sched.held = << >> /\ Ready(sched) /\ sched.seqs > 0 /\ sched.tokens > 0 /\ sched.tokens \in Nat
    BY <1>1 DEF SchedGood, Ready, SchedRecord
  <1>3. ChannelsTyped'
    BY <1>1 DEF ChannelsTyped
  <1>4. GoesOn(sched, atLarge(sched, queue))
    BY <1>1, <1>2, AtLarge
  <1>5. CASE sched' = atLarge(sched, queue) /\ UNCHANGED <<queue, requests, mgr>>
    <2>1. /\ SchedGood(sched') /\ sched'.held = sched.held /\ sched'.batch = sched.batch
          /\ sched'.notify = NoCall
      BY <1>2, <1>4, <1>5 DEF GoesOn
    <2>2. HeldKinds(sched')
      BY <1>2, <2>1, NoKinds
    <2> QED BY <1>1, <1>3, <1>5, <2>1, <2>2, SchedOnly
  <1>6. CASE queue.small # << >> /\ CanSchedule(w) /\ ~(cost > sched.tokens)
    <2>1. /\ sched' = [sched EXCEPT !.pc = "popSmall", !.cost = cost] /\ UNCHANGED <<queue, requests, mgr>>
      BY <1>6 DEF PeekSmall
    <2>2. cost \in Nat
      <3>1. w \in Work
        BY <1>1, <1>6, SeqTyped
      <3> QED BY <3>1, CostTyped
    <2>3. /\ sched' \in SchedRecord /\ sched'.pc = "popSmall" /\ sched'.held = sched.held
          /\ sched'.cost = cost
          /\ sched'.batch = sched.batch /\ sched'.notify = NoCall /\ sched'.seqs = sched.seqs
          /\ sched'.tokens = sched.tokens
      <3>1. PICK n \in Nat : n = cost
        BY <2>2
      <3>2. sched' = [sched EXCEPT !.pc = "popSmall", !.cost = n]
        BY <2>1, <3>1
      <3> HIDE DEF cost
      <3> QED BY <1>1, <3>1, <3>2 DEF SchedRecord, SchedPcs
    <2>4. cost <= sched.tokens
      <3> HIDE DEF cost
      <3> QED BY <1>2, <1>6, <2>2
    <2>5. SchedGood(sched')
      <3> HIDE DEF cost
      <3> QED BY <1>1, <1>2, <2>3, <2>4 DEF SchedGood
    <2>6. HeldKinds(sched')
      BY <1>2, <2>3, NoKinds
    <2> QED BY <1>1, <1>3, <2>1, <2>3, <2>5, <2>6, SchedOnly
  <1>7. CASE queue.small # << >> /\ ~CanSchedule(w)
    <2>1. /\ queue["small"] # << >> /\ queue' = [queue EXCEPT !["small"] = Tail(@)]
          /\ dropIfTimedOut(Head(queue["small"]), sched) /\ ~CanSchedule(Head(queue["small"]))
      BY <1>7 DEF PeekSmall
    <2> QED BY <1>1, <2>1, DropsHeadStep
  <1> QED BY <1>5, <1>6, <1>7 DEF PeekSmall

(* Pop, of a small or a large prefill. *)
LEMMA PopStep ==
  ASSUME Serving, NEW k \in {"small", "large"}, NEW popPc \in {"popSmall", "popLarge"},
         k = "small" <=> popPc = "popSmall", NEW emptied, pop(k, popPc, k, emptied),
         GoesOn(sched, emptied)
  PROVE  Serving' /\ Onward /\ BatchFlow
  <1> DEFINE w == Head(queue[k])
  <1>1. /\ Typed /\ SchedGood(sched) /\ sched \in SchedRecord /\ HeldKinds(sched) /\ ChannelsTyped
        /\ sched.pc = popPc /\ sched.notify = NoCall
        /\ UNCHANGED <<kv, channel, handler, expired, batchChan, exec, eventChan, cons, panicked>>
    BY BatchStart DEF pop, processUp
  <1>2. sched.held = << >>
    BY <1>1 DEF SchedGood
  <1>3. ChannelsTyped'
    BY <1>1 DEF ChannelsTyped
  <1>4. CASE queue[k] = << >>
    <2>1. sched' = emptied /\ UNCHANGED <<queue, requests, mgr>>
      BY <1>4 DEF pop
    <2>2. /\ SchedGood(sched') /\ sched'.held = sched.held /\ sched'.batch = sched.batch
          /\ sched'.notify = NoCall
      BY <1>2, <2>1 DEF GoesOn
    <2>3. HeldKinds(sched')
      BY <1>2, <2>2, NoKinds
    <2> QED BY <1>1, <1>3, <2>1, <2>2, <2>3, SchedOnly
  <1>5. CASE queue[k] # << >> /\ CanSchedule(w)
    <2>1. /\ queue' = [queue EXCEPT ![k] = Tail(@)] /\ UNCHANGED <<requests, mgr>>
          /\ sched' = [sched EXCEPT !.pc = k, !.held = <<w>>]
      BY <1>5 DEF pop
    <2>2. w \in Work /\ queueOf(w) = k
      BY <1>5, <2>1, TakesHead
    <2>3. PICK hs \in Seq(Work) : hs = <<w>>
      <3>1. <<w>> \in Seq(Work)
        BY <2>2
      <3> QED BY <3>1, Zenon
    <2>4. /\ sched' \in SchedRecord /\ sched'.pc = k /\ sched'.held = hs /\ sched'.cost = sched.cost
          /\ sched'.batch = sched.batch /\ sched'.notify = NoCall /\ sched'.seqs = sched.seqs
          /\ sched'.tokens = sched.tokens
      <3>1. sched' = [sched EXCEPT !.pc = k, !.held = hs]
        BY <2>1, <2>3
      <3> QED BY <1>1, <3>1 DEF SchedRecord, SchedPcs
    <2>5. Len(hs) = 1 /\ hs = Append(sched.held, w) /\ (\A i \in DOMAIN hs : hs[i] = w)
      BY <1>2, <2>3
    <2> HIDE DEF w
    <2>6. SchedGood(sched')
      BY <1>1, <2>4, <2>5 DEF SchedGood
    <2>7. HeldKinds(sched')
      BY <2>2, <2>4, <2>5 DEF HeldKinds
    <2>8. sched'.held = Append(sched.held, Head(queue[k])) /\ CanSchedule(Head(queue[k]))
      BY <1>5, <2>4, <2>5 DEF w
    <2> QED BY <1>1, <1>5, <2>1, <2>4, <2>6, <2>7, <2>8, HoldsHeadStep
  <1>6. CASE queue[k] # << >> /\ ~CanSchedule(w)
    <2>1. /\ queue' = [queue EXCEPT ![k] = Tail(@)] /\ dropIfTimedOut(Head(queue[k]), sched)
      BY <1>6 DEF pop
    <2> QED BY <1>1, <1>6, <2>1, DropsHeadStep
  <1> QED BY <1>4, <1>5, <1>6

(* PopSmall and PopLarge. *)
LEMMA PopsStep == ASSUME Serving, PopSmall \/ PopLarge PROVE Serving' /\ Onward /\ BatchFlow
  <1>1. /\ SchedGood(sched) /\ sched \in SchedRecord /\ queue.large \in Seq(Work)
    BY BatchStart
  <1>2. CASE PopSmall
    <2>1. sched.pc = "popSmall" /\ sched.notify = NoCall
      BY <1>2 DEF PopSmall, pop
    <2>2. PICK n \in Nat : n = sched.scanned + 1
      BY <1>1 DEF SchedRecord
    <2>3. PICK s : s = [sched EXCEPT !.scanned = n, !.cost = 0]
      OBVIOUS
    <2>4. s = [sched EXCEPT !.scanned = @ + 1, !.cost = 0]
      BY <1>1, <2>2, <2>3 DEF SchedRecord
    <2>5. /\ s \in SchedRecord /\ s.held = sched.held /\ s.notify = NoCall /\ s.batch = sched.batch
          /\ s.seqs = sched.seqs /\ s.tokens = sched.tokens
      BY <1>1, <2>1, <2>3 DEF SchedRecord
    <2>6. Ready(s)
      BY <1>1, <2>1, <2>5 DEF SchedGood, Ready
    <2>7. GoesOn(sched, onSmall(s, queue))
      BY <1>1, <2>5, <2>6, OnSmall DEF GoesOn
    <2>8. pop("small", "popSmall", "small", onSmall(s, queue))
      BY <1>2, <2>4 DEF PopSmall
    <2> QED BY <2>7, <2>8, PopStep
  <1>3. CASE PopLarge
    <2>1. sched.pc = "popLarge" /\ sched.notify = NoCall
      BY <1>3 DEF PopLarge, pop
    <2>2. Ready(sched)
      BY <1>1, <2>1 DEF SchedGood, Ready
    <2>3. GoesOn(sched, atSubmit(sched))
      BY <2>2, AtSubmit
    <2> QED BY <1>3, <2>3, PopStep DEF PopLarge
  <1> QED BY <1>2, <1>3
-----------------------------------------------------------------------------
(* The first of the held works joins the batch, as a whole or a chunk. *)
LEMMA JoinStep ==
  ASSUME Serving, sched.held # << >>, NEW v \in Work, WorkSound(v),
         v.request = Head(sched.held).request, queueOf(v) = queueOf(Head(sched.held)),
         enoughBlocks(v), sched'.notify = NoCall,
         mgr' = AllocateBlocks(mgr, blockWorkOf(v)), SchedGood(sched'), HeldKinds(sched'),
         sched'.held = Tail(sched.held), sched'.batch = Append(sched.batch, batchItem(v)),
         UNCHANGED <<requests, channel, handler, expired, queue, batchChan, exec, eventChan, cons, panicked>>
  PROVE  Serving' /\ Onward /\ BatchFlow
  <1>1. /\ Typed /\ RequestsTyped /\ ManagerGood(mgr) /\ ChannelsTyped /\ QueuesTyped /\ QueueKinds
        /\ batchChan \in Seq(Seq(Item)) /\ sched.held \in Seq(Work) /\ sched.batch \in Seq(Item)
    BY BatchStart, Fields
  <1>2. ManagerGood(mgr)'
    BY <1>1, AllocateGood
  <1>3. PICK x : x = batchItem(v)
    OBVIOUS
  <1>4. x.work = v
    BY <1>3 DEF batchItem
  <1>5. BatchStep
    BY <1>1, <1>2 DEF BatchStep, ChannelsTyped, RequestsTyped, QueuesTyped, QueueKinds
  <1>6. BatchWorks
    <2>1. \A u : HoldsItem(Append(sched.batch, x), u) => HoldsItem(sched.batch, u) \/ u = x.work
      BY <1>1, HoldsAppend
    <2>2. \A u : HoldsWork(Tail(sched.held), u) => HoldsWork(sched.held, u)
      BY <1>1, HoldsTail
    <2>3. WorkSound(v)'
      BY DEF WorkSound, exists
    <2> QED BY <1>3, <1>4, <2>1, <2>2, <2>3 DEF BatchWorks, WorkIn
  <1>7. StepParts
    BY <1>5, <1>6, BatchParts
  <1>8. Moved(Lines, Lines', <<"held", 0>>, <<"batch", 0>>)
    <2>1. ASSUME NEW p \in Places, p # <<"held", 0>>, p # <<"batch", 0>> PROVE Lines'[p] = Lines[p]
      BY <1>5, <2>1, BatchPlaces
    <2>2. /\ idsOf(Tail(sched.held)) = Tail(idsOf(sched.held)) /\ idsOf(sched.held) # << >>
          /\ Head(idsOf(sched.held)) = Head(sched.held).request
      BY <1>1, IdsOf
    <2>3. itemIdsOf(Append(sched.batch, x)) = Append(itemIdsOf(sched.batch), x.work.request)
      BY <1>1, ItemIdsOf
    <2>4. /\ Lines[<<"held", 0>>] = idsOf(sched.held) /\ Lines'[<<"held", 0>>] = idsOf(sched'.held)
          /\ Lines[<<"batch", 0>>] = itemIdsOf(sched.batch) /\ Lines'[<<"batch", 0>>] = itemIdsOf(sched'.batch)
      BY LineAt, LineAtNext DEF LinesAre
    <2>5. Lines'[<<"batch", 0>>] = Append(Lines[<<"batch", 0>>], Head(Lines[<<"held", 0>>]))
      BY <1>3, <1>4, <2>2, <2>3, <2>4
    <2> QED BY <2>1, <2>2, <2>4, <2>5, PlaceNames DEF Moved
  <1>9. Joins(v)
    BY DEF Joins
  <1>10. BatchFlow
    BY <1>9 DEF BatchFlow
  <1> QED BY <1>7, <1>8, <1>10, MoveStep

(* Without blocks for it the first of the held works goes back to a queue. *)
LEMMA PutBackStep ==
  ASSUME Serving, sched.held # << >>, NEW v \in Work, WorkSound(v),
         v.request = Head(sched.held).request, ~enoughBlocks(v), sched'.notify = NoCall,
         mgr' = AllocateBlocks(mgr, blockWorkOf(v)), queue' = appended(queue, Head(sched.held)),
         SchedGood(sched'), HeldKinds(sched'),
         sched'.held = Tail(sched.held), sched'.batch = sched.batch,
         UNCHANGED <<requests, channel, handler, expired, batchChan, exec, eventChan, cons, panicked>>
  PROVE  Serving' /\ Onward /\ BatchFlow
  <1>1. /\ Typed /\ RequestsTyped /\ ManagerGood(mgr) /\ ChannelsTyped /\ QueueShape
        /\ batchChan \in Seq(Seq(Item)) /\ sched.held \in Seq(Work) /\ sched.batch \in Seq(Item)
    BY BatchStart, Fields DEF Shapes
  <1>2. ManagerGood(mgr)'
    BY <1>1, AllocateGood
  <1>3. PICK w \in Work : w = Head(sched.held)
    BY <1>1, SeqTyped
  <1>4. /\ queueOf(w) \in {"decode", "small", "large"}
        /\ \A k \in {"decode", "small", "large"} : k # queueOf(w) => queue'[k] = queue[k]
        /\ QueuesTyped'
        /\ \A k \in DOMAIN queue' : \A i \in DOMAIN queue'[k] : queueOf(queue'[k][i]) = k
        /\ \A u : (\E k \in {"decode", "small", "large"} : HoldsWork(queue'[k], u)) =>
                    u = w \/ \E k \in {"decode", "small", "large"} : HoldsWork(queue[k], u)
        /\ Lines'[<<"queue", queueOf(w)>>] = Append(Lines[<<"queue", queueOf(w)>>], w.request)
        /\ <<"queue", queueOf(w)>> \in Places
    BY <1>1, <1>3, Appended
  <1>5. BatchStep
    BY <1>1, <1>2, <1>4 DEF BatchStep, ChannelsTyped, RequestsTyped, QueueKinds
  <1>6. BatchWorks
    <2>1. /\ \A u : HoldsWork(Tail(sched.held), u) => HoldsWork(sched.held, u)
          /\ HoldsWork(sched.held, w)
      BY <1>1, <1>3, HoldsTail
    <2> QED BY <1>4, <2>1 DEF BatchWorks, WorkIn
  <1>7. StepParts
    BY <1>5, <1>6, BatchParts
  <1>8. Moved(Lines, Lines', <<"held", 0>>, <<"queue", queueOf(w)>>)
    <2>1. ASSUME NEW p \in Places, p # <<"held", 0>>, p # <<"queue", queueOf(w)>> PROVE Lines'[p] = Lines[p]
      BY <1>4, <1>5, <2>1, BatchPlaces
    <2>2. /\ idsOf(Tail(sched.held)) = Tail(idsOf(sched.held)) /\ idsOf(sched.held) # << >>
          /\ Head(idsOf(sched.held)) = w.request
      BY <1>1, <1>3, IdsOf
    <2>3. Lines[<<"held", 0>>] = idsOf(sched.held) /\ Lines'[<<"held", 0>>] = idsOf(sched'.held)
      BY LineAt, LineAtNext DEF LinesAre
    <2>4. <<"held", 0>> # <<"queue", queueOf(w)>> /\ <<"held", 0>> \in Places
      BY PlaceNames
    <2> QED BY <1>4, <2>1, <2>2, <2>3, <2>4 DEF Moved
  <1>9. PutsBack(v)
    BY DEF PutsBack
  <1>10. BatchFlow
    BY <1>9 DEF BatchFlow
  <1> QED BY <1>7, <1>8, <1>10, MoveStep

(* The batch loop's record after AllocateBlocks. *)
HeldTail(s) == [s EXCEPT !.held = Tail(@)]
Joined(s, item) == [HeldTail(s) EXCEPT !.batch = Append(@, item), !.seqs = @ - 1]

(* The held works without the first: the fields. *)
LEMMA HeldTailFields ==
  ASSUME NEW s \in SchedRecord, s.held # << >>
  PROVE  LET t == HeldTail(s) IN
         /\ t \in SchedRecord /\ t.held = Tail(s.held) /\ t.batch = s.batch /\ t.pc = s.pc
         /\ t.notify = s.notify /\ t.seqs = s.seqs /\ t.tokens = s.tokens /\ t.cost = s.cost
         /\ t.scanned = s.scanned /\ t.prefill = s.prefill /\ t.large = s.large
         /\ Len(Tail(s.held)) = Len(s.held) - 1 /\ Len(s.held) \in Nat
  <1>1. s.held \in Seq(Work)
    BY DEF SchedRecord
  <1>2. PICK hs \in Seq(Work) : hs = Tail(s.held)
    <2>1. Tail(s.held) \in Seq(Work)
      BY <1>1, SeqTyped
    <2> QED BY <2>1, Zenon
  <1>3. PICK t : t = [s EXCEPT !.held = hs]
    OBVIOUS
  <1>4. t = HeldTail(s)
    BY <1>2, <1>3 DEF HeldTail
  <1>5. /\ t \in SchedRecord /\ t.held = hs /\ t.batch = s.batch /\ t.pc = s.pc
        /\ t.notify = s.notify /\ t.seqs = s.seqs /\ t.tokens = s.tokens /\ t.cost = s.cost
        /\ t.scanned = s.scanned /\ t.prefill = s.prefill /\ t.large = s.large
    BY <1>3 DEF SchedRecord
  <1>6. Len(Tail(s.held)) = Len(s.held) - 1 /\ Len(s.held) \in Nat
    BY <1>1
  <1> QED BY <1>2, <1>4, <1>5, <1>6

(* The batch with one more work: the fields. *)
LEMMA JoinedFields ==
  ASSUME NEW s \in SchedRecord, s.held # << >>, s.seqs > 0, NEW item \in Item
  PROVE  LET t == Joined(s, item) IN
         /\ t \in SchedRecord /\ t.held = Tail(s.held) /\ t.batch = Append(s.batch, item) /\ t.pc = s.pc
         /\ t.notify = s.notify /\ t.seqs = s.seqs - 1 /\ t.tokens = s.tokens /\ t.cost = s.cost
         /\ t.scanned = s.scanned /\ t.prefill = s.prefill /\ t.large = s.large
         /\ Len(t.batch) = Len(s.batch) + 1 /\ Len(s.batch) \in Nat
  <1>1. PICK u \in SchedRecord : u = HeldTail(s)
    BY HeldTailFields
  <1>2. /\ u.held = Tail(s.held) /\ u.batch = s.batch /\ u.pc = s.pc
        /\ u.notify = s.notify /\ u.seqs = s.seqs /\ u.tokens = s.tokens /\ u.cost = s.cost
        /\ u.scanned = s.scanned /\ u.prefill = s.prefill /\ u.large = s.large
    BY <1>1, HeldTailFields
  <1>3. s.batch \in Seq(Item) /\ s.seqs \in Nat
    BY DEF SchedRecord
  <1>4. PICK b \in Seq(Item) : b = Append(s.batch, item)
    <2>1. Append(s.batch, item) \in Seq(Item)
      BY <1>3, SeqTyped
    <2> QED BY <2>1, Zenon
  <1>5. PICK n \in Nat : n = s.seqs - 1
    BY <1>3
  <1>6. PICK t : t = [u EXCEPT !.batch = b, !.seqs = n]
    OBVIOUS
  <1>7. t = Joined(s, item)
    BY <1>1, <1>2, <1>4, <1>5, <1>6 DEF Joined
  <1>8. /\ t \in SchedRecord /\ t.held = u.held /\ t.batch = b /\ t.pc = u.pc
        /\ t.notify = u.notify /\ t.seqs = n /\ t.tokens = u.tokens /\ t.cost = u.cost
        /\ t.scanned = u.scanned /\ t.prefill = u.prefill /\ t.large = u.large
    BY <1>6 DEF SchedRecord
  <1>9. Len(b) = Len(s.batch) + 1 /\ Len(s.batch) \in Nat
    BY <1>3, <1>4
  <1> QED BY <1>2, <1>4, <1>5, <1>7, <1>8, <1>9

(* What the three AllocateBlocks callers have in hand. *)
LEMMA InHand ==
  ASSUME Serving, sched.pc \in {"decode", "small", "large"}
  PROVE  LET w == Head(sched.held) IN
         /\ sched \in SchedRecord /\ SchedGood(sched) /\ sched.held # << >> /\ sched.held \in Seq(Work)
         /\ w \in Work /\ WorkSound(w) /\ sched.notify = NoCall
         /\ Len(sched.held) \in Nat /\ Len(sched.held) > 0
         /\ sched.seqs \in Nat /\ sched.tokens \in Nat /\ Len(sched.batch) \in Nat
         /\ sched.seqs > 0 /\ sched.tokens > 0
         /\ Len(sched.batch) + sched.seqs = MaxBatchSeq /\ sched.tokens <= MaxBatchTokens
         /\ sched.pc # "decode" => Len(sched.held) = 1 /\ Tail(sched.held) = << >>
         /\ \A i \in DOMAIN sched.held : queueOf(sched.held[i]) = sched.pc
         /\ queue.large \in Seq(Work) /\ queue.small \in Seq(Work)
  <1>1. /\ Typed /\ SchedGood(sched) /\ sched \in SchedRecord /\ HeldKinds(sched) /\ TicketsSound
        /\ queue.large \in Seq(Work) /\ queue.small \in Seq(Work)
    BY BatchStart
  <1>2. /\ sched.held \in Seq(Work) /\ Len(sched.held) \in Nat /\ sched.seqs \in Nat
        /\ sched.tokens \in Nat /\ Len(sched.batch) \in Nat
    BY <1>1 DEF SchedRecord
  <1>3. Len(sched.held) > 0 /\ sched.seqs > 0 /\ sched.tokens > 0
    <2>1. PICK n \in Nat : n = Len(sched.held)
      BY <1>2
    <2>2. CASE sched.pc = "decode"
      <3>1. n > 0 /\ n <= sched.seqs /\ n <= sched.tokens
        BY <1>1, <2>1, <2>2 DEF SchedGood
      <3> QED BY <1>2, <2>1, <3>1
    <2>3. CASE sched.pc \in {"small", "large"}
      <3>1. n = 1 /\ sched.seqs > 0 /\ sched.tokens > 0
        BY <1>1, <2>1, <2>3 DEF SchedGood
      <3> QED BY <1>2, <2>1, <3>1
    <2> QED BY <2>2, <2>3
  <1>4. sched.held # << >>
    BY <1>2, <1>3
  <1>5. PICK w \in Work : w = Head(sched.held)
    BY <1>2, <1>4, SeqTyped
  <1>6. WorkIn(w)
    BY <1>2, <1>4, <1>5, HoldsTail DEF WorkIn
  <1>7. WorkSound(w)
    BY <1>1, <1>6 DEF TicketsSound
  <1>8. sched.pc # "decode" => Len(sched.held) = 1 /\ Tail(sched.held) = << >>
    <2>1. sched.pc # "decode" => Len(sched.held) = 1
      BY <1>1 DEF SchedGood
    <2>2. ASSUME NEW hs \in Seq(Work), Len(hs) = 1 PROVE Tail(hs) = << >>
      <3>1. hs = <<hs[1]>>
        BY <2>2
      <3>2. \A x : Tail(<<x>>) = << >>
        OBVIOUS
      <3> QED BY <3>1, <3>2
    <2> QED BY <1>2, <2>1, <2>2
  <1>9. /\ sched.notify = NoCall /\ Len(sched.batch) + sched.seqs = MaxBatchSeq
        /\ sched.tokens <= MaxBatchTokens
    BY <1>1 DEF SchedGood
  <1>10. \A i \in DOMAIN sched.held : queueOf(sched.held[i]) = sched.pc
    BY <1>1 DEF HeldKinds
  <1> QED BY <1>1, <1>2, <1>3, <1>4, <1>5, <1>7, <1>8, <1>9, <1>10

(* The queues after AllocateBlocks. *)
LEMMA QueuesAfter ==
  ASSUME Serving, sched.pc \in {"decode", "small", "large"},
         queue' = queue \/ queue' = appended(queue, Head(sched.held))
  PROVE  queue'.large \in Seq(Work) /\ queue'.small \in Seq(Work)
  <1>1. /\ Typed /\ QueueShape /\ QueuesTyped /\ Head(sched.held) \in Work
    BY InHand, BatchStart DEF Shapes
  <1>2. QueuesTyped'
    <2>1. CASE queue' = queue
      BY <1>1, <2>1 DEF QueuesTyped
    <2>2. CASE queue' = appended(queue, Head(sched.held))
      BY <1>1, <2>2, Appended
    <2> QED BY <2>1, <2>2
  <1> QED BY <1>2 DEF QueuesTyped

(* AllocateDecode. *)
LEMMA AllocateDecodeStep == ASSUME Serving, AllocateDecode PROVE Serving' /\ Onward /\ BatchFlow
  <1> DEFINE w == Head(sched.held)
             ok == enoughBlocks(w)
             item == batchItem(w)
  <1>1. sched.pc = "decode"
    BY DEF AllocateDecode
  <1>2. /\ sched \in SchedRecord /\ SchedGood(sched) /\ sched.held # << >> /\ sched.held \in Seq(Work)
        /\ w \in Work /\ WorkSound(w) /\ sched.notify = NoCall
        /\ Len(sched.held) \in Nat /\ Len(sched.held) > 0
        /\ sched.seqs \in Nat /\ sched.tokens \in Nat /\ Len(sched.batch) \in Nat
        /\ sched.seqs > 0 /\ sched.tokens > 0
        /\ Len(sched.batch) + sched.seqs = MaxBatchSeq /\ sched.tokens <= MaxBatchTokens
        /\ \A i \in DOMAIN sched.held : queueOf(sched.held[i]) = sched.pc
    BY <1>1, InHand
  <1>3. /\ mgr' = AllocateBlocks(mgr, blockWorkOf(w))
        /\ queue' = IF ok THEN queue ELSE appended(queue, w)
        /\ UNCHANGED <<kv, requests, channel, handler, expired, batchChan, exec, eventChan, cons, panicked>>
        /\ ok => LET t == [Joined(sched, item) EXCEPT !.tokens = @ - 1] IN
                 sched' = IF t.held = << >> THEN atSmall(t, queue') ELSE t
        /\ ~ok => LET t == HeldTail(sched) IN
                  sched' = IF t.held = << >> THEN atSmall(t, queue') ELSE t
    BY DEF AllocateDecode, allocateFor, processUp, HeldTail, Joined
  <1>4. queue'.large \in Seq(Work) /\ queue'.small \in Seq(Work)
    BY <1>1, <1>3, QueuesAfter
  <1>5. /\ Len(sched.held) <= sched.seqs /\ Len(sched.held) <= sched.tokens
    BY <1>1, <1>2 DEF SchedGood
  <1>6. ok => item \in Item
    <2>1. ManagerGood(mgr)
      BY BatchStart
    <2> QED BY <1>2, <2>1, AllocateGood DEF enoughBlocks, batchItem
  <1>7. ASSUME NEW t \in SchedRecord, t.held = Tail(sched.held), t.pc = "decode", t.notify = NoCall,
               Len(t.batch) + t.seqs = MaxBatchSeq, t.tokens <= MaxBatchTokens,
               Len(sched.held) - 1 <= t.seqs, Len(sched.held) - 1 <= t.tokens,
               sched' = IF t.held = << >> THEN atSmall(t, queue') ELSE t
        PROVE  SchedGood(sched') /\ HeldKinds(sched') /\ sched'.held = Tail(sched.held)
               /\ sched'.batch = t.batch /\ sched'.notify = NoCall
    <2>1. CASE t.held = << >>
      <3>1. Ready(t)
        BY <1>7, <2>1 DEF Ready
      <3>2. GoesOn(t, sched')
        BY <1>4, <1>7, <2>1, <3>1, AtSmall
      <3> QED BY <1>7, <2>1, <3>2, NoKinds DEF GoesOn
    <2>2. CASE t.held # << >>
      <3>1. sched' = t
        BY <1>7, <2>2
      <3>2. Len(t.held) = Len(sched.held) - 1 /\ Len(t.held) > 0 /\ t.held \in Seq(Work)
        <4>1. Len(Tail(sched.held)) = Len(sched.held) - 1
          BY <1>2
        <4>2. t.held \in Seq(Work)
          BY DEF SchedRecord
        <4>3. Len(t.held) > 0
          BY <2>2, <4>2
        <4> QED BY <1>7, <4>1, <4>2, <4>3
      <3>3. t.seqs <= MaxBatchSeq /\ Len(t.batch) <= MaxBatchSeq
        <4>1. t.seqs \in Nat /\ Len(t.batch) \in Nat
          BY DEF SchedRecord
        <4> QED BY <1>7, <4>1, Bounds
      <3>4. SchedGood(t)
        BY <1>7, <3>2, <3>3 DEF SchedGood
      <3>5. HeldKinds(t)
        <4>1. ASSUME NEW i \in DOMAIN t.held PROVE queueOf(t.held[i]) = "decode"
          <5>1. PICK hs \in Seq(Work) : hs = sched.held
            BY <1>2
          <5>2. i + 1 \in DOMAIN hs /\ Tail(hs)[i] = hs[i + 1]
            BY <1>2, <1>7, <4>1, <5>1
          <5> QED BY <1>1, <1>2, <1>7, <5>1, <5>2
        <4> QED BY <1>7, <4>1 DEF HeldKinds
      <3> QED BY <1>7, <3>1, <3>4, <3>5
    <2> QED BY <2>1, <2>2
  <1>8. CASE ok
    <2>1. PICK u \in SchedRecord : u = Joined(sched, item)
      BY <1>2, <1>6, <1>8, JoinedFields
    <2>2. /\ u.held = Tail(sched.held) /\ u.batch = Append(sched.batch, item) /\ u.pc = sched.pc
          /\ u.notify = sched.notify /\ u.seqs = sched.seqs - 1 /\ u.tokens = sched.tokens
          /\ Len(u.batch) = Len(sched.batch) + 1
      BY <1>2, <1>6, <1>8, <2>1, JoinedFields
    <2>3. PICK n \in Nat : n = sched.tokens - 1
      BY <1>2
    <2>4. PICK t : t = [u EXCEPT !.tokens = n]
      OBVIOUS
    <2>5. /\ t \in SchedRecord /\ t.held = u.held /\ t.batch = u.batch /\ t.pc = u.pc
          /\ t.notify = u.notify /\ t.seqs = u.seqs /\ t.tokens = n
      BY <2>4 DEF SchedRecord
    <2>6. sched' = IF t.held = << >> THEN atSmall(t, queue') ELSE t
      BY <1>3, <1>8, <2>1, <2>2, <2>3, <2>4
    <2>7. /\ Len(t.batch) + t.seqs = MaxBatchSeq /\ t.tokens <= MaxBatchTokens
          /\ Len(sched.held) - 1 <= t.seqs /\ Len(sched.held) - 1 <= t.tokens
      <3>1. PICK m \in Nat : m = Len(sched.batch)
        BY <1>2
      <3>2. PICK h \in Nat : h = Len(sched.held)
        BY <1>2
      <3>3. Len(t.batch) = m + 1 /\ t.seqs = sched.seqs - 1 /\ t.tokens = sched.tokens - 1
        BY <2>2, <2>3, <2>5, <3>1
      <3>4. PICK x \in Nat : x = sched.seqs
        BY <1>2
      <3>5. PICK y \in Nat : y = sched.tokens
        BY <1>2
      <3>6. m + x = MaxBatchSeq /\ y <= MaxBatchTokens /\ h <= x /\ h <= y
        BY <1>2, <1>5, <3>1, <3>2, <3>4, <3>5
      <3>7. (m + 1) + (x - 1) = MaxBatchSeq /\ y - 1 <= MaxBatchTokens /\ h - 1 <= x - 1 /\ h - 1 <= y - 1
        BY <3>6, Bounds
      <3> QED BY <3>1, <3>2, <3>3, <3>4, <3>5, <3>7
    <2>8. /\ SchedGood(sched') /\ HeldKinds(sched') /\ sched'.held = Tail(sched.held)
          /\ sched'.batch = Append(sched.batch, item) /\ sched'.notify = NoCall
      BY <1>1, <1>2, <1>7, <2>2, <2>5, <2>6, <2>7
    <2> QED BY <1>2, <1>3, <1>8, <2>8, JoinStep
  <1>9. CASE ~ok
    <2>1. PICK t \in SchedRecord : t = HeldTail(sched)
      BY <1>2, HeldTailFields
    <2>2. /\ t.held = Tail(sched.held) /\ t.batch = sched.batch /\ t.pc = sched.pc
          /\ t.notify = sched.notify /\ t.seqs = sched.seqs /\ t.tokens = sched.tokens
      BY <1>2, <2>1, HeldTailFields
    <2>3. sched' = IF t.held = << >> THEN atSmall(t, queue') ELSE t
      BY <1>3, <1>9, <2>1
    <2>4. /\ Len(t.batch) + t.seqs = MaxBatchSeq /\ t.tokens <= MaxBatchTokens
          /\ Len(sched.held) - 1 <= t.seqs /\ Len(sched.held) - 1 <= t.tokens
      BY <1>2, <1>5, <2>2
    <2>5. /\ SchedGood(sched') /\ HeldKinds(sched') /\ sched'.held = Tail(sched.held)
          /\ sched'.batch = sched.batch /\ sched'.notify = NoCall
      BY <1>1, <1>2, <1>7, <2>2, <2>3, <2>4
    <2> QED BY <1>2, <1>3, <1>9, <2>5, PutBackStep
  <1> QED BY <1>8, <1>9

(* AllocateSmall. *)
LEMMA AllocateSmallStep == ASSUME Serving, AllocateSmall PROVE Serving' /\ Onward /\ BatchFlow
  <1> DEFINE w == Head(sched.held)
             ok == enoughBlocks(w)
             item == batchItem(w)
  <1>1. sched.pc = "small"
    BY DEF AllocateSmall
  <1>2. /\ sched \in SchedRecord /\ SchedGood(sched) /\ sched.held # << >> /\ sched.held \in Seq(Work)
        /\ w \in Work /\ WorkSound(w) /\ sched.notify = NoCall
        /\ sched.seqs \in Nat /\ sched.tokens \in Nat /\ Len(sched.batch) \in Nat
        /\ sched.seqs > 0 /\ sched.tokens > 0 /\ Tail(sched.held) = << >>
        /\ Len(sched.batch) + sched.seqs = MaxBatchSeq /\ sched.tokens <= MaxBatchTokens
    BY <1>1, InHand
  <1>3. /\ mgr' = AllocateBlocks(mgr, blockWorkOf(w))
        /\ queue' = IF ok THEN queue ELSE appended(queue, w)
        /\ UNCHANGED <<kv, requests, channel, handler, expired, batchChan, exec, eventChan, cons, panicked>>
        /\ ok => sched' = onSmall([[Joined(sched, item) EXCEPT !.scanned = @ + 1, !.cost = 0]
                                     EXCEPT !.tokens = @ - sched.cost, !.prefill = @ - 1], queue')
        /\ ~ok => sched' = onSmall([HeldTail(sched) EXCEPT !.scanned = @ + 1, !.cost = 0], queue')
    BY DEF AllocateSmall, allocateFor, processUp, HeldTail, Joined
  <1>4. queue'.large \in Seq(Work) /\ queue'.small \in Seq(Work)
    BY <1>1, <1>3, QueuesAfter
  <1>5. sched.cost \in Nat /\ sched.cost <= sched.tokens
    BY <1>1, <1>2 DEF SchedGood, SchedRecord
  <1>6. ok => item \in Item
    <2>1. ManagerGood(mgr)
      BY BatchStart
    <2> QED BY <1>2, <2>1, AllocateGood DEF enoughBlocks, batchItem
  <1>7. ASSUME NEW t, Ready(t), sched' = onSmall(t, queue')
        PROVE  SchedGood(sched') /\ HeldKinds(sched') /\ sched'.held = Tail(sched.held)
               /\ sched'.batch = t.batch /\ sched'.notify = NoCall
    <2>1. GoesOn(t, sched')
      BY <1>4, <1>7, OnSmall
    <2> QED BY <1>2, <2>1, NoKinds DEF GoesOn
  <1>8. CASE ok
    <2>1. PICK u \in SchedRecord : u = Joined(sched, item)
      BY <1>2, <1>6, <1>8, JoinedFields
    <2>2. /\ u.held = Tail(sched.held) /\ u.batch = Append(sched.batch, item) /\ u.pc = sched.pc
          /\ u.notify = sched.notify /\ u.seqs = sched.seqs - 1 /\ u.tokens = sched.tokens
          /\ Len(u.batch) = Len(sched.batch) + 1
      BY <1>2, <1>6, <1>8, <2>1, JoinedFields
    <2>3. PICK n \in Nat : n = sched.tokens - sched.cost
      BY <1>2, <1>5
    <2>4. PICK m \in Nat : m = u.scanned + 1
      BY DEF SchedRecord
    <2>5. PICK k \in Int : k = u.prefill - 1
      BY DEF SchedRecord
    <2>6. PICK v : v = [u EXCEPT !.scanned = m, !.cost = 0]
      OBVIOUS
    <2>7. /\ v \in SchedRecord /\ v.held = u.held /\ v.batch = u.batch
          /\ v.notify = u.notify /\ v.seqs = u.seqs /\ v.tokens = u.tokens /\ v.prefill = u.prefill
      BY <2>6 DEF SchedRecord
    <2>8. PICK t : t = [v EXCEPT !.tokens = n, !.prefill = k]
      OBVIOUS
    <2>9. /\ t \in SchedRecord /\ t.held = v.held /\ t.batch = v.batch
          /\ t.notify = v.notify /\ t.seqs = v.seqs /\ t.tokens = n
      BY <2>7, <2>8 DEF SchedRecord
    <2>10. sched' = onSmall(t, queue')
      <3>1. v = [Joined(sched, item) EXCEPT !.scanned = @ + 1, !.cost = 0]
        BY <2>1, <2>4, <2>6
      <3>2. t = [v EXCEPT !.tokens = @ - sched.cost, !.prefill = @ - 1]
        BY <2>2, <2>3, <2>5, <2>7, <2>8
      <3> QED BY <1>3, <1>8, <3>1, <3>2
    <2>11. Ready(t)
      <3>1. PICK b \in Nat : b = Len(sched.batch)
        BY <1>2
      <3>2. PICK y \in Nat : y = sched.seqs
        BY <1>2
      <3>3. PICK z \in Nat : z = sched.tokens
        BY <1>2
      <3>4. b + y = MaxBatchSeq /\ z <= MaxBatchTokens
        BY <1>2, <3>1, <3>2, <3>3
      <3>5. n <= z
        BY <1>5, <2>3, <3>3
      <3>6. (b + 1) + (y - 1) = MaxBatchSeq /\ n <= MaxBatchTokens
        BY <3>4, <3>5, Bounds
      <3>7. Len(t.batch) = b + 1 /\ t.seqs = y - 1 /\ t.tokens = n
        BY <2>2, <2>7, <2>9, <3>1, <3>2
      <3> QED BY <1>2, <2>2, <2>7, <2>9, <3>6, <3>7 DEF Ready
    <2>12. /\ SchedGood(sched') /\ HeldKinds(sched') /\ sched'.held = Tail(sched.held)
           /\ sched'.batch = Append(sched.batch, item) /\ sched'.notify = NoCall
      BY <1>7, <2>2, <2>7, <2>9, <2>10, <2>11
    <2> QED BY <1>2, <1>3, <1>8, <2>12, JoinStep
  <1>9. CASE ~ok
    <2>1. PICK u \in SchedRecord : u = HeldTail(sched)
      BY <1>2, HeldTailFields
    <2>2. /\ u.held = Tail(sched.held) /\ u.batch = sched.batch
          /\ u.notify = sched.notify /\ u.seqs = sched.seqs /\ u.tokens = sched.tokens
      BY <1>2, <2>1, HeldTailFields
    <2>3. PICK m \in Nat : m = u.scanned + 1
      BY DEF SchedRecord
    <2>4. PICK t : t = [u EXCEPT !.scanned = m, !.cost = 0]
      OBVIOUS
    <2>5. /\ t \in SchedRecord /\ t.held = u.held /\ t.batch = u.batch
          /\ t.notify = u.notify /\ t.seqs = u.seqs /\ t.tokens = u.tokens
      BY <2>4 DEF SchedRecord
    <2>6. sched' = onSmall(t, queue')
      <3>1. t = [HeldTail(sched) EXCEPT !.scanned = @ + 1, !.cost = 0]
        BY <2>1, <2>3, <2>4
      <3> QED BY <1>3, <1>9, <3>1
    <2>7. Ready(t)
      BY <1>2, <2>2, <2>5 DEF Ready
    <2>8. /\ SchedGood(sched') /\ HeldKinds(sched') /\ sched'.held = Tail(sched.held)
          /\ sched'.batch = sched.batch /\ sched'.notify = NoCall
      BY <1>7, <2>2, <2>5, <2>6, <2>7
    <2> QED BY <1>2, <1>3, <1>9, <2>8, PutBackStep
  <1> QED BY <1>8, <1>9

-----------------------------------------------------------------------------
(* Each part of a round, and the whole of Next. *)

(* A chunk of a sound prefill is sound. *)
LEMMA ChunkSound ==
  ASSUME NEW w \in Work, WorkSound(w), queueOf(w) = "large", NEW t \in Nat, t > 0
  PROVE  LET v == splitPrefillChunk(w, Min({WorkBudgetCost(w), t})) IN
         /\ v \in Work /\ WorkSound(v) /\ v.request = w.request /\ queueOf(v) = queueOf(w)
         /\ Min({WorkBudgetCost(w), t}) \in Nat /\ Min({WorkBudgetCost(w), t}) <= t
  <1>1. w.phase = Prefill
    BY DEF queueOf, Work
  <1>2. PICK n \in Nat : n = w.new
    BY DEF Work
  <1>3. n >= 1 /\ WorkBudgetCost(w) = n
    BY <1>1, <1>2 DEF WorkSound, WorkBudgetCost
  <1>4. PICK m \in Nat : m = Min({n, t}) /\ 1 <= m /\ m <= t /\ m <= n
    <2>1. CASE n <= t
      <3>1. Min({n, t}) = n
        BY <2>1 DEF Min
      <3> QED BY <1>3, <2>1, <3>1
    <2>2. CASE ~(n <= t)
      <3>1. Min({n, t}) = t
        BY <2>2 DEF Min
      <3> QED BY <2>2, <3>1
    <2> QED BY <2>1, <2>2
  <1>5. Min({m, n}) = m
    BY <1>4 DEF Min
  <1>6. PICK v : v = [w EXCEPT !.new = m]
    OBVIOUS
  <1>7. /\ v \in Work /\ v.id = w.id /\ v.call = w.call /\ v.request = w.request /\ v.phase = Prefill
        /\ v.cache = w.cache /\ v.offset = w.offset /\ v.new = m /\ v.total = w.total
        /\ v.generated = w.generated /\ w.offset \in Nat /\ w.total \in Nat
    BY <1>1, <1>6 DEF Work
  <1>8. computedTokens(v) = w.offset /\ computedTokens(w) = w.offset
    BY <1>1, <1>2, <1>7 DEF computedTokens, requiredKVTokens
  <1>9. WorkSound(v)
    <2>1. w.offset + m <= w.total
      BY <1>1, <1>2, <1>4, <1>7 DEF WorkSound
    <2> QED BY <1>1, <1>4, <1>7, <1>8, <2>1 DEF WorkSound, exists, Prefill, Decode
  <1>10. splitPrefillChunk(w, Min({WorkBudgetCost(w), t})) = v
    BY <1>2, <1>3, <1>4, <1>5, <1>6 DEF splitPrefillChunk
  <1>11. queueOf(v) = queueOf(w)
    BY <1>1, <1>7 DEF queueOf
  <1> QED BY <1>3, <1>4, <1>7, <1>9, <1>10, <1>11

(* AllocateLarge. *)
LEMMA AllocateLargeStep == ASSUME Serving, AllocateLarge PROVE Serving' /\ Onward /\ BatchFlow
  <1> DEFINE w == Head(sched.held)
             tokens == Min({WorkBudgetCost(w), sched.tokens})
             v == splitPrefillChunk(w, tokens)
             ok == enoughBlocks(v)
             item == batchItem(v)
  <1>1. sched.pc = "large"
    BY DEF AllocateLarge
  <1>2. /\ sched \in SchedRecord /\ SchedGood(sched) /\ sched.held # << >> /\ sched.held \in Seq(Work)
        /\ w \in Work /\ WorkSound(w) /\ sched.notify = NoCall
        /\ sched.seqs \in Nat /\ sched.tokens \in Nat /\ Len(sched.batch) \in Nat
        /\ sched.seqs > 0 /\ sched.tokens > 0 /\ Tail(sched.held) = << >>
        /\ Len(sched.batch) + sched.seqs = MaxBatchSeq /\ sched.tokens <= MaxBatchTokens
        /\ \A i \in DOMAIN sched.held : queueOf(sched.held[i]) = "large"
    BY <1>1, InHand
  <1>3. /\ mgr' = AllocateBlocks(mgr, blockWorkOf(v))
        /\ queue' = IF ok THEN queue ELSE appended(queue, w)
        /\ UNCHANGED <<kv, requests, channel, handler, expired, batchChan, exec, eventChan, cons, panicked>>
        /\ ok => sched' = onLarge([[Joined(sched, item) EXCEPT !.scanned = @ + 1]
                                     EXCEPT !.tokens = @ - tokens, !.prefill = @ - 1, !.large = @ - 1])
        /\ ~ok => sched' = onLarge([HeldTail(sched) EXCEPT !.scanned = @ + 1])
    BY DEF AllocateLarge, allocateFor, processUp, HeldTail, Joined
  <1>4. /\ v \in Work /\ WorkSound(v) /\ v.request = w.request /\ queueOf(v) = queueOf(w)
        /\ tokens \in Nat /\ tokens <= sched.tokens
    <2>1. queueOf(w) = "large"
      <3>1. w = sched.held[1] /\ 1 \in DOMAIN sched.held
        BY <1>2
      <3> QED BY <1>2, <3>1
    <2> HIDE DEF w
    <2> QED BY <1>2, <2>1, ChunkSound
  <1>5. ok => item \in Item
    <2>1. ManagerGood(mgr)
      BY BatchStart
    <2> HIDE DEF v
    <2> QED BY <1>4, <2>1, AllocateGood DEF enoughBlocks, batchItem
  <1>6. ASSUME NEW t, Ready(t), sched' = onLarge(t)
        PROVE  SchedGood(sched') /\ HeldKinds(sched') /\ sched'.held = Tail(sched.held)
               /\ sched'.batch = t.batch /\ sched'.notify = NoCall
    <2>1. GoesOn(t, sched')
      BY <1>6, OnLarge
    <2> QED BY <1>2, <2>1, NoKinds DEF GoesOn
  <1> HIDE DEF v, tokens
  <1>7. CASE ok
    <2>1. PICK u \in SchedRecord : u = Joined(sched, item)
      BY <1>2, <1>5, <1>7, JoinedFields
    <2>2. /\ u.held = Tail(sched.held) /\ u.batch = Append(sched.batch, item) /\ u.pc = sched.pc
          /\ u.notify = sched.notify /\ u.seqs = sched.seqs - 1 /\ u.tokens = sched.tokens
          /\ Len(u.batch) = Len(sched.batch) + 1
      BY <1>2, <1>5, <1>7, <2>1, JoinedFields
    <2>3. PICK n \in Nat : n = sched.tokens - tokens
      BY <1>2, <1>4
    <2>4. PICK m \in Nat : m = u.scanned + 1
      BY DEF SchedRecord
    <2>5. PICK k \in Int : k = u.prefill - 1
      BY DEF SchedRecord
    <2>6. PICK l \in Int : l = u.large - 1
      BY DEF SchedRecord
    <2>7. PICK x : x = [u EXCEPT !.scanned = m]
      OBVIOUS
    <2>8. /\ x \in SchedRecord /\ x.held = u.held /\ x.batch = u.batch /\ x.large = u.large
          /\ x.notify = u.notify /\ x.seqs = u.seqs /\ x.tokens = u.tokens /\ x.prefill = u.prefill
      BY <2>7 DEF SchedRecord
    <2>9. PICK t : t = [x EXCEPT !.tokens = n, !.prefill = k, !.large = l]
      OBVIOUS
    <2>10. t \in SchedRecord
      BY <2>8, <2>9 DEF SchedRecord
    <2>11. t.held = x.held /\ t.batch = x.batch /\ t.notify = x.notify /\ t.seqs = x.seqs /\ t.tokens = n
      BY <2>8, <2>9 DEF SchedRecord
    <2>12. sched' = onLarge(t)
      <3>1. x = [Joined(sched, item) EXCEPT !.scanned = @ + 1]
        BY <2>1, <2>4, <2>7
      <3>2. t = [x EXCEPT !.tokens = @ - tokens, !.prefill = @ - 1, !.large = @ - 1]
        BY <2>2, <2>3, <2>5, <2>6, <2>8, <2>9
      <3> QED BY <1>3, <1>7, <3>1, <3>2
    <2>13. Ready(t)
      <3>1. PICK b \in Nat : b = Len(sched.batch)
        BY <1>2
      <3>2. PICK y \in Nat : y = sched.seqs
        BY <1>2
      <3>3. PICK z \in Nat : z = sched.tokens
        BY <1>2
      <3>4. b + y = MaxBatchSeq /\ z <= MaxBatchTokens
        BY <1>2, <3>1, <3>2, <3>3
      <3>5. n <= z
        <4> HIDE DEF tokens
        <4> QED BY <1>4, <2>3, <3>3
      <3>6. (b + 1) + (y - 1) = MaxBatchSeq /\ n <= MaxBatchTokens
        BY <3>4, <3>5, Bounds
      <3>7. Len(t.batch) = b + 1 /\ t.seqs = y - 1 /\ t.tokens = n
        BY <2>2, <2>8, <2>11, <3>1, <3>2
      <3> QED BY <1>2, <2>2, <2>8, <2>10, <2>11, <3>6, <3>7 DEF Ready
    <2>14. /\ SchedGood(sched') /\ HeldKinds(sched') /\ sched'.held = Tail(sched.held)
           /\ sched'.batch = Append(sched.batch, item) /\ sched'.notify = NoCall
      BY <1>6, <2>2, <2>8, <2>11, <2>12, <2>13
    <2>15. UNCHANGED queue
      BY <1>3, <1>7
    <2>16. v.request = Head(sched.held).request /\ queueOf(v) = queueOf(Head(sched.held))
      BY <1>4
    <2> HIDE DEF w
    <2> QED BY <1>2, <1>3, <1>4, <1>7, <2>14, <2>15, <2>16, JoinStep
  <1>8. CASE ~ok
    <2>1. PICK u \in SchedRecord : u = HeldTail(sched)
      BY <1>2, HeldTailFields
    <2>2. /\ u.held = Tail(sched.held) /\ u.batch = sched.batch
          /\ u.notify = sched.notify /\ u.seqs = sched.seqs /\ u.tokens = sched.tokens
      BY <1>2, <2>1, HeldTailFields
    <2>3. PICK m \in Nat : m = u.scanned + 1
      BY DEF SchedRecord
    <2>4. PICK t : t = [u EXCEPT !.scanned = m]
      OBVIOUS
    <2>5. /\ t \in SchedRecord /\ t.held = u.held /\ t.batch = u.batch
          /\ t.notify = u.notify /\ t.seqs = u.seqs /\ t.tokens = u.tokens
      BY <2>4 DEF SchedRecord
    <2>6. sched' = onLarge(t)
      <3>1. t = [HeldTail(sched) EXCEPT !.scanned = @ + 1]
        BY <2>1, <2>3, <2>4
      <3> QED BY <1>3, <1>8, <3>1
    <2>7. Ready(t)
      BY <1>2, <2>2, <2>5 DEF Ready
    <2>8. /\ SchedGood(sched') /\ HeldKinds(sched') /\ sched'.held = Tail(sched.held)
          /\ sched'.batch = sched.batch /\ sched'.notify = NoCall
      BY <1>6, <2>2, <2>5, <2>6, <2>7
    <2>9. queue' = appended(queue, Head(sched.held))
      BY <1>3, <1>8
    <2>10. v.request = Head(sched.held).request
      BY <1>4
    <2> HIDE DEF w
    <2> QED BY <1>2, <1>3, <1>4, <1>8, <2>8, <2>9, <2>10, PutBackStep
  <1> QED BY <1>7, <1>8

(* NotifyTimeout. *)
LEMMA NotifyStep == ASSUME Serving, NotifyTimeout PROVE Serving' /\ Onward /\ BatchFlow
  <1>1. /\ SchedGood(sched) /\ sched \in SchedRecord /\ HeldKinds(sched) /\ ChannelsTyped
        /\ sched.notify # NoCall /\ sendFailure(sched.notify, RequestId[sched.notify])
        /\ sched' = [sched EXCEPT !.notify = NoCall]
        /\ UNCHANGED <<mgr, kv, requests, handler, expired, queue, batchChan, exec, eventChan, cons,
                       panicked>>
    BY BatchStart DEF NotifyTimeout, processUp
  <1>2. PICK c \in Calls : c = sched.notify
    BY <1>1 DEF SchedRecord
  <1>3. sched.pc \in {"dequeue", "peek", "popSmall", "popLarge"}
    BY <1>1 DEF SchedGood
  <1>4. /\ SchedGood(sched') /\ sched'.held = sched.held /\ sched'.batch = sched.batch
        /\ sched'.pc = sched.pc /\ sched'.notify = NoCall
    BY <1>1, <1>3, NotifyGood
  <1>5. HeldKinds(sched')
    BY <1>1, <1>4 DEF HeldKinds
  <1>6. ChannelsTyped'
    <2>1. requestFailedEvent(c, RequestId[c]) \in Event
      BY EventsTyped
    <2>2. channel' = [channel EXCEPT ![c].buf = Append(@, requestFailedEvent(c, RequestId[c])),
                                     ![c].closed = TRUE]
      BY <1>1, <1>2 DEF sendFailure
    <2> QED BY <1>1, <2>1, <2>2, ChannelOps DEF ChannelsTyped
  <1> QED BY <1>1, <1>4, <1>5, <1>6, SchedOnly

(* Submit: the batch goes to the executor, or is refused. *)
LEMMA SubmitStep == ASSUME Serving, Submit PROVE Serving' /\ Onward /\ BatchFlow
  <1>1. /\ SchedGood(sched) /\ sched \in SchedRecord /\ HeldKinds(sched) /\ ChannelsTyped
        /\ QueuesTyped /\ QueueKinds /\ ManagerGood(mgr) /\ RequestsTyped
        /\ batchChan \in Seq(Seq(Item)) /\ sched.pc = "submit"
        /\ UNCHANGED <<mgr, kv, requests, channel, handler, expired, queue, exec, eventChan, cons, panicked>>
    BY BatchStart DEF Submit, processUp
  <1>2. sched.held = << >> /\ sched.batch \in Seq(Item) /\ sched.batch # << >>
    BY <1>1 DEF SchedGood, SchedRecord
  <1>3. CASE Len(batchChan) < BatchCap
    <2>1. PICK s \in Seq(Seq(Item)) : s = batchChan
      BY <1>1
    <2>2. PICK b \in Seq(Item) : b = sched.batch
      BY <1>2
    <2>3. batchChan' = Append(s, b) /\ sched' = idleSched
      BY <1>3, <2>1, <2>2 DEF Submit
    <2>4. PICK n \in Nat : n = Len(s) + 1
      OBVIOUS
    <2>5. /\ Append(s, b) \in Seq(Seq(Item)) /\ n \notin DOMAIN s /\ DOMAIN Append(s, b) = DOMAIN s \cup {n}
          /\ Append(s, b)[n] = b /\ \A i \in DOMAIN s : Append(s, b)[i] = s[i]
      BY <2>4
    <2>6. BatchStep
      <3>1. SchedGood(sched') /\ HeldKinds(sched')
        BY <2>3, IdleGood, NoKinds
      <3>2. batchChan' \in Seq(Seq(Item))
        BY <2>3, <2>5
      <3> QED BY <1>1, <3>1, <3>2
           DEF BatchStep, QueuesTyped, QueueKinds, RequestsTyped, ChannelsTyped
    <2>7. BatchWorks
      <3>1. sched'.held = << >> /\ sched'.batch = << >>
        BY <2>3, IdleGood
      <3> QED BY <1>1, <2>1, <2>2, <2>3, <2>5, <3>1, HoldsShort DEF BatchWorks, WorkIn
    <2>8. StepParts
      BY <2>6, <2>7, BatchParts
    <2>9. MovedAll(Lines, Lines', <<"batch", 0>>, <<"submitted", n>>)
      <3>1. Lines[<<"batch", 0>>] = itemIdsOf(b) /\ Lines'[<<"batch", 0>>] = << >>
        BY <2>2, <2>3, IdleGood, ShortIds, LineAt, LineAtNext DEF LinesAre
      <3>2. Lines[<<"submitted", n>>] = << >> /\ Lines'[<<"submitted", n>>] = itemIdsOf(b)
        BY <2>1, <2>3, <2>4, <2>5, LineAt, LineAtNext DEF LinesAre
      <3>3. ASSUME NEW p \in Places, p # <<"batch", 0>>, p # <<"submitted", n>> PROVE Lines'[p] = Lines[p]
        <4>1. CASE \E m \in Nat : p = <<"submitted", m>>
          <5>1. PICK m \in Nat : p = <<"submitted", m>>
            BY <4>1
          <5>2. m # n
            BY <3>3, <5>1
          <5>3. m \in DOMAIN batchChan' <=> m \in DOMAIN batchChan
            BY <2>1, <2>3, <2>5, <5>2
          <5>4. m \in DOMAIN batchChan => batchChan'[m] = batchChan[m]
            BY <2>1, <2>3, <2>5
          <5> QED BY <5>1, <5>3, <5>4, LineAt, LineAtNext DEF LinesAre
        <4>2. CASE ~\E m \in Nat : p = <<"submitted", m>>
          <5>1. p[1] # "submitted"
            BY <4>2 DEF Places
          <5>2. sched'.held = sched.held
            BY <1>2, <2>3, IdleGood
          <5> QED BY <1>1, <2>6, <3>3, <5>1, <5>2, BatchPlaces
        <4> QED BY <4>1, <4>2
      <3>4. <<"batch", 0>> # <<"submitted", n>>
        OBVIOUS
      <3> QED BY <2>4, <3>1, <3>2, <3>3, <3>4, PlaceNames DEF MovedAll
    <2>10. BatchFlow
      <3>1. sched'.held = sched.held /\ sched'.batch = << >> /\ sched'.notify = NoCall
        BY <1>2, <2>3, IdleGood
      <3> QED BY <1>1, <1>3, <2>1, <2>2, <2>3, <3>1 DEF BatchFlow, Submits
    <2> QED BY <2>8, <2>9, <2>10, MoveAllStep
  <1>4. CASE ~(Len(batchChan) < BatchCap)
    <2>1. sched' = [sched EXCEPT !.pc = "requeue"] /\ UNCHANGED batchChan
      BY <1>4 DEF Submit
    <2>2. /\ sched' \in SchedRecord /\ sched'.pc = "requeue" /\ sched'.held = sched.held
          /\ sched'.batch = sched.batch /\ sched'.notify = sched.notify /\ sched'.seqs = sched.seqs
          /\ sched'.tokens = sched.tokens
      BY <1>1, <2>1 DEF SchedRecord, SchedPcs
    <2>3. SchedGood(sched') /\ sched'.notify = NoCall
      BY <1>1, <1>2, <2>2 DEF SchedGood
    <2>4. HeldKinds(sched')
      BY <1>2, <2>2, NoKinds
    <2>5. ChannelsTyped'
      BY <1>1 DEF ChannelsTyped
    <2> QED BY <1>1, <2>1, <2>2, <2>3, <2>4, <2>5, SchedOnly
  <1> QED BY <1>3, <1>4

(* RequeueWork: a work of a refused batch goes back to its queue. *)
LEMMA RequeueStep == ASSUME Serving, RequeueWork PROVE Serving' /\ Onward /\ BatchFlow
  <1>1. /\ Typed /\ SchedGood(sched) /\ sched \in SchedRecord /\ HeldKinds(sched) /\ ChannelsTyped
        /\ QueueShape /\ ManagerGood(mgr) /\ RequestsTyped
        /\ batchChan \in Seq(Seq(Item)) /\ sched.pc = "requeue"
        /\ UNCHANGED <<kv, requests, channel, handler, expired, batchChan, exec, eventChan, cons, panicked>>
    BY BatchStart DEF RequeueWork, processUp, Shapes
  <1>2. sched.held = << >> /\ sched.batch \in Seq(Item) /\ sched.batch # << >>
    BY <1>1 DEF SchedGood, SchedRecord
  <1>3. PICK w \in Work : w = Head(sched.batch).work
    <2>1. Head(sched.batch) \in Item
      BY <1>2, SeqTyped
    <2> QED BY <2>1 DEF Item
  <1>4. /\ mgr' = Rollback(mgr, w.id) /\ queue' = appended(queue, w)
        /\ sched' = IF Len(sched.batch) = 1 THEN idleSched ELSE [sched EXCEPT !.batch = Tail(@)]
    BY <1>3 DEF RequeueWork
  <1>5. /\ SchedGood(sched') /\ sched'.held = << >> /\ sched'.batch = Tail(sched.batch)
        /\ sched'.notify = NoCall
    <2>1. CASE Len(sched.batch) = 1
      <3>1. Tail(sched.batch) = << >>
        <4>1. sched.batch = <<sched.batch[1]>>
          BY <1>2, <2>1
        <4>2. \A x : Tail(<<x>>) = << >>
          OBVIOUS
        <4> QED BY <4>1, <4>2
      <3> QED BY <1>4, <2>1, <3>1, IdleGood
    <2>2. CASE Len(sched.batch) # 1
      <3>1. PICK b \in Seq(Item) : b = Tail(sched.batch)
        <4>1. Tail(sched.batch) \in Seq(Item)
          BY <1>2, SeqTyped
        <4> QED BY <4>1, Zenon
      <3>2. b # << >> /\ Len(b) <= Len(sched.batch) /\ Len(b) \in Nat /\ Len(sched.batch) \in Nat
        <4>1. PICK z \in Seq(Item) : z = sched.batch
          BY <1>2
        <4>2. Len(z) \in Nat /\ Len(z) # 1 /\ Len(z) # 0
          BY <1>2, <2>2, <4>1
        <4>3. Len(b) = Len(z) - 1
          BY <1>2, <3>1, <4>1
        <4>4. PICK n \in Nat : n = Len(z)
          BY <4>2
        <4>5. PICK m \in Nat : m = Len(b)
          OBVIOUS
        <4>6. m = n - 1 /\ m # 0 /\ m <= n
          BY <4>2, <4>3, <4>4, <4>5
        <4>7. b # << >>
          BY <4>5, <4>6
        <4> QED BY <4>1, <4>4, <4>5, <4>6, <4>7, Zenon
      <3>3. sched' = [sched EXCEPT !.batch = b]
        BY <1>4, <2>2, <3>1
      <3>4. /\ sched' \in SchedRecord /\ sched'.pc = "requeue" /\ sched'.held = sched.held
            /\ sched'.batch = b /\ sched'.notify = sched.notify /\ sched'.seqs = sched.seqs
            /\ sched'.tokens = sched.tokens
        BY <1>1, <3>3 DEF SchedRecord
      <3>5. Len(b) <= MaxBatchSeq
        <4>1. Len(sched.batch) <= MaxBatchSeq
          BY <1>1 DEF SchedGood
        <4> QED BY <3>2, <4>1, Bounds
      <3>6. SchedGood(sched') /\ sched'.notify = NoCall
        BY <1>1, <1>2, <3>2, <3>4, <3>5 DEF SchedGood
      <3> QED BY <1>2, <3>1, <3>4, <3>6
    <2> QED BY <2>1, <2>2
  <1>6. /\ queueOf(w) \in {"decode", "small", "large"}
        /\ \A k \in {"decode", "small", "large"} : k # queueOf(w) => queue'[k] = queue[k]
        /\ QueuesTyped'
        /\ \A k \in DOMAIN queue' : \A i \in DOMAIN queue'[k] : queueOf(queue'[k][i]) = k
        /\ \A u : (\E k \in {"decode", "small", "large"} : HoldsWork(queue'[k], u)) =>
                    u = w \/ \E k \in {"decode", "small", "large"} : HoldsWork(queue[k], u)
        /\ Lines'[<<"queue", queueOf(w)>>] = Append(Lines[<<"queue", queueOf(w)>>], w.request)
        /\ <<"queue", queueOf(w)>> \in Places
    BY <1>1, <1>3, <1>4, Appended
  <1>7. BatchStep
    <2>1. ManagerGood(mgr)'
      BY <1>1, <1>4, SettleGood
    <2>2. HeldKinds(sched')
      BY <1>5, NoKinds
    <2> QED BY <1>1, <1>5, <1>6, <2>1, <2>2 DEF BatchStep, ChannelsTyped, RequestsTyped, QueueKinds
  <1>8. BatchWorks
    <2>1. /\ \A u : HoldsItem(Tail(sched.batch), u) => HoldsItem(sched.batch, u)
          /\ HoldsItem(sched.batch, w)
      BY <1>2, <1>3, HoldsTail
    <2> QED BY <1>1, <1>5, <1>6, <2>1, HoldsShort DEF BatchWorks, WorkIn
  <1>9. StepParts
    BY <1>7, <1>8, BatchParts
  <1>10. Moved(Lines, Lines', <<"batch", 0>>, <<"queue", queueOf(w)>>)
    <2>1. ASSUME NEW p \in Places, p # <<"batch", 0>>, p # <<"queue", queueOf(w)>> PROVE Lines'[p] = Lines[p]
      BY <1>1, <1>2, <1>5, <1>6, <1>7, <2>1, BatchPlaces
    <2>2. /\ itemIdsOf(Tail(sched.batch)) = Tail(itemIdsOf(sched.batch)) /\ itemIdsOf(sched.batch) # << >>
          /\ Head(itemIdsOf(sched.batch)) = w.request
      BY <1>2, <1>3, ItemIdsOf
    <2>3. Lines[<<"batch", 0>>] = itemIdsOf(sched.batch) /\ Lines'[<<"batch", 0>>] = itemIdsOf(sched'.batch)
      BY LineAt, LineAtNext DEF LinesAre
    <2>4. <<"batch", 0>> # <<"queue", queueOf(w)>> /\ <<"batch", 0>> \in Places
      BY PlaceNames
    <2> QED BY <1>5, <1>6, <2>1, <2>2, <2>3, <2>4 DEF Moved
  <1>11. BatchFlow
    BY <1>1, <1>2, <1>3, <1>4, <1>5 DEF BatchFlow, Requeues
  <1> QED BY <1>9, <1>10, <1>11, MoveStep

-----------------------------------------------------------------------------
(* Nothing has been asked of the Engine yet. *)
LEMMA InitServing == ASSUME Init PROVE Serving
  <1>1. /\ mgr = newManager(BlockSize, NumBlocks) /\ requests = EmptyMap
        /\ channel = [c \in Calls |-> [buf |-> << >>, closed |-> FALSE]]
        /\ expired = {} /\ queue = [decode |-> << >>, small |-> << >>, large |-> << >>]
        /\ sched = idleSched /\ batchChan = << >> /\ exec = [running |-> << >>, events |-> << >>]
        /\ eventChan = << >> /\ cons = idleCons /\ panicked = FALSE
    BY DEF Init
  <1>2. DOMAIN requests = {}
    BY <1>1 DEF EmptyMap
  <1>3. PICK ws \in Seq(Work) : ws = << >>
    <2>1. << >> \in Seq(Work)
      OBVIOUS
    <2> QED BY <2>1, Zenon
  <1>4. PICK es \in Seq(Event) : es = << >>
    <2>1. << >> \in Seq(Event)
      OBVIOUS
    <2> QED BY <2>1, Zenon
  <1>5. PICK os \in Seq(Output) : os = << >>
    <2>1. << >> \in Seq(Output)
      OBVIOUS
    <2> QED BY <2>1, Zenon
  <1>6. PICK is \in Seq(Item) : is = << >>
    <2>1. << >> \in Seq(Item)
      OBVIOUS
    <2> QED BY <2>1, Zenon
  <1>7. handler = [c \in Calls |-> [ pc |-> "new", from |-> c, item |-> ws, event |-> es,
                                     out |-> os, outClosed |-> FALSE,
                                     received |-> os, client |-> "waiting" ]]
    BY <1>3, <1>4, <1>5 DEF Init
  <1>8. Typed
    <2>1. ManagerGood(mgr)
      BY <1>1, NewManager
    <2>2. RequestsTyped
      BY <1>1, <1>2 DEF RequestsTyped, EmptyMap
    <2>3. ChannelsTyped
      BY <1>1 DEF ChannelsTyped
    <2>4. HandlersTyped
      BY <1>7 DEF HandlersTyped, HandlerPcs
    <2>5. QueuesTyped
      BY <1>1 DEF QueuesTyped
    <2>6. SchedTyped
      BY <1>1, IdleGood DEF SchedTyped, SchedRecord
    <2>7. ExecTyped
      BY <1>1 DEF ExecTyped
    <2>8. ConsTyped
      BY <1>1 DEF ConsTyped, idleCons, ConsPcs
    <2> QED BY <1>1, <2>1, <2>2, <2>3, <2>4, <2>5, <2>6, <2>7, <2>8 DEF Typed
  <1>9. Shapes
    <2>1. HandlerShape
      BY <1>3, <1>7 DEF HandlerShape
    <2>2. SchedShape
      BY <1>1, IdleGood, SchedParts
    <2>3. QueueShape
      BY <1>1, IdleGood DEF QueueShape
    <2>4. ExecShape /\ ConsShape
      BY <1>1 DEF ExecShape, ConsShape, idleCons
    <2> QED BY <2>1, <2>2, <2>3, <2>4 DEF Shapes
  <1>10. /\ \A w : ~WorkIn(w)
         /\ \A e : ~EventIn(e)
    <2>1. \A c \in Calls : handler[c].item = << >>
      BY <1>3, <1>7
    <2>2. /\ \A k \in {"decode", "small", "large"} : queue[k] = << >>
          /\ sched.held = << >> /\ sched.batch = << >> /\ DOMAIN batchChan = {}
          /\ exec.running = << >> /\ exec.events = << >> /\ cons.next = << >> /\ cons.pc = "idle"
      BY <1>1, IdleGood DEF idleCons
    <2> QED BY <1>1, <2>1, <2>2, HoldsShort DEF WorkIn, EventIn
  <1>11. Sound
    BY <1>2, <1>10 DEF Sound, RequestsSound, TicketsSound
  <1>12. OneTicket
    <2>1. \A r : ~Occurs(Lines, r)
      BY <1>8, <1>10, OccursIn
    <2> QED BY <2>1 DEF OneTicket, Once, Occurs
  <1>13. Attended
    BY <1>2 DEF Attended
  <1> QED BY <1>8, <1>9, <1>11, <1>12, <1>13 DEF Serving

(* A step that changes nothing. *)
LEMMA StutterServing == ASSUME Serving, UNCHANGED vars PROVE Serving' /\ Onward
  <1>1. Typed'
    BY DEF Serving, vars, Typed, RequestsTyped, ChannelsTyped, HandlersTyped, QueuesTyped, SchedTyped,
           ExecTyped, ConsTyped
  <1>2. StepParts
    <2>1. Shapes'
      BY SameShapes DEF Serving, vars, Shapes, ExecShape
    <2>2. Kept
      BY DEF Kept, vars
    <2>3. (\A w : WorkIn(w)' => WorkIn(w)) /\ (\A e : EventIn(e)' => EventIn(e))
      BY DEF vars, WorkIn, EventIn
    <2> QED BY <1>1, <2>1, <2>2, <2>3 DEF StepParts
  <1>3. \A p \in Places : Lines'[p] = Lines[p]
    BY SamePlace DEF vars, EventStill
  <1> QED BY <1>2, <1>3, StillStep

(* Every step of the batch loop keeps the invariant. *)
LEMMA BatchLoopStep ==
  ASSUME Serving, BatchLoopNext
  PROVE  /\ Serving' /\ Onward /\ BatchFlow
         /\ UNCHANGED <<kv, handler, expired, exec, eventChan, cons, panicked>> /\ ~panicked
         /\ NotifyTimeout \/ UNCHANGED channel
  <1>1. Serving' /\ Onward /\ BatchFlow
    <2>1. CASE StartRound
      BY <2>1, StartStep
    <2>2. CASE Dequeue
      BY <2>2, DequeueStep
    <2>3. CASE DequeueEnds
      BY <2>3, DequeueEndsStep
    <2>4. CASE AllocateDecode
      BY <2>4, AllocateDecodeStep
    <2>5. CASE PeekSmall
      BY <2>5, PeekStep
    <2>6. CASE PopSmall \/ PopLarge
      BY <2>6, PopsStep
    <2>7. CASE AllocateSmall
      BY <2>7, AllocateSmallStep
    <2>8. CASE AllocateLarge
      BY <2>8, AllocateLargeStep
    <2>9. CASE NotifyTimeout
      BY <2>9, NotifyStep
    <2>10. CASE Submit
      BY <2>10, SubmitStep
    <2>11. CASE RequeueWork
      BY <2>11, RequeueStep
    <2> QED BY <2>1, <2>2, <2>3, <2>4, <2>5, <2>6, <2>7, <2>8, <2>9, <2>10, <2>11
         DEF BatchLoopNext
  <1>2. /\ UNCHANGED <<kv, handler, expired, exec, eventChan, cons, panicked>> /\ ~panicked
        /\ NotifyTimeout \/ UNCHANGED channel
    BY DEF BatchLoopNext, StartRound, Dequeue, DequeueEnds, AllocateDecode, AllocateSmall, AllocateLarge,
           allocateFor, PeekSmall, PopSmall, PopLarge, pop, NotifyTimeout, Submit, RequeueWork, processUp
  <1> QED BY <1>1, <1>2, Zenon

(* Every step keeps the invariant. *)
LEMMA NextServing == ASSUME Serving, DistinctIds, [Next]_vars PROVE Serving'
  <1>1. CASE \E c \in Calls : HandlerNext(c)
    <2>1. PICK c \in Calls : HandlerNext(c)
      BY <1>1
    <2>2. CASE Create(c)
      BY <2>2, CreateStep
    <2>3. CASE Subscribe(c)
      BY <2>3, SubscribeStep
    <2>4. CASE EnqueueFirst(c)
      BY <2>4, EnqueueFirstStep
    <2>5. CASE Receive(c)
      BY <2>5, ReceiveStep
    <2>6. CASE Emit(c)
      BY <2>6, EmitStep
    <2>7. CASE FinishCall(c) \/ CancelCall(c)
      BY <2>7, EndCallStep
    <2>8. CASE TrySchedule(c)
      BY <2>8, TryScheduleStep
    <2> QED BY <2>1, <2>2, <2>3, <2>4, <2>5, <2>6, <2>7, <2>8 DEF HandlerNext
  <1>2. CASE \E c \in Calls : ClientReads(c) \/ ClientLeaves(c) \/ Expire(c)
    BY <1>2, ClientStep
  <1>3. CASE BatchLoopNext
    BY <1>3, BatchLoopStep
  <1>4. CASE ExecutorNext
    BY <1>4, TakeBatchStep, ExecuteStep, DeliverStep DEF ExecutorNext
  <1>5. CASE ConsumerNext
    <2>1. CASE TakeEvent
      BY <2>1, TakeEventStep
    <2>2. CASE Finalize \/ Publish \/ TryScheduleNext \/ SendFailed \/ FreeDone
      BY <2>2, ConsumerStep
    <2>3. CASE OnEvent
      BY <2>3, OnEventStep
    <2>4. CASE Send
      BY <2>4, SendStep
    <2>5. CASE EnqueueNext
      BY <2>5, EnqueueNextStep
    <2> QED BY <1>5, <2>1, <2>2, <2>3, <2>4, <2>5 DEF ConsumerNext
  <1>6. CASE UNCHANGED vars
    BY <1>6, StutterServing
  <1> QED BY <1>1, <1>2, <1>3, <1>4, <1>5, <1>6 DEF Next

(* The inductive invariant holds whatever the batches, the cancellations    *)
(* and the failures, as long as request ids are not reused.                 *)
THEOREM EngineServing == ASSUME DistinctIds PROVE Spec => []Serving
  <1>1. Init => Serving
    BY InitServing
  <1>2. Serving /\ [Next]_vars => Serving'
    BY NextServing
  <1> QED BY <1>1, <1>2, PTL DEF Spec

-----------------------------------------------------------------------------
(* One work per request. *)

(* The tag that tickets gives to a place. *)
tag(p) ==
  CASE p[1] = "item"      -> <<"item", p[2]>>
    [] p[1] = "queue"     -> p[2]
    [] p[1] = "submitted" -> <<"submitted", p[2]>>
    [] OTHER              -> p[1]

(* The tickets of request r in a line of requests. *)
ticketsAt(r, t, line) == {<<t, i>> : i \in {j \in DOMAIN line : line[j] = r}}

(* tickets, place by place. *)
LEMMA TicketsAre ==
  ASSUME Typed, NEW r
  PROVE  tickets(r) = UNION {ticketsAt(r, tag(p), Lines[p]) : p \in Places}
  <1> DEFINE at(t, s) == {<<t, i>> : i \in {j \in DOMAIN s : s[j].request = r}}
             in(t, s) == {<<t, i>> : i \in {j \in DOMAIN s : s[j].work.request = r}}
             E == IF cons.pc \in {"finalize", "onEvent"} THEN at("event", cons.event) ELSE {}
             T(p) == ticketsAt(r, tag(p), Lines[p])
  <1>1. /\ \A t, s : at(t, s) = ticketsAt(r, t, idsOf(s))
        /\ \A t, s : in(t, s) = ticketsAt(r, t, itemIdsOf(s))
        /\ \A t : ticketsAt(r, t, << >>) = {}
    <2>1. ASSUME NEW t, NEW s PROVE at(t, s) = ticketsAt(r, t, idsOf(s))
      <3>1. {j \in DOMAIN s : s[j].request = r} = {j \in DOMAIN idsOf(s) : idsOf(s)[j] = r}
        BY DEF idsOf
      <3> QED BY <3>1 DEF ticketsAt
    <2>2. ASSUME NEW t, NEW s PROVE in(t, s) = ticketsAt(r, t, itemIdsOf(s))
      <3>1. {j \in DOMAIN s : s[j].work.request = r} = {j \in DOMAIN itemIdsOf(s) : itemIdsOf(s)[j] = r}
        BY DEF itemIdsOf
      <3> QED BY <3>1 DEF ticketsAt
    <2>3. ASSUME NEW t PROVE ticketsAt(r, t, << >>) = {}
      <3>1. {j \in DOMAIN << >> : << >>[j] = r} = {}
        OBVIOUS
      <3> QED BY <3>1 DEF ticketsAt
    <2> QED BY <2>1, <2>2, <2>3
  <1>2. /\ \A c : tag(<<"item", c>>) = <<"item", c>>
         /\ \A k : tag(<<"queue", k>>) = k
         /\ \A n : tag(<<"submitted", n>>) = <<"submitted", n>>
         /\ \A p \in {"held", "batch", "running", "next", "events", "delivered", "event"} :
              tag(<<p, 0>>) = p
    BY DEF tag
  <1>3. LinesAre
    BY LineAt
  <1>4. \A p : T(p) = ticketsAt(r, tag(p), Lines[p])
    OBVIOUS
  <1>5. E = IF cons.pc \in {"finalize", "onEvent"} THEN at("event", cons.event) ELSE {}
    OBVIOUS
  <1> HIDE DEF at, in, E, T
  <1>6. \A c \in Calls : T(<<"item", c>>) = at(<<"item", c>>, handler[c].item)
    BY <1>1, <1>2, <1>3, <1>4 DEF LinesAre
  <1>7. \A k \in {"decode", "small", "large"} : T(<<"queue", k>>) = at(k, queue[k])
    BY <1>1, <1>2, <1>3, <1>4 DEF LinesAre
  <1>8. \A n \in Nat : T(<<"submitted", n>>) =
                         IF n \in DOMAIN batchChan THEN in(<<"submitted", n>>, batchChan[n]) ELSE {}
    BY <1>1, <1>2, <1>3, <1>4 DEF LinesAre
  <1>9. /\ T(<<"held", 0>>) = at("held", sched.held) /\ T(<<"batch", 0>>) = in("batch", sched.batch)
        /\ T(<<"running", 0>>) = in("running", exec.running)
        /\ T(<<"events", 0>>) = at("events", exec.events)
        /\ T(<<"delivered", 0>>) = at("delivered", eventChan) /\ T(<<"next", 0>>) = at("next", cons.next)
    BY <1>1, <1>2, <1>3, <1>4 DEF LinesAre
  <1>10. T(<<"event", 0>>) = E
    BY <1>1, <1>2, <1>3, <1>4, <1>5 DEF LinesAre
  <1>11. DOMAIN queue = {"decode", "small", "large"} /\ DOMAIN batchChan \subseteq Nat
    BY DEF Typed, QueuesTyped, ExecTyped
  <1>12. tickets(r) = UNION ({at(<<"item", c>>, handler[c].item) : c \in Calls}
             \cup {at(k, queue[k]) : k \in DOMAIN queue}
             \cup {in(<<"submitted", i>>, batchChan[i]) : i \in DOMAIN batchChan}
             \cup {at("held", sched.held), in("batch", sched.batch), in("running", exec.running),
                   at("events", exec.events), at("delivered", eventChan), at("next", cons.next), E})
    BY DEF tickets, at, in, E
  <1>13. ASSUME NEW x, x \in tickets(r) PROVE \E p \in Places : x \in T(p)
    <2>1. PICK X : /\ x \in X
                   /\ \/ \E c \in Calls : X = at(<<"item", c>>, handler[c].item)
                      \/ \E k \in DOMAIN queue : X = at(k, queue[k])
                      \/ \E i \in DOMAIN batchChan : X = in(<<"submitted", i>>, batchChan[i])
                      \/ X \in {at("held", sched.held), in("batch", sched.batch),
                                in("running", exec.running), at("events", exec.events),
                                at("delivered", eventChan), at("next", cons.next), E}
      BY <1>12, <1>13
    <2>2. CASE \E c \in Calls : X = at(<<"item", c>>, handler[c].item)
      BY <1>6, <2>1, <2>2, PlaceNames
    <2>3. CASE \E k \in DOMAIN queue : X = at(k, queue[k])
      BY <1>7, <1>11, <2>1, <2>3, PlaceNames
    <2>4. CASE \E i \in DOMAIN batchChan : X = in(<<"submitted", i>>, batchChan[i])
      BY <1>8, <1>11, <2>1, <2>4, PlaceNames
    <2>5. CASE X \in {at("held", sched.held), in("batch", sched.batch), in("running", exec.running),
                      at("events", exec.events), at("delivered", eventChan), at("next", cons.next), E}
      BY <1>9, <1>10, <2>1, <2>5, PlaceNames
    <2> QED BY <2>1, <2>2, <2>3, <2>4, <2>5
  <1>14. ASSUME NEW p \in Places, NEW x \in T(p) PROVE x \in tickets(r)
    <2>1. CASE \E c \in Calls : p = <<"item", c>>
      BY <1>6, <1>12, <2>1, <1>14
    <2>2. CASE \E k \in {"decode", "small", "large"} : p = <<"queue", k>>
      BY <1>7, <1>11, <1>12, <2>2, <1>14
    <2>3. CASE \E n \in Nat : p = <<"submitted", n>>
      BY <1>8, <1>12, <2>3, <1>14
    <2>4. CASE p \in {<<"held", 0>>, <<"batch", 0>>, <<"running", 0>>, <<"next", 0>>,
                      <<"events", 0>>, <<"delivered", 0>>, <<"event", 0>>}
      BY <1>9, <1>10, <1>12, <2>4, <1>14
    <2> QED BY <2>1, <2>2, <2>3, <2>4, PlaceNames
  <1> QED BY <1>13, <1>14 DEF T

(* A request has at most one ticket, and exactly one while it runs. *)
LEMMA ServingOneWork == ASSUME Serving PROVE OneWorkPerRequest
  <1>1. Typed /\ OneTicket /\ Attended /\ DOMAIN requests \subseteq Ids
    BY DEF Serving, Typed, RequestsTyped
  <1>2. ASSUME NEW r, NEW x \in tickets(r), NEW y \in tickets(r) PROVE x = y
    <2>1. PICK p \in Places : x \in ticketsAt(r, tag(p), Lines[p])
      BY <1>1, TicketsAre
    <2>2. PICK q \in Places : y \in ticketsAt(r, tag(q), Lines[q])
      BY <1>1, TicketsAre
    <2>3. PICK i \in DOMAIN Lines[p] : Lines[p][i] = r /\ x = <<tag(p), i>>
      BY <2>1 DEF ticketsAt
    <2>4. PICK j \in DOMAIN Lines[q] : Lines[q][j] = r /\ y = <<tag(q), j>>
      BY <2>2 DEF ticketsAt
    <2>5. p = q /\ i = j
      BY <1>1, <2>3, <2>4 DEF OneTicket, Once
    <2> QED BY <2>3, <2>4, <2>5
  <1>3. ASSUME NEW r PROVE Cardinality(tickets(r)) <= 1 /\ (tickets(r) # {} => Cardinality(tickets(r)) = 1)
    <2>1. CASE tickets(r) = {}
      BY <2>1, FS_EmptySet
    <2>2. CASE tickets(r) # {}
      <3>1. PICK x : x \in tickets(r)
        BY <2>2
      <3>3. tickets(r) = {x}
        BY <1>2, <3>1
      <3>2. Cardinality({x}) = 1
        BY FS_Singleton
      <3> QED BY <3>3, <3>2
    <2> QED BY <2>1, <2>2
  <1>4. ASSUME NEW r, Occurs(Lines, r) PROVE tickets(r) # {}
    <2>1. PICK p \in Places : \E i \in DOMAIN Lines[p] : Lines[p][i] = r
      BY <1>4 DEF Occurs
    <2>3. PICK i \in DOMAIN Lines[p] : Lines[p][i] = r
      BY <2>1
    <2>2. <<tag(p), i>> \in ticketsAt(r, tag(p), Lines[p])
      BY <2>3 DEF ticketsAt
    <2> QED BY <1>1, <2>2, TicketsAre
  <1> QED BY <1>1, <1>3, <1>4 DEF OneWorkPerRequest, exists, Attended

(* Nothing is forgotten and nothing done twice, in every execution whose    *)
(* calls have ids of their own.                                             *)
THEOREM EngineOneWork == ASSUME DistinctIds PROVE Spec => []OneWorkPerRequest
  <1>1. Serving => OneWorkPerRequest
    BY ServingOneWork
  <1> QED BY <1>1, EngineServing, PTL

-----------------------------------------------------------------------------
(* Types and bounds. *)

(* Counting after an element is appended or taken off the front. *)
LEMMA CountEnds ==
  ASSUME NEW S, NEW s \in Seq(S), NEW x, NEW y
  PROVE  /\ Count(s, x) \in Nat /\ Count(s, x) <= Len(s) /\ Count(<< >>, x) = 0
         /\ Count(Append(s, y), x) = IF y = x THEN Count(s, x) + 1 ELSE Count(s, x)
         /\ s # << >> => Count(s, x) = IF Head(s) = x THEN Count(Tail(s), x) + 1 ELSE Count(Tail(s), x)
  <1> DEFINE P == {i \in DOMAIN s : s[i] = x}
  <1>1. PICK n \in Nat : n = Len(s) /\ DOMAIN s = 1..n
    OBVIOUS
  <1>2. IsFiniteSet(P) /\ Cardinality(P) \in Nat /\ Cardinality(P) <= n
    <2>1. P \in SUBSET (1..n)
      BY <1>1
    <2>2. IsFiniteSet(1..n) /\ Cardinality(1..n) = n
      <3>1. IsFiniteSet(1..n) /\ Cardinality(1..n) = IF 1 > n THEN 0 ELSE n - 1 + 1
        BY FS_Interval
      <3> QED BY <3>1
    <2> HIDE DEF P
    <2> QED BY <2>1, <2>2, FS_Subset, FS_CardinalityType
  <1>3. Count(s, x) = Cardinality(P)
    BY DEF Count
  <1>4. Count(<< >>, x) = 0
    <2>1. {i \in DOMAIN << >> : << >>[i] = x} = {}
      OBVIOUS
    <2> QED BY <2>1, FS_EmptySet DEF Count
  <1>5. Count(Append(s, y), x) = IF y = x THEN Count(s, x) + 1 ELSE Count(s, x)
    <2> DEFINE t == Append(s, y)
               Q == {i \in DOMAIN t : t[i] = x}
    <2>1. /\ DOMAIN t = 1..(n + 1) /\ t[n + 1] = y
          /\ \A i \in 1..n : t[i] = s[i]
      BY <1>1
    <2>2. CASE y = x
      <3>1. Q = P \cup {n + 1} /\ n + 1 \notin P
        BY <1>1, <2>1, <2>2
      <3>2. Cardinality(P \cup {n + 1}) = Cardinality(P) + 1
        <4> HIDE DEF P
        <4> QED BY <1>2, <3>1, FS_AddElement
      <3>3. Count(t, x) = Cardinality(Q)
        BY DEF Count
      <3> QED BY <1>3, <2>2, <3>1, <3>2, <3>3
    <2>3. CASE y # x
      <3>1. Q = P
        BY <1>1, <2>1, <2>3
      <3>2. Count(t, x) = Cardinality(Q)
        BY DEF Count
      <3> QED BY <1>3, <2>3, <3>1, <3>2
    <2> QED BY <2>2, <2>3
  <1>6. s # << >> => Count(s, x) = IF Head(s) = x THEN Count(Tail(s), x) + 1 ELSE Count(Tail(s), x)
    <2> SUFFICES ASSUME s # << >>
                 PROVE  Count(s, x) = IF Head(s) = x THEN Count(Tail(s), x) + 1 ELSE Count(Tail(s), x)
      OBVIOUS
    <2> DEFINE t == Tail(s)
               Q == {i \in DOMAIN t : t[i] = x}
               f == [i \in Q |-> i + 1]
    <2>1. /\ DOMAIN t = 1..(n - 1) /\ n > 0 /\ Head(s) = s[1]
          /\ \A i \in 1..(n - 1) : t[i] = s[i + 1]
      BY <1>1
    <2>2. f \in Bijection(Q, P \ {1})
      <3>1. f \in [Q -> P \ {1}]
        BY <1>1, <2>1
      <3>2. \A i, j \in Q : f[i] = f[j] => i = j
        BY <2>1
      <3>3. \A k \in P \ {1} : \E i \in Q : f[i] = k
        <4> SUFFICES ASSUME NEW k \in P \ {1} PROVE k - 1 \in Q /\ f[k - 1] = k
          OBVIOUS
        <4>1. k \in 2..n /\ s[k] = x
          BY <1>1
        <4>2. k - 1 \in 1..(n - 1) /\ t[k - 1] = s[k]
          BY <4>1, <2>1
        <4> QED BY <4>1, <4>2, <2>1
      <3> QED BY <3>1, <3>2, <3>3 DEF Bijection, Injection, Surjection, IsInjective
    <2>3. IsFiniteSet(P \ {1}) /\ Cardinality(P \ {1}) = IF 1 \in P THEN Cardinality(P) - 1 ELSE Cardinality(P)
      <3> HIDE DEF P
      <3> QED BY <1>2, FS_RemoveElement
    <2>4. IsFiniteSet(Q)
      <3>1. Q \in SUBSET (1..n)
        BY <1>1, <2>1
      <3>2. IsFiniteSet(1..n)
        BY FS_Interval
      <3> HIDE DEF Q
      <3> QED BY <3>1, <3>2, FS_Subset
    <2>5. Cardinality(Q) = Cardinality(P \ {1})
      <3>1. ExistsBijection(Q, P \ {1})
        BY <2>2 DEF ExistsBijection
      <3> HIDE DEF Q, P
      <3> QED BY <2>4, <3>1, FS_Bijection
    <2>6. Count(t, x) = Cardinality(Q)
      BY DEF Count
    <2>7. 1 \in P <=> Head(s) = x
      BY <1>1, <2>1
    <2> HIDE DEF P, Q
    <2> QED BY <1>2, <1>3, <2>3, <2>5, <2>6, <2>7
  <1> QED BY <1>1, <1>2, <1>3, <1>4, <1>5, <1>6

(* The queues that the works of a list come from. *)
kindsOf(s) == [i \in DOMAIN s |-> queueOf(s[i])]
itemKindsOf(s) == [i \in DOMAIN s |-> queueOf(s[i].work)]

Kinds == {"decode", "small", "large"}

(* How many works of kind k the batch loop has in hand. *)
inHand(k) == Count(kindsOf(sched.held), k) + Count(itemKindsOf(sched.batch), k)

(* What the loop takes from a queue it may put back when others have filled *)
(* the queue meanwhile: a batch more than the admission capacity.           *)
QueuesBounded == \A k \in Kinds : Len(queue[k]) + inHand(k) <= QueueLength + MaxBatchSeq

(* The kinds of a list that grows or loses its head. *)
LEMMA KindsOf ==
  ASSUME NEW S, NEW s \in Seq(S), NEW w
  PROVE  /\ kindsOf(s) \in Seq(Kinds) /\ itemKindsOf(s) \in Seq(Kinds)
         /\ Len(kindsOf(s)) = Len(s) /\ Len(itemKindsOf(s)) = Len(s)
         /\ kindsOf(Append(s, w)) = Append(kindsOf(s), queueOf(w))
         /\ itemKindsOf(Append(s, w)) = Append(itemKindsOf(s), queueOf(w.work))
         /\ s # << >> => /\ kindsOf(s) # << >> /\ itemKindsOf(s) # << >>
                         /\ kindsOf(Tail(s)) = Tail(kindsOf(s)) /\ Head(kindsOf(s)) = queueOf(Head(s))
                         /\ itemKindsOf(Tail(s)) = Tail(itemKindsOf(s))
                         /\ Head(itemKindsOf(s)) = queueOf(Head(s).work)
  <1>1. \A x : queueOf(x) \in Kinds
    BY QueueNames DEF Kinds
  <1>2. kindsOf(s) \in Seq(Kinds) /\ itemKindsOf(s) \in Seq(Kinds)
    BY <1>1 DEF kindsOf, itemKindsOf
  <1>3. Len(kindsOf(s)) = Len(s) /\ Len(itemKindsOf(s)) = Len(s)
    BY DEF kindsOf, itemKindsOf
  <1>4. kindsOf(Append(s, w)) = Append(kindsOf(s), queueOf(w))
    BY DEF kindsOf
  <1>5. itemKindsOf(Append(s, w)) = Append(itemKindsOf(s), queueOf(w.work))
    BY DEF itemKindsOf
  <1>6. ASSUME s # << >>
        PROVE  /\ kindsOf(s) # << >> /\ itemKindsOf(s) # << >>
               /\ kindsOf(Tail(s)) = Tail(kindsOf(s)) /\ Head(kindsOf(s)) = queueOf(Head(s))
               /\ itemKindsOf(Tail(s)) = Tail(itemKindsOf(s))
               /\ Head(itemKindsOf(s)) = queueOf(Head(s).work)
    <2>1. kindsOf(s) # << >> /\ itemKindsOf(s) # << >>
      BY <1>6, <1>3
    <2>2. kindsOf(Tail(s)) = Tail(kindsOf(s))
      BY <1>6 DEF kindsOf
    <2>3. itemKindsOf(Tail(s)) = Tail(itemKindsOf(s))
      BY <1>6 DEF itemKindsOf
    <2>4. Head(kindsOf(s)) = queueOf(Head(s)) /\ Head(itemKindsOf(s)) = queueOf(Head(s).work)
      BY <1>6 DEF kindsOf, itemKindsOf
    <2> QED BY <2>1, <2>2, <2>3, <2>4
  <1> QED BY <1>2, <1>3, <1>4, <1>5, <1>6
(* The batch loop holds no more than a batch. *)
LEMMA InHandBound ==
  ASSUME Serving, NEW k \in Kinds
  PROVE  inHand(k) \in Nat /\ inHand(k) <= MaxBatchSeq
  <1>1. SchedGood(sched) /\ sched \in SchedRecord
    BY BatchStart
  <1>2. PICK h \in Nat, b \in Nat : h = Len(sched.held) /\ b = Len(sched.batch)
    BY <1>1 DEF SchedRecord
  <1>6. sched.pc \in SchedPcs /\ sched.scanned \in Nat /\ sched.seqs \in Nat
    BY <1>1 DEF SchedRecord
  <1>7. b <= MaxBatchSeq /\ sched.seqs <= MaxBatchSeq
    BY <1>1, <1>2 DEF SchedGood
  <1> SUFFICES h + b <= MaxBatchSeq
    <2>1. /\ kindsOf(sched.held) \in Seq(Kinds) /\ Len(kindsOf(sched.held)) = h
          /\ itemKindsOf(sched.batch) \in Seq(Kinds) /\ Len(itemKindsOf(sched.batch)) = b
      BY <1>1, <1>2, KindsOf DEF SchedRecord
    <2>2. /\ Count(kindsOf(sched.held), k) \in Nat /\ Count(kindsOf(sched.held), k) <= h
          /\ Count(itemKindsOf(sched.batch), k) \in Nat /\ Count(itemKindsOf(sched.batch), k) <= b
      BY <2>1, CountEnds
    <2> QED BY <2>2, Bounds DEF inHand
  <1>8. CASE sched.pc \in {"idle", "peek", "popSmall", "popLarge", "submit", "requeue"}
    <2>1. h = 0
      BY <1>1, <1>2, <1>8 DEF SchedGood
    <2> QED BY <1>2, <1>7, <2>1
  <1>9. CASE sched.pc = "dequeue"
    <2>1. b = 0 /\ h <= sched.scanned /\ sched.scanned <= sched.seqs
      BY <1>1, <1>2, <1>9 DEF SchedGood
    <2> QED BY <1>2, <1>6, <1>7, <2>1, Bounds
  <1>10. CASE sched.pc \in {"decode", "small", "large"}
    <2>1. b + sched.seqs = MaxBatchSeq
      BY <1>1, <1>2, <1>10 DEF SchedGood
    <2>2. sched.pc = "decode" => h <= sched.seqs
      BY <1>1, <1>2 DEF SchedGood
    <2>3. sched.pc # "decode" => h = 1 /\ sched.seqs > 0
      BY <1>1, <1>2, <1>10 DEF SchedGood
    <2>4. PICK s \in Nat, t \in Nat : s = sched.seqs /\ t = MaxBatchSeq
      BY <1>6, Bounds
    <2>5. sched.pc = "decode" \/ sched.pc # "decode"
      OBVIOUS
    <2>6. b + s = t /\ (h <= s \/ (h = 1 /\ s > 0))
      BY <2>1, <2>2, <2>3, <2>4, <2>5
    <2>7. h + b <= t
      BY <2>6
    <2> QED BY <2>4, <2>7
  <1> QED BY <1>6, <1>8, <1>9, <1>10 DEF SchedPcs

(* A work that joins a queue with room for it. *)
LEMMA AdmitBounded ==
  ASSUME Serving, QueuesBounded, NEW w \in Work, ~full(w), queue' = appended(queue, w), UNCHANGED sched
  PROVE  QueuesBounded'
  <1> SUFFICES ASSUME NEW k \in Kinds PROVE (Len(queue[k]) + inHand(k) <= QueueLength + MaxBatchSeq)'
    BY DEF QueuesBounded
  <1>1. PICK n \in Nat : n = Len(queue[k])
    <2>1. queue[k] \in Seq(Work)
      BY BatchStart DEF Kinds
    <2>2. Len(queue[k]) \in Nat
      BY <2>1
    <2> QED BY <2>2
  <1>2. inHand(k)' = inHand(k) /\ inHand(k) \in Nat /\ inHand(k) <= MaxBatchSeq
    BY InHandBound DEF inHand
  <1>3. n + inHand(k) <= QueueLength + MaxBatchSeq
    BY <1>1 DEF QueuesBounded
  <1>4. /\ k = queueOf(w) => queue'[k] = Append(queue[k], w)
        /\ k # queueOf(w) => queue'[k] = queue[k]
    BY Appended, BatchStart, KindsParts DEF Kinds
  <1>5. k = queueOf(w) => n < QueueLength
    BY <1>1, Bounds DEF full
  <1>6. k = queueOf(w) => Len(queue'[k]) = n + 1
    BY <1>1, <1>4, BatchStart DEF QueuesTyped, Kinds
  <1> QED BY <1>1, <1>2, <1>3, <1>4, <1>5, <1>6, Bounds

(* What the batch loop moves, it counts: a work leaves a queue for its      *)
(* hands, or its hands for the queue it came from.                          *)
LEMMA FlowBounded ==
  ASSUME Serving, Serving', QueuesBounded, BatchFlow
  PROVE  QueuesBounded'
  <1> SUFFICES ASSUME NEW k \in Kinds PROVE (Len(queue[k]) + inHand(k) <= QueueLength + MaxBatchSeq)'
    BY DEF QueuesBounded
  <1> DEFINE H == kindsOf(sched.held)
             B == itemKindsOf(sched.batch)
  <1>1. /\ sched.held \in Seq(Work) /\ sched.batch \in Seq(Item) /\ QueuesTyped /\ QueueKinds
        /\ queue[k] \in Seq(Work) /\ DOMAIN queue = Kinds
    BY BatchStart DEF SchedRecord, QueuesTyped, Kinds
  <1>2. H \in Seq(Kinds) /\ B \in Seq(Kinds)
    BY <1>1, KindsOf
  <1>3. PICK n \in Nat, h \in Nat, b \in Nat : n = Len(queue[k]) /\ h = Count(H, k) /\ b = Count(B, k)
    <2>1. Len(queue[k]) \in Nat
      BY <1>1
    <2>2. Count(H, k) \in Nat /\ Count(B, k) \in Nat
      <3> HIDE DEF H, B
      <3> QED BY <1>2, CountEnds
    <2> QED BY <2>1, <2>2
  <1>4. n + (h + b) <= QueueLength + MaxBatchSeq
    BY <1>3 DEF QueuesBounded, inHand
  <1>5. ASSUME UNCHANGED queue, sched'.held = sched.held, sched'.batch = sched.batch
        PROVE  Len(queue'[k]) + inHand(k)' <= QueueLength + MaxBatchSeq
    BY <1>3, <1>4, <1>5 DEF inHand
  <1>6. ASSUME NEW j \in Kinds, TakesFrom(j)
        PROVE  /\ j = k => n > 0 /\ Len(queue'[k]) = n - 1
               /\ j # k => Len(queue'[k]) = n
               /\ queueOf(Head(queue[j])) = j
    <2>1. queue[j] \in Seq(Work) /\ queue[j] # << >>
      BY <1>1, <1>6 DEF QueuesTyped, Kinds, TakesFrom
    <2>2. queue'[j] = Tail(queue[j]) /\ (k # j => queue'[k] = queue[k])
      BY <1>1, <1>6 DEF TakesFrom
    <2>3. Head(queue[j]) = queue[j][1] /\ 1 \in DOMAIN queue[j]
      BY <2>1
    <2> QED BY <1>1, <1>3, <2>1, <2>2, <2>3 DEF QueueKinds
  <1>7. CASE \E j \in Kinds : DropsFrom(j)
    <2>1. PICK j \in Kinds : DropsFrom(j)
      BY <1>7
    <2>2. TakesFrom(j) /\ sched'.held = sched.held /\ sched'.batch = sched.batch
      BY <2>1 DEF DropsFrom, TakesFrom
    <2>3. inHand(k)' = h + b
      BY <1>3, <2>2 DEF inHand
    <2>4. PICK m \in Nat : m = Len(queue'[k]) /\ m <= n
      <3>1. PICK l : l = Len(queue'[k])
        OBVIOUS
      <3>2. (l = n - 1 /\ n > 0) \/ l = n
        BY <1>6, <2>2, <3>1
      <3>3. l \in Nat /\ l <= n
        BY <1>3, <3>2
      <3> QED BY <3>1, <3>3
    <2>6. PICK t \in Nat : t = QueueLength + MaxBatchSeq
      BY Bounds
    <2>7. n + (h + b) <= t /\ m <= n
      BY <1>4, <2>4, <2>6
    <2>8. m + (h + b) <= t
      BY <2>7
    <2>5. m + (h + b) <= QueueLength + MaxBatchSeq
      BY <2>6, <2>8
    <2> QED BY <2>3, <2>4, <2>5
  <1>8. CASE \E j \in Kinds : Picks(j)
    <2>1. PICK j \in Kinds : Picks(j)
      BY <1>8
    <2>2. /\ TakesFrom(j) /\ sched'.held = Append(sched.held, Head(queue[j])) /\ sched'.batch = sched.batch
      BY <2>1 DEF Picks, TakesFrom
    <2>3. kindsOf(sched'.held) = Append(H, j)
      <3>1. kindsOf(Append(sched.held, Head(queue[j]))) = Append(H, queueOf(Head(queue[j])))
        BY <1>1, KindsOf
      <3>2. queueOf(Head(queue[j])) = j
        BY <1>6, <2>2
      <3> QED BY <2>2, <3>1, <3>2
    <2>4. Count(Append(H, j), k) = IF j = k THEN h + 1 ELSE h
      BY <1>2, <1>3, CountEnds
    <2>5. inHand(k)' = (IF j = k THEN h + 1 ELSE h) + b
      BY <1>3, <2>2, <2>3, <2>4 DEF inHand
    <2>6. (j = k => n > 0 /\ Len(queue'[k]) = n - 1) /\ (j # k => Len(queue'[k]) = n)
      BY <1>6, <2>2
    <2> QED BY <1>3, <1>4, <2>5, <2>6, Bounds
  <1>9. CASE sched.held # << >> /\ sched'.held = Tail(sched.held) /\ \E v \in Work : Joins(v) \/ PutsBack(v)
    <2>1. PICK v \in Work : Joins(v) \/ PutsBack(v)
      BY <1>9
    <2> DEFINE w == Head(sched.held)
               j == queueOf(w)
    <2>2. w \in Work /\ H # << >> /\ kindsOf(sched'.held) = Tail(H) /\ Head(H) = j
      BY <1>1, <1>9, KindsOf, SeqTyped
    <2>3. h = IF j = k THEN Count(Tail(H), k) + 1 ELSE Count(Tail(H), k)
      <3>1. Count(H, k) = IF Head(H) = k THEN Count(Tail(H), k) + 1 ELSE Count(Tail(H), k)
        <4> HIDE DEF H
        <4> QED BY <1>2, <2>2, CountEnds, ZenonT(30)
      <3> QED BY <1>3, <2>2, <3>1
    <2>4. PICK g \in Nat : g = Count(Tail(H), k)
      BY <1>2, <2>2, CountEnds, SeqTyped
    <2>5. CASE Joins(v)
      <3>1. queue' = queue /\ sched'.batch = Append(sched.batch, batchItem(v)) /\ queueOf(v) = j
        BY <2>5 DEF Joins
      <3>2. batchItem(v).work = v
        BY DEF batchItem
      <3>3. itemKindsOf(sched'.batch) = Append(B, j)
        <4>1. itemKindsOf(Append(sched.batch, batchItem(v))) = Append(B, queueOf(batchItem(v).work))
          BY <1>1, KindsOf
        <4> QED BY <3>1, <3>2, <4>1
      <3>4. Count(Append(B, j), k) = IF j = k THEN b + 1 ELSE b
        BY <1>2, <1>3, CountEnds
      <3>5. inHand(k)' = g + (IF j = k THEN b + 1 ELSE b)
        BY <2>2, <2>4, <3>3, <3>4 DEF inHand
      <3> QED BY <1>3, <1>4, <2>3, <2>4, <3>1, <3>5, Bounds
    <2>6. CASE PutsBack(v)
      <3>1. queue' = appended(queue, w) /\ sched'.batch = sched.batch
        BY <2>6 DEF PutsBack
      <3>2. Len(queue'[k]) = IF j = k THEN n + 1 ELSE n
        <4>1. /\ k = queueOf(w) => queue'[k] = Append(queue[k], w)
              /\ k # queueOf(w) => queue'[k] = queue[k]
          BY <2>2, <3>1, Appended, BatchStart, KindsParts DEF Kinds
        <4> QED BY <1>1, <1>3, <4>1
      <3>3. inHand(k)' = g + b
        BY <1>3, <2>2, <2>4, <3>1 DEF inHand
      <3> QED BY <1>4, <2>3, <2>4, <3>2, <3>3, Bounds
    <2> QED BY <2>1, <2>5, <2>6
  <1>10. CASE Submits
    <2>1. queue' = queue /\ sched'.held = sched.held /\ sched'.batch = << >>
      BY <1>10 DEF Submits
    <2>2. itemKindsOf(<< >>) = << >> /\ Count(<< >>, k) = 0
      <3>1. itemKindsOf(<< >>) = << >>
        BY DEF itemKindsOf
      <3>2. Count(<< >>, k) = 0
        BY <1>2, CountEnds
      <3> QED BY <3>1, <3>2
    <2>3. inHand(k)' = h + 0
      BY <1>3, <2>1, <2>2 DEF inHand
    <2>4. Len(queue'[k]) = n
      BY <1>3, <2>1
    <2>5. n + (h + 0) <= QueueLength + MaxBatchSeq
      BY <1>4, Bounds
    <2> QED BY <2>3, <2>4, <2>5
  <1>11. CASE Requeues
    <2> DEFINE w == Head(sched.batch).work
               j == queueOf(w)
    <2>1. sched.batch # << >> /\ queue' = appended(queue, w)
          /\ sched'.held = sched.held /\ sched'.batch = Tail(sched.batch)
      BY <1>11 DEF Requeues
    <2>2. w \in Work
      <3>1. Head(sched.batch) \in Item
        BY <1>1, <2>1, SeqTyped
      <3> QED BY <3>1 DEF Item
    <2>3. B # << >> /\ itemKindsOf(sched'.batch) = Tail(B) /\ Head(B) = j
      BY <1>1, <2>1, KindsOf
    <2>4. b = IF j = k THEN Count(Tail(B), k) + 1 ELSE Count(Tail(B), k)
      BY <1>2, <1>3, <2>3, CountEnds, ZenonT(30)
    <2>5. PICK g \in Nat : g = Count(Tail(B), k)
      BY <1>2, <2>3, CountEnds, SeqTyped
    <2>6. Len(queue'[k]) = IF j = k THEN n + 1 ELSE n
      <3>1. /\ k = queueOf(w) => queue'[k] = Append(queue[k], w)
            /\ k # queueOf(w) => queue'[k] = queue[k]
        BY <2>1, <2>2, Appended, BatchStart, KindsParts DEF Kinds
      <3> QED BY <1>1, <1>3, <3>1
    <2>7. inHand(k)' = h + g
      BY <1>3, <2>1, <2>3, <2>5 DEF inHand
    <2> QED BY <1>4, <2>4, <2>5, <2>6, <2>7, Bounds
  <1>12. CASE Rests
    BY <1>5, <1>12 DEF Rests
  <1> QED BY <1>7, <1>8, <1>9, <1>10, <1>11, <1>12 DEF BatchFlow, Kinds

(* Channels, outputs, batches and events stay within their capacities. *)
BuffersBounded ==
  /\ Len(batchChan) <= BatchCap /\ Len(eventChan) <= EventCap
  /\ \A c \in Calls : Len(channel[c].buf) <= SubCap /\ Len(handler[c].out) <= OutCap

(* What a step may do to the event channels. *)
ChannelStep ==
  \/ UNCHANGED channel
  \/ \E c \in Calls, id \in Ids : sendFailure(c, id)
  \/ \E c \in Calls : channel' = [channel EXCEPT ![c].closed = TRUE]
  \/ \E c \in Calls : channel[c].buf # << >> /\ channel' = [channel EXCEPT ![c].buf = Tail(@)]
  \/ \E c \in Calls : /\ cons.pc = "send" /\ ~channel[c].closed /\ Len(channel[c].buf) < SubCap
                      /\ channel' = [channel EXCEPT ![c].buf = Append(@, cons.event[1])]

(* What a step may do to the outputs of the handlers. *)
OutputStep ==
  \/ \A c \in Calls : handler'[c].out = handler[c].out
  \/ \E c \in Calls : \E o : /\ Len(handler[c].out) < OutCap /\ handler'[c].out = Append(handler[c].out, o)
                             /\ \A d \in Calls \ {c} : handler'[d].out = handler[d].out
  \/ \E c \in Calls : /\ handler[c].out # << >> /\ handler'[c].out = Tail(handler[c].out)
                      /\ \A d \in Calls \ {c} : handler'[d].out = handler[d].out

(* Finish closes at most one channel. *)
LEMMA FinishCloses ==
  ASSUME Typed, NEW r, Finish(r)
  PROVE  ChannelStep
  <1>1. CASE exists(r)
    <2>1. requests[r].call \in Calls
      BY <1>1, Fields DEF exists
    <2> QED BY <1>1, <2>1 DEF Finish, ChannelStep
  <1>2. CASE ~exists(r)
    BY <1>2 DEF Finish, ChannelStep
  <1> QED BY <1>1, <1>2

(* Every step of a handler, a client or the clock. *)
LEMMA HandlerBuffers ==
  ASSUME Serving, NEW c \in Calls, HandlerNext(c) \/ ClientReads(c) \/ ClientLeaves(c) \/ Expire(c)
  PROVE  ChannelStep /\ OutputStep /\ UNCHANGED <<sched, batchChan, eventChan>>
         /\ (UNCHANGED queue \/ \E w \in Work : ~full(w) /\ queue' = appended(queue, w))
  <1>1. Typed /\ Shapes /\ HandlersTyped
    BY DEF Serving, Typed
  <1>2. CASE Create(c)
    <2>1. ASSUME NEW d \in Calls PROVE handler'[d].out = handler[d].out
      <3>1. CASE exists(RequestId[c])
        <4>a. CASE d = c
          BY <1>1, <1>2, <3>1, <4>a DEF Create, HandlersTyped
        <4>b. CASE d # c
          BY <1>1, <1>2, <3>1, <4>b DEF Create, HandlersTyped
        <4> QED BY <4>a, <4>b
      <3>2. CASE ~exists(RequestId[c])
        <4>a. CASE d = c
          BY <1>1, <1>2, <3>2, <4>a DEF Create, HandlersTyped
        <4>b. CASE d # c
          BY <1>1, <1>2, <3>2, <4>b DEF Create, HandlersTyped
        <4> QED BY <4>a, <4>b
      <3> QED BY <3>1, <3>2
    <2> QED BY <1>2, <2>1 DEF Create, ChannelStep, OutputStep
  <1>3. CASE Subscribe(c)
    <2>1. ASSUME NEW d \in Calls PROVE handler'[d].out = handler[d].out
      <3>a. CASE d = c
        BY <1>1, <1>3, <3>a DEF Subscribe, HandlersTyped
      <3>b. CASE d # c
        BY <1>1, <1>3, <3>b DEF Subscribe, HandlersTyped
      <3> QED BY <3>a, <3>b
    <2> QED BY <1>3, <2>1 DEF Subscribe, ChannelStep, OutputStep
  <1>4. CASE EnqueueFirst(c)
    <2> DEFINE work == handler[c].item[1]
    <2>1. work \in Work
      BY <1>4, FirstWork DEF EnqueueFirst
    <2>5. ASSUME NEW d \in Calls PROVE handler'[d].out = handler[d].out
      <3>1. \/ handler' = [handler EXCEPT ![c].pc = "rejected", ![c].client = "error", ![c].item = << >>]
            \/ handler' = [handler EXCEPT ![c].pc = "trySchedule", ![c].item = << >>]
        BY <1>4, Zenon DEF EnqueueFirst
      <3>a. CASE d = c
        BY <1>1, <3>1, <3>a DEF HandlersTyped
      <3>b. CASE d # c
        BY <1>1, <1>4, <3>b DEF EnqueueFirst, HandlersTyped
      <3> QED BY <3>a, <3>b
    <2>2. OutputStep /\ UNCHANGED <<sched, batchChan, eventChan>>
      BY <1>4, <2>5 DEF EnqueueFirst, OutputStep
    <2>3. ChannelStep
      <3>1. exists(work.request) => requests[work.request].call \in Calls /\ work.request \in Ids
        BY <1>1, Fields DEF exists
      <3>2. \/ UNCHANGED channel
            \/ exists(work.request) /\ sendFailure(requests[work.request].call, work.request)
        BY <1>4 DEF EnqueueFirst
      <3> QED BY <3>1, <3>2 DEF ChannelStep
    <2>4. UNCHANGED queue \/ (~full(work) /\ queue' = appended(queue, work))
      <3>1. CASE full(work)
        <4>1. queue' = queue
          BY <1>4, <3>1, Zenon DEF EnqueueFirst
        <4> QED BY <4>1
      <3>2. CASE ~full(work)
        BY <1>4, <3>2 DEF EnqueueFirst
      <3> QED BY <3>1, <3>2
    <2> QED BY <2>1, <2>2, <2>3, <2>4
  <1>5. CASE Receive(c)
    <2>1. handler[c].from \in Calls
      BY <1>1, Fields
    <2>2. ChannelStep
      BY <1>5, <2>1 DEF Receive, ChannelStep
    <2>3. OutputStep /\ UNCHANGED <<sched, batchChan, eventChan, queue>>
      <3>1. ASSUME NEW d \in Calls PROVE handler'[d].out = handler[d].out
        BY <1>1, <1>5 DEF Receive, HandlersTyped
      <3> QED BY <1>5, <3>1 DEF Receive, OutputStep
    <2> QED BY <2>2, <2>3
  <1>6. CASE Emit(c)
    <2> DEFINE e == handler[c].event[1]
               o == [token |-> e.token, type |-> e.type, done |-> e.done]
    <2>1. /\ Len(handler[c].out) < OutCap /\ handler'[c].out = Append(handler[c].out, o)
          /\ \A d \in Calls \ {c} : handler'[d].out = handler[d].out
      BY <1>1, <1>6 DEF Emit, HandlersTyped
    <2>2. OutputStep
      BY <2>1 DEF OutputStep
    <2> QED BY <1>6, <2>2 DEF Emit, ChannelStep
  <1>7. CASE FinishCall(c) \/ CancelCall(c)
    <2>1. Finish(RequestId[c])
      BY <1>7 DEF FinishCall, CancelCall, Cancel
    <2>2. ChannelStep
      BY <1>1, <2>1, FinishCloses
    <2>3. OutputStep
      <3>1. ASSUME NEW d \in Calls PROVE handler'[d].out = handler[d].out
        <4>a. CASE d = c
          BY <1>1, <1>7, <4>a DEF FinishCall, CancelCall, HandlersTyped
        <4>b. CASE d # c
          BY <1>1, <1>7, <4>b DEF FinishCall, CancelCall, HandlersTyped
        <4> QED BY <4>a, <4>b
      <3> QED BY <3>1 DEF OutputStep
    <2> QED BY <1>7, <2>2, <2>3 DEF FinishCall, CancelCall
  <1>8. CASE ClientReads(c)
    <2>1. \/ \A d \in Calls : handler'[d].out = handler[d].out
          \/ /\ handler[c].out # << >> /\ handler'[c].out = Tail(handler[c].out)
             /\ \A d \in Calls \ {c} : handler'[d].out = handler[d].out
      <3>1. ASSUME NEW d \in Calls \ {c} PROVE handler'[d].out = handler[d].out
        BY <1>1, <1>8 DEF ClientReads, HandlersTyped
      <3>2. \/ handler'[c].out = handler[c].out
            \/ handler[c].out # << >> /\ handler'[c].out = Tail(handler[c].out)
        <4>1. CASE handler[c].out # << >>
          <5>1. PICK t : t = IF Head(handler[c].out).done THEN "done" ELSE "waiting"
            OBVIOUS
          <5>2. handler' = [handler EXCEPT ![c].out = Tail(@), ![c].received = Append(@, Head(handler[c].out)),
                                           ![c].client = t]
            BY <1>8, <4>1, <5>1 DEF ClientReads
          <5> QED BY <1>1, <4>1, <5>2 DEF HandlersTyped
        <4>2. CASE handler[c].out = << >>
          <5>1. handler' = [handler EXCEPT ![c].client = "error"]
            BY <1>8, <4>2 DEF ClientReads
          <5> QED BY <1>1, <5>1 DEF HandlersTyped
        <4> QED BY <4>1, <4>2
      <3> QED BY <3>1, <3>2
    <2>2. OutputStep
      BY <2>1 DEF OutputStep
    <2> QED BY <1>8, <2>2 DEF ClientReads, ChannelStep
  <1>9. CASE ClientLeaves(c) \/ Expire(c)
    <2>1. OutputStep
      <3>1. ASSUME NEW d \in Calls PROVE handler'[d].out = handler[d].out
        <4>a. CASE d = c
          <5>1. CASE ClientLeaves(c)
            BY <1>1, <5>1, <4>a, ZenonT(30) DEF ClientLeaves, HandlersTyped
          <5>2. CASE Expire(c)
            BY <5>2 DEF Expire
          <5> QED BY <1>9, <5>1, <5>2
        <4>b. CASE d # c
          <5>1. CASE ClientLeaves(c)
            BY <1>1, <5>1, <4>b, ZenonT(30) DEF ClientLeaves, HandlersTyped
          <5>2. CASE Expire(c)
            BY <5>2 DEF Expire
          <5> QED BY <1>9, <5>1, <5>2
        <4> QED BY <4>a, <4>b
      <3> QED BY <3>1 DEF OutputStep
    <2> QED BY <1>9, <2>1 DEF ClientLeaves, Expire, ChannelStep
  <1>10. CASE TrySchedule(c)
    <2>1. ASSUME NEW d \in Calls PROVE handler'[d].out = handler[d].out
      <3>a. CASE d = c
        BY <1>1, <1>10, <3>a DEF TrySchedule, HandlersTyped
      <3>b. CASE d # c
        BY <1>1, <1>10, <3>b DEF TrySchedule, HandlersTyped
      <3> QED BY <3>a, <3>b
    <2> QED BY <1>10, <2>1 DEF TrySchedule, ChannelStep, OutputStep
  <1> QED BY <1>2, <1>3, <1>4, <1>5, <1>6, <1>7, <1>8, <1>9, <1>10 DEF HandlerNext

(* Every step of the consumer of events. *)
LEMMA ConsumerBuffers ==
  ASSUME Serving, ConsumerNext
  PROVE  /\ ChannelStep /\ UNCHANGED <<sched, batchChan, handler>>
         /\ UNCHANGED eventChan \/ (eventChan # << >> /\ eventChan' = Tail(eventChan))
         /\ UNCHANGED queue \/ \E w \in Work : ~full(w) /\ queue' = appended(queue, w)
  <1>1. Typed /\ Shapes /\ ConsShape
    BY DEF Serving, Shapes
  <1>2. CASE TakeEvent
    BY <1>2 DEF TakeEvent, ChannelStep
  <1>3. CASE Finalize \/ OnEvent \/ Publish \/ TryScheduleNext \/ FreeDone
    BY <1>3 DEF Finalize, OnEvent, Publish, TryScheduleNext, FreeDone, ChannelStep
  <1>4. CASE Send
    <2>1. cons.to \in Calls
      BY <1>1, <1>4 DEF Send, ConsShape
    <2> QED BY <1>4, <2>1 DEF Send, ChannelStep
  <1>5. CASE EnqueueNext
    <2>1. cons.next # << >> => cons.next[1] \in Work
      BY <1>1, Fields
    <2> QED BY <1>5, <2>1 DEF EnqueueNext, ChannelStep
  <1>6. CASE SendFailed
    <2>1. cons.to \in Calls /\ RequestId[cons.to] \in Ids
      BY <1>1, <1>6, Prompts DEF SendFailed, ConsShape
    <2> QED BY <1>6, <2>1 DEF SendFailed, ChannelStep
  <1> QED BY <1>2, <1>3, <1>4, <1>5, <1>6 DEF ConsumerNext

(* Every step of the batch loop. *)
LEMMA BatchLoopBuffers ==
  ASSUME Serving, BatchLoopNext
  PROVE  /\ ChannelStep /\ UNCHANGED <<handler, eventChan>>
         /\ UNCHANGED batchChan \/ (Len(batchChan) < BatchCap /\ batchChan' = Append(batchChan, sched.batch))
  <1>1. BatchFlow /\ UNCHANGED <<handler, eventChan>> /\ (NotifyTimeout \/ UNCHANGED channel)
    BY BatchLoopStep
  <1>2. ChannelStep
    <2>1. NotifyTimeout => sched.notify \in Calls /\ RequestId[sched.notify] \in Ids
      BY BatchStart, Prompts DEF NotifyTimeout, SchedRecord
    <2> QED BY <1>1, <2>1 DEF NotifyTimeout, ChannelStep
  <1>3. UNCHANGED batchChan \/ (Len(batchChan) < BatchCap /\ batchChan' = Append(batchChan, sched.batch))
    BY <1>1 DEF BatchFlow, DropsFrom, Picks, TakesFrom, Joins, PutsBack, Submits, Requeues, Rests
  <1> QED BY <1>1, <1>2, <1>3

(* A step of the channels keeps them within their capacity. *)
LEMMA ChannelsBounded ==
  ASSUME ChannelsTyped, ChannelStep, NEW d \in Calls, Len(channel[d].buf) <= SubCap
  PROVE  Len(channel'[d].buf) <= SubCap
  <1>1. channel[d].buf \in Seq(Event)
    BY DEF ChannelsTyped
  <1>2. PICK n \in Nat : n = Len(channel[d].buf)
    BY <1>1
  <1>3. SubCap \in Nat
    BY EngineAssumption
  <1>4. CASE UNCHANGED channel
    BY <1>4
  <1>5. ASSUME NEW c \in Calls, NEW e, Len(channel[c].buf) < SubCap,
               \/ channel' = [channel EXCEPT ![c].buf = Append(@, e)]
               \/ channel' = [channel EXCEPT ![c].buf = Append(@, e), ![c].closed = TRUE]
        PROVE  Len(channel'[d].buf) <= SubCap
    <2>1. CASE c = d
      <3>1. channel'[d].buf = Append(channel[d].buf, e)
        BY <1>5, <2>1 DEF ChannelsTyped
      <3>2. Len(Append(channel[d].buf, e)) = n + 1
        BY <1>1, <1>2
      <3> QED BY <1>2, <1>3, <1>5, <2>1, <3>1, <3>2
    <2>2. CASE c # d
      <3>1. channel'[d] = channel[d]
        BY <1>5, <2>2 DEF ChannelsTyped
      <3> QED BY <3>1
    <2> QED BY <2>1, <2>2
  <1>6. CASE \E c \in Calls, id \in Ids : sendFailure(c, id)
    <2>1. PICK c \in Calls, id \in Ids : sendFailure(c, id)
      BY <1>6
    <2> QED BY <1>5, <2>1 DEF sendFailure
  <1>7. CASE \E c \in Calls : channel' = [channel EXCEPT ![c].closed = TRUE]
    <2>1. PICK c \in Calls : channel' = [channel EXCEPT ![c].closed = TRUE]
      BY <1>7
    <2>2. channel'[d].buf = channel[d].buf
      BY <2>1 DEF ChannelsTyped
    <2> QED BY <2>2
  <1>8. CASE \E c \in Calls : channel[c].buf # << >> /\ channel' = [channel EXCEPT ![c].buf = Tail(@)]
    <2>1. PICK c \in Calls : channel[c].buf # << >> /\ channel' = [channel EXCEPT ![c].buf = Tail(@)]
      BY <1>8
    <2>2. CASE c = d
      <3>1. channel'[d].buf = Tail(channel[d].buf)
        BY <2>1, <2>2 DEF ChannelsTyped
      <3>2. Len(Tail(channel[d].buf)) \in Nat /\ Len(Tail(channel[d].buf)) <= n
        BY <1>1, <1>2, <2>1, <2>2
      <3> QED BY <1>2, <1>3, <3>1, <3>2
    <2>3. CASE c # d
      <3>1. channel'[d] = channel[d]
        BY <2>1, <2>3 DEF ChannelsTyped
      <3> QED BY <3>1
    <2> QED BY <2>2, <2>3
  <1>9. CASE \E c \in Calls : /\ cons.pc = "send" /\ ~channel[c].closed /\ Len(channel[c].buf) < SubCap
                              /\ channel' = [channel EXCEPT ![c].buf = Append(@, cons.event[1])]
    <2>1. PICK c \in Calls : /\ Len(channel[c].buf) < SubCap
                             /\ channel' = [channel EXCEPT ![c].buf = Append(@, cons.event[1])]
      BY <1>9
    <2> QED BY <1>5, <2>1
  <1> QED BY <1>4, <1>6, <1>7, <1>8, <1>9 DEF ChannelStep

(* A step of the outputs keeps them within their capacity. *)
LEMMA OutputsBounded ==
  ASSUME HandlersTyped, OutputStep, NEW d \in Calls, Len(handler[d].out) <= OutCap
  PROVE  Len(handler'[d].out) <= OutCap
  <1>1. handler[d].out \in Seq(Output)
    BY DEF HandlersTyped
  <1>2. PICK n \in Nat : n = Len(handler[d].out)
    BY <1>1
  <1>3. OutCap \in Nat
    BY EngineAssumption
  <1>4. CASE handler'[d].out = handler[d].out
    BY <1>4
  <1>5. CASE \E o : n < OutCap /\ handler'[d].out = Append(handler[d].out, o)
    <2>1. PICK o : n < OutCap /\ handler'[d].out = Append(handler[d].out, o)
      BY <1>5
    <2>2. Len(Append(handler[d].out, o)) = n + 1
      BY <1>1, <1>2
    <2> QED BY <1>2, <1>3, <2>1, <2>2
  <1>6. CASE handler[d].out # << >> /\ handler'[d].out = Tail(handler[d].out)
    <2>1. Len(Tail(handler[d].out)) \in Nat /\ Len(Tail(handler[d].out)) <= n
      BY <1>1, <1>2, <1>6
    <2> QED BY <1>2, <1>3, <1>6, <2>1
  <1> QED BY <1>2, <1>4, <1>5, <1>6 DEF OutputStep

(* Every step keeps queues and buffers within their bounds. *)
LEMMA NextBounded ==
  ASSUME Serving, Serving', QueuesBounded, BuffersBounded, [Next]_vars
  PROVE  QueuesBounded' /\ BuffersBounded'
  <1>1. /\ Typed /\ ChannelsTyped /\ HandlersTyped /\ batchChan \in Seq(Seq(Item)) /\ eventChan \in Seq(Event)
        /\ BatchCap \in Nat /\ EventCap \in Nat
    BY EngineAssumption DEF Serving, Typed, ExecTyped
  <1>2. PICK n \in Nat, m \in Nat : n = Len(batchChan) /\ m = Len(eventChan) /\ n <= BatchCap /\ m <= EventCap
    BY <1>1 DEF BuffersBounded
  <1>3. ASSUME ChannelStep, OutputStep \/ UNCHANGED handler
        PROVE  \A c \in Calls : Len(channel'[c].buf) <= SubCap /\ Len(handler'[c].out) <= OutCap
    <2>1. OutputStep
      BY <1>3 DEF OutputStep
    <2> QED BY <1>1, <1>3, <2>1, ChannelsBounded, OutputsBounded DEF BuffersBounded
  <1>4. ASSUME UNCHANGED sched, UNCHANGED queue \/ \E w \in Work : ~full(w) /\ queue' = appended(queue, w)
        PROVE  QueuesBounded'
    <2>1. CASE UNCHANGED queue
      BY <1>4, <2>1 DEF QueuesBounded, inHand
    <2>2. CASE \E w \in Work : ~full(w) /\ queue' = appended(queue, w)
      BY <1>4, <2>2, AdmitBounded
    <2> QED BY <1>4, <2>1, <2>2
  <1>5. /\ \A b : Len(Append(batchChan, b)) = n + 1 /\ Len(Append(eventChan, b)) = m + 1
        /\ batchChan # << >> => Len(Tail(batchChan)) \in Nat /\ Len(Tail(batchChan)) <= n
        /\ eventChan # << >> => Len(Tail(eventChan)) \in Nat /\ Len(Tail(eventChan)) <= m
    BY <1>1, <1>2
  <1>6. CASE \E c \in Calls : HandlerNext(c) \/ ClientReads(c) \/ ClientLeaves(c) \/ Expire(c)
    <2>1. PICK c \in Calls : HandlerNext(c) \/ ClientReads(c) \/ ClientLeaves(c) \/ Expire(c)
      BY <1>6
    <2>2. /\ ChannelStep /\ OutputStep /\ UNCHANGED <<sched, batchChan, eventChan>>
          /\ (UNCHANGED queue \/ \E w \in Work : ~full(w) /\ queue' = appended(queue, w))
      BY <2>1, HandlerBuffers
    <2> QED BY <1>3, <1>4, <2>2 DEF BuffersBounded
  <1>7. CASE BatchLoopNext
    <2>1. /\ ChannelStep /\ UNCHANGED <<handler, eventChan>>
          /\ UNCHANGED batchChan \/ (Len(batchChan) < BatchCap /\ batchChan' = Append(batchChan, sched.batch))
      BY <1>7, BatchLoopBuffers
    <2>2. QueuesBounded'
      BY <1>7, BatchLoopStep, FlowBounded
    <2>3. Len(batchChan') <= BatchCap
      BY <1>1, <1>2, <1>5, <2>1
    <2> QED BY <1>2, <1>3, <2>1, <2>2, <2>3 DEF BuffersBounded
  <1>8. CASE ExecutorNext
    <2>1. UNCHANGED <<channel, handler, queue, sched>>
      BY <1>8 DEF ExecutorNext, TakeBatch, Execute, ExecuteFails, Deliver
    <2>2. \/ UNCHANGED batchChan
          \/ batchChan # << >> /\ batchChan' = Tail(batchChan)
      BY <1>8 DEF ExecutorNext, TakeBatch, Execute, ExecuteFails, Deliver
    <2>3. \/ UNCHANGED eventChan
          \/ Len(eventChan) < EventCap /\ eventChan' = Append(eventChan, Head(exec.events))
      BY <1>8 DEF ExecutorNext, TakeBatch, Execute, ExecuteFails, Deliver
    <2>4. Len(batchChan') <= BatchCap
      BY <1>1, <1>2, <1>5, <2>2
    <2>5. Len(eventChan') <= EventCap
      BY <1>1, <1>2, <1>5, <2>3
    <2>6. ChannelStep
      BY <2>1 DEF ChannelStep
    <2> QED BY <1>3, <1>4, <2>1, <2>4, <2>5, <2>6 DEF BuffersBounded
  <1>9. CASE ConsumerNext
    <2>1. /\ ChannelStep /\ UNCHANGED <<sched, batchChan, handler>>
          /\ UNCHANGED eventChan \/ (eventChan # << >> /\ eventChan' = Tail(eventChan))
          /\ UNCHANGED queue \/ \E w \in Work : ~full(w) /\ queue' = appended(queue, w)
      BY <1>9, ConsumerBuffers
    <2>2. Len(eventChan') <= EventCap
      BY <1>1, <1>2, <1>5, <2>1
    <2> QED BY <1>2, <1>3, <1>4, <2>1, <2>2 DEF BuffersBounded
  <1>10. CASE UNCHANGED vars
    BY <1>10 DEF vars, QueuesBounded, inHand, BuffersBounded
  <1> QED BY <1>6, <1>7, <1>8, <1>9, <1>10 DEF Next

(* What TypeOK says of the buffers comes from the bounds, and the rest from *)
(* the inductive invariant.                                                 *)
LEMMA BoundedTypes == ASSUME Serving, QueuesBounded, BuffersBounded PROVE TypeOK
  <1>1. Typed /\ DOMAIN queue = Kinds
    BY BatchStart DEF Kinds
  <1>2. Blocks(mgr) = BlockIds
    BY <1>1, Sizes DEF Typed, ManagerGood, R!Good, R!QueueSound, Blocks
  <1>3. /\ DOMAIN requests \subseteq Range(RequestId)
        /\ \A r \in DOMAIN requests :
             requests[r] \in [ call : Calls, phase : {Running, Finished, Failed}, computed : Nat,
                               generated : Nat, cache : Seq(Blocks(mgr)) ]
    <2>1. DOMAIN requests \subseteq Ids
      BY <1>1 DEF Typed, RequestsTyped
    <2>2. ASSUME NEW r \in DOMAIN requests
          PROVE  requests[r] \in [ call : Calls, phase : {Running, Finished, Failed}, computed : Nat,
                                   generated : Nat, cache : Seq(Blocks(mgr)) ]
      <3>1. requests[r] \in Request
        BY <1>1, Fields
      <3> QED BY <1>2, <3>1 DEF Request
    <2> QED BY <2>1, <2>2 DEF Ids
  <1>4. ASSUME NEW k \in Kinds PROVE Len(queue[k]) <= QueueLength + MaxBatchSeq
    <2>1. PICK n \in Nat : n = Len(queue[k])
      BY BatchStart DEF Kinds
    <2>2. PICK i \in Nat : i = inHand(k)
      BY InHandBound
    <2>3. PICK t \in Nat : t = QueueLength + MaxBatchSeq
      BY Bounds
    <2>4. n + i <= t
      BY <2>1, <2>2, <2>3 DEF QueuesBounded
    <2>5. n <= t
      BY <2>4
    <2> QED BY <2>1, <2>3, <2>5
  <1>5. sched.tokens \in 0..MaxBatchTokens /\ sched.seqs \in 0..MaxBatchSeq
    <2>1. SchedGood(sched) /\ sched \in SchedRecord
      BY BatchStart
    <2>2. sched.tokens \in Nat /\ sched.seqs \in Nat
      BY <2>1 DEF SchedRecord
    <2>3. sched.tokens <= MaxBatchTokens /\ sched.seqs <= MaxBatchSeq
      BY <2>1 DEF SchedGood
    <2> QED BY <2>2, <2>3, Bounds
  <1> QED BY <1>1, <1>3, <1>4, <1>5 DEF TypeOK, BuffersBounded

(* Nothing overflows: a queue exceeds its admission capacity by at most a   *)
(* batch that the loop puts back, and no buffer its capacity.               *)
THEOREM EngineTypes == ASSUME DistinctIds PROVE Spec => []TypeOK
  <1> DEFINE Bounded == QueuesBounded /\ BuffersBounded
  <1>1. Init => Bounded
    <2> SUFFICES ASSUME Init PROVE Bounded
      OBVIOUS
    <2>1. \A c \in Calls : channel[c].buf = << >> /\ handler[c].out = << >>
      BY DEF Init
    <2>2. sched.held = << >> /\ sched.batch = << >>
      BY IdleGood DEF Init
    <2>3. ASSUME NEW k \in Kinds PROVE queue[k] = << >> /\ inHand(k) = 0
      <3>1. kindsOf(<< >>) = << >> /\ itemKindsOf(<< >>) = << >>
        BY DEF kindsOf, itemKindsOf
      <3>2. Count(<< >>, k) = 0
        <4>1. << >> \in Seq(Kinds)
          OBVIOUS
        <4> QED BY <4>1, CountEnds
      <3>3. inHand(k) = 0
        BY <2>2, <3>1, <3>2 DEF inHand
      <3> QED BY <3>3 DEF Init, Kinds
    <2>4. BuffersBounded
      BY <2>1, EngineAssumption DEF Init, BuffersBounded
    <2>5. QueuesBounded
      BY <2>3, Bounds DEF QueuesBounded
    <2> QED BY <2>4, <2>5
  <1>2. Serving /\ Serving' /\ Bounded /\ [Next]_vars => Bounded'
    BY NextBounded
  <1>3. Serving /\ Bounded => TypeOK
    BY BoundedTypes
  <1> QED BY <1>1, <1>2, <1>3, EngineServing, PTL DEF Spec

-----------------------------------------------------------------------------
(***************************************************************************)
(* The order in which a request ends.                                      *)
(***************************************************************************)

(* No client goes away, and no text ends with the token that its prefill    *)
(* samples.                                                                 *)
Undisturbed == MayLeave = {} /\ ~StopsInPrefill

(* The request of call c has been deleted; or it is at least over. *)
Gone(c) == handler[c].pc # "new" /\ ~exists(RequestId[c])
Over(c) == handler[c].pc # "new" /\ (exists(RequestId[c]) => requests[RequestId[c]].phase # Running)

(* The last event of call c is in its channel, or its handler has it. *)
DoneSent(c) ==
  \/ \E i \in DOMAIN channel[c].buf : channel[c].buf[i].done
  \/ handler[c].pc = "emit" /\ handler[c].event[1].done
  \/ handler[c].pc = "finish"

(* The subscriber of a call is its own handler, and stays. *)
NobodyLeft == \A c \in Calls : handler[c].client # "left" /\ handler[c].from = c

(* A work or an event on its way is of a request that exists. *)
TicketLives == \A r : Occurs(Lines, r) => exists(r)

(* Nobody is told of an end before the request is over, and a channel is    *)
(* closed when it is gone.                                                  *)
CallsClosing ==
  \A c \in Calls :
    /\ DoneSent(c) => Over(c)
    /\ channel[c].closed => Gone(c)
    /\ sched.notify = c => Gone(c)

(* The request whose event is published exists until the event is sent: no  *)
(* handler has its last event, and no queue its next work.                  *)
ConsClosing ==
  /\ cons.pc \in {"publish", "send", "enqueue", "trySchedule", "free"} /\ cons.event[1].done =>
       \A c \in Calls : RequestId[c] = eventRequest => Over(c)
  /\ cons.pc = "fail" => Gone(cons.to)
  /\ cons.pc \in {"publish", "send"} =>
       /\ exists(eventRequest) /\ ~DoneSent(requests[eventRequest].call)
       /\ requests[eventRequest].phase = Running => cons.next # << >>
  /\ cons.pc = "send" => cons.to = requests[eventRequest].call

(* No text ends with the token of its prefill.                              *)
PrefillGoesOn == \A e : EventIn(e) /\ e.type = "prefillFinished" => ~e.done

(* With Serving, inductive; its last part is NoSendOnClosed.                *)
Closing ==
  NobodyLeft /\ TicketLives /\ CallsClosing /\ ConsClosing /\ PrefillGoesOn /\ ~panicked

(* A request with a ticket is running. *)
LEMMA TicketRuns ==
  ASSUME Serving, NEW r, Occurs(Lines, r), exists(r)
  PROVE  requests[r].phase = Running
  <1>1. (\E w : WorkIn(w) /\ w.request = r) \/ (\E e : EventIn(e) /\ e.request = r)
    BY OccursIn DEF Serving
  <1>2. ASSUME NEW w, WorkIn(w), w.request = r PROVE requests[r].phase = Running
    BY <1>2 DEF Serving, Sound, TicketsSound, WorkSound
  <1>3. ASSUME NEW e, EventIn(e), e.request = r PROVE requests[r].phase = Running
    BY <1>3 DEF Serving, Sound, TicketsSound, EventSound
  <1> QED BY <1>1, <1>2, <1>3

(* What is over has no ticket. *)
LEMMA OverHasNone ==
  ASSUME Serving, Closing, NEW c \in Calls, Over(c)
  PROVE  ~Occurs(Lines, RequestId[c])
  BY TicketRuns DEF Closing, TicketLives, Over

(* A request that exists is of the call with its id. *)
LEMMA CallOf ==
  ASSUME Serving, DistinctIds, NEW r \in DOMAIN requests
  PROVE  /\ requests[r].call \in Calls /\ RequestId[requests[r].call] = r
         /\ \A c \in Calls : RequestId[c] = r => c = requests[r].call
  BY Fields DEF Serving, Sound, RequestsSound, RequestSound, DistinctIds

(* What is over or gone stays so. *)
LEMMA StaysOver ==
  ASSUME Kept, NEW c \in Calls
  PROVE  (Over(c) => Over(c)') /\ (Gone(c) => Gone(c)')
  BY DEF Kept, Over, Gone, exists

(* A step that leaves the consumer where it is, and the request whose event *)
(* it publishes in place.                                                   *)
LEMMA ConsWaits ==
  ASSUME Serving, Closing, DistinctIds, Kept, UNCHANGED cons,
         cons.pc \in {"publish", "send"} /\ exists(eventRequest) =>
           eventRequest \in DOMAIN requests' /\ (DoneSent(requests[eventRequest].call)' =>
                                                   DoneSent(requests[eventRequest].call))
  PROVE  ConsClosing'
  <1>1. cons.pc \in {"publish", "send", "enqueue", "trySchedule", "free"} /\ cons.event[1].done =>
          \A c \in Calls : RequestId[c] = eventRequest => Over(c)'
    BY StaysOver DEF Closing, ConsClosing
  <1>2. cons.pc = "fail" => Gone(cons.to)'
    <2>1. cons.pc = "fail" => cons.to \in Calls /\ Gone(cons.to)
      BY DEF Closing, ConsClosing, Serving, Shapes, ConsShape
    <2>2. Gone(cons.to)' = (handler'[cons.to].pc # "new" /\ RequestId[cons.to] \notin DOMAIN requests')
      BY DEF Gone, exists
    <2> QED BY <2>1, <2>2, StaysOver
  <1>3. cons.pc \in {"publish", "send"} =>
          /\ eventRequest \in DOMAIN requests' /\ requests'[eventRequest] = requests[eventRequest]
          /\ exists(eventRequest) /\ ~DoneSent(requests[eventRequest].call)'
          /\ requests[eventRequest].phase = Running => cons.next # << >>
    BY DEF Closing, ConsClosing, Kept, exists
  <1>4. cons.pc = "send" => cons.to = requests[eventRequest].call
    BY DEF Closing, ConsClosing
  <1>5. cons' = cons /\ eventRequest' = eventRequest
    BY DEF eventRequest
  <1> QED BY <1>1, <1>2, <1>3, <1>4, <1>5 DEF ConsClosing, exists

(* The only ticket of the request whose event is published is its next      *)
(* work.                                                                    *)
LEMMA OnlyNext ==
  ASSUME Serving, Closing, cons.pc \in {"publish", "send"}, NEW a \in Places, NEW i \in DOMAIN Lines[a],
         Lines[a][i] = eventRequest
  PROVE  a = <<"next", 0>>
  <1>1. Occurs(Lines, eventRequest) /\ exists(eventRequest)
    BY DEF Occurs, Closing, ConsClosing
  <1>2. cons.next # << >>
    BY <1>1, TicketRuns DEF Closing, ConsClosing
  <1>3. Len(cons.next) = 1 /\ cons.next[1].request = eventRequest /\ cons.next \in Seq(Work)
    BY <1>2, Fields DEF Serving, Shapes, ConsShape, eventRequest
  <1>4. Lines[<<"next", 0>>] = idsOf(cons.next) /\ <<"next", 0>> \in Places
    BY LineAt, PlaceNames DEF LinesAre
  <1>5. 1 \in DOMAIN Lines[<<"next", 0>>] /\ Lines[<<"next", 0>>][1] = eventRequest
    BY <1>3, <1>4 DEF idsOf
  <1> QED BY <1>4, <1>5 DEF Serving, OneTicket, Once

(* What is left to show of a step.                                          *)
LEMMA ClosingStep ==
  ASSUME Closing, Kept,
         \A c \in Calls : handler'[c].client # "left" /\ handler'[c].from = c,
         TicketLives',
         \A c \in Calls : DoneSent(c)' => DoneSent(c) \/ Over(c)',
         \A c \in Calls : channel'[c].closed => channel[c].closed \/ Gone(c)',
         \A c \in Calls : sched'.notify = c => sched.notify = c \/ Gone(c)',
         \A e : EventIn(e)' /\ e.type = "prefillFinished" /\ e.done => EventIn(e),
         ConsClosing', ~panicked'
  PROVE  Closing'
  <1>1. CallsClosing'
    BY StaysOver DEF Closing, CallsClosing
  <1>2. PrefillGoesOn'
    BY DEF Closing, PrefillGoesOn
  <1> QED BY <1>1, <1>2 DEF Closing, NobodyLeft

(* The requests with a ticket still exist.                                  *)
LEMMA StillLives ==
  ASSUME Closing, Onward, DeletedAreDone
  PROVE  TicketLives'
  BY DEF Closing, TicketLives, Onward, NoNewTicket, DeletedAreDone, exists

(* A step that deletes nothing and sends nothing.                           *)
LEMMA QuietStep ==
  ASSUME Serving, Closing, DistinctIds, Onward, UNCHANGED <<requests, channel, panicked>>,
         \A c \in Calls : handler'[c].client # "left" /\ handler'[c].from = c,
         \A c \in Calls : DoneSent(c)' => DoneSent(c),
         \A c \in Calls : sched'.notify = c => sched.notify = c,
         \A e : EventIn(e)' /\ e.type = "prefillFinished" /\ e.done => EventIn(e),
         ConsClosing' \/ UNCHANGED cons
  PROVE  Closing'
  <1>1. TicketLives'
    BY StillLives DEF DeletedAreDone
  <1>2. ConsClosing'
    <2>1. cons.pc \in {"publish", "send"} /\ exists(eventRequest) => requests[eventRequest].call \in Calls
      BY CallOf DEF exists
    <2>2. CASE UNCHANGED cons
      <3>1. requests' = requests /\ eventRequest' = eventRequest
        BY <2>2 DEF eventRequest
      <3>2. exists(eventRequest) /\ cons.pc \in {"publish", "send"} =>
              (DoneSent(requests[eventRequest].call)' => DoneSent(requests[eventRequest].call))
        <4> SUFFICES ASSUME exists(eventRequest), cons.pc \in {"publish", "send"}
                     PROVE  DoneSent(requests[eventRequest].call)' => DoneSent(requests[eventRequest].call)
          OBVIOUS
        <4>1. PICK c \in Calls : c = requests[eventRequest].call
          BY <2>1
        <4>2. DoneSent(c)' => DoneSent(c)
          OBVIOUS
        <4>3. (requests[eventRequest].call)' = c
          BY <3>1, <4>1
        <4> QED BY <4>1, <4>2, <4>3 DEF DoneSent
      <3> QED BY <2>2, <3>1, <3>2, ConsWaits DEF Onward, exists
    <2> QED BY <2>2
  <1> QED BY <1>1, <1>2, ClosingStep DEF Onward, Closing

-----------------------------------------------------------------------------
(* The executor *)

(* TakeBatch, Deliver, Execute and ExecuteFails.                            *)
LEMMA ExecutorCloses ==
  ASSUME Serving, Closing, DistinctIds, Undisturbed, ExecutorNext
  PROVE  Closing'
  <1>1. Onward
    BY TakeBatchStep, ExecuteStep, DeliverStep DEF ExecutorNext
  <1>2. UNCHANGED <<requests, channel, panicked, handler, sched, cons>>
    BY DEF ExecutorNext, TakeBatch, Execute, ExecuteFails, Deliver, processUp
  <1>3. ASSUME NEW e, EventIn(e)', e.type = "prefillFinished", e.done PROVE EventIn(e)
    <2> USE Fields DEF Serving
    <2>1. CASE TakeBatch
      BY <1>3, <2>1 DEF TakeBatch, EventIn
    <2>2. CASE Deliver
      <3>1. HoldsWork(exec'.events, e) => HoldsWork(exec.events, e)
        BY <2>2, HoldsTail DEF Deliver
      <3>2. HoldsWork(eventChan', e) => HoldsWork(eventChan, e) \/ e = Head(exec.events)
        BY <2>2, HoldsAppend DEF Deliver
      <3>3. HoldsWork(exec.events, Head(exec.events))
        BY <2>2, HoldsTail DEF Deliver
      <3> QED BY <1>3, <2>2, <3>1, <3>2, <3>3 DEF Deliver, EventIn
    <2>3. CASE Execute
      <3>1. PICK stop \in SUBSET {i \in DOMAIN exec.running : mayStop(exec.running[i].work)} :
              exec' = [running |-> << >>,
                       events  |-> [i \in DOMAIN exec.running |->
                                      executedEvent(exec.running[i].work, i \in stop)]]
        BY <2>3 DEF Execute
      <3>2. ~HoldsWork(exec'.events, e)
        <4> SUFFICES ASSUME NEW i \in DOMAIN exec.running, e = executedEvent(exec.running[i].work, i \in stop)
                     PROVE  FALSE
          BY <3>1 DEF HoldsWork
        <4>1. i \in stop /\ nextPhase(exec.running[i].work) = "prefillFinished"
          BY <1>3 DEF executedEvent
        <4>2. exec.running[i].work.phase = Decode
          BY <3>1, <4>1 DEF mayStop, Undisturbed
        <4> QED BY <4>1, <4>2 DEF nextPhase
      <3> QED BY <1>3, <2>3, <3>2 DEF Execute, EventIn
    <2>4. CASE ExecuteFails
      <3>1. exec' = [running |-> << >>,
                     events  |-> [i \in DOMAIN exec.running |-> failedEvent(exec.running[i].work)]]
        BY <2>4 DEF ExecuteFails
      <3>2. \A i \in DOMAIN exec.running : failedEvent(exec.running[i].work).type = "requestFailed"
        BY DEF failedEvent
      <3>3. exec'.events = [i \in DOMAIN exec.running |-> failedEvent(exec.running[i].work)]
        BY <3>1
      <3>4. ~HoldsWork(exec'.events, e)
        BY <1>3, <3>2, <3>3 DEF HoldsWork
      <3> QED BY <1>3, <2>4, <3>4 DEF ExecuteFails, EventIn
    <2> QED BY <2>1, <2>2, <2>3, <2>4 DEF ExecutorNext
  <1>4. \A c \in Calls : handler'[c].client # "left" /\ handler'[c].from = c
    BY <1>2 DEF Closing, NobodyLeft
  <1>5. \A c \in Calls : DoneSent(c)' => DoneSent(c)
    BY <1>2 DEF DoneSent
  <1> QED BY <1>1, <1>2, <1>3, <1>4, <1>5, QuietStep

-----------------------------------------------------------------------------
(* The consumer of events *)

(* A step that leaves the handlers alone.                                   *)
LEMMA StillHandlers ==
  ASSUME Closing, UNCHANGED handler
  PROVE  /\ \A c \in Calls : handler'[c].client # "left" /\ handler'[c].from = c
         /\ UNCHANGED channel => \A c \in Calls : DoneSent(c)' => DoneSent(c)
  BY DEF Closing, NobodyLeft, DoneSent

(* TakeEvent, Finalize and FreeDone.                                        *)
LEMMA TakesCloses ==
  ASSUME Serving, Closing, DistinctIds, TakeEvent \/ Finalize \/ FreeDone
  PROVE  Closing'
  <1>1. Onward
    BY TakeEventStep, ConsumerStep
  <1>2. UNCHANGED <<requests, channel, panicked, handler, sched>>
    BY DEF TakeEvent, Finalize, FreeDone, processUp
  <1>3. ASSUME NEW e, EventIn(e)', e.type = "prefillFinished", e.done PROVE EventIn(e)
    <2>1. CASE TakeEvent
      <3>1. eventChan \in Seq(Event) /\ eventChan # << >>
        BY <2>1, Fields DEF Serving, TakeEvent
      <3>2. HoldsWork(eventChan', e) => HoldsWork(eventChan, e)
        BY <2>1, <3>1, HoldsTail DEF TakeEvent
      <3>3. cons'.pc \in {"finalize", "onEvent"} => cons'.event = <<Head(eventChan)>>
        BY <2>1 DEF TakeEvent, idleCons
      <3>4. cons'.pc \in {"finalize", "onEvent"} /\ HoldsWork(cons'.event, e) => HoldsWork(eventChan, e)
        <4>1. HoldsWork(<<Head(eventChan)>>, e) => e = Head(eventChan)
          BY HoldsShort
        <4>2. HoldsWork(eventChan, Head(eventChan))
          BY <3>1, HoldsTail
        <4> QED BY <3>3, <4>1, <4>2
      <3> QED BY <1>3, <2>1, <3>2, <3>4 DEF EventIn, TakeEvent
    <2>2. CASE Finalize
      <3>1. cons'.event = cons.event
        BY <2>2 DEF Finalize, Serving, Typed, ConsTyped
      <3> QED BY <1>3, <2>2, <3>1 DEF Finalize, EventIn
    <2>3. CASE FreeDone
      BY <1>3, <2>3 DEF FreeDone, idleCons, EventIn
    <2> QED BY <2>1, <2>2, <2>3
  <1>4. cons'.pc \in {"idle", "finalize", "onEvent"}
    <2>1. CASE TakeEvent
      BY <2>1 DEF TakeEvent, idleCons
    <2>2. CASE Finalize
      BY <2>2 DEF Finalize, Serving, Typed, ConsTyped
    <2>3. CASE FreeDone
      BY <2>3 DEF FreeDone, idleCons
    <2> QED BY <2>1, <2>2, <2>3
  <1>5. ConsClosing'
    BY <1>4 DEF ConsClosing
  <1> QED BY <1>1, <1>2, <1>3, <1>5, StillHandlers, QuietStep

(* Publish.                                                                 *)
LEMMA PublishCloses ==
  ASSUME Serving, Closing, DistinctIds, Publish
  PROVE  Closing'
  <1>1. Onward
    BY ConsumerStep
  <1>2. UNCHANGED <<requests, channel, panicked, handler, sched, exec, eventChan>>
    BY DEF Publish, processUp
  <1>3. cons.pc = "publish" /\ exists(eventRequest)
    BY DEF Closing, ConsClosing, Publish
  <1>4. cons' = [cons EXCEPT !.pc = "send", !.to = requests[eventRequest].call]
    BY <1>3 DEF Publish
  <1>5. cons'.pc = "send" /\ cons'.to = requests[eventRequest].call /\ cons'.event = cons.event
        /\ cons'.next = cons.next
    BY <1>4 DEF Serving, Typed, ConsTyped
  <1>6. \A c \in Calls : DoneSent(c)' => DoneSent(c)
    BY <1>2, StillHandlers
  <1>7. eventRequest' = eventRequest /\ requests' = requests
    BY <1>2, <1>5 DEF eventRequest
  <1>8. (DoneSent(requests[eventRequest].call))' => DoneSent(requests[eventRequest].call)
    <2>1. PICK c \in Calls : c = requests[eventRequest].call
      BY <1>3, CallOf DEF exists
    <2>2. (requests[eventRequest].call)' = c
      BY <1>7, <2>1
    <2> QED BY <1>6, <2>1, <2>2 DEF DoneSent
  <1>9. \A c \in Calls : Over(c)' <=> Over(c)
    BY <1>2 DEF Over, exists
  <1>10. ConsClosing'
    BY <1>3, <1>5, <1>7, <1>8, <1>9 DEF ConsClosing, Closing, exists
  <1>11. \A e : EventIn(e)' => EventIn(e)
    BY <1>2, <1>5 DEF EventIn
  <1> QED BY <1>1, <1>2, <1>6, <1>10, <1>11, StillHandlers, QuietStep

(* OnEvent: what is published as done is over.                              *)
LEMMA OnEventCloses ==
  ASSUME Serving, Closing, DistinctIds, OnEvent
  PROVE  Closing'
  <1> DEFINE e == cons.event[1]
             q == requests[eventRequest]
             a == advanced(q, e, promptTokens(q.call), MaxTokens[q.call])
             p == published(q, e, MaxTokens[q.call])
             f == followUp(q, e, promptTokens(q.call), MaxTokens[q.call])
  <1>1. Serving' /\ NoNewTicket
    BY OnEventStep
  <1>2. cons.pc = "onEvent" /\ cons.event \in Seq(Event) /\ Len(cons.event) = 1
    BY Fields DEF OnEvent, Serving, Shapes, ConsShape
  <1>3. EventIn(e) /\ e \in Event /\ e.request = eventRequest /\ EventSound(e)
    <2>1. EventIn(e)
      BY <1>2 DEF EventIn, HoldsWork
    <2> QED BY <1>2, <2>1 DEF eventRequest, Serving, Sound, TicketsSound
  <1>4. Occurs(Lines, eventRequest)
    <2>1. Lines[<<"event", 0>>] = idsOf(cons.event) /\ <<"event", 0>> \in Places
      BY <1>2, LineAt, PlaceNames DEF LinesAre
    <2>2. 1 \in DOMAIN Lines[<<"event", 0>>] /\ Lines[<<"event", 0>>][1] = eventRequest
      BY <1>2, <2>1 DEF idsOf, eventRequest
    <2> QED BY <2>1, <2>2 DEF Occurs
  <1>5. exists(eventRequest) /\ eventRequest \in DOMAIN requests /\ q.phase = Running
    BY <1>4, TicketRuns DEF Closing, TicketLives, exists
  <1>6. /\ requests' = [requests EXCEPT ![eventRequest] = a]
        /\ cons' = [cons EXCEPT !.pc = "publish", !.event = <<p>>, !.next = f]
        /\ UNCHANGED <<mgr, kv, channel, handler, expired, queue, sched, batchChan, exec, eventChan>>
        /\ ~panicked'
    BY <1>5 DEF OnEvent, processUp
  <1>7. q.call \in Calls /\ RequestId[q.call] = eventRequest
        /\ \A c \in Calls : RequestId[c] = eventRequest => c = q.call
    BY <1>5, CallOf
  <1>8. /\ a.call = q.call /\ p.request = eventRequest /\ (a.phase = Running => f # << >>)
    <2>1. RequestSound(e.request)
      BY <1>3, <1>5 DEF Serving, Sound, RequestsSound
    <2>2. /\ a.call = q.call /\ p.request = eventRequest
          /\ (a.phase # Running /\ f = << >>) \/ (a.phase = Running /\ Len(f) = 1)
      BY <1>3, <1>5, <2>1, Advance DEF Serving
    <2>3. \A s : Len(s) = 1 => s # << >>
      OBVIOUS
    <2> QED BY <2>2, <2>3, Zenon
  <1>9. p.done => a.phase # Running
    <2>1. p.done = (e.done \/ (e.type = "decodeChunk" /\ reachedMax(q, e, MaxTokens[q.call])))
      BY <1>3 DEF published, Event
    <2>2. e.type = "prefillFinished" => ~e.done
      BY <1>3 DEF Closing, PrefillGoesOn
    <2>3. e.type = "prefillChunk" => ~e.done
      BY <1>3 DEF EventSound
    <2>4. e.type \in EventTypes
      BY <1>3 DEF Event
    <2>5. q \in Request
      BY <1>5, Fields DEF Serving
    <2>6. e.type = "decodeChunk" /\ p.done => a.phase = Finished
      BY <2>1, <2>5 DEF advanced, Request
    <2>7. e.type = "requestFailed" => a.phase = Failed
      BY <2>5 DEF advanced, Request
    <2> QED BY <2>1, <2>2, <2>3, <2>4, <2>6, <2>7 DEF EventTypes, Running, Finished, Failed
  <1> HIDE DEF a, p, f
  <1>10. /\ cons'.pc = "publish" /\ cons'.event = <<p>> /\ cons'.next = f /\ eventRequest' = eventRequest
    BY <1>6, <1>8 DEF Serving, Typed, ConsTyped, eventRequest
  <1>11. /\ DOMAIN requests' = DOMAIN requests /\ requests'[eventRequest] = a
         /\ \A r \in DOMAIN requests : r # eventRequest => requests'[r] = requests[r]
    BY <1>5, <1>6
  <1>12. \A c \in Calls : (Over(c) => Over(c)') /\ (Gone(c) => Gone(c)')
    BY <1>5, <1>6, <1>7, <1>11 DEF Over, Gone, exists
  <1>13. \A c \in Calls : DoneSent(c)' <=> DoneSent(c)
    BY <1>6 DEF DoneSent
  <1>14. handler[q.call].pc # "new" /\ ~DoneSent(q.call)
    BY <1>5, <1>7 DEF Closing, CallsClosing, Over, Serving, Sound, RequestsSound, RequestSound
  <1>15. ConsClosing'
    <2>1. p.done => \A c \in Calls : RequestId[c] = eventRequest => Over(c)'
      BY <1>6, <1>7, <1>9, <1>11, <1>14 DEF Over, exists
    <2>2. (requests[eventRequest].call)' = q.call
      BY <1>8, <1>10, <1>11
    <2>3. ~(DoneSent(requests[eventRequest].call))'
      BY <1>7, <1>13, <1>14, <2>2 DEF DoneSent
    <2> QED BY <1>5, <1>8, <1>10, <1>11, <2>1, <2>3 DEF ConsClosing, exists
  <1>16. \A x : EventIn(x)' => EventIn(x)
    BY <1>6, <1>10 DEF EventIn
  <1>17. TicketLives'
    BY <1>1, <1>11 DEF Closing, TicketLives, NoNewTicket, exists
  <1>18. CallsClosing' /\ NobodyLeft' /\ PrefillGoesOn'
    BY <1>6, <1>12, <1>13, <1>16 DEF Closing, CallsClosing, NobodyLeft, PrefillGoesOn
  <1> QED BY <1>6, <1>15, <1>17, <1>18 DEF Closing

(* Sending an event to a call that its handler has not received yet.        *)
LEMMA SendsTo ==
  ASSUME ChannelsTyped, NEW c \in Calls, NEW e, channel'[c].buf = Append(channel[c].buf, e),
         \A d \in Calls : d # c => channel'[d] = channel[d],
         \A d \in Calls : DoneSent(d)' => \/ \E i \in DOMAIN channel'[d].buf : channel'[d].buf[i].done
                                          \/ DoneSent(d)
  PROVE  \A d \in Calls : DoneSent(d)' => DoneSent(d) \/ (d = c /\ e.done)
  <1> SUFFICES ASSUME NEW d \in Calls, DoneSent(d)' PROVE DoneSent(d) \/ (d = c /\ e.done)
    OBVIOUS
  <1>1. CASE d # c
    BY <1>1 DEF DoneSent
  <1>2. CASE d = c
    <2>1. PICK n \in Nat : n = Len(channel[c].buf)
      BY DEF ChannelsTyped
    <2>2. ASSUME NEW i \in DOMAIN channel'[c].buf
          PROVE  \/ i \in DOMAIN channel[c].buf /\ channel'[c].buf[i] = channel[c].buf[i]
                 \/ channel'[c].buf[i] = e
      BY <2>1 DEF ChannelsTyped
    <2> QED BY <1>2, <2>2 DEF DoneSent
  <1> QED BY <1>1, <1>2

(* The last words on a channel.                                             *)
LEMMA FailureSent ==
  ASSUME Typed, Closing, NEW c \in Calls, NEW id, sendFailure(c, id), Gone(c)',
         \A d \in Calls : handler'[d].pc \in {"emit", "finish"} =>
                            handler'[d].pc = handler[d].pc /\ handler'[d].event = handler[d].event
  PROVE  /\ \A d \in Calls : DoneSent(d)' => DoneSent(d) \/ d = c
         /\ \A d \in Calls : DoneSent(d)' => DoneSent(d) \/ Over(d)'
         /\ \A d \in Calls : channel'[d].closed => channel[d].closed \/ Gone(d)'
  <1>1. /\ channel'[c].buf = Append(channel[c].buf, requestFailedEvent(c, id))
        /\ \A d \in Calls : d # c => channel'[d] = channel[d]
    BY DEF sendFailure, Typed, ChannelsTyped
  <1>2. \A d \in Calls : DoneSent(d)' => \/ \E i \in DOMAIN channel'[d].buf : channel'[d].buf[i].done
                                         \/ DoneSent(d)
    BY DEF DoneSent
  <1>3. \A d \in Calls : DoneSent(d)' => DoneSent(d) \/ d = c
    BY <1>1, <1>2, SendsTo DEF Typed
  <1>4. Gone(c)' => Over(c)'
    BY DEF Gone, Over
  <1> QED BY <1>1, <1>3, <1>4

(* Send: the subscriber's channel is open.                                  *)
LEMMA SendCloses ==
  ASSUME Serving, Closing, DistinctIds, Send
  PROVE  Closing'
  <1>1. Onward
    BY SendStep
  <1>2. PICK c \in Calls : c = cons.to
    BY DEF Send, Serving, Shapes, ConsShape
  <1>3. cons.pc = "send" /\ exists(eventRequest) /\ c = requests[eventRequest].call
    BY <1>2 DEF Send, Closing, ConsClosing
  <1>4. RequestId[c] = eventRequest
    BY <1>3, CallOf DEF exists
  <1>5. ~channel[c].closed
    BY <1>3, <1>4 DEF Closing, CallsClosing, Gone
  <1>6. /\ channel' = [channel EXCEPT ![c].buf = Append(@, cons.event[1])]
        /\ cons' = [cons EXCEPT !.pc = "enqueue", !.to = NoCall]
        /\ UNCHANGED <<mgr, kv, requests, handler, expired, queue, sched, batchChan, exec, eventChan, panicked>>
    BY <1>2, <1>5 DEF Send
  <1>7. /\ channel'[c].buf = Append(channel[c].buf, cons.event[1]) /\ channel'[c].closed = channel[c].closed
        /\ \A d \in Calls : d # c => channel'[d] = channel[d]
    BY <1>6 DEF Serving, Typed, ChannelsTyped
  <1>8. cons'.pc = "enqueue" /\ cons'.event = cons.event
    BY <1>6 DEF Serving, Typed, ConsTyped
  <1>9. \A d \in Calls : (Over(d)' <=> Over(d)) /\ (Gone(d)' <=> Gone(d))
    BY <1>6 DEF Over, Gone, exists
  <1>10. cons.event[1].done => Over(c)'
    BY <1>3, <1>4, <1>9 DEF Closing, ConsClosing
  <1>11. \A d \in Calls : DoneSent(d)' => DoneSent(d) \/ Over(d)'
    <2>1. \A d \in Calls : DoneSent(d)' => \/ \E i \in DOMAIN channel'[d].buf : channel'[d].buf[i].done
                                           \/ DoneSent(d)
      BY <1>6 DEF DoneSent
    <2>2. \A d \in Calls : DoneSent(d)' => DoneSent(d) \/ (d = c /\ cons.event[1].done)
      BY <1>7, <2>1, SendsTo DEF Serving, Typed
    <2> QED BY <1>10, <2>2
  <1>12. ConsClosing'
    <2>1. eventRequest' = eventRequest
      BY <1>8 DEF eventRequest
    <2> QED BY <1>3, <1>8, <1>9, <2>1 DEF ConsClosing, Closing
  <1>13. \A e : EventIn(e)' => EventIn(e)
    BY <1>6, <1>8 DEF EventIn
  <1>14. TicketLives' /\ \A d \in Calls : channel'[d].closed => channel[d].closed
    BY <1>1, <1>6, <1>7, StillLives DEF DeletedAreDone
  <1>15. ~panicked' /\ \A d \in Calls : sched'.notify = d => sched.notify = d
    BY <1>6 DEF Closing
  <1> QED BY <1>1, <1>6, <1>11, <1>12, <1>13, <1>14, <1>15, StillHandlers, ClosingStep DEF Onward

(* SendFailed.                                                              *)
LEMMA SendFailedCloses ==
  ASSUME Serving, Closing, SendFailed
  PROVE  Closing'
  <1>1. Onward
    BY ConsumerStep
  <1>2. PICK c \in Calls : c = cons.to
    BY DEF SendFailed, Serving, Shapes, ConsShape
  <1>3. /\ sendFailure(c, RequestId[c]) /\ cons' = idleCons
        /\ UNCHANGED <<requests, handler, sched, exec, eventChan, panicked>>
    BY <1>2 DEF SendFailed, processUp
  <1>4. Gone(c)'
    <2>1. Gone(c)
      BY <1>2 DEF SendFailed, Closing, ConsClosing
    <2> QED BY <1>1, <2>1, StaysOver DEF Onward
  <1>5. /\ \A d \in Calls : DoneSent(d)' => DoneSent(d) \/ Over(d)'
        /\ \A d \in Calls : channel'[d].closed => channel[d].closed \/ Gone(d)'
    BY <1>3, <1>4, FailureSent DEF Serving
  <1>6. ConsClosing' /\ \A e : EventIn(e)' => EventIn(e)
    BY <1>3 DEF ConsClosing, EventIn, idleCons
  <1>7. TicketLives' /\ ~panicked' /\ \A d \in Calls : sched'.notify = d => sched.notify = d
    BY <1>1, <1>3, StillLives DEF DeletedAreDone, Closing
  <1> QED BY <1>1, <1>3, <1>5, <1>6, <1>7, StillHandlers, ClosingStep DEF Onward

(* EnqueueNext.                                                             *)
LEMMA EnqueueNextCloses ==
  ASSUME Serving, Closing, DistinctIds, EnqueueNext
  PROVE  Closing'
  <1>1. Onward /\ DeletedAreDone
    BY EnqueueNextStep
  <1>2. UNCHANGED <<channel, handler, sched, exec, eventChan, panicked>> /\ cons.pc = "enqueue" /\ ~panicked
    BY DEF EnqueueNext, processUp
  <1>3. \/ cons'.pc \in {"trySchedule", "free"} /\ cons'.event = cons.event
        \/ cons'.pc = "idle"
        \/ /\ exists(eventRequest) /\ cons'.pc = "fail" /\ cons'.to = requests[eventRequest].call
           /\ requests' = Without(requests, {eventRequest})
    <2>1. CASE \/ cons' = [cons EXCEPT !.pc = "free"]
               \/ cons' = [cons EXCEPT !.pc = "trySchedule", !.next = << >>]
      BY <2>1 DEF Serving, Typed, ConsTyped
    <2>2. CASE cons' = idleCons
      BY <2>2 DEF idleCons
    <2>3. CASE /\ exists(eventRequest) /\ deleteRequest(eventRequest)
               /\ cons' = [idleCons EXCEPT !.pc = "fail", !.to = requests[eventRequest].call]
      BY <2>3 DEF idleCons, deleteRequest
    <2> QED BY <2>1, <2>2, <2>3 DEF EnqueueNext
  <1>4. ConsClosing'
    <2>1. CASE cons'.pc \in {"trySchedule", "free"} /\ cons'.event = cons.event
      <3>1. eventRequest' = eventRequest
        BY <2>1 DEF eventRequest
      <3>2. cons.event[1].done => \A c \in Calls : RequestId[c] = eventRequest => Over(c)'
        BY <1>1, <1>2, StaysOver DEF Closing, ConsClosing, Onward
      <3> QED BY <2>1, <3>1, <3>2 DEF ConsClosing
    <2>2. CASE cons'.pc = "idle"
      BY <2>2 DEF ConsClosing
    <2>3. CASE /\ exists(eventRequest) /\ cons'.pc = "fail" /\ cons'.to = requests[eventRequest].call
               /\ requests' = Without(requests, {eventRequest})
      <3>1. PICK c \in Calls : c = cons'.to /\ RequestId[c] = eventRequest
        BY <2>3, CallOf DEF exists
      <3>2. handler[c].pc # "new"
        BY <2>3, <3>1 DEF Serving, Sound, RequestsSound, RequestSound, exists
      <3>3. eventRequest \notin DOMAIN requests'
        BY <2>3 DEF Without, Restrict
      <3> QED BY <1>2, <2>3, <3>1, <3>2, <3>3 DEF ConsClosing, Gone, exists
    <2> QED BY <1>3, <2>1, <2>2, <2>3
  <1>5. \A e : EventIn(e)' => EventIn(e)
    BY <1>2, <1>3 DEF EventIn
  <1>6. TicketLives' /\ \A d \in Calls : sched'.notify = d => sched.notify = d
    BY <1>1, <1>2, StillLives
  <1> QED BY <1>1, <1>2, <1>4, <1>5, <1>6, StillHandlers, ClosingStep DEF Onward

(* TryScheduleNext.                                                         *)
LEMMA TryScheduleNextCloses ==
  ASSUME Serving, Closing, DistinctIds, TryScheduleNext
  PROVE  Closing'
  <1>1. Onward
    BY ConsumerStep
  <1>2. UNCHANGED <<requests, channel, panicked, handler, sched, exec, eventChan>>
    BY DEF TryScheduleNext, processUp
  <1>3. cons.pc = "trySchedule" /\ cons'.pc = "free" /\ cons'.event = cons.event
    BY DEF TryScheduleNext, Serving, Typed, ConsTyped
  <1>4. ConsClosing'
    <2>1. eventRequest' = eventRequest
      BY <1>3 DEF eventRequest
    <2>2. cons.event[1].done => \A c \in Calls : RequestId[c] = eventRequest => Over(c)'
      BY <1>1, <1>3, StaysOver DEF Closing, ConsClosing, Onward
    <2> QED BY <1>3, <2>1, <2>2 DEF ConsClosing
  <1>5. \A e : EventIn(e)' => EventIn(e)
    BY <1>2, <1>3 DEF EventIn
  <1> QED BY <1>1, <1>2, <1>4, <1>5, StillHandlers, QuietStep

-----------------------------------------------------------------------------
(* The handlers *)

(* What is left to show of a step of a handler or a client.                 *)
LEMMA HandlerCloses ==
  ASSUME Serving, Closing, DistinctIds, Onward, DeletedAreDone, ~panicked',
         UNCHANGED <<sched, exec, eventChan, cons>>, NobodyLeft',
         \A d \in Calls : DoneSent(d)' => DoneSent(d) \/ Over(d)',
         \A d \in Calls : channel'[d].closed => channel[d].closed \/ Gone(d)',
         cons.pc \in {"publish", "send"} =>
           /\ eventRequest \in DOMAIN requests'
           /\ \A d \in Calls : RequestId[d] = eventRequest /\ DoneSent(d)' => DoneSent(d)
  PROVE  Closing'
  <1>1. cons.pc \in {"publish", "send"} /\ exists(eventRequest) =>
          eventRequest \in DOMAIN requests' /\ (DoneSent(requests[eventRequest].call)' =>
                                                  DoneSent(requests[eventRequest].call))
    <2> SUFFICES ASSUME cons.pc \in {"publish", "send"}, exists(eventRequest)
                 PROVE  DoneSent(requests[eventRequest].call)' => DoneSent(requests[eventRequest].call)
      OBVIOUS
    <2>1. PICK d \in Calls : d = requests[eventRequest].call /\ RequestId[d] = eventRequest
      BY CallOf DEF exists
    <2>2. eventRequest' = eventRequest /\ requests'[eventRequest] = requests[eventRequest]
      BY DEF eventRequest, Onward, Kept
    <2>3. (requests[eventRequest].call)' = d
      BY <2>1, <2>2
    <2>4. DoneSent(d)' => DoneSent(d)
      BY <2>1
    <2> QED BY <2>1, <2>3, <2>4 DEF DoneSent
  <1>2. ConsClosing' /\ TicketLives'
    BY <1>1, ConsWaits, StillLives DEF Onward
  <1>3. \A e : EventIn(e)' => EventIn(e)
    BY DEF EventIn
  <1> QED BY <1>2, <1>3, ClosingStep DEF Onward, NobodyLeft

(* A handler or client step that deletes nothing and closes no channel.     *)
LEMMA HandlerQuiet ==
  ASSUME Serving, Closing, DistinctIds, Onward, ~panicked',
         UNCHANGED <<requests, sched, exec, eventChan, cons>>, NobodyLeft',
         \A d \in Calls : DoneSent(d)' => DoneSent(d),
         \A d \in Calls : channel'[d].closed => channel[d].closed
  PROVE  Closing'
  <1>1. cons.pc \in {"publish", "send"} => eventRequest \in DOMAIN requests'
    BY DEF Closing, ConsClosing, exists
  <1> QED BY <1>1, HandlerCloses DEF DeletedAreDone

(* Receive: the handler has the event that the channel loses.               *)
LEMMA ReceiveCloses ==
  ASSUME Serving, Closing, DistinctIds, NEW c \in Calls, Receive(c)
  PROVE  Closing'
  <1>1. Onward /\ handler[c].from = c /\ handler[c].pc = "streaming"
    BY ReceiveStep DEF Closing, NobodyLeft, Receive
  <1>2. UNCHANGED <<requests, sched, exec, eventChan, cons, panicked>> /\ ~panicked'
    BY DEF Receive, processUp
  <1>3. CASE /\ channel[c].buf # << >>
             /\ channel' = [channel EXCEPT ![c].buf = Tail(@)]
             /\ handler' = IF Head(channel[c].buf).type = "prefillChunk" THEN handler
                           ELSE [handler EXCEPT ![c].pc = "emit", ![c].event = <<Head(channel[c].buf)>>]
    <2>1. channel'[c].buf = Tail(channel[c].buf) /\ channel'[c].closed = channel[c].closed
          /\ \A d \in Calls : d # c => channel'[d] = channel[d]
      BY <1>3 DEF Serving, Typed, ChannelsTyped
    <2>2. \A d \in Calls : d # c => handler'[d] = handler[d]
      BY <1>3 DEF Serving, Typed, HandlersTyped
    <2>3. /\ handler'[c].client = handler[c].client /\ handler'[c].from = c
          /\ \/ handler'[c].pc = "streaming"
             \/ handler'[c].pc = "emit" /\ handler'[c].event = <<Head(channel[c].buf)>>
      BY <1>1, <1>3 DEF Serving, Typed, HandlersTyped
    <2>4. channel[c].buf \in Seq(Event) /\ channel[c].buf # << >>
      BY <1>3, Fields DEF Serving
    <2>5. DoneSent(c)' => DoneSent(c)
      <3>1. PICK n \in Nat : n = Len(channel[c].buf)
        BY <2>4
      <3>2. /\ n > 0 /\ DOMAIN channel[c].buf = 1..n /\ Head(channel[c].buf) = channel[c].buf[1]
            /\ DOMAIN channel'[c].buf = 1..(n - 1)
            /\ \A i \in 1..(n - 1) : channel'[c].buf[i] = channel[c].buf[i + 1]
        BY <2>1, <2>4, <3>1
      <3>3. \A i \in 1..(n - 1) : i + 1 \in 1..n
        OBVIOUS
      <3>4. (\E i \in DOMAIN channel'[c].buf : channel'[c].buf[i].done) => DoneSent(c)
        BY <3>2, <3>3 DEF DoneSent
      <3>5. handler'[c].pc = "emit" /\ handler'[c].event[1].done => DoneSent(c)
        BY <2>3, <3>2 DEF DoneSent
      <3> QED BY <2>3, <3>4, <3>5 DEF DoneSent
    <2>6. \A d \in Calls : DoneSent(d)' => DoneSent(d)
      BY <2>1, <2>2, <2>5 DEF DoneSent
    <2>7. NobodyLeft' /\ \A d \in Calls : channel'[d].closed => channel[d].closed
      BY <2>1, <2>2, <2>3 DEF Closing, NobodyLeft
    <2> QED BY <1>1, <1>2, <2>6, <2>7, HandlerQuiet
  <1>4. CASE handler' = [handler EXCEPT ![c].pc = "returned"] /\ UNCHANGED channel
    <2>1. /\ handler'[c].pc = "returned" /\ handler'[c].client = handler[c].client /\ handler'[c].from = c
          /\ \A d \in Calls : d # c => handler'[d] = handler[d]
      BY <1>1, <1>4 DEF Serving, Typed, HandlersTyped
    <2>2. \A d \in Calls : DoneSent(d)' => DoneSent(d)
      BY <1>4, <2>1 DEF DoneSent
    <2>3. NobodyLeft'
      BY <2>1 DEF Closing, NobodyLeft
    <2> QED BY <1>1, <1>2, <1>4, <2>2, <2>3, HandlerQuiet
  <1> QED BY <1>1, <1>3, <1>4 DEF Receive

(* Emit, and the steps of the client.                                       *)
LEMMA EmitCloses ==
  ASSUME Serving, Closing, DistinctIds, NEW c \in Calls, Emit(c)
  PROVE  Closing'
  <1>1. Onward
    BY EmitStep
  <1>2. UNCHANGED <<requests, channel, sched, exec, eventChan, cons, panicked>> /\ ~panicked'
    BY DEF Emit, processUp
  <1>3. /\ handler[c].pc = "emit"
        /\ handler'[c].pc = IF handler[c].event[1].done THEN "finish" ELSE "streaming"
        /\ handler'[c].client = handler[c].client /\ handler'[c].from = handler[c].from
        /\ \A d \in Calls : d # c => handler'[d] = handler[d]
    BY DEF Emit, Serving, Typed, HandlersTyped
  <1>4. \A d \in Calls : DoneSent(d)' => DoneSent(d)
    BY <1>2, <1>3 DEF DoneSent
  <1>5. NobodyLeft'
    BY <1>3 DEF Closing, NobodyLeft
  <1> QED BY <1>1, <1>2, <1>4, <1>5, HandlerQuiet

(* ClientReads and Expire; no client leaves.                                *)
LEMMA ClientCloses ==
  ASSUME Serving, Closing, DistinctIds, Undisturbed, NEW c \in Calls,
         ClientReads(c) \/ ClientLeaves(c) \/ Expire(c)
  PROVE  Closing'
  <1>1. Onward
    BY ClientStep
  <1>2. UNCHANGED <<requests, channel, sched, exec, eventChan, cons, panicked>> /\ ~panicked'
    <2>1. CASE ClientReads(c)
      BY <2>1 DEF ClientReads, processUp
    <2>2. CASE ClientLeaves(c)
      BY <2>2 DEF ClientLeaves, processUp
    <2>3. CASE Expire(c)
      BY <2>3 DEF Expire, processUp
    <2> QED BY <2>1, <2>2, <2>3
  <1>3. ASSUME NEW d \in Calls
        PROVE  /\ handler'[d].pc = handler[d].pc /\ handler'[d].event = handler[d].event
               /\ handler'[d].from = handler[d].from /\ handler'[d].client # "left"
    <2>1. handler[d].client # "left"
      BY DEF Closing, NobodyLeft
    <2>2. CASE Expire(c)
      BY <2>1, <2>2 DEF Expire
    <2>3. CASE ClientReads(c)
      <3> DEFINE s == IF Head(handler[c].out).done THEN "done" ELSE "waiting"
                 o == Tail(handler[c].out)
                 r == Append(handler[c].received, Head(handler[c].out))
      <3>1. \/ handler' = [handler EXCEPT ![c].client = "error"]
            \/ handler' = [handler EXCEPT ![c].out = Tail(@), ![c].received = Append(@, Head(handler[c].out)),
                                          ![c].client = s]
        BY <2>3 DEF ClientReads
      <3>2. CASE handler' = [handler EXCEPT ![c].client = "error"]
        BY <2>1, <3>2 DEF Serving, Typed, HandlersTyped
      <3>3. CASE handler' = [handler EXCEPT ![c].out = Tail(@),
                                            ![c].received = Append(@, Head(handler[c].out)),
                                            ![c].client = s]
        <4>1. handler' = [handler EXCEPT ![c].out = o, ![c].received = r, ![c].client = s]
          BY <3>3 DEF Serving, Typed, HandlersTyped
        <4>2. s # "left"
          OBVIOUS
        <4> HIDE DEF s, o, r
        <4> QED BY <2>1, <4>1, <4>2 DEF Serving, Typed, HandlersTyped
      <3> QED BY <3>1, <3>2, <3>3
    <2> QED BY <2>2, <2>3 DEF ClientLeaves, Undisturbed
  <1>4. \A d \in Calls : DoneSent(d)' => DoneSent(d)
    BY <1>2, <1>3 DEF DoneSent
  <1>5. NobodyLeft'
    BY <1>3 DEF Closing, NobodyLeft
  <1> QED BY <1>1, <1>2, <1>4, <1>5, HandlerQuiet

(* Subscribe: the request is the handler's own.                             *)
LEMMA SubscribeCloses ==
  ASSUME Serving, Closing, DistinctIds, NEW c \in Calls, Subscribe(c)
  PROVE  Closing'
  <1>1. Onward
    BY SubscribeStep
  <1>2. UNCHANGED <<requests, channel, sched, exec, eventChan, cons, panicked>> /\ ~panicked'
    BY DEF Subscribe, processUp
  <1>3. exists(RequestId[c]) => requests[RequestId[c]].call = c
    BY CallOf DEF exists
  <1>4. /\ handler'[c].pc \in {"enqueue", "rejected"} /\ handler'[c].client # "left" /\ handler'[c].from = c
        /\ \A d \in Calls : d # c => handler'[d] = handler[d]
    <2>1. handler[c].client # "left" /\ handler[c].from = c
      BY DEF Closing, NobodyLeft
    <2>2. CASE exists(RequestId[c])
      BY <1>3, <2>1, <2>2 DEF Subscribe, Serving, Typed, HandlersTyped
    <2>3. CASE ~exists(RequestId[c])
      BY <2>1, <2>3 DEF Subscribe, Serving, Typed, HandlersTyped
    <2> QED BY <2>2, <2>3
  <1>5. \A d \in Calls : DoneSent(d)' => DoneSent(d)
    BY <1>2, <1>4 DEF DoneSent
  <1>6. NobodyLeft'
    BY <1>4 DEF Closing, NobodyLeft
  <1> QED BY <1>1, <1>2, <1>5, <1>6, HandlerQuiet

(* EnqueueFirst: a request that fails here has its only ticket here.        *)
LEMMA EnqueueFirstCloses ==
  ASSUME Serving, Closing, DistinctIds, NEW c \in Calls, EnqueueFirst(c)
  PROVE  Closing'
  <1> DEFINE w == handler[c].item[1]
  <1>1. Onward /\ DeletedAreDone
    BY EnqueueFirstStep
  <1>2. UNCHANGED <<sched, exec, eventChan, cons, panicked>> /\ ~panicked' /\ handler[c].pc = "enqueue"
    BY DEF EnqueueFirst, processUp
  <1>3. /\ w.request = RequestId[c] /\ Lines[<<"item", c>>] = <<RequestId[c]>> /\ <<"item", c>> \in Places
    BY <1>2, FirstWork
  <1>4. /\ handler'[c].pc \in {"rejected", "trySchedule"} /\ handler'[c].client # "left" /\ handler'[c].from = c
        /\ \A d \in Calls : d # c => handler'[d] = handler[d]
    <2>1. handler[c].client # "left" /\ handler[c].from = c
      BY DEF Closing, NobodyLeft
    <2>2. CASE full(w)
      BY <2>1, <2>2 DEF EnqueueFirst, Serving, Typed, HandlersTyped
    <2>3. CASE ~full(w)
      BY <2>1, <2>3 DEF EnqueueFirst, Serving, Typed, HandlersTyped
    <2> QED BY <2>2, <2>3
  <1>5. NobodyLeft'
    BY <1>4 DEF Closing, NobodyLeft
  <1>6. CASE full(w) /\ exists(RequestId[c])
    <2>1. /\ requests' = Without(requests, {RequestId[c]})
          /\ sendFailure(requests[RequestId[c]].call, RequestId[c])
      BY <1>3, <1>6 DEF EnqueueFirst, deleteRequest
    <2>2. requests[RequestId[c]].call = c
      BY <1>6, CallOf DEF exists
    <2>3. DOMAIN requests' = DOMAIN requests \ {RequestId[c]}
      BY <2>1 DEF Without, Restrict
    <2>4. Gone(c)'
      BY <1>4, <2>3 DEF Gone, exists
    <2>5. sendFailure(c, RequestId[c])
      BY <2>1, <2>2
    <2>6. \A d \in Calls : handler'[d].pc \in {"emit", "finish"} =>
                             handler'[d].pc = handler[d].pc /\ handler'[d].event = handler[d].event
      BY <1>4
    <2>7. /\ \A d \in Calls : DoneSent(d)' => DoneSent(d) \/ d = c
          /\ \A d \in Calls : DoneSent(d)' => DoneSent(d) \/ Over(d)'
          /\ \A d \in Calls : channel'[d].closed => channel[d].closed \/ Gone(d)'
      BY <2>4, <2>5, <2>6, FailureSent DEF Serving
    <2>8. cons.pc \in {"publish", "send"} => eventRequest # RequestId[c]
      <3>1. 1 \in DOMAIN Lines[<<"item", c>>] /\ Lines[<<"item", c>>][1] = RequestId[c]
        BY <1>3
      <3>2. <<"item", c>> # <<"next", 0>>
        OBVIOUS
      <3> QED BY <1>3, <3>1, <3>2, OnlyNext
    <2>9. cons.pc \in {"publish", "send"} =>
            /\ eventRequest \in DOMAIN requests'
            /\ \A d \in Calls : RequestId[d] = eventRequest /\ DoneSent(d)' => DoneSent(d)
      BY <2>3, <2>7, <2>8 DEF Closing, ConsClosing, exists
    <2> QED BY <1>1, <1>2, <1>5, <2>7, <2>9, HandlerCloses
  <1>7. CASE ~(full(w) /\ exists(RequestId[c]))
    <2>1. UNCHANGED <<requests, channel>>
      BY <1>3, <1>7 DEF EnqueueFirst
    <2>2. \A d \in Calls : DoneSent(d)' => DoneSent(d)
      BY <1>4, <2>1 DEF DoneSent
    <2> QED BY <1>1, <1>2, <1>5, <2>1, <2>2, HandlerQuiet
  <1> QED BY <1>6, <1>7

(* TrySchedule.                                                             *)
LEMMA TryScheduleCloses ==
  ASSUME Serving, Closing, DistinctIds, NEW c \in Calls, TrySchedule(c)
  PROVE  Closing'
  <1>1. Onward
    BY TryScheduleStep
  <1>2. UNCHANGED <<requests, channel, sched, exec, eventChan, cons, panicked>> /\ ~panicked'
    BY DEF TrySchedule, processUp
  <1>3. /\ handler'[c].pc = "streaming"
        /\ handler'[c].client = handler[c].client /\ handler'[c].from = handler[c].from
        /\ \A d \in Calls : d # c => handler'[d] = handler[d]
    BY DEF TrySchedule, Serving, Typed, HandlersTyped
  <1>4. \A d \in Calls : DoneSent(d)' => DoneSent(d)
    BY <1>2, <1>3 DEF DoneSent
  <1>5. NobodyLeft'
    BY <1>3 DEF Closing, NobodyLeft
  <1> QED BY <1>1, <1>2, <1>4, <1>5, HandlerQuiet

(* FinishCall: the handler's last event was of a request that is over.      *)
LEMMA FinishCallCloses ==
  ASSUME Serving, Closing, DistinctIds, NEW c \in Calls, FinishCall(c)
  PROVE  Closing'
  <1>1. Onward
    BY EndCallStep
  <1>2. UNCHANGED <<sched, exec, eventChan, cons, panicked>> /\ ~panicked' /\ handler[c].pc = "finish"
    BY DEF FinishCall, processUp
  <1>3. DoneSent(c) /\ Over(c) /\ ~Occurs(Lines, RequestId[c])
    BY <1>2, OverHasNone DEF DoneSent, Closing, CallsClosing
  <1>4. /\ handler'[c].pc = "ended" /\ handler'[c].client = handler[c].client
        /\ handler'[c].from = handler[c].from
        /\ \A d \in Calls : d # c => handler'[d] = handler[d]
    BY DEF FinishCall, Serving, Typed, HandlersTyped
  <1>5. NobodyLeft'
    BY <1>4 DEF Closing, NobodyLeft
  <1>6. CASE exists(RequestId[c])
    <2>1. /\ requests' = Without(requests, {RequestId[c]})
          /\ channel' = [channel EXCEPT ![requests[RequestId[c]].call].closed = TRUE]
      BY <1>6 DEF FinishCall, Finish, deleteRequest
    <2>2. requests[RequestId[c]].call = c
      BY <1>6, CallOf DEF exists
    <2>3. DOMAIN requests' = DOMAIN requests \ {RequestId[c]}
      BY <2>1 DEF Without, Restrict
    <2>4. \A d \in Calls : channel'[d].buf = channel[d].buf /\ (d # c => channel'[d] = channel[d])
      BY <2>1, <2>2 DEF Serving, Typed, ChannelsTyped
    <2>5. \A d \in Calls : DoneSent(d)' => DoneSent(d)
      BY <1>4, <2>4 DEF DoneSent
    <2>6. Gone(c)'
      BY <1>4, <2>3 DEF Gone, exists
    <2>7. cons.pc \in {"publish", "send"} => eventRequest \in DOMAIN requests'
      BY <1>3, <2>2, <2>3 DEF Closing, ConsClosing, exists
    <2>8. DeletedAreDone
      BY <1>1, <1>3, <2>3 DEF DeletedAreDone, Onward, NoNewTicket
    <2>9. \A d \in Calls : channel'[d].closed => channel[d].closed \/ Gone(d)'
      BY <2>4, <2>6
    <2> QED BY <1>1, <1>2, <1>5, <2>5, <2>7, <2>8, <2>9, HandlerCloses
  <1>7. CASE ~exists(RequestId[c])
    <2>1. UNCHANGED <<requests, channel>>
      BY <1>7 DEF FinishCall, Finish
    <2>2. \A d \in Calls : DoneSent(d)' => DoneSent(d)
      BY <1>4, <2>1 DEF DoneSent
    <2> QED BY <1>1, <1>2, <1>5, <2>1, <2>2, HandlerQuiet
  <1> QED BY <1>6, <1>7

(* Create: the new request is not over, and nobody knows of it yet.         *)
LEMMA CreateCloses ==
  ASSUME Serving, Closing, DistinctIds, NEW c \in Calls, Create(c)
  PROVE  Closing'
  <1>1. /\ UNCHANGED <<channel, sched, exec, eventChan, cons, panicked>> /\ ~panicked'
        /\ handler[c].pc = "new"
    BY DEF Create, processUp
  <1>2. \A r : Occurs(Lines', r) => Occurs(Lines, r) \/ r = RequestId[c]
    BY CreateStep
  <1>3. /\ handler'[c].pc \in {"rejected", "subscribe"} /\ handler'[c].client # "left" /\ handler'[c].from = c
        /\ \A d \in Calls : d # c => handler'[d] = handler[d]
    <2>1. handler[c].client # "left" /\ handler[c].from = c
      BY DEF Closing, NobodyLeft
    <2>2. CASE exists(RequestId[c])
      BY <2>1, <2>2 DEF Create, Serving, Typed, HandlersTyped
    <2>3. CASE ~exists(RequestId[c])
      BY <2>1, <2>3 DEF Create, Serving, Typed, HandlersTyped
    <2> QED BY <2>2, <2>3
  <1>4. /\ RequestId[c] \in DOMAIN requests'
        /\ \A r \in DOMAIN requests : r \in DOMAIN requests' /\ requests'[r] = requests[r]
        /\ \A r \in DOMAIN requests' : r \in DOMAIN requests \/ r = RequestId[c]
    <2>1. CASE exists(RequestId[c])
      BY <2>1 DEF Create, exists
    <2>2. CASE ~exists(RequestId[c])
      BY <2>2 DEF Create, exists, Put
    <2> QED BY <2>1, <2>2
  <1>5. ~Over(c) /\ ~Gone(c)
    BY <1>1 DEF Over, Gone
  <1>6. ASSUME NEW d \in Calls, d # c PROVE (Over(d) => Over(d)') /\ (Gone(d) => Gone(d)')
    <2>1. RequestId[d] # RequestId[c] /\ handler'[d].pc = handler[d].pc
      BY <1>3, <1>6 DEF DistinctIds
    <2> QED BY <1>4, <2>1 DEF Over, Gone, exists
  <1>7. \A d \in Calls : DoneSent(d)' => DoneSent(d)
    BY <1>1, <1>3 DEF DoneSent
  <1>8. CallsClosing'
    BY <1>1, <1>5, <1>6, <1>7 DEF Closing, CallsClosing
  <1>9. TicketLives'
    BY <1>2, <1>4 DEF Closing, TicketLives, exists
  <1>10. NobodyLeft' /\ PrefillGoesOn'
    BY <1>1, <1>3 DEF Closing, NobodyLeft, PrefillGoesOn, EventIn
  <1>11. ConsClosing'
    <2>1. cons' = cons /\ eventRequest' = eventRequest
      BY <1>1 DEF eventRequest
    <2>2. cons.pc \in {"publish", "send", "enqueue", "trySchedule", "free"} /\ cons.event[1].done =>
            \A d \in Calls : RequestId[d] = eventRequest => Over(d)'
      BY <1>5, <1>6 DEF Closing, ConsClosing
    <2>3. cons.pc = "fail" => Gone(cons.to)'
      <3>1. cons.pc = "fail" => cons.to \in Calls /\ cons.to # c /\ Gone(cons.to)
        BY <1>5 DEF Closing, ConsClosing, Serving, Shapes, ConsShape
      <3>2. Gone(cons.to)' = (handler'[cons.to].pc # "new" /\ RequestId[cons.to] \notin DOMAIN requests')
        BY <1>1 DEF Gone, exists
      <3>3. cons.pc = "fail" => handler'[cons.to] = handler[cons.to]
        BY <1>3, <3>1
      <3>4. cons.pc = "fail" => RequestId[cons.to] # RequestId[c]
        BY <3>1 DEF DistinctIds
      <3> QED BY <1>4, <3>1, <3>2, <3>3, <3>4 DEF Gone, exists
    <2>4. cons.pc \in {"publish", "send"} =>
            /\ eventRequest \in DOMAIN requests /\ eventRequest \in DOMAIN requests'
            /\ requests'[eventRequest] = requests[eventRequest]
            /\ ~(DoneSent(requests[eventRequest].call))'
            /\ requests[eventRequest].phase = Running => cons.next # << >>
      <3> SUFFICES ASSUME cons.pc \in {"publish", "send"}
                   PROVE  /\ eventRequest \in DOMAIN requests /\ eventRequest \in DOMAIN requests'
                          /\ requests'[eventRequest] = requests[eventRequest]
                          /\ ~(DoneSent(requests[eventRequest].call))'
                          /\ requests[eventRequest].phase = Running => cons.next # << >>
        OBVIOUS
      <3>1. /\ eventRequest \in DOMAIN requests /\ ~DoneSent(requests[eventRequest].call)
            /\ requests[eventRequest].phase = Running => cons.next # << >>
        BY DEF Closing, ConsClosing, exists
      <3>2. PICK d \in Calls : d = requests[eventRequest].call
        BY <3>1, CallOf
      <3>3. (requests[eventRequest].call)' = d
        BY <1>4, <2>1, <3>1, <3>2
      <3>4. ~(DoneSent(requests[eventRequest].call))'
        BY <1>7, <3>1, <3>2, <3>3 DEF DoneSent
      <3> QED BY <1>4, <3>1, <3>4
    <2>5. cons.pc = "send" => cons.to = requests[eventRequest].call
      BY DEF Closing, ConsClosing
    <2> QED BY <2>1, <2>2, <2>3, <2>4, <2>5 DEF ConsClosing, exists
  <1> QED BY <1>1, <1>8, <1>9, <1>10, <1>11 DEF Closing

-----------------------------------------------------------------------------
(* The batch loop: what it drops is not what the consumer publishes.        *)
LEMMA BatchLoopCloses ==
  ASSUME Serving, Closing, DistinctIds, BatchLoopNext
  PROVE  Closing'
  <1>1. /\ Onward /\ BatchFlow /\ UNCHANGED <<handler, exec, eventChan, cons, panicked>> /\ ~panicked'
        /\ NotifyTimeout \/ UNCHANGED channel
    BY BatchLoopStep
  <1>2. \A e : EventIn(e)' => EventIn(e)
    BY <1>1 DEF EventIn
  <1>3. NoCall \notin Calls
    BY Bounds
  <1>4. CASE NotifyTimeout
    <2>1. PICK c \in Calls : c = sched.notify
      BY <1>4, Fields DEF NotifyTimeout, Serving, Typed, SchedTyped
    <2>2. /\ sendFailure(c, RequestId[c]) /\ UNCHANGED requests
          /\ sched' = [sched EXCEPT !.notify = NoCall]
      BY <1>4, <2>1 DEF NotifyTimeout
    <2>3. Gone(c) /\ sched'.notify = NoCall
      BY <2>1, <2>2 DEF Closing, CallsClosing, Serving, Typed, SchedTyped
    <2>4. Gone(c)'
      BY <1>1, <2>3, StaysOver DEF Onward
    <2>5. /\ \A d \in Calls : DoneSent(d)' => DoneSent(d) \/ d = c
          /\ \A d \in Calls : DoneSent(d)' => DoneSent(d) \/ Over(d)'
          /\ \A d \in Calls : channel'[d].closed => channel[d].closed \/ Gone(d)'
      BY <1>1, <2>2, <2>4, FailureSent DEF Serving
    <2>6. cons.pc \in {"publish", "send"} /\ exists(eventRequest) =>
            eventRequest \in DOMAIN requests' /\ (DoneSent(requests[eventRequest].call)' =>
                                                    DoneSent(requests[eventRequest].call))
      <3> SUFFICES ASSUME cons.pc \in {"publish", "send"}, exists(eventRequest)
                   PROVE  DoneSent(requests[eventRequest].call)' => DoneSent(requests[eventRequest].call)
        BY <2>2 DEF exists
      <3>1. PICK d \in Calls : d = requests[eventRequest].call /\ RequestId[d] = eventRequest
        BY CallOf DEF exists
      <3>2. d # c
        BY <2>3, <3>1 DEF Gone
      <3>3. (requests[eventRequest].call)' = d
        BY <1>1, <2>2, <3>1 DEF eventRequest
      <3>4. DoneSent(d)' => DoneSent(d)
        BY <2>5, <3>2
      <3> QED BY <3>1, <3>3, <3>4 DEF DoneSent
    <2>7. ConsClosing' /\ TicketLives'
      BY <1>1, <2>2, <2>6, ConsWaits, StillLives DEF Onward, DeletedAreDone
    <2>8. \A d \in Calls : sched'.notify = d => sched.notify = d \/ Gone(d)'
      BY <1>3, <2>3
    <2> QED BY <1>1, <1>2, <2>5, <2>7, <2>8, StillHandlers, ClosingStep DEF Onward
  <1>5. CASE UNCHANGED channel /\ \E k \in {"decode", "small", "large"} : DropsFrom(k)
    <2>1. PICK k \in {"decode", "small", "large"} : DropsFrom(k)
      BY <1>5
    <2> DEFINE r == Head(queue[k]).request
    <2>2. queue[k] \in Seq(Work) /\ queue[k] # << >> /\ ~Occurs(Lines', r)
      BY <2>1, Fields DEF DropsFrom, TakesFrom, Serving
    <2>3. \/ /\ exists(r) /\ DOMAIN requests' = DOMAIN requests \ {r}
             /\ sched'.notify = requests[r].call
          \/ sched'.notify = NoCall /\ UNCHANGED requests
      BY <2>1 DEF DropsFrom, timedOut, deleteRequest, Without, Restrict
    <2>4. DeletedAreDone
      BY <2>2, <2>3 DEF DeletedAreDone
    <2>5. cons.pc \in {"publish", "send"} => eventRequest # r
      <3>1. <<"queue", k>> \in Places /\ Lines[<<"queue", k>>] = idsOf(queue[k])
        BY LineAt, PlaceNames DEF LinesAre
      <3>2. 1 \in DOMAIN Lines[<<"queue", k>>] /\ Lines[<<"queue", k>>][1] = r
        BY <2>2, <3>1 DEF idsOf
      <3>3. <<"queue", k>> # <<"next", 0>>
        OBVIOUS
      <3> QED BY <3>1, <3>2, <3>3, OnlyNext
    <2>6. \A d \in Calls : DoneSent(d)' => DoneSent(d)
      BY <1>1, <1>5, StillHandlers
    <2>7. cons.pc \in {"publish", "send"} /\ exists(eventRequest) =>
            eventRequest \in DOMAIN requests' /\ (DoneSent(requests[eventRequest].call)' =>
                                                    DoneSent(requests[eventRequest].call))
      <3> SUFFICES ASSUME cons.pc \in {"publish", "send"}, exists(eventRequest)
                   PROVE  eventRequest \in DOMAIN requests' /\ (DoneSent(requests[eventRequest].call)' =>
                                                    DoneSent(requests[eventRequest].call))
        OBVIOUS
      <3>1. PICK d \in Calls : d = requests[eventRequest].call
        BY CallOf DEF exists
      <3>2. eventRequest \in DOMAIN requests'
        BY <2>3, <2>5 DEF exists
      <3>3. (requests[eventRequest].call)' = d
        BY <1>1, <3>1, <3>2 DEF eventRequest, Onward, Kept
      <3>4. DoneSent(d)' => DoneSent(d)
        BY <2>6
      <3> QED BY <3>1, <3>2, <3>3, <3>4 DEF DoneSent
    <2>8. ConsClosing' /\ TicketLives'
      BY <1>1, <2>4, <2>7, ConsWaits, StillLives DEF Onward
    <2>9. ASSUME NEW d \in Calls, sched'.notify = d PROVE Gone(d)'
      <3>1. exists(r) /\ DOMAIN requests' = DOMAIN requests \ {r} /\ d = requests[r].call
        BY <1>3, <2>3, <2>9
      <3>2. RequestId[d] = r /\ handler[d].pc # "new"
        BY <3>1, CallOf DEF exists, Serving, Sound, RequestsSound, RequestSound
      <3> QED BY <1>1, <3>1, <3>2 DEF Gone, exists, Onward, Kept
    <2> QED BY <1>1, <1>2, <1>5, <2>6, <2>8, <2>9, StillHandlers, ClosingStep DEF Onward
  <1>6. CASE UNCHANGED channel /\ ~\E k \in {"decode", "small", "large"} : DropsFrom(k)
    <2>1. sched'.notify = NoCall /\ UNCHANGED requests
      BY <1>1, <1>6 DEF BatchFlow, Rests, Picks, Joins, PutsBack, Submits, Requeues
    <2>2. \A d \in Calls : sched'.notify = d => sched.notify = d
      BY <1>3, <2>1
    <2> QED BY <1>1, <1>2, <1>6, <2>1, <2>2, StillHandlers, QuietStep
  <1> QED BY <1>1, <1>4, <1>5, <1>6

-----------------------------------------------------------------------------
(* Nothing has been asked of the Engine yet.                                *)
LEMMA InitClosing == ASSUME Init PROVE Closing
  <1>1. NobodyLeft /\ ~panicked
    BY DEF Init, NobodyLeft
  <1>2. \A c \in Calls : ~DoneSent(c) /\ ~channel[c].closed /\ sched.notify # c
    <2>1. NoCall \notin Calls
      BY Bounds
    <2> QED BY <2>1 DEF Init, DoneSent, idleSched
  <1>3. TicketLives
    <2> SUFFICES ASSUME NEW r, Occurs(Lines, r) PROVE FALSE
      BY DEF TicketLives
    <2>1. \A w : ~WorkIn(w)
      <3> SUFFICES ASSUME NEW w PROVE ~WorkIn(w)
        OBVIOUS
      <3>1. \A v : ~HoldsWork(<< >>, v) /\ ~HoldsItem(<< >>, v)
        BY HoldsShort
      <3>2. /\ \A c \in Calls : handler[c].item = << >>
            /\ \A k \in {"decode", "small", "large"} : queue[k] = << >>
            /\ sched.held = << >> /\ sched.batch = << >> /\ exec.running = << >> /\ cons.next = << >>
        BY DEF Init, idleSched, idleCons
      <3>3. batchChan = << >> /\ DOMAIN batchChan = {}
        BY DEF Init
      <3> QED BY <3>1, <3>2, <3>3 DEF WorkIn
    <2>2. \A e : ~EventIn(e)
      BY HoldsShort DEF Init, EventIn, idleCons
    <2> QED BY <2>1, <2>2, OccursIn, InitServing DEF Serving
  <1>4. ConsClosing /\ PrefillGoesOn
    <2>1. \A e : ~EventIn(e)
      BY HoldsShort DEF Init, EventIn, idleCons
    <2> QED BY <2>1 DEF Init, ConsClosing, PrefillGoesOn, idleCons
  <1> QED BY <1>1, <1>2, <1>3, <1>4 DEF Closing, CallsClosing

(* A step that changes nothing.                                             *)
LEMMA StutterClosing == ASSUME Serving, Closing, DistinctIds, UNCHANGED vars PROVE Closing'
  <1>1. Onward
    BY StutterServing
  <1>2. UNCHANGED <<requests, channel, panicked, handler, sched, exec, eventChan, cons>>
    BY DEF vars
  <1>3. \A e : EventIn(e)' => EventIn(e)
    BY <1>2 DEF EventIn
  <1> QED BY <1>1, <1>2, <1>3, StillHandlers, QuietStep

(* Every step keeps the order in which a request ends.                      *)
LEMMA NextClosing ==
  ASSUME Serving, Closing, DistinctIds, Undisturbed, [Next]_vars
  PROVE  Closing'
  <1>1. CASE \E c \in Calls : HandlerNext(c)
    <2>1. PICK c \in Calls : HandlerNext(c)
      BY <1>1
    <2>2. ~CancelCall(c)
      BY DEF CancelCall, Closing, NobodyLeft
    <2> QED BY <2>1, <2>2, CreateCloses, SubscribeCloses, EnqueueFirstCloses, TryScheduleCloses,
               ReceiveCloses, EmitCloses, FinishCallCloses DEF HandlerNext
  <1>2. CASE \E c \in Calls : ClientReads(c) \/ ClientLeaves(c) \/ Expire(c)
    BY <1>2, ClientCloses
  <1>3. CASE BatchLoopNext
    BY <1>3, BatchLoopCloses
  <1>4. CASE ExecutorNext
    BY <1>4, ExecutorCloses
  <1>5. CASE ConsumerNext
    BY <1>5, TakesCloses, OnEventCloses, PublishCloses, SendCloses, EnqueueNextCloses, TryScheduleNextCloses,
           SendFailedCloses
       DEF ConsumerNext
  <1>6. CASE UNCHANGED vars
    BY <1>6, StutterClosing
  <1> QED BY <1>1, <1>2, <1>3, <1>4, <1>5, <1>6 DEF Next

(* No executor result is sent on a closed channel, as long as no client     *)
(* goes away and no text ends with its prefill: the two ways in which a     *)
(* request ends behind the back of the consumer of events.                  *)
THEOREM EngineNoSendOnClosed == ASSUME DistinctIds, Undisturbed PROVE Spec => []NoSendOnClosed
  <1>1. Init => Serving /\ Closing
    BY InitServing, InitClosing
  <1>2. Serving /\ Closing /\ [Next]_vars => (Serving /\ Closing)'
    BY NextServing, NextClosing
  <1>3. Closing => NoSendOnClosed
    BY DEF Closing, NoSendOnClosed
  <1> QED BY <1>1, <1>2, <1>3, PTL DEF Spec

=============================================================================
