------------------------------- MODULE Engine -------------------------------
(***************************************************************************)
(* The Engine serving generation requests on one executor: the handler of  *)
(* each GenerateStream call (internal/handler), the request state manager  *)
(* (internal/state), the scheduler's two goroutines, batching and event    *)
(* consumption (internal/scheduler), the executor manager                  *)
(* (internal/executor), the block manager (BlockOps) and the executor's    *)
(* paged KV cache (executor/).                                             *)
(*                                                                         *)
(* A step is what a goroutine does between two acquisitions of a lock or   *)
(* channel operations.  Rounds start at any time: the ticker and the       *)
(* patchExecuteChan signal only make them earlier.  Of trySchedule, which  *)
(* gives that signal, the mutexes remain that it takes to read the lengths *)
(* of the queues.  Bounds: Calls, their prompts and MaxTokens, and the     *)
(* capacities of queues and channels.                                      *)
(***************************************************************************)
EXTENDS WorkOps, KVOps, SequencesExt

CONSTANTS
  Calls,                  \* GenerateStream calls, each made at most once
  RequestId,              \* RequestId[c]: the request id the client sends
  Prompt,                 \* Prompt[c]: [salt, tokens]
  MaxTokens,              \* MaxTokens[c]
  MayLeave,               \* the calls whose client may cancel
  StopsInPrefill,         \* may the first sampled token end the text?
  NumBlocks, BlockSize,   \* the executor's KV blocks
  QueueLength,            \* admission capacity of each work queue
  MaxBatchSeq, MaxBatchTokens, MaxPartialPrefills, MaxLongPartialPrefills,
  LongPrefillThreshold,
  BatchCap, EventCap,     \* capacities of batchChan and eventChan (100 in the code)
  SubCap, OutCap          \* capacities of subscribeCh and chOut (5 in the code)

NoCall == "none"

(* The calls come with their ids and prompts; MaxTokens is a uint32, so     *)
(* that it has a largest value, and so are the scheduler's settings.        *)
ASSUME EngineAssumption ==
  /\ Calls # {} /\ NoCall \notin Calls /\ DOMAIN RequestId = Calls
  /\ MayLeave \subseteq Calls
  /\ StopsInPrefill \in BOOLEAN
  /\ \A c \in Calls : Prompt[c].tokens \in Seq(Int) \ {<< >>} /\ MaxTokens[c] \in Nat
  /\ \E c \in Calls : \A d \in Calls : MaxTokens[d] <= MaxTokens[c]
  /\ {NumBlocks, BlockSize, QueueLength, MaxBatchSeq, MaxBatchTokens, BatchCap,
      EventCap, SubCap, OutCap} \subseteq Nat \ {0}
  /\ {MaxPartialPrefills, MaxLongPartialPrefills, LongPrefillThreshold} \subseteq Nat

VARIABLES
  mgr,       \* the block manager
  kv,        \* kv[b][s]: what slot s of block b holds, Empty if not valid
  requests,  \* map: request id -> request (its channel is channel[q.call])
  channel,   \* channel[c]: the event channel Create made for call c
  handler,   \* handler[c]: the goroutines of call c
  expired,   \* the calls whose Deadline has passed
  queue,     \* the work queues: decode, small and large prefill
  sched,     \* the batch loop: where its round is, and its locals
  batchChan, \* batches submitted
  exec,      \* the consumeExecutor goroutine: batch, events to deliver
  eventChan, \* events delivered
  cons,      \* the consumeEvents goroutine: where it is, and its locals
  panicked   \* a send on a closed channel has ended the process

vars == <<mgr, kv, requests, channel, handler, expired, queue, sched, batchChan,
          exec, eventChan, cons, panicked>>

promptTokens(c) == Len(Prompt[c].tokens)

(* What the KV slot of position p (from 1) of call c must hold. *)
content(c, p) ==
  IF p <= promptTokens(c) THEN prefixKV(Prompt[c], p)
  ELSE <<c, p>>

idleSched ==
  [ pc |-> "idle", held |-> << >>, batch |-> << >>, scanned |-> 0, maxScan |-> 0, cost |-> 0,
    tokens |-> 0, seqs |-> 0, prefill |-> 0, large |-> 0, notify |-> NoCall ]

idleCons == [ pc |-> "idle", event |-> << >>, next |-> << >>, to |-> NoCall ]

Init ==
  /\ mgr = newManager(BlockSize, NumBlocks)
  /\ kv = emptyCache(BlockSize, NumBlocks)
  /\ requests = EmptyMap
  /\ channel = [c \in Calls |-> [buf |-> << >>, closed |-> FALSE]]
  /\ handler = [c \in Calls |-> [ pc |-> "new", from |-> c, item |-> << >>, event |-> << >>,
                                  out |-> << >>, outClosed |-> FALSE,
                                  received |-> << >>, client |-> "waiting" ]]
  /\ expired = {}
  /\ queue = [decode |-> << >>, small |-> << >>, large |-> << >>]
  /\ sched = idleSched
  /\ batchChan = << >>
  /\ exec = [running |-> << >>, events |-> << >>]
  /\ eventChan = << >>
  /\ cons = idleCons
  /\ panicked = FALSE

(* A panic ends the process: no goroutine takes another step. *)
processUp == ~panicked /\ UNCHANGED panicked

-----------------------------------------------------------------------------
(* The request state manager.  Its methods are called by several            *)
(* goroutines; the operators below give their effect on requests, channel   *)
(* and mgr.                                                                 *)

exists(id) == id \in DOMAIN requests

(* Mutant: the blocks of a deleted request are not freed. *)
deleteRequestKeepsBlocks(id) ==
  /\ requests' = Without(requests, {id})
  /\ UNCHANGED mgr

(* deleteRequest frees the blocks of the request it deletes. *)
deleteRequest(id) ==
  /\ requests' = Without(requests, {id})
  /\ mgr' = FreeRequest(mgr, id)

(* Finish and Cancel: delete the request, if it is still there, and close   *)
(* its channel.                                                             *)
Finish(id) ==
  IF exists(id)
  THEN /\ deleteRequest(id)
       /\ channel' = [channel EXCEPT ![requests[id].call].closed = TRUE]
  ELSE UNCHANGED <<requests, mgr, channel>>

Cancel(id) == Finish(id)

(* The last words on a deleted request's channel, in Fail and CanSchedule. *)
sendFailure(c, id) ==
  /\ Len(channel[c].buf) < SubCap
  /\ channel' = [channel EXCEPT ![c].buf = Append(@, requestFailedEvent(c, id)),
                                ![c].closed = TRUE]

(* Mutant: the deadline is not checked. *)
timedOutNever(work) == FALSE

timedOut(work) == exists(work.request) /\ requests[work.request].call \in expired

CanSchedule(work) ==
  /\ exists(work.request)
  /\ ~timedOut(work)
  /\ requests[work.request].phase = Running

(* What CanSchedule does to a request whose deadline has passed; the        *)
(* failure event is sent after the manager's mutex is released, the queue's *)
(* still held.                                                              *)
dropIfTimedOut(work, s) ==
  IF timedOut(work)
  THEN /\ deleteRequest(work.request)
       /\ sched' = [s EXCEPT !.notify = requests[work.request].call]
  ELSE /\ sched' = s
       /\ UNCHANGED <<requests, mgr>>

-----------------------------------------------------------------------------
(* Queues *)

queueOf(work) ==
  IF work.phase = Decode THEN "decode"
  ELSE IF work.total <= LongPrefillThreshold THEN "small" ELSE "large"

full(work) == Len(queue[queueOf(work)]) >= QueueLength

appended(q, work) == [q EXCEPT ![queueOf(work)] = Append(@, work)]

(* The queue whose mutex the batch loop holds across steps: Dequeue checks  *)
(* several items, and a timeout is announced under the mutex.               *)
locked(k) ==
  \/ k = "decode" /\ sched.pc = "dequeue"
  \/ k = "small" /\ sched.pc \in {"peek", "popSmall"} /\ sched.notify # NoCall
  \/ k = "large" /\ sched.pc = "popLarge" /\ sched.notify # NoCall

(* trySchedule takes the mutex of every queue in turn.  At most one is held *)
(* at any time, and between two of them none is, so that it gets through if *)
(* and only if it meets a moment at which all are free.                     *)
lengthsReadable == \A k \in DOMAIN queue : ~locked(k)

-----------------------------------------------------------------------------
(* The handler of a call, and its client *)

(* GenerateStream registers the request.  A prompt is never fully cached    *)
(* (its last block is not matched), so the first work is a prefill.         *)
Create(c) ==
  LET id  == RequestId[c]
      ids == matchedBlocks(mgr, Prompt[c])
  IN
  /\ handler[c].pc = "new"
  /\ IF exists(id)
     THEN /\ handler' = [handler EXCEPT ![c].pc = "rejected", ![c].client = "error"]
          /\ UNCHANGED <<requests, mgr>>
     ELSE /\ requests' = Put(requests, id, [ call |-> c, phase |-> Running, generated |-> 0,
                                             computed |-> Len(ids) * BlockSize, cache |-> ids ])
          /\ mgr' = MatchPrefix(mgr, id, Prompt[c])
          /\ handler' = [handler EXCEPT ![c].pc = "subscribe",
               ![c].item = <<prefillItem(c, id, ids, Len(ids) * BlockSize, promptTokens(c))>>]
  /\ UNCHANGED <<kv, channel, expired, queue, sched, batchChan, exec, eventChan, cons>>
  /\ processUp

Subscribe(c) ==
  /\ handler[c].pc = "subscribe"
  /\ handler' = IF exists(RequestId[c])
                THEN [handler EXCEPT ![c].pc = "enqueue", ![c].from = requests[RequestId[c]].call]
                ELSE [handler EXCEPT ![c].pc = "rejected", ![c].client = "error", ![c].item = << >>]
  /\ UNCHANGED <<mgr, kv, requests, channel, expired, queue, sched, batchChan, exec, eventChan,
                 cons>>
  /\ processUp

(* The first work enters its queue, or the request fails. *)
EnqueueFirst(c) ==
  LET work == handler[c].item[1] IN
  /\ handler[c].pc = "enqueue"
  /\ ~locked(queueOf(work))
  /\ IF full(work)
     THEN /\ handler' = [handler EXCEPT ![c].pc = "rejected", ![c].client = "error",
                                        ![c].item = << >>]
          /\ IF exists(work.request)
             THEN /\ deleteRequest(work.request)
                  /\ sendFailure(requests[work.request].call, work.request)
             ELSE UNCHANGED <<requests, mgr, channel>>
          /\ UNCHANGED queue
     ELSE /\ handler' = [handler EXCEPT ![c].pc = "trySchedule", ![c].item = << >>]
          /\ queue' = appended(queue, work)
          /\ UNCHANGED <<requests, mgr, channel>>
  /\ UNCHANGED <<kv, expired, sched, batchChan, exec, eventChan, cons>>
  /\ processUp

(* The end of the first work's Enqueue: only then does the call's goroutine *)
(* start to read the events.                                                *)
TrySchedule(c) ==
  /\ handler[c].pc = "trySchedule"
  /\ lengthsReadable
  /\ handler' = [handler EXCEPT ![c].pc = "streaming"]
  /\ UNCHANGED <<mgr, kv, requests, channel, expired, queue, sched, batchChan, exec, eventChan,
                 cons>>
  /\ processUp

(* The handler's goroutine receives an event; on a closed channel it        *)
(* returns, chOut left open.                                                *)
Receive(c) ==
  LET ch == channel[handler[c].from] IN
  /\ handler[c].pc = "streaming"
  /\ \/ /\ ch.buf # << >>
        /\ channel' = [channel EXCEPT ![handler[c].from].buf = Tail(@)]
        /\ handler' = IF Head(ch.buf).type = "prefillChunk" THEN handler
                      ELSE [handler EXCEPT ![c].pc = "emit", ![c].event = <<Head(ch.buf)>>]
     \/ /\ ch.buf = << >> /\ ch.closed
        /\ handler' = [handler EXCEPT ![c].pc = "returned"]
        /\ UNCHANGED channel
  /\ UNCHANGED <<mgr, kv, requests, expired, queue, sched, batchChan, exec, eventChan, cons>>
  /\ processUp

(* Mutant: the handler finishes after its first output. *)
EmitOnce(c) ==
  LET e == handler[c].event[1] IN
  /\ handler[c].pc = "emit"
  /\ Len(handler[c].out) < OutCap
  /\ handler' = [handler EXCEPT
       ![c].pc    = "finish",
       ![c].event = << >>,
       ![c].out   = Append(@, [token |-> e.token, type |-> e.type, done |-> e.done])]
  /\ UNCHANGED <<mgr, kv, requests, channel, expired, queue, sched, batchChan, exec, eventChan,
                 cons>>
  /\ processUp

Emit(c) ==
  LET e == handler[c].event[1] IN
  /\ handler[c].pc = "emit"
  /\ Len(handler[c].out) < OutCap
  /\ handler' = [handler EXCEPT
       ![c].pc    = IF e.done THEN "finish" ELSE "streaming",
       ![c].event = << >>,
       ![c].out   = Append(@, [token |-> e.token, type |-> e.type, done |-> e.done])]
  /\ UNCHANGED <<mgr, kv, requests, channel, expired, queue, sched, batchChan, exec, eventChan,
                 cons>>
  /\ processUp

FinishCall(c) ==
  /\ handler[c].pc = "finish"
  /\ Finish(RequestId[c])
  /\ handler' = [handler EXCEPT ![c].pc = "ended", ![c].outClosed = TRUE]
  /\ UNCHANGED <<kv, expired, queue, sched, batchChan, exec, eventChan, cons>>
  /\ processUp

CancelCall(c) ==
  /\ handler[c].pc = "streaming" /\ handler[c].client = "left"
  /\ Cancel(RequestId[c])
  /\ handler' = [handler EXCEPT ![c].pc = "ended", ![c].outClosed = TRUE]
  /\ UNCHANGED <<kv, expired, queue, sched, batchChan, exec, eventChan, cons>>
  /\ processUp

(* The RPC's loop over chOut: it returns on the last output, and with an    *)
(* error when the channel is closed first.                                  *)
ClientReads(c) ==
  LET h == handler[c] IN
  /\ h.client = "waiting"
  /\ \/ /\ h.out # << >>
        /\ handler' = [handler EXCEPT
             ![c].out      = Tail(@),
             ![c].received = Append(@, Head(h.out)),
             ![c].client   = IF Head(h.out).done THEN "done" ELSE "waiting"]
     \/ /\ h.out = << >> /\ h.outClosed
        /\ handler' = [handler EXCEPT ![c].client = "error"]
  /\ UNCHANGED <<mgr, kv, requests, channel, expired, queue, sched, batchChan, exec, eventChan,
                 cons>>
  /\ processUp

(* The client goes away: ctx is done. *)
ClientLeaves(c) ==
  /\ c \in MayLeave
  /\ handler[c].client = "waiting" /\ handler[c].pc # "new"
  /\ handler' = [handler EXCEPT ![c].client = "left"]
  /\ UNCHANGED <<mgr, kv, requests, channel, expired, queue, sched, batchChan, exec, eventChan,
                 cons>>
  /\ processUp

(* A Deadline passes. *)
Expire(c) ==
  /\ c \notin expired
  /\ exists(RequestId[c]) /\ requests[RequestId[c]].call = c
  /\ expired' = expired \cup {c}
  /\ UNCHANGED <<mgr, kv, requests, channel, handler, queue, sched, batchChan, exec, eventChan,
                 cons>>
  /\ processUp

-----------------------------------------------------------------------------
(* The batch loop: patchExecute.  A round picks decode works, then small    *)
(* and then large prefills, and submits the batch.  Passing from one part   *)
(* to the next reads at most a queue's length and is no step of its own.    *)

blockWorkOf(work) == blockWork(work, blockHashes(BlockSize, Prompt[work.call]))

enoughBlocks(work) == canAllocate(mgr, requiredBlocks(mgr, blockWorkOf(work)))

(* A work in a batch carries the BlockAllocation made for it. *)
batchItem(work) ==
  LET a == newAllocation(mgr, blockWorkOf(work))
  IN  [work |-> work, table |-> a.blockTable, allocated |-> a.allocated]

budgetLeft(s) == s.scanned < s.maxScan /\ s.seqs > 0 /\ s.tokens > 0 /\ s.prefill > 0

atSubmit(s) ==
  IF s.batch = << >> THEN idleSched ELSE [idleSched EXCEPT !.pc = "submit", !.batch = s.batch]

onLarge(s) ==
  IF budgetLeft(s) /\ s.large > 0 THEN [s EXCEPT !.pc = "popLarge"] ELSE atSubmit(s)

atLarge(s, q) ==
  onLarge([s EXCEPT !.scanned = 0, !.maxScan = Len(q.large), !.cost = 0])

onSmall(s, q) == IF budgetLeft(s) THEN [s EXCEPT !.pc = "peek"] ELSE atLarge(s, q)

atSmall(s, q) == onSmall([s EXCEPT !.scanned = 0, !.maxScan = Len(q.small)], q)

(* Without decode works a batch may be filled with prefills. *)
afterDequeue(s, q) ==
  IF s.held = << >> THEN atSmall([s EXCEPT !.prefill = s.seqs, !.large = s.seqs], q)
  ELSE [s EXCEPT !.pc = "decode"]

StartRound ==
  LET s == [idleSched EXCEPT !.tokens = MaxBatchTokens, !.seqs = MaxBatchSeq,
                             !.prefill = MaxPartialPrefills, !.large = MaxLongPartialPrefills]
  IN
  /\ sched.pc = "idle"
  /\ \E k \in DOMAIN queue : queue[k] # << >>
  /\ sched' = IF queue.decode # << >> THEN [s EXCEPT !.pc = "dequeue"] ELSE afterDequeue(s, queue)
  /\ UNCHANGED <<mgr, kv, requests, channel, handler, expired, queue, batchChan, exec, eventChan,
                 cons>>
  /\ processUp

(* One item of decodeQueue.Dequeue. *)
Dequeue ==
  LET work == Head(queue.decode) IN
  /\ sched.pc = "dequeue" /\ sched.notify = NoCall
  /\ sched.scanned < Min({sched.seqs, sched.tokens}) /\ queue.decode # << >>
  /\ queue' = [queue EXCEPT !.decode = Tail(@)]
  /\ dropIfTimedOut(work, [sched EXCEPT !.scanned = @ + 1,
                             !.held = IF CanSchedule(work) THEN Append(@, work) ELSE @])
  /\ UNCHANGED <<kv, channel, handler, expired, batchChan, exec, eventChan, cons>>
  /\ processUp

DequeueEnds ==
  /\ sched.pc = "dequeue" /\ sched.notify = NoCall
  /\ sched.scanned = Min({sched.seqs, sched.tokens}) \/ queue.decode = << >>
  /\ sched' = afterDequeue(sched, queue)
  /\ UNCHANGED <<mgr, kv, requests, channel, handler, expired, queue, batchChan, exec, eventChan,
                 cons>>
  /\ processUp

(* The three places that call AllocateBlocks: the work, as it is scheduled, *)
(* joins the batch; without enough blocks it goes back to its queue.        *)
allocateFor(scheduled, requeued, goOn(_, _)) ==
  LET s == [sched EXCEPT !.held = Tail(@)] IN
  /\ mgr' = AllocateBlocks(mgr, blockWorkOf(scheduled))
  /\ queue' = IF enoughBlocks(scheduled) THEN queue ELSE appended(queue, requeued)
  /\ sched' = goOn(IF enoughBlocks(scheduled)
                   THEN [s EXCEPT !.batch = Append(@, batchItem(scheduled)), !.seqs = @ - 1]
                   ELSE s,
                   enoughBlocks(scheduled))
  /\ UNCHANGED <<kv, requests, channel, handler, expired, batchChan, exec, eventChan, cons>>
  /\ processUp

AllocateDecode ==
  LET goOn(s, ok) ==
        LET t == IF ok THEN [s EXCEPT !.tokens = @ - 1] ELSE s
        IN  IF t.held = << >> THEN atSmall(t, queue') ELSE t
  IN
  /\ sched.pc = "decode"
  /\ allocateFor(Head(sched.held), Head(sched.held), goOn)

(* prefillQueue.Peek, and the cost of the item it finds. *)
PeekSmall ==
  LET work == Head(queue.small) IN
  /\ sched.pc = "peek" /\ sched.notify = NoCall
  /\ IF queue.small = << >>
     THEN sched' = atLarge(sched, queue) /\ UNCHANGED <<queue, requests, mgr>>
     ELSE IF CanSchedule(work)
     THEN /\ sched' = IF WorkBudgetCost(work) > sched.tokens THEN atLarge(sched, queue)
                      ELSE [sched EXCEPT !.pc = "popSmall", !.cost = WorkBudgetCost(work)]
          /\ UNCHANGED <<queue, requests, mgr>>
     ELSE /\ queue' = [queue EXCEPT !.small = Tail(@)]
          /\ dropIfTimedOut(work, sched)
  /\ UNCHANGED <<kv, channel, handler, expired, batchChan, exec, eventChan, cons>>
  /\ processUp

(* prefillQueue.Pop, item by item, of the small or the large queue. *)
pop(k, popPc, allocPc, emptied) ==
  LET work == Head(queue[k]) IN
  /\ sched.pc = popPc /\ sched.notify = NoCall
  /\ IF queue[k] = << >>
     THEN sched' = emptied /\ UNCHANGED <<queue, requests, mgr>>
     ELSE /\ queue' = [queue EXCEPT ![k] = Tail(@)]
          /\ IF CanSchedule(work)
             THEN /\ sched' = [sched EXCEPT !.pc = allocPc, !.held = <<work>>]
                  /\ UNCHANGED <<requests, mgr>>
             ELSE dropIfTimedOut(work, sched)
  /\ UNCHANGED <<kv, channel, handler, expired, batchChan, exec, eventChan, cons>>
  /\ processUp

PopSmall ==
  pop("small", "popSmall", "small", onSmall([sched EXCEPT !.scanned = @ + 1, !.cost = 0], queue))

PopLarge == pop("large", "popLarge", "large", atSubmit(sched))

(* The batch is charged the cost of the item that Peek found. *)
AllocateSmall ==
  LET goOn(s, ok) ==
        LET t == [s EXCEPT !.scanned = @ + 1, !.cost = 0]
        IN  onSmall(IF ok THEN [t EXCEPT !.tokens = @ - sched.cost, !.prefill = @ - 1] ELSE t, queue')
  IN
  /\ sched.pc = "small"
  /\ allocateFor(Head(sched.held), Head(sched.held), goOn)

AllocateLarge ==
  LET large  == Head(sched.held)
      tokens == Min({WorkBudgetCost(large), sched.tokens})
      goOn(s, ok) ==
        LET t == [s EXCEPT !.scanned = @ + 1]
        IN  onLarge(IF ok THEN [t EXCEPT !.tokens = @ - tokens, !.prefill = @ - 1, !.large = @ - 1]
                    ELSE t)
  IN
  /\ sched.pc = "large"
  /\ allocateFor(splitPrefillChunk(large, tokens), large, goOn)

(* The end of CanSchedule for a request that timed out. *)
NotifyTimeout ==
  /\ sched.notify # NoCall
  /\ sendFailure(sched.notify, RequestId[sched.notify])
  /\ sched' = [sched EXCEPT !.notify = NoCall]
  /\ UNCHANGED <<mgr, kv, requests, handler, expired, queue, batchChan, exec, eventChan, cons>>
  /\ processUp

(* Mutant: the executor's channel takes any number of batches. *)
SubmitUnbounded ==
  /\ sched.pc = "submit"
  /\ batchChan' = Append(batchChan, sched.batch)
  /\ sched' = idleSched
  /\ UNCHANGED <<mgr, kv, requests, channel, handler, expired, queue, exec, eventChan, cons>>
  /\ processUp

Submit ==
  /\ sched.pc = "submit"
  /\ IF Len(batchChan) < BatchCap
     THEN /\ batchChan' = Append(batchChan, sched.batch)
          /\ sched' = idleSched
     ELSE /\ sched' = [sched EXCEPT !.pc = "requeue"]
          /\ UNCHANGED batchChan
  /\ UNCHANGED <<mgr, kv, requests, channel, handler, expired, queue, exec, eventChan, cons>>
  /\ processUp

(* Mutant: a refused batch is rolled back and its works are lost. *)
RequeueWorkDrops ==
  /\ sched.pc = "requeue"
  /\ mgr' = Rollback(mgr, Head(sched.batch).work.id)
  /\ sched' = IF Len(sched.batch) = 1 THEN idleSched ELSE [sched EXCEPT !.batch = Tail(@)]
  /\ UNCHANGED <<kv, requests, channel, handler, expired, queue, batchChan, exec, eventChan, cons>>
  /\ processUp

(* Mutant: a refused batch is requeued and its blocks are not rolled back. *)
RequeueWorkKeepsBlocks ==
  /\ sched.pc = "requeue"
  /\ queue' = appended(queue, Head(sched.batch).work)
  /\ sched' = IF Len(sched.batch) = 1 THEN idleSched ELSE [sched EXCEPT !.batch = Tail(@)]
  /\ UNCHANGED <<mgr, kv, requests, channel, handler, expired, batchChan, exec, eventChan, cons>>
  /\ processUp

(* One work of a batch the executor's channel had no room for. *)
RequeueWork ==
  LET work == Head(sched.batch).work IN
  /\ sched.pc = "requeue"
  /\ mgr' = Rollback(mgr, work.id)
  /\ queue' = appended(queue, work)
  /\ sched' = IF Len(sched.batch) = 1 THEN idleSched ELSE [sched EXCEPT !.batch = Tail(@)]
  /\ UNCHANGED <<kv, requests, channel, handler, expired, batchChan, exec, eventChan, cons>>
  /\ processUp

-----------------------------------------------------------------------------
(* The executor: consumeExecutor sends one batch at a time.  The executor   *)
(* runs a batch under its cache lock: it clears the newly allocated blocks, *)
(* then per item gathers the KV before it and writes the KV it computes.    *)

(* The item's table is long enough and the KV before it was written. *)
runnable(cache, item) ==
  /\ requiredKVTokens(item.work) <= Len(item.table) * BlockSize
  /\ gatherable(BlockSize, cache, item.table, computedTokens(item.work))

readsOwnKV(cache, item) ==
  \A p \in 1..computedTokens(item.work) :
    slot(BlockSize, cache, item.table, p) = content(item.work.call, p)

written(cache, item) ==
  LET w == item.work
  IN  write(BlockSize, cache, item.table,
            [p \in (computedTokens(w) + 1)..requiredKVTokens(w) |->
               IF readsOwnKV(cache, item) THEN content(w.call, p) ELSE Corrupt])

allocatedTo(items) == UNION {Range(items[i].allocated) : i \in DOMAIN items}

(* The first n items of a batch, or those before one that cannot run. *)
ranItems(cache, items, n) ==
  LET step(st, item) ==
        IF st.ok /\ runnable(st.cache, item)
        THEN [cache |-> written(st.cache, item), ok |-> TRUE] ELSE [st EXCEPT !.ok = FALSE]
  IN  FoldLeft(step, [cache |-> release(cache, allocatedTo(items)), ok |-> TRUE], SubSeq(items, 1, n))

TakeBatch ==
  /\ exec.running = << >> /\ exec.events = << >>
  /\ batchChan # << >>
  /\ exec' = [exec EXCEPT !.running = Head(batchChan)]
  /\ batchChan' = Tail(batchChan)
  /\ UNCHANGED <<mgr, kv, requests, channel, handler, expired, queue, sched, eventChan, cons>>
  /\ processUp

(* The works whose sampled token may be an end-of-text token. *)
mayStop(work) == work.phase = Decode \/ (StopsInPrefill /\ sample(work))

Execute ==
  LET items == exec.running
      ran   == ranItems(kv, items, Len(items))
  IN
  /\ items # << >> /\ ran.ok
  /\ kv' = ran.cache
  /\ \E stop \in SUBSET {i \in DOMAIN items : mayStop(items[i].work)} :
       exec' = [running |-> << >>,
                events  |-> [i \in DOMAIN items |-> executedEvent(items[i].work, i \in stop)]]
  /\ UNCHANGED <<mgr, requests, channel, handler, expired, queue, sched, batchChan, eventChan, cons>>
  /\ processUp

(* The call fails: the batch never ran, or ran in part, or its response is  *)
(* lost.                                                                    *)
ExecuteFails ==
  LET items == exec.running IN
  /\ items # << >>
  /\ \/ UNCHANGED kv
     \/ \E n \in 0..Len(items) : kv' = ranItems(kv, items, n).cache
  /\ exec' = [running |-> << >>,
              events  |-> [i \in DOMAIN items |-> failedEvent(items[i].work)]]
  /\ UNCHANGED <<mgr, requests, channel, handler, expired, queue, sched, batchChan, eventChan, cons>>
  /\ processUp

Deliver ==
  /\ exec.events # << >> /\ Len(eventChan) < EventCap
  /\ eventChan' = Append(eventChan, Head(exec.events))
  /\ exec' = [exec EXCEPT !.events = Tail(@)]
  /\ UNCHANGED <<mgr, kv, requests, channel, handler, expired, queue, sched, batchChan, cons>>
  /\ processUp

-----------------------------------------------------------------------------
(* consumeEvents: handleEvent, step by step *)

eventRequest == cons.event[1].request

(* handleEvent drops the event of a request that is gone. *)
TakeEvent ==
  /\ cons.pc = "idle" /\ eventChan # << >>
  /\ eventChan' = Tail(eventChan)
  /\ cons' = IF exists(Head(eventChan).request)
             THEN [idleCons EXCEPT !.pc = "finalize", !.event = <<Head(eventChan)>>]
             ELSE idleCons
  /\ UNCHANGED <<mgr, kv, requests, channel, handler, expired, queue, sched, batchChan, exec>>
  /\ processUp

(* Mutant: a failed work is committed too. *)
FinalizeCommits ==
  /\ cons.pc = "finalize"
  /\ mgr' = Commit(mgr, cons.event[1].work)
  /\ cons' = [cons EXCEPT !.pc = "onEvent"]
  /\ UNCHANGED <<kv, requests, channel, handler, expired, queue, sched, batchChan, exec, eventChan>>
  /\ processUp

Finalize ==
  LET e == cons.event[1] IN
  /\ cons.pc = "finalize"
  /\ mgr' = IF e.type = "requestFailed" THEN Rollback(mgr, e.work) ELSE Commit(mgr, e.work)
  /\ cons' = [cons EXCEPT !.pc = "onEvent"]
  /\ UNCHANGED <<kv, requests, channel, handler, expired, queue, sched, batchChan, exec, eventChan>>
  /\ processUp

(* OnEvent under the state manager's mutex; a request that is gone by now   *)
(* makes the event stale.                                                   *)
OnEvent ==
  LET e == cons.event[1]
      q == requests[eventRequest]
      c == q.call
  IN
  /\ cons.pc = "onEvent"
  /\ IF exists(eventRequest)
     THEN /\ requests' = [requests EXCEPT ![eventRequest] = advanced(q, e, promptTokens(c), MaxTokens[c])]
          /\ cons' = [cons EXCEPT !.pc    = "publish",
                                  !.event = <<published(q, e, MaxTokens[c])>>,
                                  !.next  = followUp(q, e, promptTokens(c), MaxTokens[c])]
     ELSE /\ cons' = [cons EXCEPT !.pc = "free"]
          /\ UNCHANGED requests
  /\ UNCHANGED <<mgr, kv, channel, handler, expired, queue, sched, batchChan, exec, eventChan>>
  /\ processUp

(* OnEvent looks the channel up again, and sends without any lock. *)
Publish ==
  /\ cons.pc = "publish"
  /\ cons' = IF exists(eventRequest) THEN [cons EXCEPT !.pc = "send", !.to = requests[eventRequest].call]
             ELSE [cons EXCEPT !.pc = "enqueue"]
  /\ UNCHANGED <<mgr, kv, requests, channel, handler, expired, queue, sched, batchChan, exec,
                 eventChan>>
  /\ processUp

Send ==
  /\ cons.pc = "send" /\ ~panicked
  /\ IF channel[cons.to].closed
     THEN panicked' = TRUE /\ UNCHANGED <<channel, cons>>
     ELSE /\ Len(channel[cons.to].buf) < SubCap
          /\ channel' = [channel EXCEPT ![cons.to].buf = Append(@, cons.event[1])]
          /\ cons' = [cons EXCEPT !.pc = "enqueue", !.to = NoCall]
          /\ UNCHANGED panicked
  /\ UNCHANGED <<mgr, kv, requests, handler, expired, queue, sched, batchChan, exec, eventChan>>

(* The follow-up work enters its queue; when that is full the request fails *)
(* and handleEvent returns.                                                 *)
EnqueueNext ==
  /\ cons.pc = "enqueue"
  /\ IF cons.next = << >>
     THEN cons' = [cons EXCEPT !.pc = "free"] /\ UNCHANGED <<queue, requests, mgr>>
     ELSE LET work == cons.next[1] IN
          /\ ~locked(queueOf(work))
          /\ IF ~full(work)
             THEN /\ queue' = appended(queue, work)
                  /\ cons' = [cons EXCEPT !.pc = "trySchedule", !.next = << >>]
                  /\ UNCHANGED <<requests, mgr>>
             ELSE /\ UNCHANGED queue
                  /\ IF exists(eventRequest)
                     THEN /\ deleteRequest(eventRequest)
                          /\ cons' = [idleCons EXCEPT !.pc = "fail", !.to = requests[eventRequest].call]
                     ELSE cons' = idleCons /\ UNCHANGED <<requests, mgr>>
  /\ UNCHANGED <<kv, channel, handler, expired, sched, batchChan, exec, eventChan>>
  /\ processUp

(* The end of the follow-up work's Enqueue. *)
TryScheduleNext ==
  /\ cons.pc = "trySchedule"
  /\ lengthsReadable
  /\ cons' = [cons EXCEPT !.pc = "free"]
  /\ UNCHANGED <<mgr, kv, requests, channel, handler, expired, queue, sched, batchChan, exec,
                 eventChan>>
  /\ processUp

(* The end of Fail. *)
SendFailed ==
  /\ cons.pc = "fail"
  /\ sendFailure(cons.to, RequestId[cons.to])
  /\ cons' = idleCons
  /\ UNCHANGED <<mgr, kv, requests, handler, expired, queue, sched, batchChan, exec, eventChan>>
  /\ processUp

FreeDone ==
  /\ cons.pc = "free"
  /\ mgr' = IF cons.event[1].done THEN FreeRequest(mgr, eventRequest) ELSE mgr
  /\ cons' = idleCons
  /\ UNCHANGED <<kv, requests, channel, handler, expired, queue, sched, batchChan, exec, eventChan>>
  /\ processUp

-----------------------------------------------------------------------------
HandlerNext(c) ==
  \/ Create(c) \/ Subscribe(c) \/ EnqueueFirst(c) \/ TrySchedule(c)
  \/ Receive(c) \/ Emit(c) \/ FinishCall(c) \/ CancelCall(c)

BatchLoopNext ==
  \/ StartRound \/ Dequeue \/ DequeueEnds \/ AllocateDecode
  \/ PeekSmall \/ PopSmall \/ AllocateSmall \/ PopLarge \/ AllocateLarge
  \/ NotifyTimeout \/ Submit \/ RequeueWork

ExecutorNext == TakeBatch \/ Execute \/ ExecuteFails \/ Deliver

ConsumerNext ==
  \/ TakeEvent \/ Finalize \/ OnEvent \/ Publish \/ Send \/ EnqueueNext
  \/ TryScheduleNext \/ SendFailed \/ FreeDone

Next ==
  \/ \E c \in Calls : HandlerNext(c) \/ ClientReads(c) \/ ClientLeaves(c) \/ Expire(c)
  \/ BatchLoopNext
  \/ ExecutorNext
  \/ ConsumerNext

Spec == Init /\ [][Next]_vars

(* Every goroutine keeps running (the Go scheduler is fair to them), the    *)
(* client keeps reading, and time passes.  Only the batch loop can go round *)
(* forever: the steps of all the others are finitely many, so that fairness *)
(* to their union is fairness to each.                                      *)
OthersNext ==
  \/ \E c \in Calls : HandlerNext(c) \/ ClientReads(c) \/ Expire(c)
  \/ ExecutorNext
  \/ ConsumerNext

FairSpec == Spec /\ WF_vars(BatchLoopNext) /\ WF_vars(OthersNext)

-----------------------------------------------------------------------------
(* Properties *)

TypeOK ==
  /\ DOMAIN requests \subseteq Range(RequestId)
  /\ \A r \in DOMAIN requests :
       requests[r] \in [ call : Calls, phase : {Running, Finished, Failed}, computed : Nat,
                         generated : Nat, cache : Seq(Blocks(mgr)) ]
  /\ \A k \in DOMAIN queue : Len(queue[k]) <= QueueLength + MaxBatchSeq
  /\ Len(batchChan) <= BatchCap /\ Len(eventChan) <= EventCap
  /\ \A c \in Calls : Len(channel[c].buf) <= SubCap /\ Len(handler[c].out) <= OutCap
  /\ sched.tokens \in 0..MaxBatchTokens /\ sched.seqs \in 0..MaxBatchSeq

(* Where the one thing in progress for request r can be: a work item in the *)
(* hands of the handler, a queue, the batch loop, a batch or the consumer,  *)
(* or the event of a work.                                                  *)
tickets(r) ==
  LET at(tag, s) == {<<tag, i>> : i \in {j \in DOMAIN s : s[j].request = r}}
      in(tag, s) == {<<tag, i>> : i \in {j \in DOMAIN s : s[j].work.request = r}}
  IN  UNION ({at(<<"item", c>>, handler[c].item) : c \in Calls}
             \cup {at(k, queue[k]) : k \in DOMAIN queue}
             \cup {in(<<"submitted", i>>, batchChan[i]) : i \in DOMAIN batchChan}
             \cup {at("held", sched.held), in("batch", sched.batch), in("running", exec.running),
                   at("events", exec.events), at("delivered", eventChan), at("next", cons.next),
                   IF cons.pc \in {"finalize", "onEvent"} THEN at("event", cons.event) ELSE {}})

(* Nothing is forgotten and nothing done twice: a request in progress has   *)
(* exactly one work item or event on its way through queues, batches and    *)
(* channels, whatever is requeued, chunked, refused or failed; no request   *)
(* ever has two.                                                            *)
OneWorkPerRequest ==
  \A r \in Range(RequestId) :
    /\ Cardinality(tickets(r)) <= 1
    /\ exists(r) /\ requests[r].phase = Running => Cardinality(tickets(r)) = 1

(* A work's BlockAllocation "is committed after successful execution or     *)
(* rolled back if the work is not executed" (internal/model/domain.go:72):  *)
(* every allocation awaiting commit belongs to a work still on its way.     *)
inFlight ==
  LET works(items) == {items[i].work.id : i \in DOMAIN items}
      events(s)    == {s[i].work : i \in DOMAIN s}
  IN  (UNION {works(batchChan[i]) : i \in DOMAIN batchChan})
      \cup works(sched.batch) \cup works(exec.running)
      \cup events(exec.events) \cup events(eventChan)
      \cup IF cons.pc = "finalize" THEN events(cons.event) ELSE {}

AllocationsSettled == DOMAIN mgr.pendingAllocations \subseteq inFlight

(* "RefCount is the number of active requests referencing this block"       *)
(* (internal/model/block.go:14): references come from the tables of         *)
(* requests that exist, and from nothing else.                              *)
RefCountIsActiveRequests ==
  /\ DOMAIN mgr.requestBlocks \subseteq DOMAIN requests
  /\ \A b \in Blocks(mgr) :
       mgr.refCount[b] = Cardinality({r \in DOMAIN mgr.requestBlocks :
                                        b \in Range(mgr.requestBlocks[r])})

(* The other half of the same: a block that a request has in its table is   *)
(* referenced, so that it is not in the free queue and nobody else gets it. *)
TablesAreReferenced ==
  \A r \in DOMAIN mgr.requestBlocks : \A b \in Range(mgr.requestBlocks[r]) : mgr.refCount[b] > 0

(* The Engine's prefix index and the executor's tensors agree: a block that *)
(* is indexed under a prefix holds the KV of exactly that prefix.           *)
CachedBlocksHoldPrefix ==
  \A h \in DOMAIN mgr.cachedBlocks : \A s \in 1..BlockSize :
    kv[mgr.cachedBlocks[h]][s] = SubSeq(h, 1, Len(h) - BlockSize + s)

(* From submission to execution, the block table of a work covers its       *)
(* tokens and holds the KV of its own text: no other request, rollback or   *)
(* failed batch has touched it.                                             *)
SubmittedReadsOwnKV ==
  \A items \in Range(batchChan) \cup {exec.running} : \A i \in DOMAIN items :
    /\ requiredKVTokens(items[i].work) <= Len(items[i].table) * BlockSize
    /\ readsOwnKV(kv, items[i])

(* A client receives the tokens of its text in order, without gap or        *)
(* repetition, at most MaxTokens of them, and nothing after the output that *)
(* says done.                                                               *)
StreamInOrder ==
  \A c \in Calls :
    LET outputs == handler[c].received \o handler[c].out IN
    \A i \in DOMAIN outputs :
      /\ outputs[i].type # "requestFailed" => outputs[i].token = i /\ i <= MaxTokens[c]
      /\ outputs[i].done => i = Len(outputs)

(* "The request may have been canceled or finished while a work item was    *)
(* still queued or in-flight.  Treat late executor results as stale."       *)
(* (internal/state/state_machine.go:173): no executor result is sent on a   *)
(* channel that was closed.                                                 *)
NoSendOnClosed == ~panicked

(* The batch loop announces a timeout to a call under a queue's mutex; the  *)
(* call's channel is full, and its reader is not started before that mutex  *)
(* is free.  Neither goroutine can ever go on.                              *)
stalled ==
  \E c \in Calls :
    /\ handler[c].pc = "trySchedule" /\ sched.notify = handler[c].from
    /\ Len(channel[sched.notify].buf) >= SubCap

called(c) == handler[c].pc # "new"

ended(c) == handler[c].client \in {"done", "error"}

(* "Request-level deadlines own cancellation."                              *)
(* (internal/transport/inference.go:76): every call that is made comes to   *)
(* an end for its client, if only by its deadline, and stays ended.         *)
EveryCallEnds == <>[](\A c \in Calls : called(c) => ended(c))

(* Nothing else than this stall keeps a call from coming to an end: not the *)
(* want of blocks, a full queue or channel, or a failed or refused batch.   *)
CallsEndUnlessStalled == <>[](stalled \/ \A c \in Calls : called(c) => ended(c))

(* When the calls are over, every block of the pool has come back; only the *)
(* stall can leave blocks with a request.                                   *)
BlocksComeBack == <>[](stalled \/ \A b \in Blocks(mgr) : mgr.refCount[b] = 0)

=============================================================================
