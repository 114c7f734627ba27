------------------------------- MODULE Bench --------------------------------
(***************************************************************************)
(* A benchmark run against the Engine: cmd/bench's main goroutine and the  *)
(* goroutines it starts, one per request; the unary Generate call          *)
(* (internal/transport, internal/handler) that serves each of them; and    *)
(* what the scheduler, the executors and the state manager do to the       *)
(* metrics that the benchmark scrapes before and after a scenario.         *)
(*                                                                         *)
(* The serving path is reduced to what the metrics show of it: a request   *)
(* is one prefill work and then decode works, a prompt fits in a batch and *)
(* a cached prefix stays cached.  A text is shorter than OutputCap, so the *)
(* channels to a call never fill up; with a longer text and a client that  *)
(* left, the handler may wait at its channel for ever.  Engine.tla has the *)
(* rest.  A scrape is one step, and latencies are only counted.  Bounds:   *)
(* the profile, MaxFaults timeouts, executor errors and failed scrapes,    *)
(* and MaxSamples latencies of up to MaxLatency for the percentiles.       *)
(***************************************************************************)
EXTENDS BenchOps, SequencesExt

CONSTANTS
  Profile,           \* [name, requests, concurrency, maxTokens]
  First, Length,     \* the part of the profile's scenarios that is run (all 4 in the code)
  Executors,         \* the scheduler's executorIDs, in order
  QueueLength,       \* admission capacity of a work queue
  FullBlockPrompts,  \* the prompts with a full block to share
  MayGiveUp,         \* the indices of the calls whose client may give up
  MaxFaults,
  MaxSamples, MaxLatency

ASSUME BenchAssumption ==
  /\ Profile.requests \in Nat /\ Profile.concurrency \in Nat \ {0}
  /\ Profile.maxTokens \in Nat \ {0, 1}
  /\ Executors # << >> /\ First \in 1..4 /\ Length \in 1..(5 - First)
  /\ {WarmUsers, PressureRequests, MaxFaults, MaxSamples, MaxLatency} \subseteq Nat
  /\ {QueueLength, PressureConcurrency} \subseteq Nat \ {0}

(* The capacity of chOut and of a request's subscribeCh. *)
OutputCap == 5

ASSUME ShortTexts == Profile.maxTokens < OutputCap

VARIABLES
  main,       \* the main goroutine: pc, scenario k, loop index, scrapes, result
  wg, sem,    \* the WaitGroup and the tokens in the semaphore
  tally,      \* latencies, success, failed: what the goroutines share
  client,     \* client[c]: the goroutine making call c, and its reply
  server,     \* server[c]: the Generate call and its handler goroutine
  live,       \* the calls whose request the state manager knows
  held,       \* the calls whose request references KV blocks
  cached,     \* <<executor, key>>: the prefixes in the prefix index
  assigned,   \* nextExecutor
  queue,      \* queue[e]: the works waiting for executor e
  sched,      \* the batch loop: where it is in a round, for which executor
  batchChan,  \* batchChan[e]: the batches submitted to e
  exec,       \* exec[e]: the consumeExecutor goroutine of e
  inflightBatches,
  eventChan,
  cons,       \* consumeEvents: idle, or the event in hand
  metrics,
  panicked,   \* the Engine's process has crashed
  faults

clientVars == <<main, wg, sem, tally, client>>
requestVars == <<server, live, held, metrics>>
executorVars == <<batchChan, exec, inflightBatches>>
consumerVars == <<eventChan, cons, panicked>>
engineVars == <<requestVars, cached, assigned, queue, sched, executorVars, consumerVars>>
vars == <<clientVars, engineVars, faults>>

Scenarios == SubSeq(ScenariosForProfile(Profile), First, First + Length - 1)

Calls == UNION { ({k} \X {"warmup"} \X (0..(Scenarios[k].cacheUsers - 1)))
                 \cup ({k} \X {"measured"} \X (0..(Scenarios[k].requests - 1)))
                 : k \in DOMAIN Scenarios }

scenario == Scenarios[main.k]
warmup(i) == <<main.k, "warmup", i>>
measured(i) == <<main.k, "measured", i>>

keyOf(c) == cacheKey(Scenarios[c[1]], c[3])
maxTokensOf(c) == Scenarios[c[1]].maxTokens

NoResult == "none"

idleLoop == [ pc |-> "idle", executor |-> Executors[1], todo |-> << >>, scan |-> 0,
              batch |-> << >>, decodes |-> 0 ]

atScenario(k, pc) == [pc |-> pc, k |-> k, i |-> 0, before |-> NoResult, result |-> NoResult]

(* logger.Fatal: the benchmark exits. *)
aborted == atScenario(main.k, "aborted")

Init ==
  /\ main = atScenario(1, "warmup")
  /\ wg = 0 /\ sem = 0
  /\ tally = [latencies |-> 0, success |-> 0, failed |-> 0]
  /\ client = [c \in Calls |-> [pc |-> "new", reply |-> "none"]]
  /\ server = [c \in Calls |-> [ rpc |-> "none", handler |-> "none", executor |-> Executors[1],
                                 generated |-> 0, event |-> "none", out |-> "none" ]]
  /\ live = {} /\ held = {} /\ cached = {}
  /\ assigned = 0
  /\ queue = [e \in Range(Executors) |-> << >>]
  /\ sched = idleLoop
  /\ batchChan = [e \in Range(Executors) |-> << >>]
  /\ exec = [e \in Range(Executors) |-> [pc |-> "idle", batch |-> << >>, gauge |-> 0, ok |-> TRUE]]
  /\ inflightBatches = 0
  /\ eventChan = << >>
  /\ cons = << >>
  /\ metrics = newMetrics(Range(Executors))
  /\ panicked = FALSE
  /\ faults = 0

fault == faults < MaxFaults /\ faults' = faults + 1

-----------------------------------------------------------------------------
(* The benchmark: the main goroutine *)

(* A Generate call is sent; the Engine will see it (Admit). *)
WarmupSend ==
  /\ main.pc = "warmup" /\ main.i < scenario.cacheUsers
  /\ client[warmup(main.i)].pc = "new"
  /\ client' = [client EXCEPT ![warmup(main.i)].pc = "calling"]
  /\ UNCHANGED <<main, wg, sem, tally, engineVars, faults>>

(* A warm-up call that fails ends the benchmark. *)
WarmupReturns ==
  LET c == warmup(main.i) IN
  /\ main.pc = "warmup" /\ main.i < scenario.cacheUsers
  /\ client[c].pc = "calling" /\ client[c].reply # "none"
  /\ client' = [client EXCEPT ![c].pc = "over"]
  /\ main' = IF client[c].reply = "ok" THEN [main EXCEPT !.i = @ + 1]
             ELSE aborted
  /\ UNCHANGED <<wg, sem, tally, engineVars, faults>>

scraped == parseBenchMetrics(metrics, Last(Executors))

(* Of the first scrape only the counters are used. *)
ScrapeBefore ==
  /\ main.pc = "warmup" /\ main.i = scenario.cacheUsers /\ ~panicked
  /\ main' = [main EXCEPT !.pc = "dispatch", !.i = 0,
                       !.before = [f \in DOMAIN scraped \ Gauges |-> scraped[f]]]
  /\ UNCHANGED <<wg, sem, tally, client, engineVars, faults>>

(* One iteration of the loop: it waits for a place in the semaphore. *)
Dispatch ==
  /\ main.pc = "dispatch" /\ main.i < scenario.requests
  /\ sem < scenario.concurrency
  /\ wg' = wg + 1 /\ sem' = sem + 1
  /\ client' = [client EXCEPT ![measured(main.i)].pc = "calling"]
  /\ main' = [main EXCEPT !.i = @ + 1]
  /\ UNCHANGED <<tally, engineVars, faults>>

(* wg.Wait, the second scrape and the result. *)
ScrapeAfter ==
  LET r == [ scenario |-> scenario, success |-> tally.success, failed |-> tally.failed,
             latencies |-> tally.latencies,
             metrics |-> deltaBenchMetrics(main.before, scraped) ]
  IN
  /\ main.pc = "dispatch" /\ main.i = scenario.requests
  /\ wg = 0 /\ ~panicked
  /\ main' = [main EXCEPT !.pc = "result", !.before = NoResult, !.result = r]
  /\ UNCHANGED <<wg, sem, tally, client, engineVars, faults>>

(* The metrics server dies with the Engine. *)
ScrapeFails ==
  /\ \/ main.pc = "warmup" /\ main.i = scenario.cacheUsers
     \/ main.pc = "dispatch" /\ main.i = scenario.requests /\ wg = 0
  /\ IF panicked THEN UNCHANGED faults ELSE fault
  /\ main' = aborted
  /\ UNCHANGED <<wg, sem, tally, client, engineVars>>

(* main prints the result, validates it in the quick profile, and goes on   *)
(* to the next scenario.                                                    *)
NextScenario ==
  /\ main.pc = "result"
  /\ main' = IF Profile.name = "quick" /\ ~ValidateQuickResult(main.result)
             THEN aborted
             ELSE IF main.k = Len(Scenarios) THEN atScenario(main.k, "finished")
             ELSE atScenario(main.k + 1, "warmup")
  /\ tally' = [latencies |-> 0, success |-> 0, failed |-> 0]
  /\ UNCHANGED <<wg, sem, client, engineVars, faults>>

-----------------------------------------------------------------------------
(* The goroutine of a measured request *)

(* Mutant: the place is given back and wg.Done called before the outcome is *)
(* recorded.                                                                *)
RecordLate(c) ==
  /\ c[2] = "measured" /\ client[c].pc = "calling" /\ client[c].reply # "none"
  /\ sem' = sem - 1 /\ wg' = wg - 1
  /\ client' = [client EXCEPT ![c].pc = "over"]
  /\ UNCHANGED <<main, tally, engineVars, faults>>

(* The latency and the outcome are recorded, each under its own mutex;      *)
(* nobody reads them before wg.Wait returns.                                *)
Record(c) ==
  /\ c[2] = "measured" /\ client[c].pc = "calling" /\ client[c].reply # "none"
  /\ tally' = [ latencies |-> tally.latencies + 1,
                success   |-> tally.success + (IF client[c].reply = "ok" THEN 1 ELSE 0),
                failed    |-> tally.failed + (IF client[c].reply = "ok" THEN 0 ELSE 1) ]
  /\ client' = [client EXCEPT ![c].pc = "recorded"]
  /\ UNCHANGED <<main, wg, sem, engineVars, faults>>

(* Deferred: the place in the semaphore is given back, then wg.Done. *)
Done(c) ==
  /\ client[c].pc = "recorded"
  /\ sem' = sem - 1 /\ wg' = wg - 1
  /\ client' = [client EXCEPT ![c].pc = "over"]
  /\ UNCHANGED <<main, tally, engineVars, faults>>

(* The Engine has crashed, and with it the connection. *)
ConnectionLost(c) ==
  /\ panicked
  /\ client[c].pc = "calling" /\ client[c].reply = "none"
  /\ client' = [client EXCEPT ![c].reply = "error"]
  /\ UNCHANGED <<main, wg, sem, tally, engineVars, faults>>

(* The HTTP client gives up on a call that the Engine has admitted, whose   *)
(* context is then done.                                                    *)
GiveUp(c) ==
  /\ c[3] \in MayGiveUp
  /\ client[c].pc = "calling" /\ client[c].reply = "none" /\ server[c].rpc = "open"
  /\ fault
  /\ client' = [client EXCEPT ![c].reply = "timeout"]
  /\ UNCHANGED <<main, wg, sem, tally, engineVars>>

-----------------------------------------------------------------------------
(* The Engine: a Generate call *)

(* A response reaches a client that still waits for it. *)
answered(c, reply) ==
  IF client[c].reply = "none" THEN [client EXCEPT ![c].reply = reply] ELSE client

heldBy(e, calls) == Cardinality({c \in calls : server[c].executor = e})

(* deleteRequest's effect on the gauges. *)
deleted(m, c) ==
  ObserveBlockStats(SetActiveRequests(m, Cardinality(live \ {c})),
                    server[c].executor, heldBy(server[c].executor, held \ {c}))

deleteRequest(c, m) ==
  /\ live' = live \ {c}
  /\ held' = held \ {c}
  /\ metrics' = IF c \in live THEN deleted(m, c) ELSE m

decodes(c) == server[c].generated > 0

isFull(e, isDecode) == Cardinality({i \in DOMAIN queue[e] : decodes(queue[e][i]) = isDecode}) >= QueueLength

AssignExecutor == Executors[(assigned % Len(Executors)) + 1]

(* The call is bound to an executor and its request created and enqueued,   *)
(* or rejected when the queue is full.                                      *)
Admit(c) ==
  LET e   == AssignExecutor
      hit == <<e, keyOf(c)>> \in cached
      m   == IncPrefixCacheRequests(metrics, hit)
  IN
  /\ client[c].pc # "new" /\ server[c].rpc = "none"
  /\ assigned' = assigned + 1
  /\ IF isFull(e, FALSE)
     THEN /\ server' = [server EXCEPT ![c].rpc = "closed", ![c].executor = e]
          /\ client' = answered(c, "error")
          /\ metrics' = IncRequest(IncQueueRejected(m))
          /\ UNCHANGED <<live, held, queue>>
     ELSE /\ server' = [server EXCEPT ![c].rpc = "open", ![c].handler = "streaming",
                                      ![c].executor = e]
          /\ live' = live \cup {c}
          /\ held' = IF hit THEN held \cup {c} ELSE held
          /\ metrics' = ObserveBlockStats(SetActiveRequests(m, Cardinality(live) + 1), e,
                                          heldBy(e, held) + (IF hit THEN 1 ELSE 0))
          /\ queue' = [queue EXCEPT ![e] = Append(@, c)]
          /\ UNCHANGED client
  /\ UNCHANGED <<main, wg, sem, tally, cached, sched, executorVars, consumerVars, faults>>

(* Mutant: a failure is not passed on. *)
EmitOnlyOk(c) ==
  /\ server[c].handler = "streaming" /\ server[c].event = "ok"
  /\ server' = [server EXCEPT ![c].handler = "finish", ![c].out = server[c].event]
  /\ UNCHANGED <<clientVars, live, held, metrics, cached, assigned, queue, sched, executorVars,
                 consumerVars, faults>>

(* The handler's goroutine passes the last event on, and only then finishes *)
(* the request.  chOut has room for the whole text (ShortTexts).            *)
Emit(c) ==
  /\ server[c].handler = "streaming" /\ server[c].event # "none"
  /\ server' = [server EXCEPT ![c].handler = "finish", ![c].out = server[c].event]
  /\ UNCHANGED <<clientVars, live, held, metrics, cached, assigned, queue, sched, executorVars,
                 consumerVars, faults>>

Finish(c) ==
  /\ server[c].handler = "finish"
  /\ server' = [server EXCEPT ![c].handler = "ended"]
  /\ deleteRequest(c, metrics)
  /\ UNCHANGED <<clientVars, cached, assigned, queue, sched, executorVars, consumerVars, faults>>

Cancel(c) ==
  /\ server[c].handler = "streaming" /\ client[c].reply = "timeout"
  /\ server' = [server EXCEPT ![c].handler = "ended"]
  /\ deleteRequest(c, metrics)
  /\ UNCHANGED <<clientVars, cached, assigned, queue, sched, executorVars, consumerVars, faults>>

(* Mutant: only successful requests are counted. *)
RespondCountsOk(c) ==
  /\ server[c].rpc = "open"
  /\ server[c].out # "none" \/ client[c].reply = "timeout"
  /\ server' = [server EXCEPT ![c].rpc = "closed"]
  /\ client' = answered(c, server[c].out)
  /\ metrics' = IF server[c].out = "ok" THEN IncRequest(metrics) ELSE metrics
  /\ UNCHANGED <<main, wg, sem, tally, live, held, cached, assigned, queue, sched, executorVars,
                 consumerVars, faults>>

(* The RPC returns on the last output, or because its context is done; the  *)
(* request is counted before the response goes out.                         *)
Respond(c) ==
  /\ server[c].rpc = "open"
  /\ server[c].out # "none" \/ client[c].reply = "timeout"
  /\ server' = [server EXCEPT ![c].rpc = "closed"]
  /\ client' = answered(c, server[c].out)
  /\ metrics' = IncRequest(metrics)
  /\ UNCHANGED <<main, wg, sem, tally, live, held, cached, assigned, queue, sched, executorVars,
                 consumerVars, faults>>

-----------------------------------------------------------------------------
(* The Engine: the batch loop, the executors and the event consumer *)

works(e, isDecode) == SelectSeq(queue[e], LAMBDA c : decodes(c) = isDecode)

(* The round for an executor begins with its decode works: they leave the   *)
(* queue, and those whose request is gone are dropped (CanSchedule).        *)
DequeueDecodes(e) ==
  /\ sched.pc = "idle" /\ queue[e] # << >>
  /\ queue' = [queue EXCEPT ![e] = works(e, FALSE)]
  /\ sched' = [idleLoop EXCEPT !.pc = "decode", !.executor = e,
                               !.todo = SelectSeq(works(e, TRUE), LAMBDA c : c \in live)]
  /\ UNCHANGED <<clientVars, requestVars, cached, assigned, executorVars, consumerVars, faults>>

(* AllocateBlocks for a work that CanSchedule let pass, whether or not its  *)
(* request still exists.                                                    *)
Allocate ==
  LET c == Head(sched.todo)
      e == sched.executor
  IN
  /\ sched.todo # << >>
  /\ held' = held \cup {c}
  /\ metrics' = ObserveBlockStats(metrics, e, heldBy(e, held \cup {c}))
  /\ sched' = [sched EXCEPT !.todo = Tail(@), !.batch = Append(@, c)]
  /\ UNCHANGED <<clientVars, server, live, cached, assigned, queue, executorVars, consumerVars,
                 faults>>

(* As many prefill works are looked at as wait when the decode works are    *)
(* done with.                                                               *)
ScanPrefills ==
  /\ sched.pc = "decode" /\ sched.todo = << >>
  /\ sched' = [sched EXCEPT !.pc = "prefill", !.decodes = Len(sched.batch),
                            !.scan = Len(works(sched.executor, FALSE))]
  /\ UNCHANGED <<clientVars, requestVars, cached, assigned, queue, executorVars, consumerVars,
                 faults>>

scanning == sched.pc = "prefill" /\ sched.todo = << >>
            /\ sched.scan > 0 /\ works(sched.executor, FALSE) # << >>

without(c, e) == [queue EXCEPT ![e] = SelectSeq(@, LAMBDA d : d # c)]

PopPrefill ==
  LET c == Head(works(sched.executor, FALSE)) IN
  /\ scanning
  /\ queue' = without(c, sched.executor)
  /\ sched' = IF c \in live THEN [sched EXCEPT !.todo = <<c>>, !.scan = @ - 1] ELSE sched
  /\ UNCHANGED <<clientVars, requestVars, cached, assigned, executorVars, consumerVars, faults>>

(* CanSchedule meets a request whose Deadline has passed: the first decode  *)
(* work of a round or the next prefill work.                                *)
Expire(e) ==
  LET c == Head(works(e, ~scanning)) IN
  /\ sched.pc = "idle" \/ (scanning /\ e = sched.executor)
  /\ works(e, ~scanning) # << >> /\ c \in live
  /\ fault
  /\ queue' = without(c, e)
  /\ deleteRequest(c, metrics)
  /\ server' = [server EXCEPT ![c].event = "error"]
  /\ UNCHANGED <<clientVars, cached, assigned, sched, executorVars, consumerVars>>

(* The end of patchExecute: nothing was picked, or the batch is submitted.  *)
Submit ==
  /\ sched.pc = "prefill" /\ sched.todo = << >> /\ ~scanning
  /\ IF sched.batch = << >>
     THEN sched' = idleLoop /\ UNCHANGED batchChan
     ELSE /\ sched' = [sched EXCEPT !.pc = "observe"]
          /\ batchChan' = [batchChan EXCEPT ![sched.executor] = Append(@, sched.batch)]
  /\ UNCHANGED <<clientVars, requestVars, cached, assigned, queue, exec, inflightBatches,
                 consumerVars, faults>>

(* observeBatchStatsAndTimeWait, when the batch is already submitted. *)
Observe ==
  /\ sched.pc = "observe"
  /\ metrics' = ObserveBatch(metrics, Len(sched.batch) - sched.decodes, sched.decodes)
  /\ sched' = idleLoop
  /\ UNCHANGED <<clientVars, server, live, held, cached, assigned, queue, executorVars,
                 consumerVars, faults>>

(* consumeExecutor counts the batch and then sets the gauge. *)
TakeBatch(e) ==
  /\ exec[e].pc = "idle" /\ batchChan[e] # << >>
  /\ batchChan' = [batchChan EXCEPT ![e] = Tail(@)]
  /\ inflightBatches' = inflightBatches + 1
  /\ exec' = [exec EXCEPT ![e] = [ pc |-> "taken", batch |-> Head(batchChan[e]),
                                   gauge |-> inflightBatches + 1, ok |-> TRUE ]]
  /\ UNCHANGED <<clientVars, requestVars, cached, assigned, queue, sched, consumerVars, faults>>

(* Mutant: the gauge is not set again when the batch is done. *)
SetGaugeOnce(e) ==
  /\ exec[e].pc \in {"taken", "executed"}
  /\ metrics' = IF exec[e].pc = "taken" THEN SetInflightBatches(metrics, exec[e].gauge) ELSE metrics
  /\ exec' = [exec EXCEPT ![e].pc = IF @ = "taken" THEN "running" ELSE "deliver"]
  /\ UNCHANGED <<clientVars, server, live, held, cached, assigned, queue, sched, batchChan,
                 inflightBatches, consumerVars, faults>>

SetGauge(e) ==
  /\ exec[e].pc \in {"taken", "executed"}
  /\ metrics' = SetInflightBatches(metrics, exec[e].gauge)
  /\ exec' = [exec EXCEPT ![e].pc = IF @ = "taken" THEN "running" ELSE "deliver"]
  /\ UNCHANGED <<clientVars, server, live, held, cached, assigned, queue, sched, batchChan,
                 inflightBatches, consumerVars, faults>>

(* Mutant: a batch that fails is not counted down. *)
ExecuteKeepsFailed(e) ==
  LET n(ok) == IF ok THEN inflightBatches - 1 ELSE inflightBatches IN
  /\ exec[e].pc = "running"
  /\ \E ok \in BOOLEAN :
       /\ IF ok THEN UNCHANGED faults ELSE fault
       /\ exec' = [exec EXCEPT ![e].pc = "executed", ![e].ok = ok, ![e].gauge = n(ok)]
       /\ inflightBatches' = n(ok)
  /\ UNCHANGED <<clientVars, requestVars, cached, assigned, queue, sched, batchChan, consumerVars>>

(* The executor answers, or the call to it fails and with it every work. *)
Execute(e) ==
  /\ exec[e].pc = "running"
  /\ \E ok \in BOOLEAN :
       /\ IF ok THEN UNCHANGED faults ELSE fault
       /\ exec' = [exec EXCEPT ![e].pc = "executed", ![e].ok = ok,
                               ![e].gauge = inflightBatches - 1]
  /\ inflightBatches' = inflightBatches - 1
  /\ UNCHANGED <<clientVars, requestVars, cached, assigned, queue, sched, batchChan, consumerVars>>

Deliver(e) ==
  /\ exec[e].pc = "deliver"
  /\ eventChan' = eventChan \o [i \in DOMAIN exec[e].batch |->
                                  [call |-> exec[e].batch[i], ok |-> exec[e].ok]]
  /\ exec' = [exec EXCEPT ![e] = [pc |-> "idle", batch |-> << >>, gauge |-> 0, ok |-> TRUE]]
  /\ UNCHANGED <<clientVars, requestVars, cached, assigned, queue, sched, batchChan,
                 inflightBatches, cons, panicked, faults>>

(* handleEvent up to the middle of OnEvent: a prefill commits the prompt's  *)
(* full blocks, every work that succeeded generates one token, and a decode *)
(* work ends the request at MaxTokens.  The event is the call's last, with  *)
(* its outcome, or not ("none").  That of a deleted request is dropped.     *)
HandleEvent ==
  LET ev      == Head(eventChan)
      c       == ev.call
      n       == server[c].generated + 1
      outcome == IF ~ev.ok THEN "error"
                 ELSE IF decodes(c) /\ n >= maxTokensOf(c) THEN "ok" ELSE "none"
  IN
  /\ cons = << >> /\ eventChan # << >>
  /\ eventChan' = Tail(eventChan)
  /\ cached' = IF c \in live /\ ev.ok /\ keyOf(c)[2] \in FullBlockPrompts
               THEN cached \cup {<<server[c].executor, keyOf(c)>>} ELSE cached
  /\ IF c \in live
     THEN /\ cons' = <<[pc |-> "publish", call |-> c, outcome |-> outcome]>>
          /\ server' = [server EXCEPT ![c].generated = IF ev.ok THEN n ELSE @]
     ELSE UNCHANGED <<cons, server>>
  /\ UNCHANGED <<clientVars, live, held, metrics, assigned, queue, sched, executorVars, panicked,
                 faults>>

(* The end of OnEvent: the event goes to the request's channel.  Cancel may *)
(* have closed it: then nothing is sent if it was gone when OnEvent looked  *)
(* it up, and the send panics if it was still there.                        *)
Publish ==
  LET c == cons[1].call IN
  /\ cons # << >> /\ cons[1].pc = "publish"
  /\ IF c \in live
     THEN /\ server' = [server EXCEPT ![c].event = cons[1].outcome]
          /\ UNCHANGED panicked
     ELSE /\ panicked' \in BOOLEAN
          /\ UNCHANGED server
  /\ cons' = <<[cons[1] EXCEPT !.pc = IF cons[1].outcome = "none" THEN "enqueue" ELSE "free"]>>
  /\ UNCHANGED <<clientVars, live, held, metrics, cached, assigned, queue, sched, executorVars,
                 eventChan, faults>>

(* The next decode work is enqueued, or the request rejected. *)
EnqueueNext ==
  LET c == cons[1].call
      e == server[c].executor
  IN
  /\ cons # << >> /\ cons[1].pc = "enqueue"
  /\ cons' = << >>
  /\ IF isFull(e, TRUE)
     THEN /\ deleteRequest(c, IncQueueRejected(metrics))
          /\ server' = IF c \in live THEN [server EXCEPT ![c].event = "error"] ELSE server
          /\ UNCHANGED queue
     ELSE /\ queue' = [queue EXCEPT ![e] = Append(@, c)]
          /\ UNCHANGED requestVars
  /\ UNCHANGED <<clientVars, cached, assigned, sched, executorVars, eventChan, panicked, faults>>

(* The end of handleEvent: the blocks of a request that is done are freed,  *)
(* here or in Finish, whichever comes first.                                *)
FreeRequest ==
  LET c == cons[1].call
      e == server[c].executor
  IN
  /\ cons # << >> /\ cons[1].pc = "free"
  /\ cons' = << >>
  /\ held' = held \ {c}
  /\ metrics' = ObserveBlockStats(metrics, e, heldBy(e, held \ {c}))
  /\ UNCHANGED <<clientVars, server, live, cached, assigned, queue, sched, executorVars, eventChan,
                 panicked, faults>>

-----------------------------------------------------------------------------
MainNext ==
  WarmupSend \/ WarmupReturns \/ ScrapeBefore \/ Dispatch \/ ScrapeAfter \/ NextScenario

ClientNext(c) == Record(c) \/ Done(c)

CallNext(c) == Admit(c) \/ Respond(c)

HandlerNext(c) == Emit(c) \/ Finish(c) \/ Cancel(c)

ExecutorNext(e) == TakeBatch(e) \/ SetGauge(e) \/ Execute(e) \/ Deliver(e)

BatchLoopNext ==
  Allocate \/ ScanPrefills \/ PopPrefill \/ Submit \/ Observe
  \/ \E e \in Range(Executors) : DequeueDecodes(e)

ConsumerNext == HandleEvent \/ Publish \/ EnqueueNext \/ FreeRequest

EngineNext ==
  /\ ~panicked
  /\ \/ BatchLoopNext \/ ConsumerNext
     \/ \E c \in Calls : CallNext(c) \/ HandlerNext(c)
     \/ \E e \in Range(Executors) : ExecutorNext(e)

(* What the other side sees of an Engine that has crashed. *)
CrashNext == panicked /\ (ScrapeFails \/ \E c \in Calls : ConnectionLost(c))

(* What goroutines do by themselves, and what clients and time may do. *)
SystemNext == MainNext \/ EngineNext \/ CrashNext \/ \E c \in Calls : ClientNext(c)

Next ==
  \/ SystemNext
  \/ ~panicked /\ \/ ScrapeFails
                  \/ \E c \in Calls : GiveUp(c)
                  \/ \E e \in Range(Executors) : Expire(e)

Spec == Init /\ [][Next]_vars

(* As long as some goroutine can take a step, some goroutine takes one: no  *)
(* goroutine works forever on its own, so nothing is assumed about which.   *)
(* The ticker starts rounds, and a call to an executor returns (its client  *)
(* has a timeout).                                                          *)
FairSpec == Spec /\ WF_vars(SystemNext)

-----------------------------------------------------------------------------
(* Properties *)

TypeOK ==
  /\ main.pc \in {"warmup", "dispatch", "result", "finished", "aborted"}
  /\ main.k \in DOMAIN Scenarios /\ wg \in Nat /\ sem \in 0..scenario.concurrency
  /\ live \subseteq Calls /\ held \subseteq Calls
  /\ inflightBatches \in 0..Len(Executors)
  /\ \A e \in Range(Executors) : queue[e] \in Seq(Calls)
  /\ faults \in 0..MaxFaults

hasResult == main.pc = "result"

(* Only a client that gave up can leave a call behind that the Engine has   *)
(* not counted when the benchmark goes on.                                  *)
noneGaveUp == \A c \in Calls : client[c].reply # "timeout"

(* A result accounts for every request exactly once, whatever failed:       *)
(* wg.Wait returns only after each goroutine has recorded its latency and   *)
(* its outcome and given its place in the semaphore back.                   *)
EveryRequestCounted ==
  hasResult =>
    /\ main.result.success + main.result.failed = scenario.requests
    /\ main.result.latencies = scenario.requests
    /\ sem = 0

(* The difference of the two scrapes counts the measured requests and no    *)
(* others: not the warm-up ones and not those of earlier scenarios; the     *)
(* rejected and failed ones too.                                            *)
ObservedAreMeasured ==
  hasResult /\ noneGaveUp => main.result.metrics.requests = scenario.requests

(* The warm-up does its work: with one executor, every measured request of  *)
(* a shared scenario finds its prefix, however the requests interleave.     *)
WarmUsersHit ==
  hasResult /\ noneGaveUp /\ scenario.cacheUsers > 0 /\ Len(Executors) = 1 =>
    main.result.metrics.misses = 0

(* The reported percentiles are percentiles, whatever the latencies: of up  *)
(* to MaxSamples latencies, in the order in which they were recorded.       *)
PercentilesAreRight ==
  hasResult =>
    \A n \in 1..MaxSamples : \A ds \in [1..n -> 1..MaxLatency] : \A p \in {50, 90, 99} :
      isPercentile(percentileDuration(sortedDurations(ds), p), ds, p)

(* "bench-quick: small deterministic regression profile"                    *)
(* (docs/benchmarks/stage3_en.md:32): the validation of a run in which      *)
(* every request succeeded fails at most for what it expects of the decode  *)
(* items and the gauges, in whatever order the goroutines come to count:    *)
(* requests, hits, misses and rejections are those of the measured calls.   *)
CleanRunNearlyValidates ==
  hasResult /\ main.result.success = scenario.requests =>
    ValidateQuickResult([main.result EXCEPT
      !.metrics = [@ EXCEPT !.decode = scenario.requests * scenario.maxTokens,
                            !.active = 0, !.inflight = 0, !.kvBlocksActive = 0]])

(* The benchmark comes to an end. *)
RunEnds == <>(main.pc \in {"finished", "aborted"})

(* "active requests returned to 0, inflight batches returned to 0, active   *)
(* KV blocks returned to 0" (docs/benchmarks/stage3_en.md:70): once the     *)
(* calls are over, the gauges settle at zero, unless a client gave up.      *)
GaugesSettle ==
  <>[](noneGaveUp =>
         /\ metrics.active = 0 /\ metrics.inflight = 0
         /\ \A e \in Range(Executors) : metrics.kvBlocks[e] = 0)

=============================================================================
