------------------------------ MODULE WorkOps ------------------------------
(***************************************************************************)
(* Work items, requests and events of the Engine, and the pure functions   *)
(* on them: what a work costs, how a prefill is chunked, what event an     *)
(* executed work gives, and how an event advances its request              *)
(* (internal/scheduler/budget.go, internal/executor/executor.go,           *)
(* internal/state/state_machine.go).                                       *)
(*                                                                         *)
(* A prompt is [salt, tokens].  Token values beyond the prompt are not     *)
(* modelled: the n-th generated token is the number n.                     *)
(***************************************************************************)
EXTENDS BlockOps

(* A request is in one of nine RequestPhases; the code only ever asks       *)
(* whether the phase is terminal.                                           *)
Running == "running"
Finished == "finished"
Failed == "failed"

(* One prefill or decode step of a request.  call: the GenerateStream call  *)
(* that created the request, which fixes its prompt.  A work id is fresh;   *)
(* here it is the call and the number of tokens before the work.            *)
prefillItem(call, id, cache, offset, total) ==
  [ id |-> <<call, offset>>, call |-> call, request |-> id, phase |-> Prefill,
    cache |-> cache, offset |-> offset, new |-> total - offset, total |-> total,
    generated |-> 0 ]

decodeItem(call, id, cache, total, generated) ==
  [ id |-> <<call, total - 1>>, call |-> call, request |-> id, phase |-> Decode,
    cache |-> cache, offset |-> 0, new |-> 1, total |-> total,
    generated |-> generated ]

WorkBudgetCost(work) == IF work.phase = Prefill THEN work.new ELSE 1

(* The chunk of a prefill that is scheduled now; the rest is dropped, and   *)
(* OnEvent makes a new item of it.                                          *)
splitPrefillChunk(work, tokens) == [work EXCEPT !.new = Min({tokens, work.new})]

(* KV tokens that must have a block once the work is done. *)
requiredKVTokens(work) ==
  IF work.phase = Prefill THEN work.offset + work.new ELSE work.total

(* BatchToExecute: the positions before the ones the work computes. *)
computedTokens(work) == requiredKVTokens(work) - work.new

(* Whether the executor samples a token after the work. *)
sample(work) == work.phase = Decode \/ work.offset + work.new >= work.total

(* What AllocateBlocks reads of a work item. *)
blockWork(work, hashes) ==
  [ id |-> work.id, request |-> work.request, phase |-> work.phase,
    tokens |-> requiredKVTokens(work), cache |-> work.cache, hashes |-> hashes ]

-----------------------------------------------------------------------------
nextPhase(work) ==
  IF work.phase = Decode THEN "decodeChunk"
  ELSE IF work.offset + work.new >= work.total THEN "prefillFinished" ELSE "prefillChunk"

(* The event of an executed work; done: the sampled token ends the text.    *)
executedEvent(work, done) ==
  [ work |-> work.id, request |-> work.request, type |-> nextPhase(work), done |-> done,
    input  |-> IF work.phase = Prefill THEN work.new ELSE 0,
    output |-> IF sample(work) THEN 1 ELSE 0,
    token  |-> work.generated + 1 ]

(* The event of a work whose batch failed (batchFailedEvents). *)
failedEvent(work) ==
  [ work |-> work.id, request |-> work.request, type |-> "requestFailed", done |-> TRUE,
    input |-> 0, output |-> 0, token |-> 0 ]

(* The event that Fail and a timeout send: it belongs to no work. *)
requestFailedEvent(call, id) ==
  [ work |-> <<call, 0>>, request |-> id, type |-> "requestFailed", done |-> TRUE,
    input |-> 0, output |-> 0, token |-> 0 ]

-----------------------------------------------------------------------------
(* Mutant: one token too many. *)
passedMax(q, e, maxTokens) == q.generated + e.output > maxTokens

reachedMax(q, e, maxTokens) == q.generated + e.output >= maxTokens

(* OnEvent: the request after event e, the event as it is published, and    *)
(* the follow-up work items (none or one).  q: [call, phase, computed,      *)
(* generated, cache].                                                       *)
advanced(q, e, promptTokens, maxTokens) ==
  CASE e.type = "prefillChunk" ->
         [q EXCEPT !.computed = @ + e.input]
    [] e.type = "prefillFinished" ->
         [q EXCEPT !.computed  = Min({@ + e.input, promptTokens}),
                   !.generated = @ + e.output]
    [] e.type = "decodeChunk" ->
         [q EXCEPT !.generated = @ + e.output,
                   !.phase     = IF e.done \/ reachedMax(q, e, maxTokens)
                                 THEN Finished ELSE Running]
    [] e.type = "requestFailed" ->
         [q EXCEPT !.phase = Failed]

published(q, e, maxTokens) ==
  [e EXCEPT !.done = @ \/ (e.type = "decodeChunk" /\ reachedMax(q, e, maxTokens))]

followUp(q, e, promptTokens, maxTokens) ==
  LET r == advanced(q, e, promptTokens, maxTokens) IN
  CASE e.type = "prefillChunk" ->
         <<prefillItem(r.call, e.request, r.cache, r.computed, promptTokens)>>
    [] e.type = "prefillFinished" \/ (e.type = "decodeChunk" /\ r.phase = Running) ->
         <<decodeItem(r.call, e.request, r.cache, promptTokens + r.generated, r.generated)>>
    [] OTHER -> << >>

=============================================================================
