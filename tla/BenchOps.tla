------------------------------ MODULE BenchOps ------------------------------
(***************************************************************************)
(* The benchmark's data (cmd/bench): the scenarios of a profile, the       *)
(* requests they make, the Engine's metrics (internal/metrics) as a scrape *)
(* of the Engine returns them, and the evaluation of a run.  A user id is  *)
(* a tuple and a prompt one of a few names.  Of the metrics, those that    *)
(* ValidateQuickResult reads are kept; histograms of durations are not.    *)
(***************************************************************************)
EXTENDS Integers, Sequences, FiniteSets, TLC

CONSTANTS
  WarmUsers,            \* CacheUsers of cache_hit (10 in the code)
  PressureConcurrency,  \* cap of block_pressure (32 in the code)
  PressureRequests      \* its requests in the report profile (320 in the code)

(* The smaller of two numbers, Go's min. *)
least(a, b) == IF a <= b THEN a ELSE b

ScenariosForProfile(profile) ==
  LET scenario(name, shared, prompts) ==
        [ name |-> name, requests |-> profile.requests, concurrency |-> profile.concurrency,
          maxTokens |-> profile.maxTokens, shared |-> shared, cacheUsers |-> 0,
          prompts |-> prompts ]
  IN  << scenario("cache_miss", FALSE, <<"bench">>),
         [scenario("cache_hit", TRUE, <<"bench">>) EXCEPT !.cacheUsers = WarmUsers],
         scenario("mixed_prompt", FALSE, <<"short", "medium", "bench">>),
         [scenario("block_pressure", FALSE, <<"pressure">>) EXCEPT
            !.concurrency = least(@, PressureConcurrency),
            !.requests    = IF profile.name = "report" THEN PressureRequests ELSE @] >>

promptFor(s, index) == s.prompts[(index % Len(s.prompts)) + 1]

(* Mutant: the index is not taken modulo the number of cache users. *)
userIdUnwrapped(s, index) ==
  IF s.shared THEN <<"shared-prefix", index>> ELSE <<s.name, index>>

userId(s, index) ==
  IF s.shared THEN <<"shared-prefix", index % (IF s.cacheUsers > 1 THEN s.cacheUsers ELSE 1)>>
  ELSE <<s.name, index>>

(* What the prefix cache can share: the prompt under the user's salt. *)
cacheKey(s, index) == <<userId(s, index), promptFor(s, index)>>

-----------------------------------------------------------------------------
(* The Engine's metrics.  kvBlocks has one series per executor. *)

newMetrics(executors) ==
  [ requests |-> 0, rejected |-> 0, hits |-> 0, misses |-> 0, prefill |-> 0, decode |-> 0,
    active |-> 0, inflight |-> 0, kvBlocks |-> [e \in executors |-> 0] ]

IncRequest(m) == [m EXCEPT !.requests = @ + 1]

IncQueueRejected(m) == [m EXCEPT !.rejected = @ + 1]

IncPrefixCacheRequests(m, hit) ==
  IF hit THEN [m EXCEPT !.hits = @ + 1] ELSE [m EXCEPT !.misses = @ + 1]

ObserveBatch(m, prefillItems, decodeItems) ==
  [m EXCEPT !.prefill = @ + prefillItems, !.decode = @ + decodeItems]

SetActiveRequests(m, n) == [m EXCEPT !.active = n]

SetInflightBatches(m, n) == [m EXCEPT !.inflight = n]

ObserveBlockStats(m, e, active) == [m EXCEPT !.kvBlocks[e] = active]

(* A scrape sums the series of a counter over its labels, but of the block  *)
(* gauges it keeps the last executor's, and the allocation failures, which  *)
(* carry an executor label, match none of its cases.                        *)
parseBenchMetrics(m, lastExecutor) ==
  [ requests |-> m.requests, rejected |-> m.rejected, hits |-> m.hits, misses |-> m.misses,
    prefill |-> m.prefill, decode |-> m.decode, active |-> m.active, inflight |-> m.inflight,
    kvBlocksActive |-> m.kvBlocks[lastExecutor], allocationFailures |-> 0 ]

(* A counter that went down was reset by a restart of the Engine. *)
counterDelta(before, after) == IF after < before THEN after ELSE after - before

Gauges == {"active", "inflight", "kvBlocksActive"}

(* Mutant: cache hits and misses are not made relative to the first scrape. *)
deltaBenchMetricsAbsolute(before, after) ==
  [f \in DOMAIN after |-> IF f \in Gauges \cup {"hits", "misses"} THEN after[f]
                         ELSE counterDelta(before[f], after[f])]

deltaBenchMetrics(before, after) ==
  [f \in DOMAIN after |-> IF f \in Gauges THEN after[f] ELSE counterDelta(before[f], after[f])]

-----------------------------------------------------------------------------
(* The evaluation of a run *)

(* Mutant: the rank is used as an index from zero. *)
percentileDurationOffByOne(ds, p) ==
  IF ds = << >> THEN 0 ELSE ds[least((p * Len(ds) + 99) \div 100 + 1, Len(ds))]

(* ds is sorted, and 0 < p < 100. *)
percentileDuration(ds, p) ==
  IF ds = << >> THEN 0 ELSE ds[least((p * Len(ds) + 99) \div 100, Len(ds))]

sortedDurations(ds) == SortSeq(ds, LAMBDA a, b : a < b)

(* What a percentile is: the least duration within which p percent of the   *)
(* requests were answered.                                                  *)
isPercentile(d, ds, p) ==
  LET within(x) == Cardinality({i \in DOMAIN ds : ds[i] <= x})
  IN  /\ \E i \in DOMAIN ds : ds[i] = d
      /\ 100 * within(d) >= p * Len(ds)
      /\ \A i \in DOMAIN ds : ds[i] < d => 100 * within(ds[i]) < p * Len(ds)

ValidateQuickResult(r) ==
  LET s == r.scenario
      m == r.metrics
  IN  /\ r.success = s.requests /\ r.failed = 0
      /\ m.requests = s.requests
      /\ m.decode = s.requests * s.maxTokens
      /\ s.name # "cache_hit" => m.prefill > 0
      /\ m.hits = (IF s.name = "cache_hit" THEN s.requests ELSE 0)
      /\ m.misses = (IF s.name = "cache_hit" THEN 0 ELSE s.requests)
      /\ m.rejected = 0 /\ m.active = 0 /\ m.inflight = 0 /\ m.kvBlocksActive = 0
      /\ s.name # "block_pressure" => m.allocationFailures = 0

=============================================================================
