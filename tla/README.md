# A TLA+ model of KVTide

KVTide serves a language model. A Go process, the *Engine*, admits requests,
batches their work, owns the metadata of all KV cache blocks and talks to
*executors*, Python processes that hold the KV tensors and run the model. This
directory models the Engine's core, the executor's KV cache, the replication of
cached prefixes between executors and the benchmark that measures the Engine. It
checks them with TLC on small instances and proves the block manager, the
registry, the replication protocol and the Engine's path of a call safe with
TLAPS.

## The system

| component | state | operations |
|---|---|---|
| block manager (`internal/block/block.go`, `queue.go`) | per executor: blocks with RefCount, TokenCount, Hash, Cached; the linked free list; block tables; prefix index; allocations awaiting commit | MatchPrefix, probePrefix, AllocateBlocks, Commit, Rollback, FreeRequest, and the four steps of a transfer |
| block registry (`internal/block/registry.go`) | the managers, the pending transfers, transferMu | the above by executor; PrepareTransfer, CommitTransfer, RollbackTransfer |
| request state manager (`internal/state`) | requests, one event channel each | Create, Subscribe, CanSchedule, OnEvent, Cancel, Fail, Finish |
| scheduler (`internal/scheduler`) | decode, small and large prefill queue per executor | Enqueue; a goroutine that assembles and submits batches; a goroutine that consumes events |
| executor manager (`internal/executor`) | a batch channel per executor, one event channel | Submit; a goroutine per executor that sends batches and delivers events |
| handler and RPC (`internal/handler`, `internal/transport`) | a goroutine and an output channel per call | GenerateStream, Generate |
| executor (`executor/`) | paged KV cache with validity of each slot, runtime epoch | execute_batch, release_blocks, trigger_kv_push, push_kv |
| placement coordinator (`internal/placement`) | none | Replicate: prepare, trigger the push, commit or roll back |
| metrics (`internal/metrics`) | counters and gauges | one update per observation; a scrape |
| benchmark (`cmd/bench`, `cmd/client`) | semaphore, WaitGroup, latencies and outcomes of a scenario | warm-up, scrape, dispatch, record, scrape, validate |

How they interact. A call registers its request (Create matches the cached
prefix and takes references to its blocks), subscribes to its events and
enqueues a prefill work. The batch loop dequeues works, asks the state manager
whether each may still run, allocates blocks and submits a batch. The executor
writes KV and returns one result per work. The event goroutine commits or rolls
back the allocation, advances the request, publishes the event to the call's
channel and enqueues the follow-up work. The call's goroutine forwards events
and finishes or cancels the request, which frees its blocks.

A replication pins blocks at the source, reserves blocks at the destination and
asks the source executor to push; the source copies the blocks under its cache
lock and sends them to the destination, which imports them under its own. The
Engine commits when it hears of it and rolls back otherwise; in both cases the
source blocks are unpinned in a further step. The benchmark warms the cache up,
scrapes the metrics, keeps a bounded number of Generate calls running, waits for
them, scrapes again and evaluates the difference.

What is hard. The state manager, each queue and each block manager have a mutex
of their own and no operation spans two of them, so a cancellation, a deadline or
a late result may fall between any two steps. Channels of bounded capacity couple
the goroutines: a reader that stops blocks the event goroutine, which blocks the
executor. Blocks are held while waiting for more blocks, without preemption. A
batch may fail after part of its KV was written. Transfers take two managers'
mutexes in turn. A push, its answer or the answer to the Engine may be lost or
come too late, and neither a cancelled request nor an aborted transfer calls back
what is on its way to an executor, where a batch whose HTTP call has timed out
may still arrive, after later ones too. Metrics are updated by other goroutines
than the one whose response ends a call. `PROJECT.json` lists each hazard at its
line with the properties that would show it going wrong.

## The modules

| module | models |
|---|---|
| `BlockOps` | the block manager's operations as functions on its state; no variables |
| `FreeQueue` | what the block manager expects of its free queue: FIFO, with withdrawal |
| `FreeList`, `FreeListProofs` | the doubly linked list that implements it, and the proofs |
| `BlockRegistry`, `MCBlockRegistry` | one manager per executor under concurrent requests and transfers |
| `BlockRegistryProofs` | lemmas about the operations of `BlockOps`; the registry's two inductive invariants, `Inv` (proved inductive) and `Held`; the counting of references |
| `RegistryTheorems` | every action keeps `Held`; the theorems that follow |
| `BlockLoops` | the loops of the code against BlockOps' closed forms |
| `WorkOps` | work items, their cost and chunking, events, and how an event advances a request |
| `Engine`, `MCEngine` | the whole path of a call on one executor: handler, state manager, queues, batch loop, executor manager, KV cache, event loop |
| `EngineProofs` | its inductive invariant `Serving`, and the steps of executor, event loop and handlers that keep it |
| `EngineInvariants` | the steps of the batch loop; the theorems about works, types and the closing of channels |
| `EngineTheorems` | allocations, the refinement of `BlockRegistry`, reference counts, streams |
| `KVOps` | the executor's paged KV cache as a function: where a position lies, release, gather, write |
| `Transaction` | what a replication promises its caller |
| `Replication`, `MCReplication` | coordinator, BlockRegistry's transfers, push protocol and KV caches composed, with requests running |
| `CacheProofs` | the composition keeps the registry's protocol, its types, and the safety part of `Transaction`; the inductive invariant `CacheFollows` of caches, queues, calls and index |
| `CacheTheorems` | every step keeps `CacheFollows` as long as no batch strays; the theorems about KV |
| `BenchOps` | the benchmark's scenarios and evaluation, the metrics |
| `Bench`, `MCBench` | the benchmark's goroutines against the Engine's unary request path, up to the metrics |

`BlockOps` writes a loop over a list of blocks (releasing, touching, allocating,
indexing) in closed form, so that proofs need no induction over the list. Each
operation is atomic because the code runs it under the manager's mutex. SHA-256
prefix hashes are taken to be collision free: a hash is the salted token prefix
itself.

`BlockRegistry` has two specifications. In `Spec` callers allocate between
MatchPrefix and FreeRequest, one work at a time. In `OpenSpec` a request may be
freed while a caller still holds work of it and allocates later with the block
ids its match once returned, which the scheduler can do after a cancellation.

`Engine` takes one step per piece of code between two lock or channel
operations. `sched`, `exec`, `cons` and `handler[c]` are the program counters
and locals of the goroutines. `kv[b][s]` is what a slot of the executor's cache
holds, as the text whose KV it is; a computation that read another text's KV
writes `Corrupt`. The decode and prefill mutexes appear (`locked`) where the
code holds them across a channel send. `trySchedule`, which a handler and the
consumer call after they have put a work in a queue, is a step of its own: it
takes the mutex of every queue to read its length (`lengthsReadable`), and only
then does a handler start to read its events. Its signal to the batch loop, like
the ticker, needs no state, because rounds may start at any time. A panic stops the
process (`panicked`). Nondeterminism: whether a sampled token ends the text,
whether a batch fails and how much of it had run, when deadlines pass, when a
client leaves. Where a batch is refused for a block table that is too short, the
executor clears no block; the model also allows that it does.

`Replication` extends BlockRegistry and KVOps and adds what lies between the
registry's operations; each of its actions that touches the registry conjoins one
action of BlockRegistry, and its own initial predicate, next-state relation and
specification are `ReplicationInit`, `ReplicationNext`, `ReplicationSpec`.
`batches[e]` are the batches submitted to an executor and not yet answered: the
one that consumeExecutor has sent, and those in its channel. When the HTTP
client's timeout passes (`TimeOut`), the batch moves to `late[e]` and
consumeExecutor sends the next one. The executor orders batches by their arrival
at its lock and tells an old one from a new one only by the epoch, so a late
batch may run before or behind any other, and more than once (`RunLate`).
`awaited` is FALSE once the request has ended or the timeout has passed, of which
neither the channel nor the executor learns. `rpc[t]` is the call of a transfer,
first at the source, then as a push with its payload, then answered; any of these
may be lost or stay in place for as long as it likes. A handler of the executor
is one step because it holds `_cache_lock`. A restart gives a new epoch and an
empty cache; the Engine never reads the epoch again, so such an executor refuses
everything from then on. An import succeeds, fails and is undone, or fails in a
way that cannot be undone. The server constructs no Coordinator, so Replicate may
be called at any time with any prefix of a prompt.

The code has no fence against batches that nobody awaits, so no invariant about
the caches holds of it without a proviso: `replication_orphan` shows what may
happen without a timed-out call. The history variable `strayed` records the one
step that does the harm. It becomes TRUE when a batch that nobody awaits clears
or overwrites a slot that something relied on (`KeepsReliedSlots`): of an indexed
block, of a position that a live request counts as written, of an import that
waits for its commit. A late batch in free blocks, or in blocks that have just
been given to another request or reserved for a transfer, is no stray. The
invariants say that nothing else spoils the KV, and that what is spoilt is spoilt
in that very step.

`Bench` reduces the Engine to what metrics show of it: a request is one prefill
work and then decode works, a prompt fits in a batch, a cached prefix is not
evicted, a text lasts for MaxTokens (in the quick profile the mock's text does).
`held` are the requests with references to blocks; the block gauge counts these
instead of blocks, and only whether it is zero is used. A scrape is one step.
Asking CanSchedule, allocating and submitting are separate steps of the batch
loop, and looking a channel up and sending to it are separate steps of the event
loop. The calls in `MayGiveUp` are those whose client may give up, once they are
admitted: then blocks can stay with a request that is gone, and a send can meet a
closed channel, which ends the Engine (`panicked`) and fails every call. No send
waits, because a text is shorter than the channels' capacity of 5 (`OutputCap`,
assumption `ShortTexts`); with a longer one and a client that is gone the handler
could wait at `internal/handler/inference.go:101` for ever. `parseBenchMetrics`
keeps two traits of the parser: the labelled counters of allocation failures and
evictions match none of its cases and read zero, and of the executors' block
gauges the last one read wins.

Definitions whose comment begins with "Mutant" are seeded faults for the
mutation runs and used by nothing else.

## The runs

| run | instance | shows |
|---|---|---|
| registry | 2 executors with 2 blocks of 2 tokens, 2 requests, 1 prompt of 5 tokens, 1 transfer, lists of 3 blocks in the comparison with the loops | reference counts are ownership, pinned and reserved blocks included; tables hold their own prefix; written blocks are exclusive; probe agrees with match; index sound; transfer blocks held; eviction only when unreferenced; a committed transfer is reusable; closed forms = loops, order included |
| free_list | 5 blocks | the links are coherent and implement FreeQueue |
| engine_serving | 2 calls with a common prefix, 3 blocks of 2, all queues and channels of length 1, batches of 2 | no work lost or doubled; allocations settled; reference counts are active requests; index and tensors agree; submitted works read their own KV; streams in order; no send on a closed channel |
| engine_cancel | 2 calls, 2 blocks, one client may leave | no work lost or doubled; what either client receives is in order, although a batch that both share may fail for both |
| engine_live | 2 calls, 1 block of 2 tokens, fairness | unless the batch loop and a handler wait for each other, every call ends and all blocks come back |
| engine_stall | as engine_live | a disagreement, see below: they may wait for each other |
| engine_late_result, engine_lost_allocation, engine_prefill_stop | as engine_serving, with one thing allowed: a leaving client, an early end of text | disagreements, see below |
| replication | 2 executors of 1 and 2 blocks, 1 request that may run again and again, 1 transfer, 1 restart, 1 late batch, fairness of the callers | until a batch strays, indexed blocks hold their prefix's KV and an awaited batch that is accepted reads its own KV; the calls implement `Transaction`; no block stays held for a transfer |
| replication_orphan | 2 requests, no restart, no late batch | a disagreement, see below |
| bench | cache_hit, 1 warm-up and 2 measured requests, concurrency 2, queues of 1, 1 fault, one client may give up | every request counted once; the run ends, an Engine that panics included; the scrapes enclose the measured requests; all hit; a clean run passes its validation but for decode items and gauges; percentiles are percentiles; unless a client gave up, the gauges return to zero |

The bounds. Two requests suffice for sharing, racing and duplicate commits of a
prefix; the pools are chosen so that both cannot have all they want, so
allocation fails, cached blocks are evicted and freed blocks are reused. Prompts
end within a block and at its end, and matches are of none, one and two blocks.
Queues and channels of capacity 1 make every full and every blocking case
happen; the code has 5 and 100, where the same happens later. LongPrefillThreshold
lies between the two prompts, so one call goes through the small and one through
the large queue, in chunks. Two tokens per call give one prefill token and one
decode step, and both ways to end. CHECK_DEADLOCK is off for Engine: when all
calls are over, the Engine idles, and for Bench: the benchmark ends.

In `replication` one block at the source makes the request compete with the
transfer for it, two at the destination leave room for a transfer and a request
but not for two blocks of both. One request is enough to leave batches behind,
because it may end and be admitted again while its old batch is on its way. With
`BatchCap` 1 and `MaxLate` 1 an executor faces a batch of the request's present
life and one of any earlier life, in either order and the late one repeatedly;
what more of them do, the theorems cover. One restart is enough because the epoch
never matches again. The constraint of that run (`NotStrayed`) ends behaviours
where a batch has strayed. Nothing is lost by it: `strayed` is never reset and
the invariants about KV speak only of states without; and a stray changes nothing
but the contents of blocks, of which a transfer reads only whether they are
there, so that a push is refused or not, which may happen anyway. `Transaction`'s
safety is proved without the constraint. In `bench` the queue of one makes
rejections happen, two concurrent requests make two batches or one of two, and
the one fault is an executor error, a passed deadline, a failed scrape or a
client that gives up. What such a client leaves behind may stay in the gauges
(`engine_lost_allocation`) or end the Engine (`engine_late_result`), so the
properties about counts and gauges except it. The other scenarios differ in
prompts and counts only. The semaphore never fills with two requests; a third
takes the liveness check beyond reach. The percentiles are compared with their
definition for all sequences of up to 3 latencies of 2 values.

Fairness. `FairSpec` assumes weak fairness of each goroutine (the Go scheduler
runs every runnable goroutine, and each of them only loops), of each client's
reading, and of time passing towards each Deadline, which ProtoMsgToModel always
sets. Two formulas state it: one for the batch loop, which can go round for ever,
and one for all the others, whose steps are finitely many. It does not assume
that batches succeed, or that blocks become free: a call that waits for blocks
forever ends by its Deadline, and `CallsEndUnlessStalled` fails without the
deadline check (its mutant). `stalled` is the one situation in which that check
itself waits for ever (`engine_stall`): the batch loop announces a timeout with a
queue's mutex held, and the call's handler, which would make room in the channel,
is in trySchedule. A client that neither reads nor cancels is outside the
assumption: the code then stalls.

`Replication`'s `FairSpec` assumes only that the goroutine of a Replicate call
goes on: its locks are free in the end, and the HTTP client's timeout bounds its
wait. Nothing is assumed of executors and network. `Bench`'s assumes only that
some goroutine takes a step as long as one can (`SystemNext`), a call to an
executor included, which returns if only by its timeout: no goroutine can work
forever on its own. Faults are not in it, so none is assumed to happen.

## Disagreements found

* `engine_late_result`: OnEvent looks up a channel under the mutex and sends
  after releasing it. A client that leaves in between closes it, and the send
  panics.
* `engine_lost_allocation`: a work that passed CanSchedule is given blocks after
  its request was cancelled. Its event is dropped, so its allocation is neither
  committed nor rolled back and its blocks never come back.
* `engine_prefill_stop`: when the first sampled token ends the text, handleEvent
  frees the blocks but OnEvent has made a decode work. If that work was dequeued
  before, AllocateBlocks restores the request's table from the prefix match
  without taking references, and blocks of a table are in the free queue
  (`TablesAreReferenced`).
* `engine_stall`: CanSchedule sends the timeout event to the call's channel while
  its caller holds the mutex of the queue it looks through. The handler that
  reads the channel is started only after Enqueue has returned, and Enqueue's
  trySchedule takes that mutex. With the channel full by then, each waits for
  the other: no call is scheduled any more and no Deadline checked.
* `replication_orphan`: a request ends while its batch is on its way, its block is
  reserved by a transfer, filled and committed, and the batch then clears and
  overwrites it. The prefix index offers KV that is not there. A batch that the HTTP
  client gave up does the same without any transfer, when it arrives after its
  block was given to another request, written and indexed.

With no client leaving and no text ending in prefill, `engine_serving` shows the
first two properties to hold, and that reference counts are active requests;
theorems prove all three for every instance. For `MaxTokens` 1 the code generates
two tokens; `StreamInOrder` is checked with 2 and proved for every larger number.

Seen while modelling, without a run. pickSmallPrefill charges the cost of the
item Peek saw to the item Pop returns, so a batch may exceed maxBatchTokens
(docs/summary/stage2_en.md:105). The Engine never calls ReleaseBlocks, so freed
blocks keep valid slots and a transfer that reserves one is refused.
ValidateQuickResult expects one decode item per token, but the first token comes
from the prefill: a quick run in which all is well has 700 decode items where 800
are expected. It counts them when a batch is submitted already, and reads gauges
that the Engine sets after the response is on its way, so that even with the
right number it could fail; `CleanRunNearlyValidates` says that nothing else can.
consumeExecutor counts a batch and publishes the count in two steps: with several
executors, each with its own goroutine, the inflight gauge may show the older
count until the next batch. With several executors also, cache_hit depends on the
order in which requests arrive at the round robin. The mock runner forgets a
request's position only when its text ends, so a benchmark repeated with the same
ids goes on where it stopped.

## What is proved

`FreeListProofs`, for every number of blocks (assumption: at least one):

* `FreeListCoherent`: `Spec => []Coherent`. The inductive invariant is `TypeOK`
  together with the four parts of `Coherent`: the ends and the count are those
  of the history variable `queue`, each block's links are its neighbours in
  it, its blocks are distinct, and the flags mark exactly its blocks. None is
  inductive alone: removing a block from the middle keeps the links only because
  no block is twice in the queue, and appending keeps it distinct only because
  of the flags. One lemma per action, one step per part.
* `FreeListImplementsQueue`: `Spec => Abstract!Spec`, the refinement of
  `FreeQueue` (`INSTANCE ... WITH`). Each operation of the list
  is an operation of the FIFO queue, `popFree` fails only when the queue is
  empty. So the branch of `allocate` that gives blocks back because popFree fails
  half-way is dead code, and BlockOps may treat the free list as a sequence.

The first part of `BlockRegistryProofs`, for every list of block ids, one that
names a block twice included: touch, allocate and pushFree keep the free queue
sound (`TouchSound`, `AllocateSound`, `PushFreeSound`). The closed forms count
positions; `rank`, the number of chosen positions up to one, is a bijection onto
1..n, which shows that `Pick` takes each position once and that exactly one
occurrence of a block in a list takes its count to zero.

The rest of it, for all executors, pool and block sizes, requests, works,
transfers and prompts (assumptions: at least one executor and one prompt,
positive sizes), in `OpenSpec`, hence in `Spec` (`SpecIsOpen`); TLC runs `Spec`
only:

* `RegistryTypes`: `OpenSpec => []TypeOK`. A block id is only ever used with the
  executor it belongs to.
* `RegistryFreeQueueSound`: `OpenSpec => []FreeQueueSound`. However late or
  often callers free, commit and roll back, a block is queued exactly when its
  RefCount is 0. The counts may then be wrong about who uses a block
  (`engine_prefill_stop`), the queue and the counts never disagree.

  The inductive invariant `Inv` is `TypeOK`, `FreeQueueSound` and `PlanLengths`: a
  pending transfer has one destination block per hash, without which
  CommitTransfer could index a block under a hash that does not exist. One lemma
  per operation of a manager (`Good` in, `Good` out), one per action.

`RegistryTheorems`, under the same assumptions, in `Spec`:

* `RegistryRefCounts` (RefCount is the number of places of a block in tables and
  plans), `RegistryIndex`, `RegistryTables`, `RegistryWrites`,
  `RegistryTransfers`, `RegistryProbe`: the six invariants of the run `registry`
  about who owns a block and what the index says of it.
* `RegistryEviction` and `RegistryReuse`: its two action properties, that a
  prefix leaves an index only when its block has no reference, and that a
  committed transfer leaves every block of its prefix at the destination.

  None of these is inductive. `Held` is, together with `Inv`:

  | part of `Held` | without it |
  |---|---|
  | `ManagersSound`: index and block metadata agree, an uncached block has at most one reference | Commit could index a block that a second table also holds and writes |
  | `Ownership`: RefCount is the number of references from tables and plans | a pushFree could take another owner's reference |
  | `TablesOfLive`: only live requests have a table | a request admitted again would find the table of its former self |
  | `TablesSound`: the cached blocks of a table are those of its own prompt, in place and all computed | a work could write to a block that others read |
  | `AllocationsSound`: an allocation is the end of the table of a live request | Rollback could cut off somebody else's blocks |
  | `PlansSound`: a plan's sources are cached under its hashes, its destination blocks uncached | a prefix could be evicted while it is pushed, or indexed twice |

  A reference is a pair of an owner and a position, so the count is a
  cardinality: `BlockRegistryProofs` shows how touch, allocate and pushFree move
  it with the list they are given, repeated blocks included. `RequestStepHeld`
  and `TransferStepHeld` say once what a step on behalf
  of one request or transfer must leave alone; one lemma per action supplies the
  rest. `RegistryHeld` is the invariant itself.
* `FreeListTypes` (in `FreeListProofs`): the type invariant of the free list.

`CacheProofs`, with no assumption on the new constants:

* `ReplicationKeepsProtocol`: `ReplicationSpec => Spec`. Every step of scheduler,
  executors, coordinator and network is a step of the registry or leaves it
  alone, so all theorems above hold of the composition.
* `ReplicationTypes`: the type invariant; a push names blocks of its destination,
  however late it arrives.
* `ReplicationTransaction`: `ReplicationSpec => Transactions!Safety`, the
  refinement of `Transaction` without its fairness. It needs `CallOrder`: nothing
  is sent before the destination is reserved, and what is committed was imported.

`CacheTheorems`, likewise:

* `IndexedKV`: `ReplicationSpec => []OnlyStraysSpoilIndex`. As long as no batch
  has strayed, an executor that has not restarted holds the KV of every prefix in
  its index: however batches and pushes are delayed, lost, reordered or repeated,
  transfers aborted and imports failed.
* `AcceptedKV`: `ReplicationSpec => []OnlyStraysSpoilReads`. Under the same
  proviso, an awaited batch that its executor accepts reads its own KV.

  Both follow from `CachesFollow`, `ReplicationSpec => [](strayed \/ CacheFollows)`,
  by the invariant `CacheFollows` (`CacheProofs`), on top of `Inv`, `Held` and
  the types. Three parts of it say what the slots hold that the Engine relies on:
  of a block in an index (`IndexesHeld`), at the computed positions of a live
  request (`ComputedHeld`), in the blocks of a confirmed and not yet committed
  transfer (`ImportsHeld`); together these are the slots that `KeepsReliedSlots`
  names. The others make them inductive. `Awaiting`: an awaited
  batch is that of its request's one allocation, so by `Held` the blocks it
  writes belong to that request alone. `BatchesSound` and `LateSound`: a batch,
  late ones included, clears and writes beyond what it reads, in a table without
  repetition. `Covered`: tables reach as far as what is computed and allocated,
  so positions lie in blocks. `CallsSound` and `SizesAgree`: while its caller
  waits, a call is about the blocks of its plan and carries the KV of its hashes.
  `ResultsOfLive` and `CachesShaped` are bookkeeping.

  Besides a restart, a cache changes in three ways. An awaited batch writes
  blocks that only its own request has (`PrivateKept`). An import writes blocks
  that are empty, so it leaves every filled slot as it is (`FilledKept`). A batch
  that nobody awaits may write anything, and here the proviso is used: if the
  step does not make `strayed` TRUE, every slot relied on is as it was
  (`ReliedKept`). That is why the order and the number of late batches do not
  matter.

  An *Effect* lemma per action of the registry, and one for a batch that runs,
  says what it leaves to the caches. A step of a request changes no cache
  (`EngineRequest`), a step of an executor nothing in the Engine (`ExecutorStep`), a
  step of a transfer one plan and one call (`EngineTransfer`, `CallStep`); a lemma
  per action (`...Follows`) supplies the rest. `CacheFollows` was model-checked on
  the instance of `replication` before it was proved.

`EngineInvariants` (and `EngineProofs`, its first part), for all calls, ids,
prompts, lengths, pool and queue sizes, batch limits and channel capacities. The
one hypothesis is `DistinctIds`: no two calls carry the same request id. Create
refuses an id only while its request exists, so a client that reuses one could
meet a work or event of its former request (a hazard of `PROJECT.json`, at
`scheduler.go:188`).

* `EngineServing`: `Spec => []Serving`, the invariant below.
* `EngineOneWork`: `Spec => []OneWorkPerRequest`. A running request has exactly
  one work or event on its way, no request ever has two; with clients that leave
  at any time, deadlines, failures, refusals and full queues.
* `EngineTypes`: `Spec => []TypeOK`. Its bounds on queues and buffers need
  `QueuesBounded` (the works in a queue and those in the batch loop's hands that
  may be put back are at most the capacity and one batch) and `BuffersBounded`.

  `Serving` draws up a list: `Lines` gives, for each place where a work or the
  event of a work can be (a handler's hands, three queues, the batch loop's hands,
  its batch, each submitted batch, the executor, the event channel, the consumer's
  hands), the requests whose items are there, in order.

  | part of `Serving` | without it |
  |---|---|
  | `Typed`: every local, queue, channel and block table has its type | the others have no meaning |
  | `Shapes`: what each goroutine's locals look like at each program counter | a step could overwrite a work in hand |
  | `RequestsSound`, `TicketsSound`: progress fits the phase, a work or event continues its request where it stands | an event could advance a request twice, or past its prompt |
  | `OneTicket`: no request occurs twice in `Lines` | a result would meet a request that another work has advanced |
  | `Attended`: a running request occurs in `Lines` | a request would wait for its Deadline with nothing to run |

  A step moves one ticket, adds one, drops one, moves a whole batch, or leaves all
  where they are: `MoveStep`, `DropStep`, `TicketStep` and their kin say once what
  is left to show, one lemma per action shows it. `BatchFlow` adds what a step of
  the batch loop does to each queue, for all that comes later.

* `EngineNoSendOnClosed`: `Spec => []NoSendOnClosed`, with the second hypothesis
  `Undisturbed`: no client leaves and no text ends with its prefill. Both are
  needed, as `engine_late_result` and `engine_prefill_stop` show; deadlines,
  failed batches and full queues are all allowed.

  `Closing` orders the end of a request. `TicketLives`: a work or event on its
  way is of a request that exists. `CallsClosing`: a handler is told of the end
  only when its request is over, and a channel is closed only when its request is
  gone. `ConsClosing`: the request whose event is being published exists, and
  nobody has been told of its end. `NobodyLeft` and `PrefillGoesOn` are the
  hypotheses as facts about states, and the last part is the property.

`EngineTheorems`, with `DistinctIds` and `Undisturbed`:

* `EngineAllocations`: `Spec => []AllocationsSettled`. The invariant `Allocated`
  also says the converse, that every work on its way to the executor and every
  event on its way back has its own pending allocation, of the number of tokens
  that its event will make of the request. Without that, Commit could mark blocks
  as computed that are not.
* `EngineImplementsRegistry`: `Spec => R!Spec`, where `R` is the registry with one
  executor, no transfers and the Engine's manager. A request is live in the
  registry from Create until its blocks are freed, and its computed tokens are
  those whose allocation is committed (`registryRequest`): the Engine commits in
  one step and advances the request in a later one, under another mutex, and in
  between the registry is already ahead. Each step of the Engine is a step of the
  registry or leaves it alone, so what `RegistryTheorems` proves of any protocol
  of allocate, commit and free holds of the scheduler's: that the scheduler is
  such a protocol is what the theorem says. It fails without `Undisturbed`.
* `EngineRefCounts`: `Spec => []RefCountIsActiveRequests`, from the registry's
  count of references (`R!Held`) and the refinement: `Orderly` conjoins `Serving`,
  `Closing`, `Allocated`, `Advancing` (an event that does not say done leaves its
  request running, and a running request has tokens left) and the registry's
  invariants at the mapped state.
* `EngineStreams`: `Spec => []StreamInOrder`, with the further hypothesis
  `SecondToken` (`MaxTokens` at least 2 for every call, because of the
  disagreement above). The invariant `Streaming` follows a text through the consumer, the
  channel, the handler and the client. For each call, what is taken, what waits
  in the channel and what is published but not yet sent add up to the tokens
  its request has generated (`BufferInOrder`); the consumer publishes the next
  token (`PublishedIsNext`); the handler's outputs are numbered on from what the
  client has read, and nothing follows done (`HandlerInOrder`).

`Serving`, `Closing`, `Allocated`, `Advancing` and `Streaming` were checked by TLC
on the instance of `engine_serving`, which satisfies all three hypotheses, with
the quantifiers over all works and events bounded by those that exist.

Only model-checked, and why:

* everything under fairness: `CallsEndUnlessStalled`, `BlocksComeBack`,
  `TransferBlocksReturned`, `RunEnds`, `GaugesSettle`, and the fairness part of
  `Transaction`; the provers have no rule for it;
* `BlockLoops`: that loops and closed forms agree is an induction over lists;
* `CachedBlocksHoldPrefix` and `SubmittedReadsOwnKV` of `Engine`: the executor
  runs a batch as a fold over its works, so what it leaves in the cache is an
  induction over data. `CacheTheorems` proves their counterparts for
  `Replication`, where a batch is one request's;
* `OneWorkPerRequest` and `StreamInOrder` with a client that leaves
  (`engine_cancel`): of these the first is proved, the second only without;
* the invariants of `Bench`, for which there is no proof yet.

## Not modelled

Tokenizing, HTTP, CORS, the admin API, configuration, start-up, dashboard, web
site and generated protocol code: they keep no state that serving depends on.
Metrics that the validation does not read. `queue_lock_free.go`, which nothing
calls; the mock runner, which keeps no KV. AssignExecutor's round robin is in
`Bench` only, because `Engine` has one executor. In `Engine` an RPC that times out
while the executor still works on the batch is a batch that has run by the time
it fails; `Replication` has those that run later, in any order.

## Plan

1. Done: block manager, free list, registry with transfers, Engine on one
   executor, replication between executors, benchmark and metrics.
2. Done: proofs about BlockRegistry in `Spec`, about the composition with the
   coordinator and the push protocol, and about the KV caches as long as no batch
   strays.
3. Done: proofs about Engine: its types, works, allocations, references, streams
   and the closing of its channels.
4. Proofs about Bench: `EveryRequestCounted`, with an invariant that gives the
   WaitGroup and the semaphore as numbers of clients in a state.
5. `StreamInOrder` for clients that leave. The index and the cache of `Engine`,
   with the batch run one work per step so that no fold is left.
6. A run with a client that neither reads nor leaves.
