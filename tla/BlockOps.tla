------------------------------ MODULE BlockOps ------------------------------
(***************************************************************************)
(* The operations of one block manager (internal/block/block.go, queue.go) *)
(* as functions from the manager's state to its next state.  The Go code   *)
(* runs each of them under the manager's mutex, so each is one step.       *)
(*                                                                         *)
(* A manager state m is a record:                                          *)
(*   blockSize           tokens per block                                  *)
(*   refCount, tokenCount, hash, cached     one entry per block            *)
(*   free                the free queue, head first: the sequence that the *)
(*                       links PrevFree/NextFree represent (FreeList.tla)  *)
(*   requestBlocks       map: request -> its block table                   *)
(*   cachedBlocks        map: prefix hash -> block                         *)
(*   pendingAllocations  map: work -> allocation awaiting commit           *)
(*                                                                         *)
(* A loop of the code over a list of blocks is written in closed form, so  *)
(* that the proofs need no induction over the list; BlockLoops compares    *)
(* the closed forms with the loops.                                        *)
(***************************************************************************)
EXTENDS Integers, Sequences, FiniteSets, FiniteSetsExt, Functions

Prefill == "prefill"
Decode == "decode"

(* The Hash "" of a block that holds no cached prefix. *)
NoHash == << >>

-----------------------------------------------------------------------------
(* Go maps are functions on the set of the keys present. *)

EmptyMap == [k \in {} |-> k]

Put(f, k, v) == [x \in DOMAIN f \cup {k} |-> IF x = k THEN v ELSE f[x]]

Without(f, K) == Restrict(f, DOMAIN f \ K)

(* Reading an absent key of a map of lists gives the empty list. *)
Lookup(f, k) == IF k \in DOMAIN f THEN f[k] ELSE << >>

(* The subsequence of s at the positions K, in order. *)
Nth(K, k) == CHOOSE i \in K : Cardinality({j \in K : j <= i}) = k

Pick(s, K) == [k \in 1..Cardinality(K) |-> s[Nth(K, k)]]

Count(s, x) == Cardinality({i \in DOMAIN s : s[i] = x})

-----------------------------------------------------------------------------
(* Mutant: block ids count from 1. *)
newManagerFromOne(blockSize, numBlocks) ==
  LET blocks == 0..(numBlocks - 1) IN
  [ blockSize          |-> blockSize,
    refCount           |-> [b \in blocks |-> 0],
    tokenCount         |-> [b \in blocks |-> 0],
    hash               |-> [b \in blocks |-> NoHash],
    cached             |-> [b \in blocks |-> FALSE],
    free               |-> [i \in 1..numBlocks |-> i],
    requestBlocks      |-> EmptyMap,
    cachedBlocks       |-> EmptyMap,
    pendingAllocations |-> EmptyMap ]

newManager(blockSize, numBlocks) ==
  LET blocks == 0..(numBlocks - 1) IN
  [ blockSize          |-> blockSize,
    refCount           |-> [b \in blocks |-> 0],
    tokenCount         |-> [b \in blocks |-> 0],
    hash               |-> [b \in blocks |-> NoHash],
    cached             |-> [b \in blocks |-> FALSE],
    free               |-> [i \in 1..numBlocks |-> i - 1],
    requestBlocks      |-> EmptyMap,
    cachedBlocks       |-> EmptyMap,
    pendingAllocations |-> EmptyMap ]

Blocks(m) == DOMAIN m.refCount

(* The cache identity of each full block of a prompt.  SHA-256 over the     *)
(* chain is taken to be collision free, so a hash is the salted prefix.     *)
blockHashes(blockSize, prompt) ==
  [i \in 1..(Len(prompt.tokens) \div blockSize) |->
     <<prompt.salt>> \o SubSeq(prompt.tokens, 1, i * blockSize)]

(* The hashes a request may reuse: those before its final logical block. *)
matchableBlockHashes(blockSize, prompt) ==
  LET total   == blockHashes(blockSize, prompt)
      maximum == IF prompt.tokens = << >> THEN 0
                 ELSE (Len(prompt.tokens) - 1) \div blockSize
  IN  SubSeq(total, 1, Min({Len(total), maximum}))

ceilDiv(v, divisor) == (v + divisor - 1) \div divisor

-----------------------------------------------------------------------------
(* Allocation pops the head of the free queue; a popped block loses the     *)
(* prefix it cached.                                                        *)
canAllocate(m, n) == n <= Len(m.free)

popped(m, n) == SubSeq(m.free, 1, n)

(* Mutant: popFree leaves the entry of the prefix the block cached. *)
allocateKeepsIndex(m, n) ==
  LET ids == Range(popped(m, n)) IN
  [m EXCEPT
     !.refCount   = [b \in Blocks(m) |-> IF b \in ids THEN 1 ELSE m.refCount[b]],
     !.tokenCount = [b \in Blocks(m) |-> IF b \in ids THEN 0 ELSE m.tokenCount[b]],
     !.hash       = [b \in Blocks(m) |-> IF b \in ids THEN NoHash ELSE m.hash[b]],
     !.cached     = [b \in Blocks(m) |-> b \notin ids /\ m.cached[b]],
     !.free       = SubSeq(m.free, n + 1, Len(m.free))]

allocate(m, n) ==
  LET ids == Range(popped(m, n)) IN
  [m EXCEPT
     !.refCount     = [b \in Blocks(m) |-> IF b \in ids THEN 1 ELSE m.refCount[b]],
     !.tokenCount   = [b \in Blocks(m) |-> IF b \in ids THEN 0 ELSE m.tokenCount[b]],
     !.hash         = [b \in Blocks(m) |-> IF b \in ids THEN NoHash ELSE m.hash[b]],
     !.cached       = [b \in Blocks(m) |-> b \notin ids /\ m.cached[b]],
     !.cachedBlocks = Without(m.cachedBlocks, {m.hash[b] : b \in {c \in ids : m.cached[c]}}),
     !.free         = SubSeq(m.free, n + 1, Len(m.free))]

(* Mutant: touch does not take the block out of the free queue. *)
touchStaysFree(m, ids) ==
  [m EXCEPT !.refCount = [b \in Blocks(m) |-> m.refCount[b] + Count(ids, b)]]

(* touch takes a reference to each of ids, leaving the free queue. *)
touch(m, ids) ==
  [m EXCEPT
     !.refCount = [b \in Blocks(m) |-> m.refCount[b] + Count(ids, b)],
     !.free     = Pick(m.free, {i \in DOMAIN m.free : m.free[i] \notin Range(ids)})]

(* pushFree on each of ids in turn: the occurrence that takes the count to  *)
(* zero appends the block to the free queue; later ones do nothing.         *)
lastReference(m, ids) ==
  {i \in DOMAIN ids :
     m.refCount[ids[i]] = Cardinality({j \in 1..i : ids[j] = ids[i]})}

(* Mutant: pushFree frees a block that others still reference. *)
pushFreeShared(m, ids) ==
  [m EXCEPT
     !.refCount = [b \in Blocks(m) |-> IF Count(ids, b) > 0 THEN 0 ELSE m.refCount[b]],
     !.free     = m.free \o Pick(ids, {i \in DOMAIN ids :
                                          /\ m.refCount[ids[i]] > 0
                                          /\ \A j \in 1..(i - 1) : ids[j] # ids[i]})]

pushFree(m, ids) ==
  [m EXCEPT
     !.refCount = [b \in Blocks(m) |->
                     IF Count(ids, b) >= m.refCount[b] THEN 0
                     ELSE m.refCount[b] - Count(ids, b)],
     !.free     = m.free \o Pick(ids, lastReference(m, ids))]

-----------------------------------------------------------------------------
(* The number of leading hashes present in cachedBlocks. *)
hitLength(m, hashes) ==
  Max({n \in 0..Len(hashes) : \A i \in 1..n : hashes[i] \in DOMAIN m.cachedBlocks})

matchedBlocks(m, prompt) ==
  LET hashes == matchableBlockHashes(m.blockSize, prompt)
  IN  [i \in 1..hitLength(m, hashes) |-> m.cachedBlocks[hashes[i]]]

MatchPrefix(m, request, prompt) ==
  LET ids == matchedBlocks(m, prompt)
  IN  [touch(m, ids) EXCEPT !.requestBlocks = Put(m.requestBlocks, request, ids)]

(* A cached block whose metadata agrees with the index entry. *)
transferable(m, hash) ==
  /\ hash \in DOMAIN m.cachedBlocks
  /\ LET b == m.cachedBlocks[hash]
     IN  m.cached[b] /\ m.hash[b] = hash /\ m.tokenCount[b] = m.blockSize

(* The number of blocks probePrefix reports; it reads and changes nothing. *)
probePrefix(m, prompt) ==
  LET hashes == matchableBlockHashes(m.blockSize, prompt)
  IN  Max({n \in 0..Len(hashes) : \A i \in 1..n : transferable(m, hashes[i])})

(* A work item carries the request's PrefixMatch: its cached block ids as   *)
(* of MatchPrefix (cache) and all its block hashes.  tokens is what         *)
(* requiredKVTokens gives: KV tokens once the work is done.                 *)
existingBlocks(m, work) ==
  IF work.request \in DOMAIN m.requestBlocks
  THEN m.requestBlocks[work.request] ELSE work.cache

requiredBlocks(m, work) ==
  LET total == ceilDiv(work.tokens, m.blockSize)
      have  == Len(existingBlocks(m, work))
  IN  IF total > have THEN total - have ELSE 0

(* The map entry that AllocateBlocks restores from the work item, also when *)
(* the allocation then fails.                                               *)
restoreTable(m, work) ==
  IF work.request \notin DOMAIN m.requestBlocks /\ work.cache # << >>
  THEN [m EXCEPT !.requestBlocks = Put(m.requestBlocks, work.request, work.cache)]
  ELSE m

newAllocation(m, work) ==
  LET ids == popped(m, requiredBlocks(m, work)) IN
  [ request    |-> work.request,
    phase      |-> work.phase,
    blockTable |-> existingBlocks(m, work) \o ids,
    hashes     |-> work.hashes,
    allocated  |-> ids,
    tokens     |-> work.tokens ]

AllocateBlocks(m, work) ==
  LET a == newAllocation(m, work) IN
  IF canAllocate(m, requiredBlocks(m, work))
  THEN [allocate(m, requiredBlocks(m, work)) EXCEPT
          !.requestBlocks      = Put(m.requestBlocks, work.request, a.blockTable),
          !.pendingAllocations = Put(m.pendingAllocations, work.id, a)]
  ELSE restoreTable(m, work)

(* Tokens of the idx-th block (from 1) when a request holds that many. *)
tokensAt(blockSize, tokens, idx) ==
  LET start == (idx - 1) * blockSize
  IN  IF tokens <= start THEN 0 ELSE Min({blockSize, tokens - start})

committedTokens(m, a) ==
  [b \in Blocks(m) |->
     LET at == {i \in DOMAIN a.blockTable : a.blockTable[i] = b}
     IN  IF at = {} THEN m.tokenCount[b] ELSE tokensAt(m.blockSize, a.tokens, Max(at))]

(* Mutant: Commit indexes blocks that are not full. *)
eligiblePartial(m, a) ==
  {i \in DOMAIN a.blockTable :
     /\ a.phase = Prefill
     /\ ~m.cached[a.blockTable[i]]
     /\ i <= Len(a.hashes)
     /\ a.hashes[i] \notin DOMAIN m.cachedBlocks}

(* The positions of a's table whose block Commit indexes in the prefix      *)
(* cache: the first eligible one of each block.                             *)
eligible(m, a) ==
  {i \in DOMAIN a.blockTable :
     /\ a.phase = Prefill
     /\ ~m.cached[a.blockTable[i]]
     /\ committedTokens(m, a)[a.blockTable[i]] = m.blockSize
     /\ i <= Len(a.hashes)
     /\ a.hashes[i] \notin DOMAIN m.cachedBlocks}

newlyCached(m, a) ==
  {i \in eligible(m, a) :
     \A j \in eligible(m, a) : a.blockTable[j] = a.blockTable[i] => i <= j}

(* Index the blocks ids[i], i \in K, under hashes[i]. *)
indexBlocks(m, ids, hashes, K) ==
  [m EXCEPT
     !.hash         = [b \in Blocks(m) |->
                         IF \E i \in K : ids[i] = b
                         THEN hashes[CHOOSE i \in K : ids[i] = b] ELSE m.hash[b]],
     !.cached       = [b \in Blocks(m) |-> m.cached[b] \/ \E i \in K : ids[i] = b],
     !.cachedBlocks = [h \in DOMAIN m.cachedBlocks \cup {hashes[i] : i \in K} |->
                         IF \E i \in K : hashes[i] = h
                         THEN ids[CHOOSE i \in K : hashes[i] = h] ELSE m.cachedBlocks[h]]]

Commit(m, work) ==
  IF work \notin DOMAIN m.pendingAllocations THEN m ELSE
  LET a == m.pendingAllocations[work]
      indexed == indexBlocks(m, a.blockTable, a.hashes, newlyCached(m, a))
  IN  [indexed EXCEPT !.tokenCount         = committedTokens(m, a),
                      !.pendingAllocations = Without(m.pendingAllocations, {work})]

(* Rollback cuts the work's blocks off the end of the request's table. *)
truncated(table, n) ==
  IF Len(table) >= n THEN SubSeq(table, 1, Len(table) - n) ELSE table

Rollback(m, work) ==
  IF work \notin DOMAIN m.pendingAllocations THEN m ELSE
  LET a     == m.pendingAllocations[work]
      table == truncated(Lookup(m.requestBlocks, a.request), Len(a.allocated))
  IN  [pushFree(m, a.allocated) EXCEPT
         !.requestBlocks      = IF table = << >> THEN Without(m.requestBlocks, {a.request})
                                ELSE Put(m.requestBlocks, a.request, table),
         !.pendingAllocations = Without(m.pendingAllocations, {work})]

worksOf(m, request) ==
  {w \in DOMAIN m.pendingAllocations : m.pendingAllocations[w].request = request}

FreeRequest(m, request) ==
  [pushFree(m, Lookup(m.requestBlocks, request)) EXCEPT
     !.requestBlocks      = Without(m.requestBlocks, {request}),
     !.pendingAllocations = Without(m.pendingAllocations, worksOf(m, request))]

-----------------------------------------------------------------------------
(* The four steps of a prefix transfer between two managers. *)

canPin(m, hashes) == \A i \in DOMAIN hashes : transferable(m, hashes[i])

pinnedBlocks(m, hashes) == [i \in DOMAIN hashes |-> m.cachedBlocks[hashes[i]]]

(* Mutant: the source blocks are looked up and not pinned. *)
pinCachedBlocksUnpinned(m, hashes) == m

pinCachedBlocks(m, hashes) == touch(m, pinnedBlocks(m, hashes))

reserveTransferBlocks(m, n) == IF canAllocate(m, n) THEN allocate(m, n) ELSE m

releaseTransferBlocks(m, ids) == pushFree(m, ids)

canCommitImported(m, ids) ==
  \A i \in DOMAIN ids : ids[i] \notin Range(m.free) /\ m.refCount[ids[i]] > 0

(* The imported blocks that enter the cache: those whose prefix is not      *)
(* already cached, here or by an earlier block of the same import.          *)
installed(m, ids, hashes) ==
  {i \in DOMAIN ids :
     /\ hashes[i] \in DOMAIN m.cachedBlocks => m.cachedBlocks[hashes[i]] = ids[i]
     /\ \A j \in 1..(i - 1) : hashes[j] # hashes[i]}

(* Mutant: an imported block's TokenCount is not set. *)
commitImportedUncounted(m, ids, hashes) ==
  pushFree(indexBlocks(m, ids, hashes, installed(m, ids, hashes)), ids)

commitImportedBlocks(m, ids, hashes) ==
  LET K == installed(m, ids, hashes) IN
  pushFree([indexBlocks(m, ids, hashes, K) EXCEPT
              !.tokenCount = [b \in Blocks(m) |->
                                IF \E i \in K : ids[i] = b THEN m.blockSize
                                ELSE m.tokenCount[b]]],
           ids)

=============================================================================
