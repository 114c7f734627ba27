----------------------------- MODULE BlockLoops -----------------------------
(***************************************************************************)
(* The loops of internal/block as the code runs them, one block at a time, *)
(* against the closed forms of BlockOps, on the manager states that        *)
(* BlockRegistry's Spec reaches.                                           *)
(***************************************************************************)
EXTENDS BlockRegistry, SequencesExt

CONSTANT ListLength  \* bound: length of the block lists tried

popFreeLoop(m, n) ==
  LET popOne(s, i) ==
        LET b == Head(s.free) IN
        [s EXCEPT !.cachedBlocks  = IF s.cached[b] THEN Without(@, {s.hash[b]}) ELSE @,
                  !.cached[b]     = FALSE,
                  !.hash[b]       = NoHash,
                  !.tokenCount[b] = 0,
                  !.refCount[b]   = 1,
                  !.free          = Tail(@)]
  IN  FoldLeft(popOne, m, [i \in 1..n |-> i])

touchLoop(m, ids) ==
  LET touchOne(s, b) ==
        [s EXCEPT !.refCount[b] = @ + 1,
                  !.free        = IF Contains(@, b) THEN Remove(@, b) ELSE @]
  IN  FoldLeft(touchOne, m, ids)

pushFreeOne(m, b) ==
  CASE m.refCount[b] = 0 -> m
    [] m.refCount[b] = 1 -> [m EXCEPT !.refCount[b] = 0, !.free = Append(@, b)]
    [] OTHER             -> [m EXCEPT !.refCount[b] = @ - 1]

pushFreeLoop(m, ids) == FoldLeft(pushFreeOne, m, ids)

commitLoops(m, a) ==
  LET count(s, i) ==
        [s EXCEPT !.tokenCount[a.blockTable[i]] = tokensAt(s.blockSize, a.tokens, i)]
      index(s, i) ==
        LET b == a.blockTable[i] IN
        IF \/ a.phase # Prefill \/ s.cached[b] \/ s.tokenCount[b] # s.blockSize
           \/ i > Len(a.hashes) \/ a.hashes[i] \in DOMAIN s.cachedBlocks
        THEN s
        ELSE [s EXCEPT !.hash[b] = a.hashes[i], !.cached[b] = TRUE,
                       !.cachedBlocks = Put(@, a.hashes[i], b)]
      positions == [i \in DOMAIN a.blockTable |-> i]
  IN  FoldLeft(index, FoldLeft(count, m, positions), positions)

commitImportedLoop(m, ids, hashes) ==
  LET import(s, i) ==
        LET b == ids[i] IN
        IF hashes[i] \in DOMAIN s.cachedBlocks /\ s.cachedBlocks[hashes[i]] # b
        THEN pushFreeOne(s, b)
        ELSE pushFreeOne([s EXCEPT !.hash[b] = hashes[i], !.cached[b] = TRUE,
                                   !.tokenCount[b] = s.blockSize,
                                   !.cachedBlocks = Put(@, hashes[i], b)], b)
  IN  FoldLeft(import, m, [i \in DOMAIN ids |-> i])

-----------------------------------------------------------------------------
(* Releasing or pinning a list of blocks, repeated blocks included, and     *)
(* allocating several: the closed forms give the loops' result, the order   *)
(* of the free queue included.                                              *)
ListLoopsAgree ==
  \A e \in Executors :
    LET m == mgr[e] IN
    /\ \A ids \in [1..ListLength -> BlockIds(e)] :
         /\ pushFree(m, ids) = pushFreeLoop(m, ids)
         /\ touch(m, ids) = touchLoop(m, ids)
    /\ \A n \in 0..Len(m.free) : allocate(m, n) = popFreeLoop(m, n)

(* Commit's two loops over the block table of a work in flight, and the     *)
(* import loop over any blocks a transfer could have reserved.              *)
CommitLoopsAgree ==
  \A e \in Executors :
    /\ \A w \in DOMAIN mgr[e].pendingAllocations :
         Commit(mgr[e], w) =
           [commitLoops(mgr[e], mgr[e].pendingAllocations[w]) EXCEPT
              !.pendingAllocations = Without(@, {w})]
    /\ \A p \in Prompts : \A n \in 1..(Len(p.tokens) \div BlockSize[e]) :
       LET hs == SubSeq(blockHashes(BlockSize[e], p), 1, n) IN
         \A ids \in [DOMAIN hs -> {b \in BlockIds(e) : mgr[e].refCount[b] = 1 /\ ~mgr[e].cached[b]}] :
           IsInjective(ids) =>
             commitImportedBlocks(mgr[e], ids, hs) = commitImportedLoop(mgr[e], ids, hs)

=============================================================================
