------------------------------- MODULE KVOps -------------------------------
(***************************************************************************)
(* The paged KV cache of an executor (executor/runtime/kv_cache.py) as a   *)
(* function cache[b][s]: what slot s of block b holds, Empty when its      *)
(* valid flag is down.  A value stands for the keys and values of all      *)
(* layers at one position of a text.                                       *)
(***************************************************************************)
EXTENDS BlockOps

Empty == << >>

(* KV computed from another text's KV is that of no text at all. *)
Corrupt == <<"corrupt">>

emptyBlock(blockSize) == [s \in 1..blockSize |-> Empty]

emptyCache(blockSize, numBlocks) == [b \in 0..(numBlocks - 1) |-> emptyBlock(blockSize)]

(* The KV of position p (from 1) of a prompt. *)
prefixKV(prompt, p) == <<prompt.salt>> \o SubSeq(prompt.tokens, 1, p)

(* Where a block table puts position p. *)
blockAt(blockSize, table, p) == table[((p - 1) \div blockSize) + 1]

slotAt(blockSize, p) == ((p - 1) % blockSize) + 1

slot(blockSize, cache, table, p) == cache[blockAt(blockSize, table, p)][slotAt(blockSize, p)]

release(cache, ids) ==
  [b \in DOMAIN cache |-> IF b \in ids THEN [s \in DOMAIN cache[b] |-> Empty] ELSE cache[b]]

(* gather of the first n positions succeeds: all of them were written. *)
gatherable(blockSize, cache, table, n) ==
  \A p \in 1..n : slot(blockSize, cache, table, p) # Empty

(* value[p] is written for each position p in its domain. *)
write(blockSize, cache, table, value) ==
  LET at(b, s) == {p \in DOMAIN value : blockAt(blockSize, table, p) = b /\ slotAt(blockSize, p) = s}
  IN  [b \in DOMAIN cache |-> [s \in 1..blockSize |->
         IF at(b, s) = {} THEN cache[b][s] ELSE value[Max(at(b, s))]]]

=============================================================================
