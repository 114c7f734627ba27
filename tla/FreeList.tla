------------------------------ MODULE FreeList ------------------------------
(***************************************************************************)
(* The free queue as the code keeps it (internal/block/queue.go and        *)
(* removeFreeBlock): a doubly linked list threaded through the blocks by   *)
(* PrevFree and NextFree, with freeHead, freeTail and freeCount.           *)
(*                                                                         *)
(* queue is a history variable: the list of blocks as FreeQueue would hold *)
(* it, never read by an action.  Coherent says that the links spell it.    *)
(***************************************************************************)
EXTENDS Integers, Sequences, SequencesExt

CONSTANT N  \* number of blocks

ASSUME NAssumption == N \in Nat \ {0}

VARIABLES
  freeHead, freeTail, freeCount,    \* fields of manager
  prevFree, nextFree, inFreeQueue,  \* fields of each block
  taken,                            \* result of the last popFree, or None
  queue                             \* history

vars == <<freeHead, freeTail, freeCount, prevFree, nextFree, inFreeQueue, taken, queue>>

Ids == 0..(N - 1)

None == -1

(* newManager links all blocks in order. *)
Init ==
  /\ freeHead = 0
  /\ freeTail = N - 1
  /\ freeCount = N
  /\ prevFree = [b \in Ids |-> b - 1]
  /\ nextFree = [b \in Ids |-> IF b = N - 1 THEN None ELSE b + 1]
  /\ inFreeQueue = [b \in Ids |-> TRUE]
  /\ taken = None
  /\ queue = [i \in 1..N |-> i - 1]

(* Mutant: popFree does not count the block as gone. *)
popFreeUncounted ==
  LET next == nextFree[freeHead] IN
  /\ freeHead >= 0 /\ freeCount # 0
  /\ taken' = freeHead
  /\ freeHead' = next
  /\ freeTail' = IF next >= 0 THEN freeTail ELSE None
  /\ prevFree' = [b \in Ids |-> IF b = next \/ b = freeHead THEN None ELSE prevFree[b]]
  /\ nextFree' = [nextFree EXCEPT ![freeHead] = None]
  /\ inFreeQueue' = [inFreeQueue EXCEPT ![freeHead] = FALSE]
  /\ queue' = Tail(queue)
  /\ UNCHANGED freeCount

(* popFree takes the head. *)
popFree ==
  LET next == nextFree[freeHead] IN
  /\ freeHead >= 0 /\ freeCount # 0
  /\ taken' = freeHead
  /\ freeHead' = next
  /\ freeTail' = IF next >= 0 THEN freeTail ELSE None
  /\ prevFree' = [b \in Ids |-> IF b = next \/ b = freeHead THEN None ELSE prevFree[b]]
  /\ nextFree' = [nextFree EXCEPT ![freeHead] = None]
  /\ inFreeQueue' = [inFreeQueue EXCEPT ![freeHead] = FALSE]
  /\ freeCount' = freeCount - 1
  /\ queue' = Tail(queue)

popFreeFails ==
  /\ freeHead < 0 \/ freeCount = 0
  /\ taken' = None
  /\ UNCHANGED <<freeHead, freeTail, freeCount, prevFree, nextFree, inFreeQueue, queue>>

(* pushFree calls appendFreeBlock when the last reference goes, so for a    *)
(* block that is not in the queue.                                          *)
appendFreeBlock(id) ==
  /\ ~inFreeQueue[id]
  /\ inFreeQueue' = [inFreeQueue EXCEPT ![id] = TRUE]
  /\ prevFree' = [prevFree EXCEPT ![id] = freeTail]
  /\ nextFree' = [b \in Ids |-> IF b = id THEN None
                                ELSE IF b = freeTail THEN id ELSE nextFree[b]]
  /\ freeHead' = IF freeTail >= 0 THEN freeHead ELSE id
  /\ freeTail' = id
  /\ freeCount' = freeCount + 1
  /\ queue' = Append(queue, id)
  /\ UNCHANGED taken

(* Mutant: removing the first or the last block leaves the list's ends. *)
removeFreeBlockKeepsEnds(id) ==
  LET prev == prevFree[id]
      next == nextFree[id]
  IN
  /\ inFreeQueue[id]
  /\ nextFree' = [b \in Ids |-> IF b = id THEN None
                                ELSE IF b = prev THEN next ELSE nextFree[b]]
  /\ prevFree' = [b \in Ids |-> IF b = id THEN None
                                ELSE IF b = next THEN prev ELSE prevFree[b]]
  /\ inFreeQueue' = [inFreeQueue EXCEPT ![id] = FALSE]
  /\ freeCount' = freeCount - 1
  /\ queue' = RemoveAt(queue, CHOOSE i \in DOMAIN queue : queue[i] = id)
  /\ UNCHANGED <<freeHead, freeTail, taken>>

(* touch withdraws a cached block that is matched again. *)
removeFreeBlock(id) ==
  LET prev == prevFree[id]
      next == nextFree[id]
  IN
  /\ inFreeQueue[id]
  /\ nextFree' = [b \in Ids |-> IF b = id THEN None
                                ELSE IF b = prev THEN next ELSE nextFree[b]]
  /\ prevFree' = [b \in Ids |-> IF b = id THEN None
                                ELSE IF b = next THEN prev ELSE prevFree[b]]
  /\ freeHead' = IF prev >= 0 THEN freeHead ELSE next
  /\ freeTail' = IF next >= 0 THEN freeTail ELSE prev
  /\ inFreeQueue' = [inFreeQueue EXCEPT ![id] = FALSE]
  /\ freeCount' = freeCount - 1
  /\ queue' = RemoveAt(queue, CHOOSE i \in DOMAIN queue : queue[i] = id)
  /\ UNCHANGED taken

Next ==
  \/ popFree
  \/ popFreeFails
  \/ \E id \in Ids : appendFreeBlock(id) \/ removeFreeBlock(id)

Spec == Init /\ [][Next]_vars

-----------------------------------------------------------------------------
TypeOK ==
  /\ freeHead \in Ids \cup {None} /\ freeTail \in Ids \cup {None}
  /\ freeCount \in 0..N
  /\ prevFree \in [Ids -> Ids \cup {None}] /\ nextFree \in [Ids -> Ids \cup {None}]
  /\ inFreeQueue \in [Ids -> BOOLEAN]
  /\ taken \in Ids \cup {None}
  /\ queue \in Seq(Ids)

(* The neighbours of position i of the queue, None beyond its ends. *)
at(i) == IF i \in DOMAIN queue THEN queue[i] ELSE None

Ends == freeHead = at(1) /\ freeTail = at(Len(queue)) /\ freeCount = Len(queue)

Links == \A i \in DOMAIN queue : /\ prevFree[queue[i]] = at(i - 1)
                                 /\ nextFree[queue[i]] = at(i + 1)

Distinct == \A i, j \in DOMAIN queue : queue[i] = queue[j] => i = j

Flags == \A b \in Ids : inFreeQueue[b] <=> \E i \in DOMAIN queue : queue[i] = b

(* The links, the ends, the count and the InFreeQueue flags all spell the   *)
(* same queue of distinct blocks, in both directions: no block is lost from *)
(* the list, linked twice, or reachable although it is in use.              *)
Coherent == Ends /\ Links /\ Distinct /\ Flags

(* The linked list implements the FIFO queue: popFree returns its head and  *)
(* fails only when the queue is empty.                                      *)
Abstract == INSTANCE FreeQueue WITH N <- N, queue <- queue, taken <- taken

ImplementsFreeQueue == Abstract!Spec

=============================================================================
