----------------------------- MODULE FreeQueue -----------------------------
(***************************************************************************)
(* What the block manager expects of its free queue: a FIFO queue of       *)
(* distinct blocks, from which a block that becomes referenced again can   *)
(* be withdrawn at any position without disturbing the order of the rest.  *)
(* BlockOps treats the free queue this way; FreeList implements it.        *)
(***************************************************************************)
EXTENDS Integers, Sequences, SequencesExt

CONSTANT N  \* number of blocks

VARIABLES
  queue,  \* the free blocks, the next one to allocate first
  taken   \* the block the last Pop returned, or None

Ids == 0..(N - 1)

None == -1

Init ==
  /\ queue = [i \in 1..N |-> i - 1]
  /\ taken = None

Pop ==
  /\ queue # << >>
  /\ taken' = Head(queue)
  /\ queue' = Tail(queue)

PopEmpty ==
  /\ queue = << >>
  /\ taken' = None
  /\ UNCHANGED queue

Push(b) ==
  /\ \A i \in DOMAIN queue : queue[i] # b
  /\ queue' = Append(queue, b)
  /\ UNCHANGED taken

Withdraw(b) ==
  /\ \E i \in DOMAIN queue : queue[i] = b /\ queue' = RemoveAt(queue, i)
  /\ UNCHANGED taken

Next ==
  \/ Pop
  \/ PopEmpty
  \/ \E b \in Ids : Push(b) \/ Withdraw(b)

Spec == Init /\ [][Next]_<<queue, taken>>

=============================================================================
