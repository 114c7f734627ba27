------------------------ MODULE BlockRegistryProofs -------------------------
(***************************************************************************)
(* Two inductive invariants of the block registry, for all executors, pool *)
(* sizes, block sizes, requests, works, transfers and prompts.             *)
(*                                                                         *)
(* Inv, with callers that are late (OpenSpec): the registry stays well     *)
(* typed and each manager's free queue holds exactly its unreferenced      *)
(* blocks.  FreeQueueSound is inductive together with TypeOK and the       *)
(* length of a pending plan's block list (PlanLengths).                    *)
(*                                                                         *)
(* Held, with callers that keep the protocol (Spec): who owns the blocks,  *)
(* stated here with what it takes to count references and to follow them   *)
(* through the operations of one manager; RegistryTheorems shows that  *)
(* every step keeps it.  The safety properties are not inductive by        *)
(* themselves.  That a pushFree never takes a reference that was not there *)
(* needs the count to be exact; that an indexed block is in the right      *)
(* place needs the tables' positions; that Commit indexes only blocks of   *)
(* one owner needs uncached blocks to be unshared; and that a late call    *)
(* finds nothing to undo needs every allocation to be the end of a live    *)
(* request's table.  Held says all of it at once.                          *)
(***************************************************************************)
EXTENDS BlockRegistry, FiniteSetTheorems, SequenceTheorems, TLAPS

-----------------------------------------------------------------------------
(***************************************************************************)
(* What the operations of one block manager do to the free queue and the   *)
(* reference counts, for every number of blocks and every list of ids, a   *)
(* list that names a block twice included.                                 *)
(***************************************************************************)

(* Positions of a sequence, counted. *)

(* Positions of a sequence are finitely many naturals. *)
LEMMA PositionsFinite ==
  ASSUME NEW n \in Nat, NEW K \in SUBSET (1..n)
  PROVE  K \in SUBSET Nat /\ IsFiniteSet(K)
  <1>1. IsFiniteSet(1..n)
    BY FS_Interval
  <1>2. IsFiniteSet(K)
    BY <1>1, FS_Subset
  <1>3. 1..n \subseteq Nat
    OBVIOUS
  <1> QED
    BY <1>2, <1>3

(* rank(K, i): how many elements of K are at most i. *)
rank(K, i) == Cardinality({j \in K : j <= i})

(* The rank numbers the elements of a finite set of naturals from 1 up, in  *)
(* their order.                                                             *)
LEMMA RankInjection ==
  ASSUME NEW K \in SUBSET Nat, IsFiniteSet(K)
  PROVE  /\ \A i \in K : rank(K, i) \in 1..Cardinality(K)
         /\ \A i, j \in K : i < j => rank(K, i) < rank(K, j)
         /\ \A i, j \in K : rank(K, i) = rank(K, j) => i = j
  <1> DEFINE below(i) == {j \in K : j <= i}
  <1>1. \A i \in K : /\ below(i) \in SUBSET K /\ i \in below(i)
    OBVIOUS
  <1>2. \A i \in K : /\ IsFiniteSet(below(i)) /\ Cardinality(below(i)) <= Cardinality(K)
                     /\ Cardinality(below(i)) \in Nat
    BY <1>1, FS_Subset, FS_CardinalityType
  <1>3. \A i \in K : Cardinality(below(i)) # 0
    BY <1>1, <1>2, FS_EmptySet
  <1>4. \A i, j \in K : i < j => below(i) \in SUBSET below(j) /\ below(i) # below(j)
    <2> SUFFICES ASSUME NEW i \in K, NEW j \in K, i < j
                 PROVE  below(i) \in SUBSET below(j) /\ below(i) # below(j)
      OBVIOUS
    <2>1. i \in Nat /\ j \in Nat
      OBVIOUS
    <2>2. j \in below(j) /\ j \notin below(i)
      BY <2>1
    <2>3. \A k \in below(i) : k \in below(j)
      BY <2>1
    <2> QED
      BY <2>2, <2>3
  <1>5. \A i \in K : rank(K, i) = Cardinality(below(i))
    BY DEF rank
  <1>6. Cardinality(K) \in Nat
    BY FS_CardinalityType
  <1> HIDE DEF below
  <1>7. \A i, j \in K : i < j => Cardinality(below(i)) < Cardinality(below(j))
    <2> SUFFICES ASSUME NEW i \in K, NEW j \in K, i < j
                 PROVE  Cardinality(below(i)) < Cardinality(below(j))
      OBVIOUS
    <2>1. Cardinality(below(i)) <= Cardinality(below(j)) /\ Cardinality(below(i)) # Cardinality(below(j))
      BY <1>2, <1>4, FS_Subset
    <2> QED
      BY <2>1, <1>2
  <1>8. \A i, j \in K : rank(K, i) = rank(K, j) => i = j
    <2> SUFFICES ASSUME NEW i \in K, NEW j \in K, rank(K, i) = rank(K, j)
                 PROVE  i = j
      OBVIOUS
    <2>1. i < j \/ j < i \/ i = j
      OBVIOUS
    <2> QED
      BY <2>1, <1>2, <1>5, <1>7
  <1>9. \A i \in K : rank(K, i) \in 1..Cardinality(K)
    BY <1>2, <1>3, <1>5, <1>6
  <1> QED
    BY <1>5, <1>7, <1>8, <1>9

(* Nth(K, k) is the element of rank k, and every rank is taken. *)
LEMMA NthFacts ==
  ASSUME NEW K \in SUBSET Nat, IsFiniteSet(K)
  PROVE  /\ \A k \in 1..Cardinality(K) : Nth(K, k) \in K /\ rank(K, Nth(K, k)) = k
         /\ \A i \in K : \E k \in 1..Cardinality(K) : Nth(K, k) = i
  <1> DEFINE n == Cardinality(K)
             f == [i \in K |-> rank(K, i)]
  <1>1. n \in Nat
    BY FS_CardinalityType
  <1>2. IsFiniteSet(1..n) /\ Cardinality(1..n) = n
    <2>1. IsFiniteSet(1..n) /\ Cardinality(1..n) = IF 1 > n THEN 0 ELSE n - 1 + 1
      BY <1>1, FS_Interval
    <2> HIDE DEF n
    <2> QED
      BY <1>1, <2>1
  <1>3. f \in Injection(K, 1..n)
    BY RankInjection DEF Injection, IsInjective
  <1> HIDE DEF f
  <1>4. f \in Surjection(K, 1..n)
    BY <1>2, <1>3, FS_Injection
  <1>5. \A k \in 1..n : \E i \in K : rank(K, i) = k
    BY <1>4 DEF Surjection, f
  <1>6. \A k \in 1..n : Nth(K, k) \in K /\ rank(K, Nth(K, k)) = k
    BY <1>5 DEF Nth, rank
  <1>7. \A i \in K : \E k \in 1..n : Nth(K, k) = i
    <2> SUFFICES ASSUME NEW i \in K PROVE \E k \in 1..n : Nth(K, k) = i
      OBVIOUS
    <2>1. rank(K, i) \in 1..n
      BY RankInjection
    <2>2. PICK x \in K : x = Nth(K, rank(K, i)) /\ rank(K, x) = rank(K, i)
      BY <2>1, <1>6
    <2>3. x = i
      BY <2>2, RankInjection
    <2> QED
      BY <2>1, <2>2, <2>3
  <1> QED
    BY <1>6, <1>7

(* The positions a Pick takes are the given ones, each once. *)
LEMMA PickFacts ==
  ASSUME NEW S, NEW s \in Seq(S), NEW K \in SUBSET (1..Len(s))
  PROVE  /\ Pick(s, K) \in Seq(S)
         /\ Range(Pick(s, K)) = {s[i] : i \in K}
         /\ (\A i, j \in K : s[i] = s[j] => i = j) => IsInjective(Pick(s, K))
  <1> DEFINE n == Cardinality(K)
  <1>1. Len(s) \in Nat /\ K \in SUBSET Nat /\ IsFiniteSet(K)
    <2>1. Len(s) \in Nat
      OBVIOUS
    <2> QED
      BY <2>1, PositionsFinite
  <1>2. n \in Nat
    BY <1>1, FS_CardinalityType
  <1>3. \A k \in 1..n : Nth(K, k) \in K /\ rank(K, Nth(K, k)) = k
    BY <1>1, NthFacts
  <1>4. \A i \in K : \E k \in 1..n : Nth(K, k) = i
    BY <1>1, NthFacts
  <1>5. Pick(s, K) = [k \in 1..n |-> s[Nth(K, k)]]
    BY DEF Pick
  <1>6. \A i \in K : s[i] \in S
    OBVIOUS
  <1> HIDE DEF n
  <1>7. Pick(s, K) \in Seq(S)
    <2>1. Pick(s, K) \in [1..n -> S]
      BY <1>3, <1>5, <1>6
    <2> QED
      BY <2>1, <1>2, SeqDef
  <1>8. DOMAIN Pick(s, K) = 1..n
    BY <1>5
  <1>9. Range(Pick(s, K)) = {s[i] : i \in K}
    <2>1. Range(Pick(s, K)) = {s[Nth(K, k)] : k \in 1..n}
      BY <1>5, <1>8 DEF Range
    <2>2. \A x \in {s[Nth(K, k)] : k \in 1..n} : x \in {s[i] : i \in K}
      BY <1>3
    <2>3. \A x \in {s[i] : i \in K} : x \in {s[Nth(K, k)] : k \in 1..n}
      BY <1>4
    <2> QED
      BY <2>1, <2>2, <2>3
  <1>10. ASSUME \A i, j \in K : s[i] = s[j] => i = j
         PROVE  IsInjective(Pick(s, K))
    <2> SUFFICES ASSUME NEW a \in 1..n, NEW b \in 1..n, Pick(s, K)[a] = Pick(s, K)[b]
                 PROVE  a = b
      BY <1>8 DEF IsInjective
    <2>1. Nth(K, a) = Nth(K, b)
      BY <1>3, <1>5, <1>10
    <2> QED
      BY <2>1, <1>3
  <1> QED
    BY <1>7, <1>9, <1>10

(* Two injective sequences without a common element join to an injective    *)
(* one.                                                                     *)
LEMMA ConcatFacts ==
  ASSUME NEW S, NEW s \in Seq(S), NEW t \in Seq(S)
  PROVE  /\ s \o t \in Seq(S)
         /\ Range(s \o t) = Range(s) \cup Range(t)
         /\ (IsInjective(s) /\ IsInjective(t) /\ \A x \in S : x \in Range(t) => x \notin Range(s))
              => IsInjective(s \o t)
  <1>1. /\ Len(s) \in Nat /\ DOMAIN s = 1..Len(s)
        /\ Len(t) \in Nat /\ DOMAIN t = 1..Len(t)
    OBVIOUS
  <1>2. /\ s \o t \in Seq(S) /\ DOMAIN (s \o t) = 1..(Len(s) + Len(t))
        /\ \A i \in 1..(Len(s) + Len(t)) :
             (s \o t)[i] = IF i <= Len(s) THEN s[i] ELSE t[i - Len(s)]
    BY <1>1, ConcatProperties
  <1>3. PICK a \in Nat, b \in Nat : a = Len(s) /\ b = Len(t)
    BY <1>1
  <1>4. PICK u : u = s \o t
    OBVIOUS
  <1>5. DOMAIN s = 1..a /\ DOMAIN t = 1..b /\ DOMAIN u = 1..(a + b)
    BY <1>1, <1>2, <1>3, <1>4
  <1>6. \A i \in 1..a : i \in 1..(a + b) /\ u[i] = s[i]
    BY <1>2, <1>3, <1>4
  <1>7. \A i \in 1..b : a + i \in 1..(a + b) /\ u[a + i] = t[i]
    <2> SUFFICES ASSUME NEW i \in 1..b PROVE a + i \in 1..(a + b) /\ u[a + i] = t[i]
      OBVIOUS
    <2>1. a + i \in 1..(a + b) /\ ~(a + i <= a) /\ (a + i) - a = i
      OBVIOUS
    <2> QED
      BY <1>2, <1>3, <1>4, <2>1
  <1>8. \A i \in 1..(a + b) : i \in 1..a \/ \E j \in 1..b : i = a + j
    <2> SUFFICES ASSUME NEW i \in 1..(a + b), i \notin 1..a PROVE \E j \in 1..b : i = a + j
      OBVIOUS
    <2>1. i - a \in 1..b /\ i = a + (i - a)
      OBVIOUS
    <2> QED
      BY <2>1
  <1>9. Range(u) = Range(s) \cup Range(t)
    <2>1. \A x \in Range(u) : x \in Range(s) \cup Range(t)
      <3> SUFFICES ASSUME NEW i \in 1..(a + b) PROVE u[i] \in Range(s) \cup Range(t)
        BY <1>5 DEF Range
      <3>1. CASE i \in 1..a
        BY <3>1, <1>5, <1>6 DEF Range
      <3>2. CASE \E j \in 1..b : i = a + j
        BY <3>2, <1>5, <1>7 DEF Range
      <3> QED
        BY <3>1, <3>2, <1>8
    <2>2. \A x \in Range(s) : x \in Range(u)
      BY <1>5, <1>6 DEF Range
    <2>3. \A x \in Range(t) : x \in Range(u)
      BY <1>5, <1>7 DEF Range
    <2> QED
      BY <2>1, <2>2, <2>3
  <1>10. ASSUME IsInjective(s), IsInjective(t), \A x \in S : x \in Range(t) => x \notin Range(s)
         PROVE  IsInjective(u)
    <2>1. \A i \in 1..a, j \in 1..b : s[i] # t[j]
      BY <1>5, <1>10 DEF Range
    <2>2. \A i, j \in 1..a : u[i] = u[j] => i = j
      BY <1>5, <1>6, <1>10 DEF IsInjective
    <2>3. \A i, j \in 1..b : u[a + i] = u[a + j] => i = j
      BY <1>5, <1>7, <1>10 DEF IsInjective
    <2>4. \A i \in 1..a, j \in 1..b : u[i] # u[a + j]
      BY <2>1, <1>6, <1>7
    <2>5. \A i, j \in 1..(a + b) : u[i] = u[j] => i = j
      BY <1>8, <2>2, <2>3, <2>4
    <2> QED
      BY <1>5, <2>5 DEF IsInjective
  <1> QED
    BY <1>2, <1>4, <1>9, <1>10

(* The largest element of a finite set of naturals is its last in rank. *)
LEMMA MaxFacts ==
  ASSUME NEW K \in SUBSET Nat, IsFiniteSet(K), K # {}
  PROVE  Max(K) \in K /\ \A i \in K : Max(K) >= i
  <1>1. Cardinality(K) \in Nat /\ Cardinality(K) # 0
    BY FS_CardinalityType, FS_EmptySet
  <1>2. PICK x \in K : rank(K, x) = Cardinality(K)
    <2>1. Cardinality(K) \in 1..Cardinality(K)
      BY <1>1
    <2> QED
      BY <2>1, NthFacts
  <1>3. \A i \in K : x >= i
    <2> SUFFICES ASSUME NEW i \in K, x < i PROVE FALSE
      OBVIOUS
    <2>1. rank(K, x) < rank(K, i) /\ rank(K, i) \in 1..Cardinality(K)
      BY RankInjection
    <2> QED
      BY <1>1, <1>2, <2>1
  <1> QED
    BY <1>3 DEF Max

(* A list counts a block as often as it names it. *)
LEMMA CountFacts ==
  ASSUME NEW S, NEW s \in Seq(S), NEW x
  PROVE  /\ Count(s, x) \in Nat
         /\ Count(s, x) = 0 <=> x \notin Range(s)
  <1> DEFINE P == {i \in DOMAIN s : s[i] = x}
  <1>1. Len(s) \in Nat /\ DOMAIN s = 1..Len(s)
    OBVIOUS
  <1>2. IsFiniteSet(P)
    <2>1. P \in SUBSET (1..Len(s))
      BY <1>1
    <2> HIDE DEF P
    <2> QED
      BY <1>1, <2>1, PositionsFinite
  <1>3. P = {} <=> x \notin Range(s)
    BY DEF Range
  <1>4. Count(s, x) = Cardinality(P)
    BY DEF Count
  <1> HIDE DEF P
  <1> QED
    BY <1>2, <1>3, <1>4, FS_CardinalityType, FS_EmptySet

-----------------------------------------------------------------------------
(* The free queue holds exactly the unreferenced blocks of B, once each. *)
QueueSound(B, refCount, free) ==
  /\ refCount \in [B -> Nat]
  /\ free \in Seq(B)
  /\ IsInjective(free)
  /\ Range(free) = {b \in B : refCount[b] = 0}

(* touch takes every block it references out of the queue. *)
LEMMA TouchSound ==
  ASSUME NEW B, NEW m, QueueSound(B, m.refCount, m.free),
         NEW ids \in Seq(B)
  PROVE  QueueSound(B, [b \in B |-> m.refCount[b] + Count(ids, b)],
                    Pick(m.free, {i \in DOMAIN m.free : m.free[i] \notin Range(ids)}))
  <1> DEFINE K  == {i \in DOMAIN m.free : m.free[i] \notin Range(ids)}
             rc == [b \in B |-> m.refCount[b] + Count(ids, b)]
  <1>1. /\ m.refCount \in [B -> Nat] /\ m.free \in Seq(B) /\ IsInjective(m.free)
        /\ Range(m.free) = {b \in B : m.refCount[b] = 0}
    BY DEF QueueSound
  <1>2. Len(m.free) \in Nat /\ DOMAIN m.free = 1..Len(m.free)
    BY <1>1
  <1>3. K \in SUBSET (1..Len(m.free))
    BY <1>2
  <1>4. /\ Pick(m.free, K) \in Seq(B)
        /\ Range(Pick(m.free, K)) = {m.free[i] : i \in K}
    BY <1>1, <1>3, PickFacts
  <1>5. IsInjective(Pick(m.free, K))
    <2>1. \A i, j \in K : m.free[i] = m.free[j] => i = j
      BY <1>1 DEF IsInjective
    <2> HIDE DEF K
    <2> QED
      BY <1>1, <1>3, <2>1, PickFacts
  <1>6. \A b \in B : /\ Count(ids, b) \in Nat
                     /\ Count(ids, b) = 0 <=> b \notin Range(ids)
    BY CountFacts
  <1>7. rc \in [B -> Nat]
    BY <1>1, <1>6
  <1>8. \A b \in B : rc[b] = 0 <=> (m.refCount[b] = 0 /\ b \notin Range(ids))
    BY <1>1, <1>6
  <1>9. \A b : b \in {m.free[i] : i \in K} <=> (b \in Range(m.free) /\ b \notin Range(ids))
    BY DEF Range
  <1> HIDE DEF K, rc
  <1>10. Range(Pick(m.free, K)) = {b \in B : rc[b] = 0}
    BY <1>1, <1>4, <1>8, <1>9
  <1>11. QueueSound(B, rc, Pick(m.free, K))
    BY <1>4, <1>5, <1>7, <1>10 DEF QueueSound
  <1> QED
    BY <1>11 DEF K, rc

(* allocate takes the head of the queue and gives each block one reference. *)
LEMMA AllocateSound ==
  ASSUME NEW B, NEW refCount, NEW free, QueueSound(B, refCount, free),
         NEW n \in Nat, n <= Len(free)
  PROVE  /\ SubSeq(free, 1, n) \in Seq(B)
         /\ Len(SubSeq(free, 1, n)) = n
         /\ QueueSound(B, [b \in B |-> IF b \in Range(SubSeq(free, 1, n)) THEN 1 ELSE refCount[b]],
                       SubSeq(free, n + 1, Len(free)))
  <1> DEFINE head == SubSeq(free, 1, n)
             tail == SubSeq(free, n + 1, Len(free))
             rc   == [b \in B |-> IF b \in Range(head) THEN 1 ELSE refCount[b]]
  <1>1. /\ refCount \in [B -> Nat] /\ free \in Seq(B) /\ IsInjective(free)
        /\ Range(free) = {b \in B : refCount[b] = 0}
    BY DEF QueueSound
  <1>2. Len(free) \in Nat /\ DOMAIN free = 1..Len(free)
    BY <1>1
  <1>3. /\ head \in Seq(B) /\ Len(head) = n /\ DOMAIN head = 1..n
        /\ \A i \in 1..n : head[i] = free[i]
    BY <1>1, <1>2
  <1>4. /\ tail \in Seq(B) /\ DOMAIN tail = 1..(Len(free) - n)
        /\ \A i \in 1..(Len(free) - n) : tail[i] = free[n + i]
    BY <1>1, <1>2
  <1> HIDE DEF head, tail
  <1>5. \A i, j \in 1..Len(free) : free[i] = free[j] => i = j
    BY <1>1, <1>2 DEF IsInjective
  <1>6. IsInjective(tail)
    <2> SUFFICES ASSUME NEW i \in 1..(Len(free) - n), NEW j \in 1..(Len(free) - n),
                        tail[i] = tail[j]
                 PROVE  i = j
      BY <1>4 DEF IsInjective
    <2>1. n + i \in 1..Len(free) /\ n + j \in 1..Len(free)
      BY <1>2
    <2>2. free[n + i] = free[n + j]
      BY <1>4
    <2>3. n + i = n + j
      BY <1>5, <2>1, <2>2
    <2> QED
      BY <2>3
  <1>7. \A b : b \in Range(head) <=> \E i \in 1..n : b = free[i]
    BY <1>3 DEF Range
  <1>8. \A b : b \in Range(tail) <=> \E i \in 1..(Len(free) - n) : b = free[n + i]
    BY <1>4 DEF Range
  <1>9. \A b : b \in Range(tail) => b \in Range(free) /\ b \notin Range(head)
    <2> SUFFICES ASSUME NEW i \in 1..(Len(free) - n)
                 PROVE  free[n + i] \in Range(free) /\ free[n + i] \notin Range(head)
      BY <1>8
    <2>1. n + i \in 1..Len(free)
      BY <1>2
    <2>2. \A j \in 1..n : j \in 1..Len(free) /\ j # n + i
      BY <1>2
    <2>3. \A j \in 1..n : free[j] # free[n + i]
      BY <1>5, <2>1, <2>2
    <2> QED
      BY <1>2, <1>7, <2>1, <2>3 DEF Range
  <1>10. \A b : b \in Range(free) /\ b \notin Range(head) => b \in Range(tail)
    <2> SUFFICES ASSUME NEW k \in 1..Len(free), free[k] \notin Range(head)
                 PROVE  free[k] \in Range(tail)
      BY <1>2 DEF Range
    <2>1. k \notin 1..n
      BY <1>7
    <2>2. k - n \in 1..(Len(free) - n) /\ n + (k - n) = k
      BY <1>2, <2>1
    <2> QED
      BY <1>8, <2>2
  <1>11. rc \in [B -> Nat]
    BY <1>1
  <1>12. \A b \in B : rc[b] = 0 <=> (refCount[b] = 0 /\ b \notin Range(head))
    BY <1>1
  <1> HIDE DEF rc
  <1>13. Range(tail) = {b \in B : rc[b] = 0}
    BY <1>1, <1>9, <1>10, <1>12
  <1>14. QueueSound(B, rc, tail)
    BY <1>4, <1>6, <1>11, <1>13 DEF QueueSound
  <1> QED
    BY <1>3, <1>14 DEF head, tail, rc

(* pushFree appends a block at the one occurrence that takes its count to   *)
(* zero, however often the list names it.                                   *)
LEMMA PushFreeSound ==
  ASSUME NEW B, NEW m, QueueSound(B, m.refCount, m.free), NEW ids \in Seq(B)
  PROVE  QueueSound(B, [b \in B |-> IF Count(ids, b) >= m.refCount[b] THEN 0
                                    ELSE m.refCount[b] - Count(ids, b)],
                    m.free \o Pick(ids, lastReference(m, ids)))
  <1> DEFINE rc   == [b \in B |-> IF Count(ids, b) >= m.refCount[b] THEN 0
                                  ELSE m.refCount[b] - Count(ids, b)]
             K    == lastReference(m, ids)
             P(b) == {j \in DOMAIN ids : ids[j] = b}
  <1>1. /\ m.refCount \in [B -> Nat] /\ m.free \in Seq(B) /\ IsInjective(m.free)
        /\ Range(m.free) = {b \in B : m.refCount[b] = 0}
    BY DEF QueueSound
  <1>2. Len(ids) \in Nat /\ DOMAIN ids = 1..Len(ids)
    OBVIOUS
  <1>3. \A b : P(b) \in SUBSET Nat /\ IsFiniteSet(P(b))
    <2> SUFFICES ASSUME NEW b PROVE P(b) \in SUBSET Nat /\ IsFiniteSet(P(b))
      OBVIOUS
    <2>1. P(b) \in SUBSET (1..Len(ids))
      BY <1>2
    <2> HIDE DEF P
    <2> QED
      BY <1>2, <2>1, PositionsFinite
  <1>4. \A b : Count(ids, b) = Cardinality(P(b))
    BY DEF Count
  <1>5. \A i \in DOMAIN ids : {j \in 1..i : ids[j] = ids[i]} = {j \in P(ids[i]) : j <= i}
    BY <1>2
  <1>6. \A i \in DOMAIN ids : i \in K <=> m.refCount[ids[i]] = rank(P(ids[i]), i)
    BY <1>5 DEF lastReference, rank
  <1>7. \A i \in DOMAIN ids : ids[i] \in B /\ i \in P(ids[i])
    OBVIOUS
  <1>8. K \in SUBSET (1..Len(ids))
    BY <1>2 DEF lastReference
  <1>9. \A b : \A i \in P(b) : i \in DOMAIN ids /\ ids[i] = b
    OBVIOUS
  <1>10. \A b \in B : Count(ids, b) \in Nat
    BY CountFacts
  <1> HIDE DEF P, K
  <1>11. \A i, j \in K : ids[i] = ids[j] => i = j
    BY <1>2, <1>3, <1>6, <1>7, <1>8, RankInjection
  <1>12. \A i \in K : m.refCount[ids[i]] \in 1..Count(ids, ids[i])
    BY <1>2, <1>3, <1>4, <1>6, <1>7, <1>8, RankInjection
  <1>13. \A b \in B : m.refCount[b] \in 1..Count(ids, b) => \E i \in K : ids[i] = b
    <2> SUFFICES ASSUME NEW b \in B, m.refCount[b] \in 1..Cardinality(P(b))
                 PROVE  \E i \in K : ids[i] = b
      BY <1>4
    <2>1. PICK i \in P(b) : rank(P(b), i) = m.refCount[b]
      BY <1>3, NthFacts
    <2> QED
      BY <2>1, <1>6, <1>9
  <1> DEFINE back == Pick(ids, K)
  <1>14. back \in Seq(B) /\ Range(back) = {ids[i] : i \in K} /\ IsInjective(back)
    BY <1>8, <1>11, PickFacts
  <1> HIDE DEF back
  <1>15. \A b \in B : b \in Range(back) <=> m.refCount[b] \in 1..Count(ids, b)
    BY <1>12, <1>13, <1>14
  <1>16. \A b \in B : b \in Range(back) => b \notin Range(m.free)
    BY <1>1, <1>10, <1>15
  <1>17. rc \in [B -> Nat]
    BY <1>1, <1>10
  <1>18. \A b \in B : rc[b] = 0 <=> (m.refCount[b] = 0 \/ m.refCount[b] \in 1..Count(ids, b))
    BY <1>1, <1>10
  <1> HIDE DEF rc
  <1>19. /\ m.free \o back \in Seq(B)
         /\ Range(m.free \o back) = Range(m.free) \cup Range(back)
         /\ IsInjective(m.free \o back)
    BY <1>1, <1>14, <1>16, ConcatFacts
  <1>20. Range(m.free \o back) = {b \in B : rc[b] = 0}
    <2>1. Range(back) \subseteq B
      BY <1>2, <1>7, <1>8, <1>14
    <2> QED
      BY <1>1, <1>15, <1>18, <1>19, <2>1
  <1>21. QueueSound(B, rc, m.free \o back)
    BY <1>17, <1>19, <1>20 DEF QueueSound
  <1> QED
    BY <1>21 DEF rc, back, K

-----------------------------------------------------------------------------
(***************************************************************************)
(* The two invariants of the registry.                                     *)
(***************************************************************************)

Good(e, m) == ManagerOK(e, m) /\ QueueSound(BlockIds(e), m.refCount, m.free)

(* A pending transfer has one destination block per hash, so CommitTransfer *)
(* never indexes a block without a hash.                                    *)
PlanLengths ==
  \A t \in Transfers : transfer[t].step = "pending" =>
    Len(transfer[t].destinationBlocks) = Len(transfer[t].hashes)

Inv == TypeOK /\ FreeQueueSound /\ PlanLengths

-----------------------------------------------------------------------------
(* Maps and hashes *)

(* Writing a well-typed entry keeps a map well typed. *)
LEMMA PutFacts ==
  ASSUME NEW f, NEW S, NEW D, f \in [DOMAIN f -> S], DOMAIN f \subseteq D,
         NEW k \in D, NEW v \in S
  PROVE  /\ Put(f, k, v) \in [DOMAIN Put(f, k, v) -> S]
         /\ DOMAIN Put(f, k, v) \subseteq D
  BY DEF Put

(* So does deleting entries. *)
LEMMA WithoutFacts ==
  ASSUME NEW f, NEW K, NEW S, f \in [DOMAIN f -> S]
  PROVE  /\ DOMAIN Without(f, K) \subseteq DOMAIN f
         /\ Without(f, K) \in [DOMAIN Without(f, K) -> S]
  BY DEF Without, Restrict

(* Block sizes and pool sizes are positive. *)
LEMMA SizeFacts ==
  ASSUME NEW e \in Executors
  PROVE  BlockSize[e] \in Nat /\ BlockSize[e] > 0 /\ NumBlocks[e] \in Nat /\ NumBlocks[e] > 0
  BY ExecutorsAssumption

(* A prompt is a finite sequence of tokens. *)
LEMMA PromptFacts ==
  ASSUME NEW p \in Prompts
  PROVE  p.tokens \in Seq(Int) /\ Len(p.tokens) \in Nat
  <1>1. p.tokens \in Seq(Int)
    BY PromptsAssumption
  <1> QED
    BY <1>1

(* ceilDiv and the block counts divide naturals. *)
LEMMA DivNat ==
  ASSUME NEW a \in Nat, NEW d \in Nat, d > 0
  PROVE  a \div d \in Nat
  OBVIOUS

(* Every hash of a prompt is one of Hashes. *)
LEMMA BlockHashesType ==
  ASSUME NEW e \in Executors, NEW p \in Prompts
  PROVE  blockHashes(BlockSize[e], p) \in Seq(Hashes)
  <1> DEFINE hs == blockHashes(BlockSize[e], p)
             n  == Len(p.tokens) \div BlockSize[e]
  <1>1. n \in Nat
    BY SizeFacts, PromptFacts, DivNat
  <1>2. hs = [i \in 1..n |-> <<p.salt>> \o SubSeq(p.tokens, 1, i * BlockSize[e])]
    BY DEF blockHashes
  <1>3. Range(hs) \subseteq Hashes
    BY DEF Hashes
  <1> HIDE DEF n
  <1>4. DOMAIN hs = 1..n
    BY <1>2
  <1>5. \A i \in 1..n : hs[i] \in Hashes
    BY <1>3, <1>4 DEF Range
  <1>6. hs \in [1..n -> Hashes]
    BY <1>2, <1>5
  <1> QED
    BY <1>1, <1>6, SeqDef

(* The hashes a request may reuse are some of its hashes. *)
LEMMA MatchableType ==
  ASSUME NEW e \in Executors, NEW p \in Prompts
  PROVE  matchableBlockHashes(BlockSize[e], p) \in Seq(Hashes)
  <1> DEFINE total   == blockHashes(BlockSize[e], p)
             maximum == IF p.tokens = << >> THEN 0
                        ELSE (Len(p.tokens) - 1) \div BlockSize[e]
             n       == Min({Len(total), maximum})
  <1>1. total \in Seq(Hashes)
    BY BlockHashesType
  <1>2. matchableBlockHashes(BlockSize[e], p) = SubSeq(total, 1, n)
    BY DEF matchableBlockHashes
  <1>3. maximum \in Int
    BY SizeFacts, PromptFacts
  <1> HIDE DEF total, maximum
  <1>4. n \in Int /\ n <= Len(total)
    BY <1>1, <1>3 DEF Min
  <1> HIDE DEF n
  <1> QED
    BY <1>1, <1>2, <1>4

(* The hit length is within the hashes and everything up to it is cached. *)
LEMMA HitLengthFacts ==
  ASSUME NEW m, NEW S, NEW hashes \in Seq(S)
  PROVE  /\ hitLength(m, hashes) \in 0..Len(hashes)
         /\ \A i \in 1..hitLength(m, hashes) : hashes[i] \in DOMAIN m.cachedBlocks
  <1> DEFINE K == {n \in 0..Len(hashes) : \A i \in 1..n : hashes[i] \in DOMAIN m.cachedBlocks}
  <1>1. Len(hashes) \in Nat
    OBVIOUS
  <1>2. K \in SUBSET Nat /\ 0 \in K
    BY <1>1
  <1>3. IsFiniteSet(K)
    <2>1. IsFiniteSet(0..Len(hashes))
      BY <1>1, FS_Interval
    <2> QED
      BY <2>1, FS_Subset
  <1>4. Max(K) \in K
    <2> HIDE DEF K
    <2> QED
      BY <1>2, <1>3, MaxFacts
  <1>5. hitLength(m, hashes) = Max(K)
    BY DEF hitLength
  <1> QED
    BY <1>4, <1>5

-----------------------------------------------------------------------------
(* One manager.  Good is kept by each of its operations. *)

(* Every field of a good manager, for the provers. *)
LEMMA GoodFields ==
  ASSUME NEW e, NEW m, Good(e, m)
  PROVE  /\ m.blockSize = BlockSize[e]
         /\ m.refCount \in [BlockIds(e) -> Nat] /\ Blocks(m) = BlockIds(e)
         /\ m.tokenCount \in [BlockIds(e) -> Nat]
         /\ m.hash \in [BlockIds(e) -> Hashes \cup {NoHash}]
         /\ m.cached \in [BlockIds(e) -> BOOLEAN]
         /\ m.free \in Seq(BlockIds(e))
         /\ m.requestBlocks \in [DOMAIN m.requestBlocks -> Seq(BlockIds(e))]
         /\ DOMAIN m.requestBlocks \subseteq Requests
         /\ m.cachedBlocks \in [DOMAIN m.cachedBlocks -> BlockIds(e)]
         /\ DOMAIN m.cachedBlocks \subseteq Hashes
         /\ m.pendingAllocations \in [DOMAIN m.pendingAllocations -> Allocations(e)]
         /\ DOMAIN m.pendingAllocations \subseteq Works
         /\ QueueSound(BlockIds(e), m.refCount, m.free)
  BY DEF Good, ManagerOK, Blocks

(* Good allows any well-typed change of the fields other than the counts    *)
(* and the queue.                                                           *)
LEMMA SetQueue ==
  ASSUME NEW e, NEW m, Good(e, m), NEW rc, NEW fr, QueueSound(BlockIds(e), rc, fr)
  PROVE  Good(e, [m EXCEPT !.refCount = rc, !.free = fr])
  BY DEF Good, ManagerOK, QueueSound

(* New tables keep a manager good, *)
LEMMA SetRequestBlocks ==
  ASSUME NEW e, NEW m, Good(e, m), NEW rb, rb \in [DOMAIN rb -> Seq(BlockIds(e))],
         DOMAIN rb \subseteq Requests
  PROVE  Good(e, [m EXCEPT !.requestBlocks = rb])
  BY DEF Good, ManagerOK

(* new allocations do, *)
LEMMA SetPending ==
  ASSUME NEW e, NEW m, Good(e, m), NEW pa, pa \in [DOMAIN pa -> Allocations(e)],
         DOMAIN pa \subseteq Works
  PROVE  Good(e, [m EXCEPT !.pendingAllocations = pa])
  BY DEF Good, ManagerOK

(* both together do, *)
LEMMA SetTables ==
  ASSUME NEW e, NEW m, Good(e, m), NEW rb, rb \in [DOMAIN rb -> Seq(BlockIds(e))],
         DOMAIN rb \subseteq Requests,
         NEW pa, pa \in [DOMAIN pa -> Allocations(e)], DOMAIN pa \subseteq Works
  PROVE  Good(e, [m EXCEPT !.requestBlocks = rb, !.pendingAllocations = pa])
  BY DEF Good, ManagerOK

(* new token counts do, *)
LEMMA SetTokenCount ==
  ASSUME NEW e, NEW m, Good(e, m), NEW tc \in [BlockIds(e) -> Nat]
  PROVE  Good(e, [m EXCEPT !.tokenCount = tc])
  BY DEF Good, ManagerOK

(* and new metadata with a new index do. *)
LEMMA SetMetadata ==
  ASSUME NEW e, NEW m, Good(e, m),
         NEW hash \in [BlockIds(e) -> Hashes \cup {NoHash}],
         NEW cached \in [BlockIds(e) -> BOOLEAN],
         NEW cb, cb \in [DOMAIN cb -> BlockIds(e)], DOMAIN cb \subseteq Hashes
  PROVE  Good(e, [m EXCEPT !.hash = hash, !.cached = cached, !.cachedBlocks = cb])
  BY DEF Good, ManagerOK

(* newManager queues every block once, unreferenced. *)
LEMMA NewManagerGood ==
  ASSUME NEW e \in Executors
  PROVE  Good(e, newManager(BlockSize[e], NumBlocks[e]))
  <1> DEFINE n == NumBlocks[e]
             m == newManager(BlockSize[e], n)
  <1>1. n \in Nat /\ BlockIds(e) = 0..(n - 1)
    BY SizeFacts DEF BlockIds
  <1>2. /\ m.refCount = [b \in 0..(n - 1) |-> 0]
        /\ m.free = [i \in 1..n |-> i - 1]
    BY DEF newManager
  <1>3. DOMAIN EmptyMap = {} /\ \A S : EmptyMap \in [{} -> S]
    BY DEF EmptyMap
  <1> HIDE DEF n
  <1>4. m.free \in Seq(BlockIds(e)) /\ DOMAIN m.free = 1..n
    <2>1. m.free \in [1..n -> BlockIds(e)]
      BY <1>1, <1>2
    <2> QED
      BY <1>1, <2>1, SeqDef
  <1>5. IsInjective(m.free)
    BY <1>1, <1>2, <1>4 DEF IsInjective
  <1>6. Range(m.free) = BlockIds(e)
    <2>1. \A b \in BlockIds(e) : b + 1 \in 1..n /\ b = (b + 1) - 1
      BY <1>1
    <2>2. \A b \in BlockIds(e) : b \in Range(m.free)
      BY <1>2, <1>4, <2>1 DEF Range
    <2>3. \A i \in 1..n : m.free[i] \in BlockIds(e)
      BY <1>1, <1>2
    <2> QED
      BY <1>4, <2>2, <2>3 DEF Range
  <1>7. QueueSound(BlockIds(e), m.refCount, m.free)
    BY <1>1, <1>2, <1>4, <1>5, <1>6 DEF QueueSound
  <1>8. ManagerOK(e, m)
    BY <1>1, <1>3, <1>4, <1>7 DEF ManagerOK, newManager, QueueSound
  <1> QED
    BY <1>7, <1>8 DEF Good, n

(* touch *)
LEMMA TouchGood ==
  ASSUME NEW e, NEW m, Good(e, m), NEW ids \in Seq(BlockIds(e))
  PROVE  Good(e, touch(m, ids))
  <1> DEFINE rc == [b \in BlockIds(e) |-> m.refCount[b] + Count(ids, b)]
             fr == Pick(m.free, {i \in DOMAIN m.free : m.free[i] \notin Range(ids)})
  <1>1. Blocks(m) = BlockIds(e) /\ QueueSound(BlockIds(e), m.refCount, m.free)
    BY GoodFields
  <1>2. QueueSound(BlockIds(e), rc, fr)
    BY <1>1, TouchSound
  <1>3. touch(m, ids) = [m EXCEPT !.refCount = rc, !.free = fr]
    BY <1>1 DEF touch
  <1> HIDE DEF rc, fr
  <1>4. Good(e, [m EXCEPT !.refCount = rc, !.free = fr])
    BY <1>2, SetQueue
  <1> QED
    BY <1>3, <1>4

(* pushFree on a list of blocks *)
LEMMA PushFreeGood ==
  ASSUME NEW e, NEW m, Good(e, m), NEW ids \in Seq(BlockIds(e))
  PROVE  Good(e, pushFree(m, ids))
  <1> DEFINE rc == [b \in BlockIds(e) |-> IF Count(ids, b) >= m.refCount[b] THEN 0
                                          ELSE m.refCount[b] - Count(ids, b)]
             fr == m.free \o Pick(ids, lastReference(m, ids))
  <1>1. Blocks(m) = BlockIds(e) /\ QueueSound(BlockIds(e), m.refCount, m.free)
    BY GoodFields
  <1>2. QueueSound(BlockIds(e), rc, fr)
    BY <1>1, PushFreeSound
  <1>3. pushFree(m, ids) = [m EXCEPT !.refCount = rc, !.free = fr]
    BY <1>1 DEF pushFree
  <1> HIDE DEF rc, fr
  <1>4. Good(e, [m EXCEPT !.refCount = rc, !.free = fr])
    BY <1>2, SetQueue
  <1> QED
    BY <1>3, <1>4

(* popFree, as often as blocks are asked for and there are so many *)
LEMMA AllocateGood ==
  ASSUME NEW e, NEW m, Good(e, m), NEW n \in Nat, canAllocate(m, n)
  PROVE  /\ Good(e, allocate(m, n))
         /\ popped(m, n) \in Seq(BlockIds(e)) /\ Len(popped(m, n)) = n
  <1> DEFINE ids == Range(popped(m, n))
             rc  == [b \in BlockIds(e) |-> IF b \in ids THEN 1 ELSE m.refCount[b]]
             tc  == [b \in BlockIds(e) |-> IF b \in ids THEN 0 ELSE m.tokenCount[b]]
             hs  == [b \in BlockIds(e) |-> IF b \in ids THEN NoHash ELSE m.hash[b]]
             ca  == [b \in BlockIds(e) |-> b \notin ids /\ m.cached[b]]
             cb  == Without(m.cachedBlocks, {m.hash[b] : b \in {c \in ids : m.cached[c]}})
             fr  == SubSeq(m.free, n + 1, Len(m.free))
  <1>1. /\ m.refCount \in [BlockIds(e) -> Nat] /\ Blocks(m) = BlockIds(e)
        /\ m.tokenCount \in [BlockIds(e) -> Nat]
        /\ m.hash \in [BlockIds(e) -> Hashes \cup {NoHash}]
        /\ m.cached \in [BlockIds(e) -> BOOLEAN]
        /\ m.cachedBlocks \in [DOMAIN m.cachedBlocks -> BlockIds(e)]
        /\ DOMAIN m.cachedBlocks \subseteq Hashes
        /\ QueueSound(BlockIds(e), m.refCount, m.free)
    BY GoodFields
  <1>2. /\ popped(m, n) \in Seq(BlockIds(e)) /\ Len(popped(m, n)) = n
        /\ QueueSound(BlockIds(e), rc, fr)
    BY <1>1, AllocateSound DEF canAllocate, popped
  <1>3. allocate(m, n) = [m EXCEPT !.refCount = rc, !.tokenCount = tc, !.hash = hs,
                                   !.cached = ca, !.cachedBlocks = cb, !.free = fr]
    BY <1>1 DEF allocate
  <1>4. tc \in [BlockIds(e) -> Nat] /\ hs \in [BlockIds(e) -> Hashes \cup {NoHash}]
    BY <1>1
  <1>5. ca \in [BlockIds(e) -> BOOLEAN]
    OBVIOUS
  <1>6. cb \in [DOMAIN cb -> BlockIds(e)] /\ DOMAIN cb \subseteq Hashes
    BY <1>1, WithoutFacts
  <1> HIDE DEF rc, tc, hs, ca, cb, fr
  <1> DEFINE m1 == [m EXCEPT !.refCount = rc, !.free = fr]
             m2 == [m1 EXCEPT !.tokenCount = tc]
             m3 == [m2 EXCEPT !.hash = hs, !.cached = ca, !.cachedBlocks = cb]
  <1>7. allocate(m, n) = m3
    BY <1>3 DEF Good, ManagerOK
  <1>8. Good(e, m1)
    BY <1>2, SetQueue
  <1> HIDE DEF m1
  <1>9. Good(e, m2)
    BY <1>4, <1>8, SetTokenCount
  <1> HIDE DEF m2
  <1>10. Good(e, m3)
    BY <1>4, <1>5, <1>6, <1>9, SetMetadata
  <1> QED
    BY <1>2, <1>7, <1>10

(* Entering blocks in the prefix index *)
LEMMA IndexBlocksGood ==
  ASSUME NEW e, NEW m, Good(e, m), NEW ids, NEW hashes, NEW K,
         \A i \in K : ids[i] \in BlockIds(e) /\ hashes[i] \in Hashes
  PROVE  Good(e, indexBlocks(m, ids, hashes, K))
  <1> DEFINE hs == [b \in BlockIds(e) |->
                      IF \E i \in K : ids[i] = b
                      THEN hashes[CHOOSE i \in K : ids[i] = b] ELSE m.hash[b]]
             ca == [b \in BlockIds(e) |-> m.cached[b] \/ \E i \in K : ids[i] = b]
             cb == [h \in DOMAIN m.cachedBlocks \cup {hashes[i] : i \in K} |->
                      IF \E i \in K : hashes[i] = h
                      THEN ids[CHOOSE i \in K : hashes[i] = h] ELSE m.cachedBlocks[h]]
  <1>1. /\ Blocks(m) = BlockIds(e)
        /\ m.hash \in [BlockIds(e) -> Hashes \cup {NoHash}]
        /\ m.cachedBlocks \in [DOMAIN m.cachedBlocks -> BlockIds(e)]
        /\ DOMAIN m.cachedBlocks \subseteq Hashes
    BY GoodFields
  <1>2. indexBlocks(m, ids, hashes, K)
          = [m EXCEPT !.hash = hs, !.cached = ca, !.cachedBlocks = cb]
    BY <1>1 DEF indexBlocks
  <1>3. hs \in [BlockIds(e) -> Hashes \cup {NoHash}]
    BY <1>1
  <1>4. ca \in [BlockIds(e) -> BOOLEAN]
    <2>1. \A b \in BlockIds(e) : m.cached[b] \in BOOLEAN
      BY GoodFields
    <2> QED
      BY <2>1
  <1>5. cb \in [DOMAIN cb -> BlockIds(e)] /\ DOMAIN cb \subseteq Hashes
    BY <1>1
  <1> HIDE DEF hs, ca, cb
  <1>6. Good(e, [m EXCEPT !.hash = hs, !.cached = ca, !.cachedBlocks = cb])
    BY <1>3, <1>4, <1>5, SetMetadata
  <1> QED
    BY <1>2, <1>6

(* MatchPrefix finds blocks of this manager. *)
LEMMA MatchedBlocksType ==
  ASSUME NEW e \in Executors, NEW m, Good(e, m), NEW p \in Prompts
  PROVE  matchedBlocks(m, p) \in Seq(BlockIds(e))
  <1> DEFINE hashes == matchableBlockHashes(m.blockSize, p)
             n      == hitLength(m, hashes)
  <1>1. /\ m.blockSize = BlockSize[e]
        /\ m.cachedBlocks \in [DOMAIN m.cachedBlocks -> BlockIds(e)]
    BY GoodFields
  <1>2. hashes \in Seq(Hashes)
    BY <1>1, MatchableType
  <1> HIDE DEF hashes
  <1>3. n \in 0..Len(hashes) /\ \A i \in 1..n : hashes[i] \in DOMAIN m.cachedBlocks
    BY <1>2, HitLengthFacts
  <1>4. n \in Nat
    BY <1>2, <1>3
  <1>5. matchedBlocks(m, p) = [i \in 1..n |-> m.cachedBlocks[hashes[i]]]
    BY DEF matchedBlocks, hashes
  <1> HIDE DEF n
  <1>6. matchedBlocks(m, p) \in [1..n -> BlockIds(e)]
    BY <1>1, <1>3, <1>5
  <1> QED
    BY <1>4, <1>6, SeqDef

(* MatchPrefix *)
LEMMA MatchPrefixGood ==
  ASSUME NEW e \in Executors, NEW m, Good(e, m), NEW r \in Requests, NEW p \in Prompts
  PROVE  Good(e, MatchPrefix(m, r, p))
  <1> DEFINE ids == matchedBlocks(m, p)
             rb  == Put(m.requestBlocks, r, ids)
  <1>1. ids \in Seq(BlockIds(e))
    BY MatchedBlocksType
  <1> HIDE DEF ids
  <1>2. Good(e, touch(m, ids))
    BY <1>1, TouchGood
  <1>3. /\ m.requestBlocks \in [DOMAIN m.requestBlocks -> Seq(BlockIds(e))]
        /\ DOMAIN m.requestBlocks \subseteq Requests
    BY GoodFields
  <1>4. rb \in [DOMAIN rb -> Seq(BlockIds(e))] /\ DOMAIN rb \subseteq Requests
    BY <1>1, <1>3, PutFacts
  <1> HIDE DEF rb
  <1>5. Good(e, [touch(m, ids) EXCEPT !.requestBlocks = rb])
    BY <1>2, <1>4, SetRequestBlocks
  <1> QED
    BY <1>5 DEF MatchPrefix, ids, rb

(* A work item as workItem builds it for executor e. *)
WorkOK(e, work) ==
  /\ work.id \in Works /\ work.request \in Requests /\ work.phase \in {Prefill, Decode}
  /\ work.tokens \in Nat /\ work.cache \in Seq(BlockIds(e)) /\ work.hashes \in Seq(Hashes)

(* AllocateBlocks, when the blocks suffice and when they do not *)
LEMMA AllocateBlocksGood ==
  ASSUME NEW e \in Executors, NEW m, Good(e, m), NEW work, WorkOK(e, work)
  PROVE  Good(e, AllocateBlocks(m, work))
  <1> DEFINE n  == requiredBlocks(m, work)
             a  == newAllocation(m, work)
             rb == Put(m.requestBlocks, work.request, a.blockTable)
             pa == Put(m.pendingAllocations, work.id, a)
  <1>1. /\ work.id \in Works /\ work.request \in Requests /\ work.phase \in {Prefill, Decode}
        /\ work.tokens \in Nat /\ work.cache \in Seq(BlockIds(e)) /\ work.hashes \in Seq(Hashes)
    BY DEF WorkOK
  <1>2. /\ m.blockSize = BlockSize[e]
        /\ m.requestBlocks \in [DOMAIN m.requestBlocks -> Seq(BlockIds(e))]
        /\ DOMAIN m.requestBlocks \subseteq Requests
        /\ m.pendingAllocations \in [DOMAIN m.pendingAllocations -> Allocations(e)]
        /\ DOMAIN m.pendingAllocations \subseteq Works
    BY GoodFields
  <1>3. existingBlocks(m, work) \in Seq(BlockIds(e))
    BY <1>1, <1>2 DEF existingBlocks
  <1>4. n \in Nat
    <2>1. ceilDiv(work.tokens, m.blockSize) \in Int
      BY <1>1, <1>2, SizeFacts DEF ceilDiv
    <2>2. Len(existingBlocks(m, work)) \in Nat
      BY <1>3
    <2> QED
      BY <2>1, <2>2 DEF requiredBlocks
  <1>5. CASE canAllocate(m, n)
    <2> HIDE DEF n
    <2>1. Good(e, allocate(m, n)) /\ popped(m, n) \in Seq(BlockIds(e))
      BY <1>4, <1>5, AllocateGood
    <2>2. existingBlocks(m, work) \o popped(m, n) \in Seq(BlockIds(e))
      BY <1>3, <2>1, ConcatFacts
    <2>3. a = [ request |-> work.request, phase |-> work.phase,
                blockTable |-> existingBlocks(m, work) \o popped(m, n),
                hashes |-> work.hashes, allocated |-> popped(m, n), tokens |-> work.tokens ]
      BY DEF newAllocation, n
    <2>4. a \in Allocations(e) /\ a.blockTable \in Seq(BlockIds(e))
      BY <1>1, <2>1, <2>2, <2>3 DEF Allocations
    <2> HIDE DEF a
    <2>5. rb \in [DOMAIN rb -> Seq(BlockIds(e))] /\ DOMAIN rb \subseteq Requests
      BY <1>1, <1>2, <2>4, PutFacts
    <2>6. pa \in [DOMAIN pa -> Allocations(e)] /\ DOMAIN pa \subseteq Works
      BY <1>1, <1>2, <2>4, PutFacts
    <2> HIDE DEF rb, pa
    <2>7. Good(e, [allocate(m, n) EXCEPT !.requestBlocks = rb, !.pendingAllocations = pa])
      BY <2>1, <2>5, <2>6, SetTables
    <2>8. AllocateBlocks(m, work)
            = [allocate(m, n) EXCEPT !.requestBlocks = rb, !.pendingAllocations = pa]
      BY <1>5 DEF AllocateBlocks, n, a, rb, pa
    <2> QED
      BY <2>7, <2>8
  <1>6. CASE ~canAllocate(m, n)
    <2> DEFINE rt == Put(m.requestBlocks, work.request, work.cache)
    <2>1. rt \in [DOMAIN rt -> Seq(BlockIds(e))] /\ DOMAIN rt \subseteq Requests
      BY <1>1, <1>2, PutFacts
    <2> HIDE DEF rt
    <2>2. Good(e, [m EXCEPT !.requestBlocks = rt])
      BY <2>1, SetRequestBlocks
    <2>3. restoreTable(m, work) = m \/ restoreTable(m, work) = [m EXCEPT !.requestBlocks = rt]
      BY DEF restoreTable, rt
    <2>4. AllocateBlocks(m, work) = restoreTable(m, work)
      BY <1>6 DEF AllocateBlocks
    <2> QED
      BY <2>2, <2>3, <2>4
  <1> QED
    BY <1>5, <1>6

(* Commit gives every block a token count. *)
LEMMA CommittedTokensType ==
  ASSUME NEW e \in Executors, NEW m, Good(e, m), NEW a \in Allocations(e)
  PROVE  committedTokens(m, a) \in [BlockIds(e) -> Nat]
  <1> DEFINE at(b) == {i \in DOMAIN a.blockTable : a.blockTable[i] = b}
  <1>1. /\ m.blockSize = BlockSize[e] /\ Blocks(m) = BlockIds(e)
        /\ m.tokenCount \in [BlockIds(e) -> Nat]
    BY GoodFields
  <1>2. BlockSize[e] \in Nat /\ a.tokens \in Nat /\ a.blockTable \in Seq(BlockIds(e))
    BY SizeFacts DEF Allocations
  <1>3. \A i \in Nat : tokensAt(BlockSize[e], a.tokens, i) \in Nat
    <2> SUFFICES ASSUME NEW i \in Nat, NEW size \in Nat, NEW tokens \in Nat
                 PROVE  tokensAt(size, tokens, i) \in Nat
      BY <1>2
    <2>1. (i - 1) * size \in Int
      OBVIOUS
    <2>2. PICK start \in Int : start = (i - 1) * size
      BY <2>1
    <2>3. tokens > start => Min({size, tokens - start}) \in Nat
      BY DEF Min
    <2> QED
      BY <2>2, <2>3 DEF tokensAt
  <1>4. \A b : at(b) # {} => Max(at(b)) \in Nat
    <2> SUFFICES ASSUME NEW b, at(b) # {} PROVE Max(at(b)) \in Nat
      OBVIOUS
    <2>1. Len(a.blockTable) \in Nat /\ at(b) \in SUBSET (1..Len(a.blockTable))
      BY <1>2
    <2> HIDE DEF at
    <2>2. at(b) \in SUBSET Nat /\ IsFiniteSet(at(b))
      BY <2>1, PositionsFinite
    <2> QED
      BY <2>2, MaxFacts
  <1>5. committedTokens(m, a) =
          [b \in BlockIds(e) |-> IF at(b) = {} THEN m.tokenCount[b]
                                 ELSE tokensAt(BlockSize[e], a.tokens, Max(at(b)))]
    BY <1>1 DEF committedTokens
  <1> HIDE DEF at
  <1> QED
    BY <1>1, <1>3, <1>4, <1>5

(* Commit *)
LEMMA CommitGood ==
  ASSUME NEW e \in Executors, NEW m, Good(e, m), NEW w \in DOMAIN m.pendingAllocations
  PROVE  Good(e, Commit(m, w))
  <1> DEFINE a  == m.pendingAllocations[w]
             im == indexBlocks(m, a.blockTable, a.hashes, newlyCached(m, a))
             tc == committedTokens(m, a)
             pa == Without(m.pendingAllocations, {w})
  <1>1. /\ m.pendingAllocations \in [DOMAIN m.pendingAllocations -> Allocations(e)]
        /\ DOMAIN m.pendingAllocations \subseteq Works
    BY GoodFields
  <1>2. a \in Allocations(e)
    BY <1>1
  <1>3. Commit(m, w) = [im EXCEPT !.tokenCount = tc, !.pendingAllocations = pa]
    BY DEF Commit
  <1>4. pa \in [DOMAIN pa -> Allocations(e)] /\ DOMAIN pa \subseteq Works
    BY <1>1, WithoutFacts
  <1> HIDE DEF a, pa
  <1>5. a.blockTable \in Seq(BlockIds(e)) /\ a.hashes \in Seq(Hashes)
    BY <1>2 DEF Allocations
  <1>6. \A i \in newlyCached(m, a) : a.blockTable[i] \in BlockIds(e) /\ a.hashes[i] \in Hashes
    <2> SUFFICES ASSUME NEW i \in DOMAIN a.blockTable, i <= Len(a.hashes)
                 PROVE  a.blockTable[i] \in BlockIds(e) /\ a.hashes[i] \in Hashes
      BY DEF newlyCached, eligible
    <2> QED
      BY <1>5
  <1>7. Good(e, im)
    BY <1>6, IndexBlocksGood
  <1>8. tc \in [BlockIds(e) -> Nat]
    BY <1>2, CommittedTokensType
  <1> HIDE DEF im, tc
  <1> DEFINE m1 == [im EXCEPT !.tokenCount = tc]
  <1>9. Good(e, m1)
    BY <1>7, <1>8, SetTokenCount
  <1>10. [im EXCEPT !.tokenCount = tc, !.pendingAllocations = pa]
           = [m1 EXCEPT !.pendingAllocations = pa]
    OBVIOUS
  <1> HIDE DEF m1
  <1>11. Good(e, [m1 EXCEPT !.pendingAllocations = pa])
    BY <1>4, <1>9, SetPending
  <1> QED
    BY <1>3, <1>10, <1>11

(* Rollback, also of a work whose request lost its table *)
LEMMA RollbackGood ==
  ASSUME NEW e \in Executors, NEW m, Good(e, m), NEW w \in DOMAIN m.pendingAllocations
  PROVE  Good(e, Rollback(m, w))
  <1> DEFINE a     == m.pendingAllocations[w]
             old   == Lookup(m.requestBlocks, a.request)
             table == truncated(old, Len(a.allocated))
             rb    == IF table = << >> THEN Without(m.requestBlocks, {a.request})
                      ELSE Put(m.requestBlocks, a.request, table)
             pa    == Without(m.pendingAllocations, {w})
  <1>1. /\ m.requestBlocks \in [DOMAIN m.requestBlocks -> Seq(BlockIds(e))]
        /\ DOMAIN m.requestBlocks \subseteq Requests
        /\ m.pendingAllocations \in [DOMAIN m.pendingAllocations -> Allocations(e)]
        /\ DOMAIN m.pendingAllocations \subseteq Works
    BY GoodFields
  <1>2. a \in Allocations(e)
    BY <1>1
  <1>3. Rollback(m, w) = [pushFree(m, a.allocated) EXCEPT !.requestBlocks = rb,
                                                          !.pendingAllocations = pa]
    BY DEF Rollback
  <1>4. pa \in [DOMAIN pa -> Allocations(e)] /\ DOMAIN pa \subseteq Works
    BY <1>1, WithoutFacts
  <1> HIDE DEF a, pa
  <1>5. a.allocated \in Seq(BlockIds(e)) /\ a.request \in Requests
    BY <1>2 DEF Allocations
  <1>6. old \in Seq(BlockIds(e))
    BY <1>1 DEF Lookup
  <1> HIDE DEF old
  <1>7. table \in Seq(BlockIds(e))
    <2>1. PICK k \in Nat : k = Len(a.allocated)
      BY <1>5
    <2> QED
      BY <1>6, <2>1 DEF truncated
  <1> HIDE DEF table
  <1>8. rb \in [DOMAIN rb -> Seq(BlockIds(e))] /\ DOMAIN rb \subseteq Requests
    <2>1. CASE table = << >>
      <3> DEFINE wo == Without(m.requestBlocks, {a.request})
      <3>1. wo \in [DOMAIN wo -> Seq(BlockIds(e))] /\ DOMAIN wo \subseteq Requests
        BY <1>1, WithoutFacts
      <3> QED
        BY <2>1, <3>1
    <2>2. CASE table # << >>
      <3> DEFINE pu == Put(m.requestBlocks, a.request, table)
      <3>1. pu \in [DOMAIN pu -> Seq(BlockIds(e))] /\ DOMAIN pu \subseteq Requests
        BY <1>1, <1>5, <1>7, PutFacts
      <3> QED
        BY <2>2, <3>1
    <2> QED
      BY <2>1, <2>2
  <1>9. Good(e, pushFree(m, a.allocated))
    BY <1>5, PushFreeGood
  <1> HIDE DEF rb
  <1>10. Good(e, [pushFree(m, a.allocated) EXCEPT !.requestBlocks = rb,
                                                  !.pendingAllocations = pa])
    BY <1>4, <1>8, <1>9, SetTables
  <1> QED
    BY <1>3, <1>10

(* FreeRequest, also of a request without a table *)
LEMMA FreeRequestGood ==
  ASSUME NEW e \in Executors, NEW m, Good(e, m), NEW r
  PROVE  Good(e, FreeRequest(m, r))
  <1> DEFINE ids == Lookup(m.requestBlocks, r)
             rb  == Without(m.requestBlocks, {r})
             pa  == Without(m.pendingAllocations, worksOf(m, r))
  <1>1. /\ m.requestBlocks \in [DOMAIN m.requestBlocks -> Seq(BlockIds(e))]
        /\ DOMAIN m.requestBlocks \subseteq Requests
        /\ m.pendingAllocations \in [DOMAIN m.pendingAllocations -> Allocations(e)]
        /\ DOMAIN m.pendingAllocations \subseteq Works
    BY GoodFields
  <1>2. ids \in Seq(BlockIds(e))
    BY <1>1 DEF Lookup
  <1>3. rb \in [DOMAIN rb -> Seq(BlockIds(e))] /\ DOMAIN rb \subseteq Requests
    BY <1>1, WithoutFacts
  <1>4. pa \in [DOMAIN pa -> Allocations(e)] /\ DOMAIN pa \subseteq Works
    BY <1>1, WithoutFacts
  <1>5. FreeRequest(m, r)
          = [pushFree(m, ids) EXCEPT !.requestBlocks = rb, !.pendingAllocations = pa]
    BY DEF FreeRequest
  <1> HIDE DEF ids, rb, pa
  <1>6. Good(e, pushFree(m, ids))
    BY <1>2, PushFreeGood
  <1>7. Good(e, [pushFree(m, ids) EXCEPT !.requestBlocks = rb, !.pendingAllocations = pa])
    BY <1>3, <1>4, <1>6, SetTables
  <1> QED
    BY <1>5, <1>7

(* pinCachedBlocks *)
LEMMA PinGood ==
  ASSUME NEW e \in Executors, NEW m, Good(e, m), NEW hashes \in Seq(Hashes), canPin(m, hashes)
  PROVE  /\ pinnedBlocks(m, hashes) \in Seq(BlockIds(e))
         /\ Good(e, pinCachedBlocks(m, hashes))
  <1>1. m.cachedBlocks \in [DOMAIN m.cachedBlocks -> BlockIds(e)]
    BY GoodFields
  <1>2. Len(hashes) \in Nat /\ DOMAIN hashes = 1..Len(hashes)
    OBVIOUS
  <1>3. \A i \in DOMAIN hashes : m.cachedBlocks[hashes[i]] \in BlockIds(e)
    BY <1>1 DEF canPin, transferable
  <1>4. pinnedBlocks(m, hashes) \in [1..Len(hashes) -> BlockIds(e)]
    BY <1>2, <1>3 DEF pinnedBlocks
  <1>5. pinnedBlocks(m, hashes) \in Seq(BlockIds(e))
    BY <1>2, <1>4, SeqDef
  <1> QED
    BY <1>5, TouchGood DEF pinCachedBlocks

(* commitImportedBlocks *)
LEMMA CommitImportedGood ==
  ASSUME NEW e \in Executors, NEW m, Good(e, m), NEW ids \in Seq(BlockIds(e)),
         NEW hashes \in Seq(Hashes), Len(ids) = Len(hashes)
  PROVE  Good(e, commitImportedBlocks(m, ids, hashes))
  <1> DEFINE K  == installed(m, ids, hashes)
             im == indexBlocks(m, ids, hashes, K)
             tc == [b \in BlockIds(e) |-> IF \E i \in K : ids[i] = b THEN m.blockSize
                                          ELSE m.tokenCount[b]]
  <1>1. /\ m.blockSize = BlockSize[e] /\ Blocks(m) = BlockIds(e)
        /\ m.tokenCount \in [BlockIds(e) -> Nat]
    BY GoodFields
  <1>2. DOMAIN ids = 1..Len(ids) /\ DOMAIN hashes = 1..Len(ids)
    OBVIOUS
  <1>3. \A i \in K : ids[i] \in BlockIds(e) /\ hashes[i] \in Hashes
    BY <1>2 DEF installed
  <1>4. commitImportedBlocks(m, ids, hashes) = pushFree([im EXCEPT !.tokenCount = tc], ids)
    BY <1>1 DEF commitImportedBlocks
  <1> HIDE DEF K
  <1>5. tc \in [BlockIds(e) -> Nat]
    BY <1>1, SizeFacts
  <1>6. Good(e, im)
    BY <1>3, IndexBlocksGood
  <1> HIDE DEF im, tc
  <1>7. Good(e, [im EXCEPT !.tokenCount = tc])
    BY <1>5, <1>6, SetTokenCount
  <1>8. Good(e, pushFree([im EXCEPT !.tokenCount = tc], ids))
    BY <1>7, PushFreeGood
  <1> QED
    BY <1>4, <1>8

-----------------------------------------------------------------------------
(* The registry.  Inv in the three parts its steps change. *)

ManagersInv == DOMAIN mgr = Executors /\ \A e \in Executors : Good(e, mgr[e])

RequestsInv == DOMAIN request = Requests /\ \A r \in Requests : RequestOK(request[r])

TransfersInv ==
  /\ DOMAIN transfer = Transfers /\ \A t \in Transfers : PlanOK(transfer[t])
  /\ transferMu \in Transfers \cup {NoTransfer}
  /\ PlanLengths

(* Inv is those three parts together. *)
LEMMA InvParts == Inv <=> ManagersInv /\ RequestsInv /\ TransfersInv
  <1>1. ManagersInv <=> /\ DOMAIN mgr = Executors
                        /\ \A e \in Executors : ManagerOK(e, mgr[e])
                        /\ FreeQueueSound
    <2>1. \A e \in Executors : ManagerOK(e, mgr[e]) =>
            /\ mgr[e].refCount \in [BlockIds(e) -> Nat]
            /\ mgr[e].free \in Seq(BlockIds(e))
      BY DEF ManagerOK
    <2>2. FreeQueueSound <=> \A e \in Executors :
            /\ IsInjective(mgr[e].free)
            /\ Range(mgr[e].free) = {b \in BlockIds(e) : mgr[e].refCount[b] = 0}
      BY DEF FreeQueueSound
    <2>3. \A e \in Executors : Good(e, mgr[e]) <=>
            /\ ManagerOK(e, mgr[e])
            /\ IsInjective(mgr[e].free)
            /\ Range(mgr[e].free) = {b \in BlockIds(e) : mgr[e].refCount[b] = 0}
      BY <2>1 DEF Good, QueueSound
    <2> QED
      BY <2>2, <2>3 DEF ManagersInv
  <1> QED
    BY <1>1 DEF Inv, TypeOK, RequestsInv, TransfersInv

(* A step that gives one executor's manager a good next state. *)
LEMMA ManagerStep ==
  ASSUME ManagersInv, NEW e \in Executors, NEW m, Good(e, m),
         mgr' = [mgr EXCEPT ![e] = m]
  PROVE  ManagersInv'
  BY DEF ManagersInv, Good, ManagerOK

(* A step that gives one request a well-typed next state. *)
LEMMA RequestStep ==
  ASSUME RequestsInv, NEW r \in Requests, NEW q, RequestOK(q),
         request' = [request EXCEPT ![r] = q]
  PROVE  RequestsInv'
  BY DEF RequestsInv

(* A step that gives one transfer a well-typed plan of equal lengths. *)
LEMMA TransferStep ==
  ASSUME TransfersInv, NEW t \in Transfers, NEW plan, PlanOK(plan),
         plan.step = "pending" => Len(plan.destinationBlocks) = Len(plan.hashes),
         transfer' = [transfer EXCEPT ![t] = plan],
         transferMu' \in Transfers \cup {NoTransfer}
  PROVE  TransfersInv'
  BY DEF TransfersInv, PlanLengths

(* The records of a request and a transfer not in use are well typed. *)
LEMMA NoRequestOK == RequestOK(noRequest)
  BY ExecutorsAssumption, PromptsAssumption DEF RequestOK, noRequest

(* A transfer that is not running has a plan of the right type. *)
LEMMA NoPlanOK == PlanOK(noTransferPlan) /\ noTransferPlan.step = "idle"
  BY ExecutorsAssumption DEF PlanOK, noTransferPlan

(* A registry of new managers, without requests and transfers, satisfies    *)
(* Inv.                                                                     *)
THEOREM InitInv == Init => Inv
  <1> SUFFICES ASSUME Init PROVE ManagersInv /\ RequestsInv /\ TransfersInv
    BY InvParts
  <1>1. ManagersInv
    BY NewManagerGood DEF Init, ManagersInv
  <1>2. RequestsInv
    BY NoRequestOK DEF Init, RequestsInv
  <1>3. TransfersInv
    BY NoPlanOK DEF Init, TransfersInv, PlanLengths
  <1> QED
    BY <1>1, <1>2, <1>3

(* Each action of the registry preserves Inv. *)
LEMMA MatchPrefixInv ==
  ASSUME Inv, NEW r \in Requests, NEW e \in Executors, NEW p \in Prompts,
         MatchPrefixFor(r, e, p)
  PROVE  Inv'
  <1>1. ManagersInv /\ RequestsInv /\ TransfersInv
    BY InvParts
  <1>2. Good(e, mgr[e])
    BY <1>1 DEF ManagersInv
  <1>3. ManagersInv'
    BY <1>1, <1>2, MatchPrefixGood, ManagerStep DEF MatchPrefixFor
  <1>4. RequestsInv'
    <2> DEFINE ids == matchedBlocks(mgr[e], p)
               q   == [live |-> TRUE, executor |-> e, prompt |-> p, cache |-> ids,
                       computed |-> Len(ids) * BlockSize[e]]
    <2>1. ids \in Seq(BlockIds(e))
      BY <1>2, MatchedBlocksType
    <2>2. request' = [request EXCEPT ![r] = q]
      BY DEF MatchPrefixFor
    <2> HIDE DEF ids
    <2>3. Len(ids) * BlockSize[e] \in Nat
      BY <2>1, SizeFacts
    <2>4. RequestOK(q)
      BY <2>1, <2>3 DEF RequestOK
    <2> HIDE DEF q
    <2> QED
      BY <1>1, <2>2, <2>4, RequestStep
  <1>5. TransfersInv'
    BY <1>1 DEF MatchPrefixFor, TransfersInv, PlanLengths
  <1> QED
    BY <1>3, <1>4, <1>5, InvParts, PTL

(* AllocateBlocks for the next work of a request keeps Inv. *)
LEMMA AllocateBlocksInv ==
  ASSUME Inv, NEW r \in Requests, NEW w \in Works, NEW tokens \in nextTokens(r),
         AllocateBlocksFor(r, w, tokens)
  PROVE  Inv'
  <1> DEFINE q == request[r]
             e == q.executor
             work == workItem(w, r, tokens)
  <1>1. ManagersInv /\ RequestsInv /\ TransfersInv
    BY InvParts
  <1>2. /\ e \in Executors /\ q.prompt \in Prompts /\ q.cache \in Seq(BlockIds(e))
        /\ q.computed \in Nat
    BY <1>1 DEF RequestsInv, RequestOK
  <1>3. tokens \in Nat
    BY <1>2, PromptFacts, PromptsAssumption DEF nextTokens
  <1>4. blockHashes(BlockSize[e], q.prompt) \in Seq(Hashes)
    BY <1>2, BlockHashesType
  <1>5. WorkOK(e, work)
    BY <1>2, <1>3, <1>4 DEF WorkOK, workItem
  <1>6. mgr' = [mgr EXCEPT ![e] = AllocateBlocks(mgr[e], work)]
    BY DEF AllocateBlocksFor
  <1> HIDE DEF e, work
  <1>7. Good(e, mgr[e])
    BY <1>1, <1>2 DEF ManagersInv
  <1>8. Good(e, AllocateBlocks(mgr[e], work))
    BY <1>2, <1>5, <1>7, AllocateBlocksGood
  <1>9. ManagersInv'
    BY <1>1, <1>2, <1>6, <1>8, ManagerStep
  <1>10. RequestsInv' /\ TransfersInv'
    BY <1>1 DEF AllocateBlocksFor, RequestsInv, TransfersInv, PlanLengths
  <1> QED
    BY <1>9, <1>10, InvParts, PTL

(* Committing a work keeps Inv. *)
LEMMA CommitInv ==
  ASSUME Inv, NEW e \in Executors, NEW w \in Works, CommitWork(e, w)
  PROVE  Inv'
  <1>1. ManagersInv /\ RequestsInv /\ TransfersInv
    BY InvParts
  <1>2. Good(e, mgr[e]) /\ w \in DOMAIN mgr[e].pendingAllocations
    BY <1>1 DEF ManagersInv, CommitWork
  <1>3. Good(e, Commit(mgr[e], w))
    BY <1>2, CommitGood
  <1>4. ManagersInv'
    BY <1>1, <1>3, ManagerStep DEF CommitWork
  <1>5. RequestsInv'
    <2> DEFINE a == mgr[e].pendingAllocations[w]
               q == [request[a.request] EXCEPT !.computed = a.tokens]
    <2>1. a \in Allocations(e)
      BY <1>2, GoodFields
    <2>2. request' = [request EXCEPT ![a.request] = q]
      BY DEF CommitWork
    <2> HIDE DEF a
    <2>3. a.request \in Requests /\ a.tokens \in Nat
      BY <2>1 DEF Allocations
    <2>4. RequestOK(request[a.request])
      BY <1>1, <2>3 DEF RequestsInv
    <2>5. RequestOK(q)
      BY <2>3, <2>4 DEF RequestOK
    <2> HIDE DEF q
    <2> QED
      BY <1>1, <2>2, <2>3, <2>5, RequestStep
  <1>6. TransfersInv'
    BY <1>1 DEF CommitWork, TransfersInv, PlanLengths
  <1> QED
    BY <1>4, <1>5, <1>6, InvParts, PTL

(* Rolling a work back keeps Inv. *)
LEMMA RollbackInv ==
  ASSUME Inv, NEW e \in Executors, NEW w \in Works, RollbackWork(e, w)
  PROVE  Inv'
  <1>1. ManagersInv /\ RequestsInv /\ TransfersInv
    BY InvParts
  <1>2. Good(e, mgr[e]) /\ w \in DOMAIN mgr[e].pendingAllocations
    BY <1>1 DEF ManagersInv, RollbackWork
  <1>3. Good(e, Rollback(mgr[e], w))
    BY <1>2, RollbackGood
  <1>4. ManagersInv'
    BY <1>1, <1>3, ManagerStep DEF RollbackWork
  <1>5. RequestsInv' /\ TransfersInv'
    BY <1>1 DEF RollbackWork, RequestsInv, TransfersInv, PlanLengths
  <1> QED
    BY <1>4, <1>5, InvParts, PTL

(* FreeRequest keeps Inv, whether or not the caller notices. *)
LEMMA FreeInv ==
  ASSUME Inv, NEW r \in Requests, FreeRequestOf(r) \/ FreeBehindCaller(r)
  PROVE  Inv'
  <1> DEFINE e == request[r].executor
  <1>1. ManagersInv /\ RequestsInv /\ TransfersInv
    BY InvParts
  <1>2. e \in Executors
    BY <1>1 DEF RequestsInv, RequestOK
  <1>3. mgr' = [mgr EXCEPT ![e] = FreeRequest(mgr[e], r)]
    BY DEF FreeRequestOf, FreeBehindCaller
  <1> HIDE DEF e
  <1>4. Good(e, FreeRequest(mgr[e], r))
    BY <1>1, <1>2, FreeRequestGood DEF ManagersInv
  <1>5. ManagersInv'
    BY <1>1, <1>2, <1>3, <1>4, ManagerStep
  <1>6. RequestsInv'
    <2>1. CASE FreeRequestOf(r)
      BY <1>1, <2>1, NoRequestOK, RequestStep DEF FreeRequestOf
    <2>2. CASE FreeBehindCaller(r)
      BY <1>1, <2>2 DEF FreeBehindCaller, RequestsInv
    <2> QED
      BY <2>1, <2>2
  <1>7. TransfersInv'
    BY <1>1 DEF FreeRequestOf, FreeBehindCaller, TransfersInv, PlanLengths
  <1> QED
    BY <1>5, <1>6, <1>7, InvParts, PTL

(* A transfer asks for hashes of prompts. *)
LEMMA HashPrefixType ==
  ASSUME NEW hashes \in HashPrefixes
  PROVE  hashes \in Seq(Hashes)
  <1>1. PICK x \in Executors, p \in Prompts :
          \E n \in 1..Len(matchableBlockHashes(BlockSize[x], p)) :
            hashes = SubSeq(matchableBlockHashes(BlockSize[x], p), 1, n)
    BY DEF HashPrefixes
  <1>2. PICK chain : chain = matchableBlockHashes(BlockSize[x], p)
    OBVIOUS
  <1>3. chain \in Seq(Hashes)
    BY <1>2, MatchableType
  <1>4. PICK n \in 1..Len(chain) : hashes = SubSeq(chain, 1, n)
    BY <1>1, <1>2
  <1> QED
    BY <1>3, <1>4

(* Pinning the source of a transfer keeps Inv. *)
LEMMA PrepareInv ==
  ASSUME Inv, NEW t \in Transfers, NEW s \in Executors, NEW d \in Executors,
         NEW hashes \in HashPrefixes, PrepareTransfer(t, s, d, hashes)
  PROVE  Inv'
  <1> DEFINE ids  == pinnedBlocks(mgr[s], hashes)
             plan == [step |-> "pinned", source |-> s, destination |-> d,
                      hashes |-> hashes, sourceBlocks |-> ids, destinationBlocks |-> << >>]
  <1>1. ManagersInv /\ RequestsInv /\ TransfersInv
    BY InvParts
  <1>2. hashes \in Seq(Hashes)
    BY HashPrefixType
  <1>3. /\ canPin(mgr[s], hashes)
        /\ mgr' = [mgr EXCEPT ![s] = pinCachedBlocks(mgr[s], hashes)]
        /\ transfer' = [transfer EXCEPT ![t] = plan]
        /\ transferMu' = t
    BY DEF PrepareTransfer
  <1>4. Good(s, mgr[s])
    BY <1>1 DEF ManagersInv
  <1>5. ids \in Seq(BlockIds(s)) /\ Good(s, pinCachedBlocks(mgr[s], hashes))
    BY <1>2, <1>3, <1>4, PinGood
  <1>6. ManagersInv'
    BY <1>1, <1>3, <1>5, ManagerStep
  <1> HIDE DEF ids
  <1>7. PlanOK(plan) /\ plan.step # "pending"
    BY <1>2, <1>5 DEF PlanOK
  <1> HIDE DEF plan
  <1>8. TransfersInv'
    BY <1>1, <1>3, <1>7, TransferStep
  <1>9. RequestsInv'
    BY <1>1 DEF PrepareTransfer, RequestsInv
  <1> QED
    BY <1>6, <1>8, <1>9, InvParts, PTL

(* Reserving at the destination keeps Inv, also when it fails. *)
LEMMA ReserveInv ==
  ASSUME Inv, NEW t \in Transfers, ReserveDestination(t)
  PROVE  Inv'
  <1> DEFINE plan == transfer[t]
             d    == plan.destination
             n    == Len(plan.hashes)
  <1>1. ManagersInv /\ RequestsInv /\ TransfersInv
    BY InvParts
  <1>2. PlanOK(plan) /\ transferMu \in Transfers \cup {NoTransfer}
    BY <1>1 DEF TransfersInv
  <1>3. d \in Executors /\ n \in Nat
    BY <1>2 DEF PlanOK
  <1>4. Good(d, mgr[d])
    BY <1>1, <1>3 DEF ManagersInv
  <1>5. /\ mgr' = [mgr EXCEPT ![d] = reserveTransferBlocks(mgr[d], n)]
        /\ request' = request
    BY DEF ReserveDestination
  <1>6. canAllocate(mgr[d], n) =>
          /\ Good(d, allocate(mgr[d], n))
          /\ popped(mgr[d], n) \in Seq(BlockIds(d)) /\ Len(popped(mgr[d], n)) = n
    BY <1>3, <1>4, AllocateGood
  <1>7. ManagersInv'
    <2>1. Good(d, reserveTransferBlocks(mgr[d], n))
      BY <1>4, <1>6 DEF reserveTransferBlocks
    <2> HIDE DEF d, n
    <2> QED
      BY <1>1, <1>3, <1>5, <2>1, ManagerStep
  <1>8. TransfersInv'
    <2>1. CASE canAllocate(mgr[d], n)
      <3> DEFINE ids  == popped(mgr[d], n)
                 next == [plan EXCEPT !.step = "pending", !.destinationBlocks = ids]
      <3>1. transfer' = [transfer EXCEPT ![t] = next] /\ transferMu' = NoTransfer
        BY <1>1, <2>1 DEF ReserveDestination, TransfersInv
      <3>2. ids \in Seq(BlockIds(d)) /\ Len(ids) = n
        BY <1>6, <2>1
      <3> HIDE DEF ids
      <3>3. PlanOK(next) /\ Len(next.destinationBlocks) = Len(next.hashes)
        BY <1>2, <3>2 DEF PlanOK
      <3> HIDE DEF next
      <3> QED
        BY <1>1, <3>1, <3>3, TransferStep
    <2>2. CASE ~canAllocate(mgr[d], n)
      <3> DEFINE next == [plan EXCEPT !.step = "settled"]
      <3>1. transfer' = [transfer EXCEPT ![t] = next] /\ transferMu' = transferMu
        BY <1>1, <2>2 DEF ReserveDestination, TransfersInv
      <3>2. PlanOK(next) /\ next.step # "pending"
        BY <1>2 DEF PlanOK
      <3> HIDE DEF next
      <3> QED
        BY <1>1, <1>2, <3>1, <3>2, TransferStep
    <2> QED
      BY <2>1, <2>2
  <1>9. RequestsInv'
    BY <1>1, <1>5 DEF RequestsInv
  <1> QED
    BY <1>7, <1>8, <1>9, InvParts, PTL

(* CommitTransfer and RollbackTransfer settle the plan the same way. *)
LEMMA SettleInv ==
  ASSUME Inv, NEW t \in Transfers, CommitTransfer(t) \/ RollbackTransfer(t)
  PROVE  Inv'
  <1> DEFINE plan == transfer[t]
             d    == plan.destination
             next == [plan EXCEPT !.step = "settled", !.destinationBlocks = << >>]
  <1>1. ManagersInv /\ RequestsInv /\ TransfersInv
    BY InvParts
  <1>2. PlanOK(plan)
    BY <1>1 DEF TransfersInv
  <1>3. /\ d \in Executors /\ plan.hashes \in Seq(Hashes)
        /\ plan.destinationBlocks \in Seq(BlockIds(d))
    BY <1>2 DEF PlanOK
  <1>4. Len(plan.destinationBlocks) = Len(plan.hashes)
    BY <1>1 DEF TransfersInv, PlanLengths, CommitTransfer, RollbackTransfer
  <1>5. Good(d, mgr[d])
    BY <1>1, <1>3 DEF ManagersInv
  <1>6. PICK m : Good(d, m) /\ mgr' = [mgr EXCEPT ![d] = m]
    <2>1. CASE CommitTransfer(t)
      <3>1. Good(d, commitImportedBlocks(mgr[d], plan.destinationBlocks, plan.hashes))
        BY <1>3, <1>4, <1>5, CommitImportedGood
      <3> QED
        BY <2>1, <3>1 DEF CommitTransfer
    <2>2. CASE RollbackTransfer(t)
      <3>1. Good(d, releaseTransferBlocks(mgr[d], plan.destinationBlocks))
        BY <1>3, <1>5, PushFreeGood DEF releaseTransferBlocks
      <3> QED
        BY <2>2, <3>1 DEF RollbackTransfer
    <2> QED
      BY <2>1, <2>2
  <1>7. transfer' = [transfer EXCEPT ![t] = next] /\ transferMu' = t /\ request' = request
    BY <1>1 DEF CommitTransfer, RollbackTransfer, TransfersInv
  <1>8. PlanOK(next) /\ next.step # "pending"
    <2>1. PICK none \in Seq(BlockIds(d)) : none = << >>
      BY EmptySeq
    <2> QED
      BY <1>2, <2>1 DEF PlanOK
  <1> HIDE DEF d, next
  <1>9. ManagersInv'
    BY <1>1, <1>3, <1>6, ManagerStep
  <1>10. TransfersInv'
    BY <1>1, <1>7, <1>8, TransferStep
  <1>11. RequestsInv'
    BY <1>1, <1>7 DEF RequestsInv
  <1> QED
    BY <1>9, <1>10, <1>11, InvParts, PTL

(* Unpinning the source keeps Inv. *)
LEMMA ReleaseSourceInv ==
  ASSUME Inv, NEW t \in Transfers, ReleaseSource(t)
  PROVE  Inv'
  <1> DEFINE plan == transfer[t]
             s    == plan.source
  <1>1. ManagersInv /\ RequestsInv /\ TransfersInv
    BY InvParts
  <1>2. s \in Executors /\ plan.sourceBlocks \in Seq(BlockIds(s))
    BY <1>1 DEF TransfersInv, PlanOK
  <1>3. Good(s, releaseTransferBlocks(mgr[s], plan.sourceBlocks))
    BY <1>1, <1>2, PushFreeGood DEF ManagersInv, releaseTransferBlocks
  <1>4. /\ mgr' = [mgr EXCEPT ![s] = releaseTransferBlocks(mgr[s], plan.sourceBlocks)]
        /\ transfer' = [transfer EXCEPT ![t] = noTransferPlan]
        /\ transferMu' = NoTransfer /\ request' = request
    BY DEF ReleaseSource
  <1> HIDE DEF s, plan
  <1>5. ManagersInv'
    BY <1>1, <1>2, <1>3, <1>4, ManagerStep
  <1>6. TransfersInv'
    BY <1>1, <1>4, NoPlanOK, TransferStep
  <1>7. RequestsInv'
    BY <1>1, <1>4 DEF RequestsInv
  <1> QED
    BY <1>5, <1>6, <1>7, InvParts, PTL

(* Inv is inductive, also for steps of callers that are late. *)
THEOREM NextInv == Inv /\ [OpenNext]_vars => Inv'
  <1> SUFFICES ASSUME Inv, [OpenNext]_vars PROVE Inv'
    OBVIOUS
  <1>1. CASE RequestNext
    <2>1. CASE \E r \in Requests, e \in Executors, p \in Prompts : MatchPrefixFor(r, e, p)
      BY <2>1, MatchPrefixInv
    <2>2. CASE \E r \in Requests, w \in Works : \E tokens \in nextTokens(r) :
                 AllocateBlocksFor(r, w, tokens)
      BY <2>2, AllocateBlocksInv
    <2>3. CASE \E e \in Executors, w \in Works : CommitWork(e, w) \/ RollbackWork(e, w)
      BY <2>3, CommitInv, RollbackInv
    <2>4. CASE \E r \in Requests : FreeRequestOf(r)
      BY <2>4, FreeInv
    <2> QED
      BY <1>1, <2>1, <2>2, <2>3, <2>4 DEF RequestNext
  <1>2. CASE TransferNext
    <2>1. CASE \E t \in Transfers, s, d \in Executors, hs \in HashPrefixes :
                 PrepareTransfer(t, s, d, hs)
      BY <2>1, PrepareInv
    <2>2. CASE \E t \in Transfers : ReserveDestination(t)
      BY <2>2, ReserveInv
    <2>3. CASE \E t \in Transfers : CommitTransfer(t) \/ RollbackTransfer(t)
      BY <2>3, SettleInv
    <2>4. CASE \E t \in Transfers : ReleaseSource(t)
      BY <2>4, ReleaseSourceInv
    <2> QED
      BY <1>2, <2>1, <2>2, <2>3, <2>4 DEF TransferNext
  <1>3. CASE \E r \in Requests : FreeBehindCaller(r)
    BY <1>3, FreeInv
  <1>4. CASE UNCHANGED vars
    <2>1. mgr' = mgr /\ request' = request /\ transfer' = transfer /\ transferMu' = transferMu
      BY <1>4 DEF vars
    <2>2. ManagersInv /\ RequestsInv /\ TransfersInv
      BY InvParts
    <2>3. ManagersInv' /\ RequestsInv' /\ TransfersInv'
      BY <2>1, <2>2 DEF ManagersInv, RequestsInv, TransfersInv, PlanLengths
    <2> QED
      BY <2>3, InvParts, PTL
  <1> QED
    BY <1>1, <1>2, <1>3, <1>4 DEF OpenNext, Next

(* Inv holds in every state of the registry, with late callers too. *)
THEOREM OpenInv == OpenSpec => []Inv
  BY InitInv, NextInv, PTL DEF OpenSpec

(* Every block id in a table, plan, allocation or map of the registry is a  *)
(* block of the executor it is used with, whatever the callers do.          *)
THEOREM RegistryTypes == OpenSpec => []TypeOK
  <1>1. Inv => TypeOK
    BY DEF Inv
  <1> QED
    BY <1>1, OpenInv, PTL

(* In every manager, whatever the order of calls, a block is in the free    *)
(* queue exactly when its RefCount is zero, and then once: popFree never    *)
(* hands out a referenced block and no unreferenced block is lost.          *)
THEOREM RegistryFreeQueueSound == OpenSpec => []FreeQueueSound
  <1>1. Inv => FreeQueueSound
    BY DEF Inv
  <1> QED
    BY <1>1, OpenInv, PTL

(* The same for callers that keep the protocol: each of their steps is one  *)
(* that OpenSpec allows.                                                    *)
THEOREM SpecIsOpen == Spec => OpenSpec
  <1>1. [Next]_vars => [OpenNext]_vars
    BY DEF OpenNext
  <1> QED
    BY <1>1, PTL DEF Spec, OpenSpec

-----------------------------------------------------------------------------
(* Ownership: the inductive invariant, in parts. *)

(* One manager: the prefix index and the metadata of the blocks agree. *)
IndexSound(m) ==
  /\ \A h \in DOMAIN m.cachedBlocks : transferable(m, h)
  /\ \A b \in Blocks(m) : m.cached[b] =>
       m.hash[b] \in DOMAIN m.cachedBlocks /\ m.cachedBlocks[m.hash[b]] = b

(* Only a cached block has more than one reference. *)
Unshared(m) == \A b \in Blocks(m) : ~m.cached[b] => m.refCount[b] <= 1

ManagersSound == \A e \in Executors : IndexSound(mgr[e]) /\ Unshared(mgr[e])

(* The references from block tables and from plans of transfers. *)
TableRefs(tables, b) ==
  UNION {{<<r, i>> : i \in {j \in DOMAIN tables[r] : tables[r][j] = b}} : r \in DOMAIN tables}

PlanRefs(plans, e, b) ==
  UNION {{<<t, "source", i>> : i \in {j \in DOMAIN plans[t].sourceBlocks :
                                        plans[t].source = e /\ plans[t].sourceBlocks[j] = b}}
         \cup
         {<<t, "destination", i>> : i \in {j \in DOMAIN plans[t].destinationBlocks :
                                             plans[t].destination = e /\ plans[t].destinationBlocks[j] = b}}
         : t \in Transfers}

Owned(e, m, plans) ==
  \A b \in BlockIds(e) :
    /\ IsFiniteSet(TableRefs(m.requestBlocks, b)) /\ IsFiniteSet(PlanRefs(plans, e, b))
    /\ m.refCount[b] = Cardinality(TableRefs(m.requestBlocks, b))
                         + Cardinality(PlanRefs(plans, e, b))

Ownership == \A e \in Executors : Owned(e, mgr[e], transfer)

(* Tables are those of live requests, at the executor of the request. *)
TablesOfLive ==
  \A e \in Executors : \A r \in DOMAIN mgr[e].requestBlocks :
    request[r].live /\ request[r].executor = e

(* A live request's table begins with what its prefix match found, and its  *)
(* cached blocks are those of its own prompt, all computed.                 *)
TableSound(m, r, q) ==
  LET table  == Lookup(m.requestBlocks, r)
      hashes == blockHashes(m.blockSize, q.prompt)
  IN  /\ Len(q.cache) <= Len(table)
      /\ \A i \in DOMAIN table : m.cached[table[i]] =>
           /\ i * m.blockSize <= q.computed
           /\ i <= Len(hashes) /\ m.hash[table[i]] = hashes[i]

TablesSound ==
  \A r \in Requests : request[r].live => TableSound(mgr[request[r].executor], r, request[r])

(* An allocation in flight is the end of its live request's table. *)
AllocationSound(e, m, a, q) ==
  /\ q.live /\ q.executor = e
  /\ a.request \in DOMAIN m.requestBlocks /\ m.requestBlocks[a.request] = a.blockTable
  /\ Len(q.cache) + Len(a.allocated) <= Len(a.blockTable)
  /\ a.blockTable = SubSeq(a.blockTable, 1, Len(a.blockTable) - Len(a.allocated)) \o a.allocated
  /\ a.hashes = blockHashes(m.blockSize, q.prompt)
  /\ q.computed < a.tokens

AllocationsSound ==
  \A e \in Executors : \A w \in DOMAIN mgr[e].pendingAllocations :
    LET a == mgr[e].pendingAllocations[w]
    IN  /\ AllocationSound(e, mgr[e], a, request[a.request])
        /\ \A v \in DOMAIN mgr[e].pendingAllocations :
             mgr[e].pendingAllocations[v].request = a.request => v = w

(* What a transfer holds: the source blocks, cached under its hashes, and   *)
(* the destination blocks, not cached.                                      *)
PlanSound(plan, src, dst) ==
  /\ plan.step = "idle" => plan.sourceBlocks = << >>
  /\ plan.step # "pending" => plan.destinationBlocks = << >>
  /\ plan.step # "idle" =>
       /\ Len(plan.sourceBlocks) = Len(plan.hashes)
       /\ \A i \in DOMAIN plan.hashes :
            /\ plan.hashes[i] \in DOMAIN src.cachedBlocks
            /\ src.cachedBlocks[plan.hashes[i]] = plan.sourceBlocks[i]
  /\ \A i \in DOMAIN plan.destinationBlocks : ~dst.cached[plan.destinationBlocks[i]]

PlansSound ==
  \A t \in Transfers :
    PlanSound(transfer[t], mgr[transfer[t].source], mgr[transfer[t].destination])

Held == /\ ManagersSound
        /\ Ownership
        /\ TablesOfLive
        /\ TablesSound
        /\ AllocationsSound
        /\ PlansSound

-----------------------------------------------------------------------------
(* Counting references *)

(* A disjoint union has the sum of the cardinalities, a difference the      *)
(* difference.                                                              *)
LEMMA CardUnion ==
  ASSUME NEW R, NEW A, IsFiniteSet(R), IsFiniteSet(A), \A x \in A : x \notin R
  PROVE  /\ IsFiniteSet(R \cup A)
         /\ Cardinality(R \cup A) = Cardinality(R) + Cardinality(A)
  <1>1. R \cap A = {}
    OBVIOUS
  <1>2. Cardinality(R \cap A) = 0
    BY <1>1, FS_EmptySet
  <1>3. Cardinality(R) \in Nat /\ Cardinality(A) \in Nat
    BY FS_CardinalityType
  <1>4. /\ IsFiniteSet(R \cup A)
        /\ Cardinality(R \cup A) = Cardinality(R) + Cardinality(A) - Cardinality(R \cap A)
    BY FS_Union
  <1> QED
    BY <1>2, <1>3, <1>4

(* What a subset takes away and what it leaves add up. *)
LEMMA CardMinus ==
  ASSUME NEW R, NEW A, IsFiniteSet(R), A \subseteq R
  PROVE  /\ IsFiniteSet(R \ A) /\ IsFiniteSet(A)
         /\ Cardinality(R \ A) + Cardinality(A) = Cardinality(R)
         /\ Cardinality(R \ A) \in Nat /\ Cardinality(A) \in Nat
  <1>1. IsFiniteSet(A)
    BY FS_Subset
  <1>2. R \cap A = A
    OBVIOUS
  <1>3. IsFiniteSet(R \ A) /\ Cardinality(R \ A) = Cardinality(R) - Cardinality(R \cap A)
    BY FS_Difference
  <1>4. Cardinality(R) \in Nat /\ Cardinality(A) \in Nat /\ Cardinality(R \ A) \in Nat
    BY <1>1, <1>3, FS_CardinalityType
  <1> QED
    BY <1>1, <1>2, <1>3, <1>4

(* An injective image of a finite set is as large as the set. *)
LEMMA CardImage ==
  ASSUME NEW P, IsFiniteSet(P), NEW f, DOMAIN f = P, \A i, j \in P : f[i] = f[j] => i = j
  PROVE  IsFiniteSet({f[i] : i \in P}) /\ Cardinality({f[i] : i \in P}) = Cardinality(P)
  <1> DEFINE T == {f[i] : i \in P}
             g == [i \in P |-> f[i]]
  <1>1. g \in Bijection(P, T)
    BY DEF Bijection, Injection, Surjection, IsInjective
  <1>2. ExistsBijection(P, T)
    BY <1>1 DEF ExistsBijection
  <1> QED
    BY <1>2, FS_Bijection

(* The positions of b in a list *)
positions(s, b) == {j \in DOMAIN s : s[j] = b}

(* are as many as Count says, tagged or not. *)
LEMMA CardTagged ==
  ASSUME NEW S, NEW s \in Seq(S), NEW b, NEW f, DOMAIN f = positions(s, b),
         \A i, j \in DOMAIN f : f[i] = f[j] => i = j,
         NEW A, \A x : x \in A <=> \E i \in DOMAIN f : x = f[i]
  PROVE  IsFiniteSet(A) /\ Cardinality(A) = Count(s, b)
  <1>1. Len(s) \in Nat /\ DOMAIN f \in SUBSET (1..Len(s))
    BY DEF positions
  <1>2. IsFiniteSet(DOMAIN f)
    BY <1>1, PositionsFinite
  <1>3. Cardinality(DOMAIN f) = Count(s, b)
    BY DEF Count, positions
  <1>4. A = {f[i] : i \in DOMAIN f}
    OBVIOUS
  <1> QED
    BY <1>2, <1>3, <1>4, CardImage

(* A joined list names a block as often as its two parts do. *)
LEMMA CountConcat ==
  ASSUME NEW S, NEW s \in Seq(S), NEW t \in Seq(S), NEW b
  PROVE  Count(s \o t, b) = Count(s, b) + Count(t, b)
  <1> DEFINE n == Len(s)
             P == {j \in DOMAIN s : s[j] = b}
             Q == {j \in DOMAIN t : t[j] = b}
             f == [j \in Q |-> n + j]
             I == {f[j] : j \in Q}
             u == s \o t
             R == {j \in DOMAIN u : u[j] = b}
  <1>1. n \in Nat /\ DOMAIN s = 1..n /\ Len(t) \in Nat /\ DOMAIN t = 1..Len(t)
    OBVIOUS
  <1>2. /\ DOMAIN u = 1..(n + Len(t))
        /\ \A i \in 1..n : u[i] = s[i]
        /\ \A i \in 1..Len(t) : u[n + i] = t[i]
    OBVIOUS
  <1>3. P \in SUBSET (1..n) /\ Q \in SUBSET (1..Len(t))
    BY <1>1
  <1> HIDE DEF n, u
  <1>4. IsFiniteSet(P) /\ IsFiniteSet(Q)
    BY <1>1, <1>3, PositionsFinite
  <1>5. DOMAIN f = Q /\ \A i, j \in Q : f[i] = f[j] => i = j
    BY <1>1, <1>3
  <1>6. \A x : x \in I <=> \E j \in Q : x = n + j
    OBVIOUS
  <1>7. R = P \cup I
    <2>1. \A x \in R : x \in P \cup I
      <3> SUFFICES ASSUME NEW x \in 1..(n + Len(t)), u[x] = b PROVE x \in P \cup I
        BY <1>2
      <3>1. CASE x <= n
        BY <1>1, <1>2, <3>1
      <3>2. CASE x > n
        <4>1. x - n \in 1..Len(t) /\ x = n + (x - n)
          BY <1>1, <3>2
        <4>2. x - n \in Q
          BY <1>1, <1>2, <4>1
        <4> QED
          BY <1>6, <4>1, <4>2
      <3> QED
        BY <1>1, <3>1, <3>2
    <2>2. \A x \in P : x \in R
      BY <1>1, <1>2, <1>3
    <2>3. \A x \in I : x \in R
      <3> SUFFICES ASSUME NEW j \in Q PROVE n + j \in R
        BY <1>6
      <3>1. j \in 1..Len(t) /\ n + j \in 1..(n + Len(t))
        BY <1>1, <1>3
      <3> QED
        BY <1>2, <3>1
    <2> QED
      BY <2>1, <2>2, <2>3
  <1>8. \A x \in I : x \notin P
    <2> SUFFICES ASSUME NEW j \in Q PROVE n + j \notin P
      BY <1>6
    <2>1. j \in 1..Len(t) /\ n + j \notin 1..n
      BY <1>1, <1>3
    <2> QED
      BY <1>3, <2>1
  <1>9. Count(s, b) = Cardinality(P) /\ Count(t, b) = Cardinality(Q) /\ Count(u, b) = Cardinality(R)
    BY DEF Count
  <1> HIDE DEF P, Q, f, R
  <1>10. IsFiniteSet(I) /\ Cardinality(I) = Cardinality(Q)
    BY <1>4, <1>5, CardImage
  <1> HIDE DEF I
  <1>11. Cardinality(R) = Cardinality(P) + Cardinality(I)
    BY <1>4, <1>7, <1>8, <1>10, CardUnion
  <1> QED
    BY <1>9, <1>10, <1>11 DEF u

(* The positions of b in the table of r. *)
tableSlots(r, table, b) == {<<r, i>> : i \in {j \in DOMAIN table : table[j] = b}}

(* They are as many as the table counts b. *)
LEMMA TableSlotsCount ==
  ASSUME NEW S, NEW table \in Seq(S), NEW r, NEW b
  PROVE  /\ IsFiniteSet(tableSlots(r, table, b))
         /\ Cardinality(tableSlots(r, table, b)) = Count(table, b)
  <1> DEFINE f == [i \in positions(table, b) |-> <<r, i>>]
  <1>1. DOMAIN f = positions(table, b) /\ \A i, j \in DOMAIN f : f[i] = f[j] => i = j
    OBVIOUS
  <1>2. \A x : x \in tableSlots(r, table, b) <=> \E i \in DOMAIN f : x = f[i]
    BY DEF tableSlots, positions
  <1> HIDE DEF f
  <1> QED
    BY <1>1, <1>2, CardTagged

(* References from tables when only the table of r changes. *)
LEMMA TableRefsUpdate ==
  ASSUME NEW S, NEW old, NEW new, NEW r, NEW b,
         Lookup(old, r) \in Seq(S), Lookup(new, r) \in Seq(S),
         \A x : x # r => (x \in DOMAIN new <=> x \in DOMAIN old),
         \A x \in DOMAIN old : x # r => new[x] = old[x],
         IsFiniteSet(TableRefs(old, b))
  PROVE  /\ IsFiniteSet(TableRefs(new, b))
         /\ Count(Lookup(old, r), b) <= Cardinality(TableRefs(old, b))
         /\ Cardinality(TableRefs(new, b)) + Count(Lookup(old, r), b)
              = Cardinality(TableRefs(old, b)) + Count(Lookup(new, r), b)
  <1> DEFINE A    == tableSlots(r, Lookup(old, r), b)
             B    == tableSlots(r, Lookup(new, r), b)
             rest == TableRefs(old, b) \ A
  <1>1. \A T, y : y \in TableRefs(T, b) <=>
          \E x \in DOMAIN T : \E i \in DOMAIN T[x] : T[x][i] = b /\ y = <<x, i>>
    BY DEF TableRefs
  <1>2. \A T, y : y \in tableSlots(r, Lookup(T, r), b) <=>
          r \in DOMAIN T /\ \E i \in DOMAIN T[r] : T[r][i] = b /\ y = <<r, i>>
    BY DEF tableSlots, Lookup
  <1>3. A \subseteq TableRefs(old, b)
    BY <1>1, <1>2
  <1>4. \A y : y \in rest <=> \E x \in DOMAIN old : x # r /\ \E i \in DOMAIN old[x] :
                                 old[x][i] = b /\ y = <<x, i>>
    BY <1>1, <1>2
  <1>5. \A y : y \in TableRefs(new, b) <=> y \in rest \/ y \in B
    <2>1. \A y \in TableRefs(new, b) : y \in rest \/ y \in B
      BY <1>1, <1>2, <1>4
    <2>2. \A y \in rest : y \in TableRefs(new, b)
      BY <1>1, <1>4
    <2>3. \A y \in B : y \in TableRefs(new, b)
      BY <1>1, <1>2
    <2> QED
      BY <2>1, <2>2, <2>3
  <1>6. TableRefs(new, b) = rest \cup B
    BY <1>5
  <1>7. \A y \in B : y \notin rest
    BY <1>2, <1>4
  <1>8. /\ IsFiniteSet(A) /\ Cardinality(A) = Count(Lookup(old, r), b)
        /\ IsFiniteSet(B) /\ Cardinality(B) = Count(Lookup(new, r), b)
    BY TableSlotsCount
  <1>9. IsFiniteSet(rest) /\ Cardinality(rest) + Cardinality(A) = Cardinality(TableRefs(old, b))
        /\ Cardinality(rest) \in Nat /\ Cardinality(A) \in Nat
    BY <1>3, CardMinus
  <1>10. Cardinality(B) \in Nat
    BY <1>8, FS_CardinalityType
  <1> HIDE DEF A, B, rest
  <1>11. IsFiniteSet(TableRefs(new, b)) /\ Cardinality(TableRefs(new, b)) = Cardinality(rest) + Cardinality(B)
    BY <1>6, <1>7, <1>8, <1>9, CardUnion
  <1> QED
    BY <1>8, <1>9, <1>10, <1>11

(* The positions of block b of executor e in a plan, and how many. *)
planSlots(t, plan, e, b) ==
  {<<t, "source", i>> : i \in {j \in DOMAIN plan.sourceBlocks :
                                 plan.source = e /\ plan.sourceBlocks[j] = b}}
  \cup
  {<<t, "destination", i>> : i \in {j \in DOMAIN plan.destinationBlocks :
                                      plan.destination = e /\ plan.destinationBlocks[j] = b}}

planCount(plan, e, b) ==
  (IF plan.source = e THEN Count(plan.sourceBlocks, b) ELSE 0)
    + (IF plan.destination = e THEN Count(plan.destinationBlocks, b) ELSE 0)

(* They are as many as the two lists count b. *)
LEMMA PlanSlotsCount ==
  ASSUME NEW S, NEW plan, plan.sourceBlocks \in Seq(S),
         NEW D, plan.destinationBlocks \in Seq(D), NEW t, NEW e, NEW b
  PROVE  /\ IsFiniteSet(planSlots(t, plan, e, b))
         /\ Cardinality(planSlots(t, plan, e, b)) = planCount(plan, e, b)
         /\ planCount(plan, e, b) \in Nat
  <1> DEFINE P == {j \in DOMAIN plan.sourceBlocks : plan.source = e /\ plan.sourceBlocks[j] = b}
             Q == {j \in DOMAIN plan.destinationBlocks :
                     plan.destination = e /\ plan.destinationBlocks[j] = b}
             f == [i \in P |-> <<t, "source", i>>]
             g == [i \in Q |-> <<t, "destination", i>>]
             A == {f[i] : i \in P}
             B == {g[i] : i \in Q}
             m == IF plan.source = e THEN Count(plan.sourceBlocks, b) ELSE 0
             n == IF plan.destination = e THEN Count(plan.destinationBlocks, b) ELSE 0
  <1>1. IsFiniteSet(A) /\ Cardinality(A) = m
    <2>1. DOMAIN f = P /\ \A i, j \in P : f[i] = f[j] => i = j
      OBVIOUS
    <2>2. CASE plan.source = e
      <3>1. P = positions(plan.sourceBlocks, b)
        BY <2>2 DEF positions
      <3>2. \A x : x \in A <=> \E i \in DOMAIN f : x = f[i]
        BY <2>1
      <3> HIDE DEF f, P, A
      <3> QED
        BY <2>1, <2>2, <3>1, <3>2, CardTagged
    <2>3. CASE plan.source # e
      BY <2>3, FS_EmptySet
    <2> QED
      BY <2>2, <2>3
  <1>2. IsFiniteSet(B) /\ Cardinality(B) = n
    <2>1. DOMAIN g = Q /\ \A i, j \in Q : g[i] = g[j] => i = j
      OBVIOUS
    <2>2. CASE plan.destination = e
      <3>1. Q = positions(plan.destinationBlocks, b)
        BY <2>2 DEF positions
      <3>2. \A x : x \in B <=> \E i \in DOMAIN g : x = g[i]
        BY <2>1
      <3> HIDE DEF g, Q, B
      <3> QED
        BY <2>1, <2>2, <3>1, <3>2, CardTagged
    <2>3. CASE plan.destination # e
      BY <2>3, FS_EmptySet
    <2> QED
      BY <2>2, <2>3
  <1>3. \A x \in B : x \notin A
    <2>1. \A i, j : <<t, "source", i>> # <<t, "destination", j>>
      OBVIOUS
    <2> QED
      BY <2>1
  <1>4. planSlots(t, plan, e, b) = A \cup B
    BY DEF planSlots
  <1>5. planCount(plan, e, b) = m + n
    BY DEF planCount
  <1> HIDE DEF A, B, m, n
  <1>6. m \in Nat /\ n \in Nat
    BY <1>1, <1>2, FS_CardinalityType
  <1>7. IsFiniteSet(A \cup B) /\ Cardinality(A \cup B) = Cardinality(A) + Cardinality(B)
    BY <1>1, <1>2, <1>3, CardUnion
  <1> QED
    BY <1>1, <1>2, <1>4, <1>5, <1>6, <1>7

(* The same for a plan of the right type. *)
LEMMA PlanSlotsOK ==
  ASSUME NEW plan, PlanOK(plan), NEW t, NEW e, NEW b
  PROVE  /\ IsFiniteSet(planSlots(t, plan, e, b))
         /\ Cardinality(planSlots(t, plan, e, b)) = planCount(plan, e, b)
         /\ planCount(plan, e, b) \in Nat
  <1>1. /\ plan.sourceBlocks \in Seq(BlockIds(plan.source))
        /\ plan.destinationBlocks \in Seq(BlockIds(plan.destination))
    BY DEF PlanOK
  <1> QED
    BY <1>1, PlanSlotsCount

(* References from plans when only the plan of t changes. *)
LEMMA PlanRefsUpdate ==
  ASSUME NEW plans, NEW t \in Transfers, NEW plan, NEW e, NEW b,
         PlanOK(plans[t]), PlanOK(plan),
         IsFiniteSet(PlanRefs(plans, e, b)),
         NEW next, next[t] = plan, \A x \in Transfers : x # t => next[x] = plans[x]
  PROVE  /\ IsFiniteSet(PlanRefs(next, e, b))
         /\ planCount(plans[t], e, b) <= Cardinality(PlanRefs(plans, e, b))
         /\ Cardinality(PlanRefs(next, e, b)) + planCount(plans[t], e, b)
              = Cardinality(PlanRefs(plans, e, b)) + planCount(plan, e, b)
  <1> DEFINE A    == planSlots(t, plans[t], e, b)
             B    == planSlots(t, plan, e, b)
             rest == PlanRefs(plans, e, b) \ A
  <1>1. \A T, y : y \in PlanRefs(T, e, b) <=> \E x \in Transfers : y \in planSlots(x, T[x], e, b)
    BY DEF PlanRefs, planSlots
  <1>2. \A x, p, y : y \in planSlots(x, p, e, b) => y[1] = x
    BY DEF planSlots
  <1>3. A \subseteq PlanRefs(plans, e, b)
    BY <1>1
  <1>4. \A y : y \in rest <=> \E x \in Transfers : x # t /\ y \in planSlots(x, plans[x], e, b)
    BY <1>1, <1>2
  <1>5. next[t] = plan /\ \A x \in Transfers : x # t => next[x] = plans[x]
    OBVIOUS
  <1>6. PlanRefs(next, e, b) = rest \cup B
    <2>1. \A y \in PlanRefs(next, e, b) : y \in rest \/ y \in B
      BY <1>1, <1>4, <1>5
    <2>2. \A y \in rest : y \in PlanRefs(next, e, b)
      BY <1>1, <1>4, <1>5
    <2>3. \A y \in B : y \in PlanRefs(next, e, b)
      BY <1>1, <1>5
    <2> HIDE DEF rest, B
    <2> QED
      BY <2>1, <2>2, <2>3
  <1>7. \A y \in B : y \notin rest
    BY <1>2, <1>4
  <1>8. /\ IsFiniteSet(A) /\ Cardinality(A) = planCount(plans[t], e, b)
        /\ IsFiniteSet(B) /\ Cardinality(B) = planCount(plan, e, b)
    <2>2. IsFiniteSet(A) /\ Cardinality(A) = planCount(plans[t], e, b)
      BY PlanSlotsOK
    <2>3. IsFiniteSet(B) /\ Cardinality(B) = planCount(plan, e, b)
      BY PlanSlotsOK
    <2> QED
      BY <2>2, <2>3
  <1>9. IsFiniteSet(rest) /\ Cardinality(rest) + Cardinality(A) = Cardinality(PlanRefs(plans, e, b))
        /\ Cardinality(rest) \in Nat /\ Cardinality(A) \in Nat
    BY <1>3, CardMinus
  <1>10. Cardinality(B) \in Nat
    BY <1>8, FS_CardinalityType
  <1> HIDE DEF A, B, rest
  <1>11. /\ IsFiniteSet(PlanRefs(next, e, b))
         /\ Cardinality(PlanRefs(next, e, b)) = Cardinality(rest) + Cardinality(B)
    BY <1>6, <1>7, <1>8, <1>9, CardUnion
  <1> QED
    BY <1>8, <1>9, <1>10, <1>11

-----------------------------------------------------------------------------
(* One manager: what an operation does to counts, metadata and index. *)

(* The fields that make up the prefix index are the same. *)
SameIndex(m, n) ==
  /\ n.blockSize = m.blockSize /\ n.tokenCount = m.tokenCount /\ n.hash = m.hash
  /\ n.cached = m.cached /\ n.cachedBlocks = m.cachedBlocks

(* Referenced blocks other than those in N keep their metadata, and only    *)
(* prefixes of unreferenced blocks leave the index.                         *)
Stable(m, n, N) ==
  /\ \A b \in Blocks(m) : b \notin N /\ m.refCount[b] > 0 =>
       (n.cached[b] <=> m.cached[b]) /\ n.hash[b] = m.hash[b]
  /\ \A h \in DOMAIN m.cachedBlocks :
       \/ h \in DOMAIN n.cachedBlocks /\ n.cachedBlocks[h] = m.cachedBlocks[h]
       \/ m.refCount[m.cachedBlocks[h]] = 0

(* An operation that leaves the index alone is stable. *)
LEMMA SameIndexSound ==
  ASSUME NEW e, NEW m, NEW n, Good(e, m), Good(e, n), SameIndex(m, n)
  PROVE  /\ IndexSound(m) => IndexSound(n)
         /\ Stable(m, n, {})
  <1>1. Blocks(n) = Blocks(m)
    BY GoodFields
  <1> QED
    BY <1>1 DEF SameIndex, IndexSound, transferable, Stable

(* touch adds references to cached blocks only. *)
LEMMA TouchEffect ==
  ASSUME NEW e, NEW m, Good(e, m), NEW ids \in Seq(BlockIds(e)),
         IndexSound(m), Unshared(m), \A i \in DOMAIN ids : m.cached[ids[i]]
  PROVE  LET n == touch(m, ids) IN
         /\ Good(e, n) /\ SameIndex(m, n) /\ IndexSound(n) /\ Unshared(n)
         /\ n.requestBlocks = m.requestBlocks /\ n.pendingAllocations = m.pendingAllocations
         /\ \A b \in BlockIds(e) : n.refCount[b] = m.refCount[b] + Count(ids, b)
  <1> DEFINE n == touch(m, ids)
  <1>1. Good(e, n)
    BY TouchGood
  <1>2. Blocks(m) = BlockIds(e) /\ Blocks(n) = BlockIds(e) /\ m.refCount \in [BlockIds(e) -> Nat]
    BY <1>1, GoodFields
  <1>3. /\ SameIndex(m, n)
        /\ n.requestBlocks = m.requestBlocks /\ n.pendingAllocations = m.pendingAllocations
        /\ \A b \in BlockIds(e) : n.refCount[b] = m.refCount[b] + Count(ids, b)
    BY <1>2 DEF touch, SameIndex, Good, ManagerOK
  <1> HIDE DEF n
  <1>4. \A b \in BlockIds(e) : ~m.cached[b] => Count(ids, b) = 0
    BY CountFacts DEF Range
  <1>5. Unshared(n)
    BY <1>2, <1>3, <1>4 DEF Unshared, SameIndex
  <1>6. IndexSound(n)
    BY <1>1, <1>3, SameIndexSound
  <1> QED
    BY <1>1, <1>3, <1>5, <1>6 DEF n

(* pushFree takes references back that were held. *)
LEMMA PushFreeEffect ==
  ASSUME NEW e, NEW m, Good(e, m), NEW ids \in Seq(BlockIds(e)),
         IndexSound(m), Unshared(m), \A b \in BlockIds(e) : Count(ids, b) <= m.refCount[b]
  PROVE  LET n == pushFree(m, ids) IN
         /\ Good(e, n) /\ SameIndex(m, n) /\ IndexSound(n) /\ Unshared(n)
         /\ n.requestBlocks = m.requestBlocks /\ n.pendingAllocations = m.pendingAllocations
         /\ \A b \in BlockIds(e) : n.refCount[b] = m.refCount[b] - Count(ids, b)
  <1> DEFINE n == pushFree(m, ids)
  <1>1. Good(e, n)
    BY PushFreeGood
  <1>2. Blocks(m) = BlockIds(e) /\ Blocks(n) = BlockIds(e) /\ m.refCount \in [BlockIds(e) -> Nat]
    BY <1>1, GoodFields
  <1>3. /\ SameIndex(m, n)
        /\ n.requestBlocks = m.requestBlocks /\ n.pendingAllocations = m.pendingAllocations
        /\ \A b \in BlockIds(e) : n.refCount[b] = IF Count(ids, b) >= m.refCount[b] THEN 0
                                                   ELSE m.refCount[b] - Count(ids, b)
    BY <1>2 DEF pushFree, SameIndex, Good, ManagerOK
  <1> HIDE DEF n
  <1>4. \A b \in BlockIds(e) : Count(ids, b) \in Nat
    BY CountFacts
  <1>5. \A b \in BlockIds(e) : n.refCount[b] = m.refCount[b] - Count(ids, b)
    BY <1>2, <1>3, <1>4
  <1>6. Unshared(n)
    BY <1>2, <1>3, <1>4, <1>5 DEF Unshared, SameIndex
  <1>7. IndexSound(n)
    BY <1>1, <1>3, SameIndexSound
  <1> QED
    BY <1>1, <1>3, <1>5, <1>6, <1>7 DEF n

(* allocate takes unreferenced blocks, one reference each, and what they    *)
(* cached out of the index.                                                 *)
LEMMA AllocateEffect ==
  ASSUME NEW e, NEW m, Good(e, m), NEW k \in Nat, canAllocate(m, k),
         IndexSound(m), Unshared(m)
  PROVE  LET n   == allocate(m, k)
             ids == popped(m, k)
         IN
         /\ Good(e, n) /\ IndexSound(n) /\ Unshared(n) /\ Stable(m, n, {})
         /\ n.requestBlocks = m.requestBlocks /\ n.pendingAllocations = m.pendingAllocations
         /\ ids \in Seq(BlockIds(e)) /\ Len(ids) = k
         /\ \A i \in DOMAIN ids : m.refCount[ids[i]] = 0 /\ ~n.cached[ids[i]]
         /\ \A b \in BlockIds(e) : n.refCount[b] = m.refCount[b] + Count(ids, b)
  <1> DEFINE n   == allocate(m, k)
             ids == popped(m, k)
             I   == Range(ids)
  <1>1. Good(e, n) /\ ids \in Seq(BlockIds(e)) /\ Len(ids) = k
    BY AllocateGood
  <1>2. /\ Blocks(m) = BlockIds(e) /\ Blocks(n) = BlockIds(e)
        /\ m.refCount \in [BlockIds(e) -> Nat] /\ m.free \in Seq(BlockIds(e))
        /\ m.cachedBlocks \in [DOMAIN m.cachedBlocks -> BlockIds(e)]
        /\ QueueSound(BlockIds(e), m.refCount, m.free)
        /\ n.blockSize = m.blockSize
    BY <1>1, GoodFields
  <1>3. /\ n.requestBlocks = m.requestBlocks /\ n.pendingAllocations = m.pendingAllocations
        /\ \A b \in BlockIds(e) :
             /\ n.refCount[b] = IF b \in I THEN 1 ELSE m.refCount[b]
             /\ n.tokenCount[b] = IF b \in I THEN 0 ELSE m.tokenCount[b]
             /\ n.hash[b] = IF b \in I THEN NoHash ELSE m.hash[b]
             /\ n.cached[b] <=> (b \notin I /\ m.cached[b])
        /\ n.cachedBlocks = Without(m.cachedBlocks, {m.hash[b] : b \in {c \in I : m.cached[c]}})
    BY <1>2 DEF allocate, Good, ManagerOK
  <1>4. /\ \A h : h \in DOMAIN n.cachedBlocks <=>
                    h \in DOMAIN m.cachedBlocks /\ \A b \in I : m.cached[b] => m.hash[b] # h
        /\ \A h \in DOMAIN n.cachedBlocks : n.cachedBlocks[h] = m.cachedBlocks[h]
    BY <1>3 DEF Without, Restrict
  <1>5. /\ k <= Len(m.free) /\ Len(m.free) \in Nat /\ DOMAIN ids = 1..k
        /\ \A i \in 1..k : i \in DOMAIN m.free /\ ids[i] = m.free[i]
    BY <1>1, <1>2 DEF canAllocate, popped
  <1> HIDE DEF n, ids
  <1>6. \A i \in DOMAIN ids : m.refCount[ids[i]] = 0 /\ ids[i] \in BlockIds(e)
    BY <1>2, <1>5 DEF QueueSound, Range
  <1>7. \A i, j \in DOMAIN ids : ids[i] = ids[j] => i = j
    BY <1>2, <1>5 DEF QueueSound, IsInjective
  <1>8. \A b \in I : b \in BlockIds(e) /\ m.refCount[b] = 0
    BY <1>6 DEF Range
  <1>9. \A b \in BlockIds(e) : b \in I => Count(ids, b) = 1
    <2> SUFFICES ASSUME NEW i \in DOMAIN ids PROVE Count(ids, ids[i]) = 1
      BY DEF Range
    <2>1. {j \in DOMAIN ids : ids[j] = ids[i]} = {i}
      BY <1>7
    <2> QED
      BY <2>1, FS_Singleton DEF Count
  <1>10. \A b \in BlockIds(e) : b \notin I => Count(ids, b) = 0
    BY <1>1, CountFacts
  <1>11. \A b \in BlockIds(e) : n.refCount[b] = m.refCount[b] + Count(ids, b)
    BY <1>2, <1>3, <1>8, <1>9, <1>10
  <1>12. Unshared(n)
    <2> SUFFICES ASSUME NEW b \in BlockIds(e), ~n.cached[b] PROVE n.refCount[b] <= 1
      BY <1>2 DEF Unshared
    <2>1. b \in I \/ ~m.cached[b]
      <3>1. n.cached[b] <=> (b \notin I /\ m.cached[b])
        BY <1>3, Zenon
      <3> QED
        BY <3>1, Zenon
    <2>2. ~m.cached[b] => m.refCount[b] <= 1
      BY <1>2 DEF Unshared
    <2>3. n.refCount[b] = 1 \/ (n.refCount[b] = m.refCount[b] /\ b \notin I)
      BY <1>3
    <2> QED
      BY <2>1, <2>2, <2>3
  <1>13. \A h \in DOMAIN n.cachedBlocks : n.cachedBlocks[h] \notin I
    BY <1>4 DEF IndexSound, transferable
  <1>14. IndexSound(n)
    <2>1. \A h \in DOMAIN n.cachedBlocks : transferable(n, h)
      BY <1>2, <1>3, <1>4, <1>13 DEF IndexSound, transferable
    <2>2. ASSUME NEW b \in BlockIds(e), n.cached[b]
          PROVE  n.hash[b] \in DOMAIN n.cachedBlocks /\ n.cachedBlocks[n.hash[b]] = b
      <3>1. b \notin I /\ m.cached[b] /\ n.hash[b] = m.hash[b]
        BY <1>3, <2>2
      <3>2. m.hash[b] \in DOMAIN m.cachedBlocks /\ m.cachedBlocks[m.hash[b]] = b
        BY <1>2, <3>1 DEF IndexSound
      <3>3. \A c \in I : m.cached[c] => m.hash[c] # m.hash[b]
        BY <1>2, <1>8, <3>1, <3>2 DEF IndexSound
      <3> QED
        BY <1>4, <3>1, <3>2, <3>3
    <2> QED
      BY <1>2, <2>1, <2>2 DEF IndexSound
  <1>15. Stable(m, n, {})
    <2>1. \A b \in BlockIds(e) : m.refCount[b] > 0 =>
            (n.cached[b] <=> m.cached[b]) /\ n.hash[b] = m.hash[b]
      BY <1>2, <1>3, <1>8
    <2>2. \A h \in DOMAIN m.cachedBlocks :
            \/ h \in DOMAIN n.cachedBlocks /\ n.cachedBlocks[h] = m.cachedBlocks[h]
            \/ m.refCount[m.cachedBlocks[h]] = 0
      BY <1>2, <1>4, <1>8 DEF IndexSound
    <2> QED
      BY <1>2, <2>1, <2>2 DEF Stable
  <1>16. \A i \in DOMAIN ids : ~n.cached[ids[i]]
    BY <1>3, <1>6 DEF Range
  <1> QED
    BY <1>1, <1>3, <1>6, <1>11, <1>12, <1>14, <1>15, <1>16 DEF n, ids

(* Entering full, uncached blocks under new hashes keeps the index sound;   *)
(* the token counts may change as long as cached blocks stay full.          *)
LEMMA IndexBlocksEffect ==
  ASSUME NEW e, NEW m, Good(e, m), NEW ids, NEW hashes, NEW K,
         IndexSound(m), Unshared(m),
         \A i \in K : ids[i] \in BlockIds(e) /\ hashes[i] \in Hashes,
         \A i, j \in K : ids[i] = ids[j] => i = j,
         \A i, j \in K : hashes[i] = hashes[j] => i = j,
         \A i \in K : ~m.cached[ids[i]] /\ hashes[i] \notin DOMAIN m.cachedBlocks,
         NEW tc \in [BlockIds(e) -> Nat],
         \A i \in K : tc[ids[i]] = m.blockSize,
         \A b \in BlockIds(e) : m.cached[b] => tc[b] = m.blockSize
  PROVE  LET n == [indexBlocks(m, ids, hashes, K) EXCEPT !.tokenCount = tc] IN
         /\ Good(e, n) /\ IndexSound(n) /\ Unshared(n) /\ Stable(m, n, {ids[i] : i \in K})
         /\ n.requestBlocks = m.requestBlocks /\ n.pendingAllocations = m.pendingAllocations
         /\ n.refCount = m.refCount
         /\ \A i \in K : n.cached[ids[i]] /\ n.hash[ids[i]] = hashes[i]
         /\ \A b \in BlockIds(e) : n.cached[b] => m.cached[b] \/ \E i \in K : ids[i] = b
  <1> DEFINE x == indexBlocks(m, ids, hashes, K)
             n == [x EXCEPT !.tokenCount = tc]
             N == {ids[i] : i \in K}
  <1>1. Good(e, x)
    BY IndexBlocksGood
  <1>2. Good(e, n)
    <2> HIDE DEF x
    <2> QED
      BY <1>1, SetTokenCount
  <1>3. /\ Blocks(m) = BlockIds(e) /\ Blocks(n) = BlockIds(e)
        /\ n.blockSize = m.blockSize
        /\ m.cachedBlocks \in [DOMAIN m.cachedBlocks -> BlockIds(e)]
    <2> HIDE DEF n
    <2> QED
      BY <1>2, GoodFields
  <1>4. /\ n.requestBlocks = m.requestBlocks /\ n.pendingAllocations = m.pendingAllocations
        /\ n.refCount = m.refCount /\ n.tokenCount = tc
        /\ n.hash = [b \in BlockIds(e) |-> IF \E i \in K : ids[i] = b
                                           THEN hashes[CHOOSE i \in K : ids[i] = b] ELSE m.hash[b]]
        /\ n.cached = [b \in BlockIds(e) |-> m.cached[b] \/ \E i \in K : ids[i] = b]
        /\ n.cachedBlocks = [h \in DOMAIN m.cachedBlocks \cup {hashes[i] : i \in K} |->
                               IF \E i \in K : hashes[i] = h
                               THEN ids[CHOOSE i \in K : hashes[i] = h] ELSE m.cachedBlocks[h]]
    BY <1>3 DEF indexBlocks, Good, ManagerOK
  <1> HIDE DEF x, n
  <1>5. ASSUME NEW i \in K
        PROVE  /\ (CHOOSE j \in K : ids[j] = ids[i]) = i
               /\ (CHOOSE j \in K : hashes[j] = hashes[i]) = i
    OBVIOUS
  <1>6. \A i \in K : /\ n.cached[ids[i]] /\ n.hash[ids[i]] = hashes[i]
                     /\ hashes[i] \in DOMAIN n.cachedBlocks
                     /\ n.cachedBlocks[hashes[i]] = ids[i]
    <2> SUFFICES ASSUME NEW i \in K
                 PROVE  /\ n.cached[ids[i]] /\ n.hash[ids[i]] = hashes[i]
                        /\ hashes[i] \in DOMAIN n.cachedBlocks
                        /\ n.cachedBlocks[hashes[i]] = ids[i]
      OBVIOUS
    <2>1. n.cached[ids[i]]
      BY <1>4, ZenonT(30)
    <2>2. n.hash[ids[i]] = hashes[i]
      BY <1>4, <1>5
    <2>3. hashes[i] \in DOMAIN n.cachedBlocks /\ n.cachedBlocks[hashes[i]] = ids[i]
      BY <1>4, <1>5
    <2> QED
      BY <2>1, <2>2, <2>3
  <1>7. \A b \in BlockIds(e) : (\A i \in K : ids[i] # b) =>
          (n.cached[b] <=> m.cached[b]) /\ n.hash[b] = m.hash[b]
    <2> SUFFICES ASSUME NEW b \in BlockIds(e), \A i \in K : ids[i] # b
                 PROVE  (n.cached[b] <=> m.cached[b]) /\ n.hash[b] = m.hash[b]
      OBVIOUS
    <2>1. n.cached = [c \in BlockIds(e) |-> m.cached[c] \/ \E i \in K : ids[i] = c]
      BY <1>4
    <2>2. n.cached[b] <=> m.cached[b]
      BY <2>1, Zenon
    <2>3. n.hash[b] = m.hash[b]
      BY <1>4
    <2> QED
      BY <2>2, <2>3
  <1>8. \A h \in DOMAIN m.cachedBlocks : h \in DOMAIN n.cachedBlocks /\ n.cachedBlocks[h] = m.cachedBlocks[h]
    BY <1>4
  <1>9. \A h \in DOMAIN n.cachedBlocks : h \in DOMAIN m.cachedBlocks \/ \E i \in K : h = hashes[i]
    BY <1>4
  <1>10. \A b \in BlockIds(e) : n.cached[b] => m.cached[b] \/ \E i \in K : ids[i] = b
    <2>1. n.cached = [b \in BlockIds(e) |-> m.cached[b] \/ \E i \in K : ids[i] = b]
      BY <1>4
    <2>2. ASSUME NEW b \in BlockIds(e), n.cached[b], \A i \in K : ids[i] # b PROVE m.cached[b]
      BY <2>1, <2>2, Zenon
    <2> QED
      BY <2>2
  <1>11. \A h \in DOMAIN m.cachedBlocks :
           /\ m.cachedBlocks[h] \in BlockIds(e) /\ m.cached[m.cachedBlocks[h]]
           /\ m.hash[m.cachedBlocks[h]] = h
           /\ \A i \in K : ids[i] # m.cachedBlocks[h]
    BY <1>3 DEF IndexSound, transferable
  <1>12. \A h \in DOMAIN n.cachedBlocks : transferable(n, h)
    <2>1. ASSUME NEW h \in DOMAIN m.cachedBlocks PROVE transferable(n, h)
      <3> DEFINE b == m.cachedBlocks[h]
      <3>1. h \in DOMAIN n.cachedBlocks /\ n.cachedBlocks[h] = b
        BY <1>8
      <3>2. b \in BlockIds(e) /\ m.cached[b] /\ m.hash[b] = h /\ \A i \in K : ids[i] # b
        BY <1>11
      <3> HIDE DEF b
      <3>3. n.cached[b] /\ n.hash[b] = h
        BY <1>7, <3>2
      <3>4. n.tokenCount[b] = n.blockSize
        BY <1>3, <1>4, <3>2
      <3> QED
        BY <3>1, <3>3, <3>4 DEF transferable
    <2>2. ASSUME NEW i \in K PROVE transferable(n, hashes[i])
      <3>1. n.tokenCount[ids[i]] = n.blockSize
        BY <1>3, <1>4
      <3> QED
        BY <1>6, <3>1 DEF transferable
    <2> QED
      BY <1>9, <2>1, <2>2
  <1>13. \A b \in BlockIds(e) : n.cached[b] =>
           n.hash[b] \in DOMAIN n.cachedBlocks /\ n.cachedBlocks[n.hash[b]] = b
    <2> SUFFICES ASSUME NEW b \in BlockIds(e), n.cached[b]
                 PROVE  n.hash[b] \in DOMAIN n.cachedBlocks /\ n.cachedBlocks[n.hash[b]] = b
      OBVIOUS
    <2>1. CASE \E i \in K : ids[i] = b
      BY <2>1, <1>6
    <2>2. CASE \A i \in K : ids[i] # b
      <3>1. m.cached[b] /\ n.hash[b] = m.hash[b]
        BY <2>2, <1>7, <1>10
      <3>2. m.hash[b] \in DOMAIN m.cachedBlocks /\ m.cachedBlocks[m.hash[b]] = b
        BY <1>3, <3>1 DEF IndexSound
      <3> QED
        BY <1>8, <3>1, <3>2
    <2> QED
      BY <2>1, <2>2
  <1>14. IndexSound(n)
    BY <1>3, <1>12, <1>13 DEF IndexSound
  <1>15. Unshared(n)
    <2> SUFFICES ASSUME NEW b \in BlockIds(e), ~n.cached[b] PROVE n.refCount[b] <= 1
      BY <1>3 DEF Unshared
    <2>1. ~m.cached[b]
      BY <1>4
    <2> QED
      BY <1>3, <1>4, <2>1 DEF Unshared
  <1>16. Stable(m, n, N)
    BY <1>3, <1>7, <1>8 DEF Stable
  <1> QED
    BY <1>2, <1>4, <1>6, <1>10, <1>14, <1>15, <1>16 DEF n, x

=============================================================================
