--------------------------- MODULE FreeListProofs ---------------------------
(***************************************************************************)
(* For every number of blocks: the linked free list stays coherent and     *)
(* implements the FIFO queue that BlockOps works with.  Coherent is        *)
(* inductive together with the types.                                      *)
(***************************************************************************)
EXTENDS FreeList, FiniteSetTheorems, SequenceTheorems, TLAPS

Inv == TypeOK /\ Coherent

(* None is not a block, so a link says which case it is in. *)
LEMMA IdsFacts == \A b \in Ids : b \in Int /\ b >= 0 /\ b # None
  BY NAssumption DEF Ids, None

(* A sequence of distinct blocks is no longer than there are blocks. *)
LEMMA DistinctBound ==
  ASSUME NEW s \in Seq(Ids), \A i, j \in DOMAIN s : s[i] = s[j] => i = j
  PROVE  Len(s) <= N
  <1>1. IsFiniteSet(Ids) /\ Cardinality(Ids) = N
    BY FS_Interval, NAssumption DEF Ids
  <1>2. Len(s) \in Nat
    OBVIOUS
  <1>4. Cardinality(1..Len(s)) = Len(s)
    <2>1. Cardinality(1..Len(s)) = IF 1 > Len(s) THEN 0 ELSE Len(s) - 1 + 1
      BY <1>2, FS_Interval
    <2> QED
      BY <1>2, <2>1
  <1>3. s \in Injection(1..Len(s), Ids)
    BY DEF Injection, IsInjective
  <1> QED
    BY <1>1, <1>2, <1>3, <1>4, FS_Injection

(* Removing position k shifts the later elements one down. *)
LEMMA RemoveAtFacts ==
  ASSUME NEW S, NEW s \in Seq(S), NEW k \in 1..Len(s)
  PROVE  /\ RemoveAt(s, k) \in Seq(S)
         /\ Len(RemoveAt(s, k)) = Len(s) - 1
         /\ \A i \in 1..(Len(s) - 1) :
              RemoveAt(s, k)[i] = s[IF i < k THEN i ELSE i + 1]
  <1> DEFINE before == SubSeq(s, 1, k - 1)
             after  == SubSeq(s, k + 1, Len(s))
  <1>1. /\ before \in Seq(S) /\ Len(before) = k - 1
        /\ \A i \in 1..(k - 1) : before[i] = s[i]
    OBVIOUS
  <1>2. /\ after \in Seq(S) /\ Len(after) = Len(s) - k
        /\ \A i \in 1..(Len(s) - k) : after[i] = s[k + i]
    OBVIOUS
  <1>3. RemoveAt(s, k) = before \o after
    BY DEF RemoveAt
  <1>4. Len(s) \in Nat
    OBVIOUS
  <1> HIDE DEF before, after
  <1>5. /\ RemoveAt(s, k) \in Seq(S)
        /\ Len(RemoveAt(s, k)) = Len(s) - 1
    <2>1. before \o after \in Seq(S)
      BY <1>1, <1>2
    <2>2. Len(before \o after) = Len(before) + Len(after)
      BY <1>1, <1>2, ConcatProperties
    <2> QED
      BY <2>1, <2>2, <1>1, <1>2, <1>3, <1>4
  <1>6. ASSUME NEW i \in 1..(Len(s) - 1)
        PROVE  RemoveAt(s, k)[i] = s[IF i < k THEN i ELSE i + 1]
    <2>1. CASE i < k
      BY <2>1, <1>1, <1>2, <1>3, <1>4
    <2>2. CASE i >= k
      <3>1. i - (k - 1) \in 1..(Len(s) - k) /\ k + (i - (k - 1)) = i + 1
        BY <2>2, <1>4
      <3>2. RemoveAt(s, k)[i] = after[i - (k - 1)]
        BY <2>2, <1>1, <1>2, <1>3, <1>4
      <3> QED
        BY <2>2, <3>1, <3>2, <1>2
    <2> QED
      BY <2>1, <2>2
  <1> QED
    BY <1>5, <1>6

(* The list newManager builds is coherent. *)
LEMMA InitInv == Init => Inv
  <1> SUFFICES ASSUME Init PROVE Inv
    OBVIOUS
  <1> USE NAssumption DEF Ids, None
  <1>1. queue \in Seq(Ids) /\ Len(queue) = N /\ DOMAIN queue = 1..N
    BY DEF Init
  <1>2. TypeOK
    BY <1>1 DEF Init, TypeOK
  <1>3. \A b \in Ids : b + 1 \in DOMAIN queue /\ queue[b + 1] = b
    BY <1>1 DEF Init
  <1>4. Coherent
    BY <1>1, <1>3 DEF Init, Coherent, Ends, Links, Distinct, Flags, at
  <1> QED
    BY <1>2, <1>4 DEF Inv

(* popFree leaves the queue without its first block. *)
LEMMA PopInv == Inv /\ popFree => Inv'
  <1> SUFFICES ASSUME Inv, popFree PROVE Inv'
    OBVIOUS
  <1> DEFINE n == Len(queue)
  <1>1. /\ queue \in Seq(Ids) /\ n \in Nat \ {0} /\ DOMAIN queue = 1..n
        /\ freeHead = queue[1] /\ freeHead \in Ids
    BY IdsFacts DEF Inv, TypeOK, Coherent, Ends, popFree, at
  <1>2. /\ queue' \in Seq(Ids) /\ Len(queue') = n - 1 /\ DOMAIN queue' = 1..(n - 1)
        /\ \A i \in 1..(n - 1) : queue'[i] = queue[i + 1]
    BY <1>1 DEF popFree
  <1> HIDE DEF n
  <1>3. /\ nextFree[freeHead] = IF n > 1 THEN queue[2] ELSE None
        /\ n > 1 => queue[2] \in Ids
    BY <1>1 DEF Inv, Coherent, Links, at
  <1>4. TypeOK'
    <2>1. /\ freeHead' \in Ids \cup {None} /\ freeTail' \in Ids \cup {None}
          /\ prevFree' \in [Ids -> Ids \cup {None}] /\ nextFree' \in [Ids -> Ids \cup {None}]
      BY <1>1, <1>3 DEF Inv, TypeOK, popFree
    <2>2. inFreeQueue' \in [Ids -> BOOLEAN] /\ taken' \in Ids \cup {None}
      BY <1>1 DEF Inv, TypeOK, popFree
    <2>3. freeCount' \in 0..N
      BY <1>1, NAssumption DEF Inv, TypeOK, Coherent, Ends, popFree, n
    <2> QED
      BY <1>2, <2>1, <2>2, <2>3 DEF TypeOK
  <1>5. Distinct'
    <2> SUFFICES ASSUME NEW i \in 1..(n - 1), NEW j \in 1..(n - 1), queue'[i] = queue'[j]
                 PROVE  i = j
      BY <1>2 DEF Distinct
    <2>1. i + 1 \in DOMAIN queue /\ j + 1 \in DOMAIN queue /\ queue[i + 1] = queue[j + 1]
      BY <1>1, <1>2
    <2>2. i + 1 = j + 1
      BY <2>1 DEF Inv, Coherent, Distinct
    <2> QED
      BY <1>1, <2>2
  <1>6. Links'
    <2> SUFFICES ASSUME NEW i \in 1..(n - 1)
                 PROVE  /\ prevFree'[queue'[i]] = at(i - 1)'
                        /\ nextFree'[queue'[i]] = at(i + 1)'
      BY <1>2 DEF Links
    <2>1. i + 1 \in DOMAIN queue /\ queue'[i] = queue[i + 1] /\ queue[i + 1] \in Ids
      BY <1>1, <1>2
    <2>2. queue[i + 1] # freeHead
      BY <1>1, <2>1 DEF Inv, Coherent, Distinct
    <2>3. nextFree'[queue'[i]] = at(i + 1)'
      <3>1. nextFree'[queue'[i]] = nextFree[queue[i + 1]]
        BY <2>1, <2>2, <1>1 DEF Inv, TypeOK, popFree
      <3>2. nextFree[queue[i + 1]] = at(i + 2)
        BY <2>1, <1>1 DEF Inv, Coherent, Links
      <3>3. at(i + 1)' = at(i + 2)
        BY <1>1, <1>2 DEF at
      <3> QED
        BY <3>1, <3>2, <3>3
    <2>4. prevFree'[queue'[i]] = at(i - 1)'
      <3>1. prevFree'[queue'[i]] = IF i = 1 THEN None ELSE prevFree[queue[i + 1]]
        <4>1. i # 1 => queue[i + 1] # queue[2]
          BY <2>1, <1>1 DEF Inv, Coherent, Distinct
        <4>2. i # 1 => n > 1 /\ queue[i + 1] # nextFree[freeHead]
          BY <4>1, <1>1, <1>3
        <4>3. i = 1 => queue[i + 1] = nextFree[freeHead]
          BY <1>1, <1>3
        <4> QED
          BY <2>1, <2>2, <4>2, <4>3 DEF popFree
      <3>2. prevFree[queue[i + 1]] = at(i)
        <4>1. prevFree[queue[i + 1]] = at((i + 1) - 1)
          BY <2>1 DEF Inv, Coherent, Links
        <4> QED
          BY <4>1
      <3>3. at(i - 1)' = IF i = 1 THEN None ELSE at(i)
        BY <1>1, <1>2 DEF at
      <3> QED
        BY <3>1, <3>2, <3>3
    <2> QED
      BY <2>3, <2>4
  <1>7. Ends'
    BY <1>1, <1>2, <1>3, IdsFacts DEF Inv, Coherent, Ends, popFree, at, n, None
  <1>8. Flags'
    <2> SUFFICES ASSUME NEW b \in Ids
                 PROVE  inFreeQueue'[b] <=> \E i \in DOMAIN queue' : queue'[i] = b
      BY DEF Flags
    <2>1. inFreeQueue'[b] <=> b # freeHead /\ inFreeQueue[b]
      BY <1>1 DEF Inv, TypeOK, popFree
    <2>2. ASSUME NEW i \in DOMAIN queue' PROVE queue'[i] = queue[i + 1] /\ queue[i + 1] # freeHead
      BY <1>1, <1>2 DEF Inv, Coherent, Distinct
    <2>3. ASSUME NEW i \in DOMAIN queue, queue[i] # freeHead
          PROVE  i - 1 \in DOMAIN queue' /\ queue'[i - 1] = queue[i]
      BY <1>1, <1>2, <2>3
    <2>4. (\E i \in DOMAIN queue' : queue'[i] = b)
            <=> b # freeHead /\ \E i \in DOMAIN queue : queue[i] = b
      BY <1>1, <1>2, <2>2, <2>3
    <2> QED
      BY <2>1, <2>4 DEF Inv, Coherent, Flags
  <1> QED
    BY <1>4, <1>5, <1>6, <1>7, <1>8 DEF Inv, Coherent

(* appendFreeBlock adds a block that was not in the queue at its end. *)
LEMMA AppendInv == ASSUME NEW id \in Ids, Inv, appendFreeBlock(id) PROVE Inv'
  <1> DEFINE n == Len(queue)
  <1>1. queue \in Seq(Ids) /\ n \in Nat /\ DOMAIN queue = 1..n
    BY DEF Inv, TypeOK
  <1>2. /\ queue' \in Seq(Ids) /\ Len(queue') = n + 1 /\ DOMAIN queue' = 1..(n + 1)
        /\ \A i \in 1..(n + 1) : queue'[i] = IF i = n + 1 THEN id ELSE queue[i]
    BY <1>1 DEF appendFreeBlock
  <1>3. \A i \in DOMAIN queue : queue[i] # id /\ queue[i] \in Ids
    <2>1. ~inFreeQueue[id]
      BY DEF appendFreeBlock
    <2> QED
      BY <1>1, <2>1 DEF Inv, Coherent, Flags
  <1>4. freeTail = at(n) /\ freeHead = at(1) /\ freeCount = n
    BY DEF Inv, Coherent, Ends
  <1> HIDE DEF n
  <1>5. \A i \in Int : at(i)' = IF i = n + 1 THEN id ELSE at(i)
    BY <1>1, <1>2 DEF at
  <1>6. n > 0 => at(n) = queue[n] /\ at(n) \in Ids
    BY <1>1, <1>3 DEF at
  <1>7. n = 0 => at(n) = None /\ at(1) = None
    BY <1>1 DEF at
  <1>8. Distinct'
    BY <1>1, <1>2, <1>3 DEF Inv, Coherent, Distinct
  <1>9. Links'
    <2> SUFFICES ASSUME NEW i \in 1..(n + 1)
                 PROVE  /\ prevFree'[queue'[i]] = at(i - 1)'
                        /\ nextFree'[queue'[i]] = at(i + 1)'
      BY <1>2 DEF Links
    <2>1. CASE i = n + 1
      <3>1. queue'[i] = id /\ prevFree'[id] = at(n) /\ nextFree'[id] = None
        BY <2>1, <1>2, <1>4 DEF Inv, TypeOK, appendFreeBlock
      <3>2. at(i - 1)' = at(n) /\ at(i + 1)' = None
        BY <2>1, <1>1, <1>5 DEF at
      <3> QED
        BY <3>1, <3>2
    <2>2. CASE i < n + 1
      <3>1. i \in DOMAIN queue /\ queue'[i] = queue[i] /\ queue[i] \in Ids /\ queue[i] # id
        BY <2>2, <1>1, <1>2, <1>3
      <3>2. prevFree'[queue[i]] = at(i - 1) /\ nextFree[queue[i]] = at(i + 1)
        BY <3>1 DEF Inv, TypeOK, Coherent, Links, appendFreeBlock
      <3>3. nextFree'[queue[i]] = IF i = n THEN id ELSE at(i + 1)
        <4>1. queue[i] = freeTail <=> i = n
          BY <2>2, <3>1, <1>1, <1>4, <1>6 DEF Inv, Coherent, Distinct
        <4> QED
          BY <3>1, <3>2, <4>1 DEF appendFreeBlock
      <3>4. at(i - 1)' = at(i - 1) /\ at(i + 1)' = IF i = n THEN id ELSE at(i + 1)
        BY <2>2, <1>1, <1>5
      <3> QED
        BY <3>1, <3>2, <3>3, <3>4
    <2> QED
      BY <2>1, <2>2, <1>1
  <1>10. Ends'
    <2>1. freeHead' = IF n > 0 THEN at(1) ELSE id
      BY <1>1, <1>4, <1>6, <1>7, IdsFacts DEF appendFreeBlock, None
    <2>2. at(1)' = IF n > 0 THEN at(1) ELSE id
      BY <1>1, <1>5
    <2>3. freeTail' = id /\ freeCount' = n + 1
      BY <1>4 DEF appendFreeBlock
    <2>4. at(Len(queue))' = id
      BY <1>1, <1>2 DEF at
    <2> QED
      BY <1>2, <2>1, <2>2, <2>3, <2>4 DEF Ends
  <1>11. Flags'
    <2> SUFFICES ASSUME NEW b \in Ids
                 PROVE  inFreeQueue'[b] <=> \E i \in DOMAIN queue' : queue'[i] = b
      BY DEF Flags
    <2>1. inFreeQueue'[b] <=> b = id \/ inFreeQueue[b]
      BY DEF Inv, TypeOK, appendFreeBlock
    <2>2. (\E i \in DOMAIN queue' : queue'[i] = b)
            <=> b = id \/ \E i \in DOMAIN queue : queue[i] = b
      BY <1>1, <1>2
    <2> QED
      BY <2>1, <2>2 DEF Inv, Coherent, Flags
  <1>12. TypeOK'
    <2>1. /\ freeHead' \in Ids \cup {None} /\ freeTail' \in Ids \cup {None}
          /\ prevFree' \in [Ids -> Ids \cup {None}] /\ nextFree' \in [Ids -> Ids \cup {None}]
      BY DEF Inv, TypeOK, appendFreeBlock
    <2>2. inFreeQueue' \in [Ids -> BOOLEAN] /\ taken' \in Ids \cup {None}
      BY DEF Inv, TypeOK, appendFreeBlock
    <2>3. freeCount' \in 0..N
      <3>1. n + 1 <= N
        BY <1>2, <1>8, DistinctBound DEF Distinct
      <3> QED
        BY <1>1, <1>4, <3>1, NAssumption DEF appendFreeBlock
    <2> QED
      BY <1>2, <2>1, <2>2, <2>3 DEF TypeOK
  <1> QED
    BY <1>8, <1>9, <1>10, <1>11, <1>12 DEF Inv, Coherent

(* removeFreeBlock closes the gap at the position of its block. *)
LEMMA RemoveInv == ASSUME NEW id \in Ids, Inv, removeFreeBlock(id) PROVE Inv'
  <1>1. PICK n \in Nat : n = Len(queue) /\ queue \in Seq(Ids) /\ DOMAIN queue = 1..n
    BY DEF Inv, TypeOK
  <1>2. PICK k \in 1..n : queue[k] = id /\ queue' = RemoveAt(queue, k)
    <2>1. inFreeQueue[id]
      BY DEF removeFreeBlock
    <2>2. \E i \in DOMAIN queue : queue[i] = id
      BY <2>1 DEF Inv, Coherent, Flags
    <2> QED
      BY <1>1, <2>2 DEF removeFreeBlock
  <1> DEFINE old(i) == IF i < k THEN i ELSE i + 1
  <1>4. /\ queue' \in Seq(Ids) /\ Len(queue') = n - 1 /\ DOMAIN queue' = 1..(n - 1)
        /\ \A i \in 1..(n - 1) : queue'[i] = queue[old(i)]
    BY <1>1, <1>2, RemoveAtFacts
  <1>5. \A i \in 1..(n - 1) : old(i) \in 1..n /\ old(i) # k /\ queue[old(i)] \in Ids
    BY <1>1, <1>2
  <1>6. \A i \in 1..n : queue[i] = id <=> i = k
    BY <1>1, <1>2 DEF Inv, Coherent, Distinct
  <1>7. prevFree[id] = at(k - 1) /\ nextFree[id] = at(k + 1)
    BY <1>1, <1>2 DEF Inv, Coherent, Links
  <1>8. \A i \in 0..n : at(i)' = IF i < k THEN at(i) ELSE at(i + 1)
    BY <1>1, <1>2, <1>4 DEF at
  <1>9. /\ \A i \in 1..n : at(i) = queue[i] /\ at(i) \in Ids
        /\ at(0) = None /\ at(n + 1) = None
    BY <1>1 DEF at
  <1>10. Distinct'
    <2> SUFFICES ASSUME NEW i \in 1..(n - 1), NEW j \in 1..(n - 1), queue'[i] = queue'[j]
                 PROVE  i = j
      BY <1>4 DEF Distinct
    <2>1. old(i) = old(j)
      BY <1>1, <1>4, <1>5 DEF Inv, Coherent, Distinct
    <2> QED
      BY <2>1
  <1>11. Links'
    <2> SUFFICES ASSUME NEW i \in 1..(n - 1)
                 PROVE  /\ prevFree'[queue'[i]] = at(i - 1)'
                        /\ nextFree'[queue'[i]] = at(i + 1)'
      BY <1>4 DEF Links
    <2> DEFINE b == queue[old(i)]
    <2>1. queue'[i] = b /\ b \in Ids /\ b # id /\ old(i) \in 1..n
      BY <1>4, <1>5, <1>6
    <2>2. prevFree[b] = at(old(i) - 1) /\ nextFree[b] = at(old(i) + 1)
      BY <2>1, <1>1 DEF Inv, Coherent, Links
    <2>9. \A j \in 0..(n + 1) : b = at(j) <=> old(i) = j
      <3> SUFFICES ASSUME NEW j \in 0..(n + 1) PROVE b = at(j) <=> old(i) = j
        OBVIOUS
      <3>1. CASE j \in 1..n
        BY <3>1, <2>1, <1>1, <1>9 DEF Inv, Coherent, Distinct
      <3>2. CASE j \notin 1..n
        <4>1. at(j) = None
          BY <3>2, <1>9
        <4> QED
          BY <4>1, <3>2, <2>1, IdsFacts
      <3> QED
        BY <3>1, <3>2
    <2>3. b = at(k - 1) <=> i = k - 1
      BY <2>9
    <2>4. b = at(k + 1) <=> i = k
      BY <2>9
    <2>5. nextFree'[b] = IF i = k - 1 THEN at(k + 1) ELSE at(old(i) + 1)
      BY <2>1, <2>2, <2>3, <1>7 DEF removeFreeBlock
    <2>6. prevFree'[b] = IF i = k THEN at(k - 1) ELSE at(old(i) - 1)
      BY <2>1, <2>2, <2>4, <1>7 DEF removeFreeBlock
    <2> HIDE DEF b
    <2>7. nextFree'[b] = at(i + 1)'
      BY <1>1, <1>2, <1>8, <2>5
    <2>8. prevFree'[b] = at(i - 1)'
      BY <1>1, <1>2, <1>8, <2>6
    <2> QED
      BY <2>1, <2>7, <2>8
  <1>12. Ends'
    <2>1. freeHead = at(1) /\ freeTail = at(n) /\ freeCount = n
      BY <1>1 DEF Inv, Coherent, Ends
    <2>2. freeHead' = IF k > 1 THEN at(1) ELSE at(2)
      BY <1>1, <1>2, <1>7, <1>9, <2>1, IdsFacts DEF removeFreeBlock, None
    <2>3. freeTail' = IF k < n THEN at(n) ELSE at(n - 1)
      BY <1>1, <1>2, <1>7, <1>9, <2>1, IdsFacts DEF removeFreeBlock, None
    <2>4. freeCount' = n - 1
      BY <2>1 DEF removeFreeBlock
    <2>5. at(1)' = freeHead'
      BY <1>1, <1>2, <1>8, <2>2
    <2>6. at(n - 1)' = freeTail'
      BY <1>1, <1>2, <1>8, <2>3
    <2>7. at(Len(queue))' = at(n - 1)'
      BY <1>4, <1>1, <1>2 DEF at
    <2> QED
      BY <1>4, <2>4, <2>5, <2>6, <2>7 DEF Ends
  <1>13. Flags'
    <2> SUFFICES ASSUME NEW b \in Ids
                 PROVE  inFreeQueue'[b] <=> \E i \in DOMAIN queue' : queue'[i] = b
      BY DEF Flags
    <2>1. inFreeQueue'[b] <=> b # id /\ inFreeQueue[b]
      BY DEF Inv, TypeOK, removeFreeBlock
    <2>2. ASSUME NEW i \in DOMAIN queue' PROVE queue'[i] = queue[old(i)] /\ queue[old(i)] # id
      BY <1>1, <1>4, <1>5, <1>6
    <2>3. ASSUME NEW i \in DOMAIN queue, queue[i] # id
          PROVE  \E j \in DOMAIN queue' : queue'[j] = queue[i]
      <3> DEFINE j == IF i < k THEN i ELSE i - 1
      <3>1. j \in 1..(n - 1) /\ old(j) = i
        BY <1>1, <1>2, <2>3
      <3> QED
        BY <3>1, <1>4
    <2>4. (\E i \in DOMAIN queue' : queue'[i] = b)
            <=> b # id /\ \E i \in DOMAIN queue : queue[i] = b
      <3>1. ASSUME NEW i \in DOMAIN queue', queue'[i] = b
            PROVE  b # id /\ \E j \in DOMAIN queue : queue[j] = b
        BY <3>1, <2>2, <1>1, <1>4, <1>5
      <3>2. ASSUME b # id, NEW i \in DOMAIN queue, queue[i] = b
            PROVE  \E j \in DOMAIN queue' : queue'[j] = b
        BY <3>2, <2>3
      <3> QED
        BY <3>1, <3>2
    <2> QED
      BY <2>1, <2>4 DEF Inv, Coherent, Flags
  <1>14. TypeOK'
    <2>1. at(k - 1) \in Ids \cup {None} /\ at(k + 1) \in Ids \cup {None}
      BY <1>1 DEF at
    <2>2. /\ freeHead' \in Ids \cup {None} /\ freeTail' \in Ids \cup {None}
          /\ prevFree' \in [Ids -> Ids \cup {None}] /\ nextFree' \in [Ids -> Ids \cup {None}]
      BY <1>7, <2>1 DEF Inv, TypeOK, removeFreeBlock
    <2>3. inFreeQueue' \in [Ids -> BOOLEAN] /\ taken' \in Ids \cup {None}
      BY DEF Inv, TypeOK, removeFreeBlock
    <2>4. freeCount' \in 0..N
      BY <1>1, <1>2, NAssumption DEF Inv, TypeOK, Coherent, Ends, removeFreeBlock
    <2> QED
      BY <1>4, <2>2, <2>3, <2>4 DEF TypeOK
  <1> QED
    BY <1>10, <1>11, <1>12, <1>13, <1>14 DEF Inv, Coherent

(* A popFree that finds nothing changes nothing. *)
LEMMA PopFailsInv == Inv /\ popFreeFails => Inv'
  BY DEF Inv, TypeOK, Coherent, Ends, Links, Distinct, Flags, at, popFreeFails

(* The types and the coherence of the list, inductive together. *)
LEMMA InvHolds == Spec => []Inv
  <1>1. Inv /\ [Next]_vars => Inv'
    <2> SUFFICES ASSUME Inv, [Next]_vars PROVE Inv'
      OBVIOUS
    <2>1. CASE popFree
      BY <2>1, PopInv
    <2>2. CASE popFreeFails
      BY <2>2, PopFailsInv
    <2>3. CASE \E id \in Ids : appendFreeBlock(id) \/ removeFreeBlock(id)
      BY <2>3, AppendInv, RemoveInv
    <2>4. CASE UNCHANGED vars
      BY <2>4 DEF Inv, TypeOK, Coherent, Ends, Links, Distinct, Flags, at, vars
    <2> QED
      BY <2>1, <2>2, <2>3, <2>4 DEF Next
  <1> QED
    BY InitInv, <1>1, PTL DEF Spec

(* The linked free list of a block manager (queue.go) stays coherent under  *)
(* every sequence of pops, appends and removals, for every pool size.       *)
THEOREM FreeListCoherent == Spec => []Coherent
  BY InvHolds, PTL DEF Inv

(* Ids, links, ends and count stay in range under every sequence of pops,   *)
(* appends and removals: no array of the manager is indexed with None, and  *)
(* freeCount neither goes below zero nor above the pool.                    *)
THEOREM FreeListTypes == Spec => []TypeOK
  BY InvHolds, PTL DEF Inv

(* The linked list implements the FIFO queue that BlockOps takes the free   *)
(* queue for: popFree returns the block that has waited longest, and fails  *)
(* only when no block is free.                                              *)
THEOREM FreeListImplementsQueue == Spec => ImplementsFreeQueue
  <1>1. Init => Abstract!Init
    BY DEF Init, Abstract!Init, None, Abstract!None
  <1>2. Inv /\ [Next]_vars => [Abstract!Next]_<<queue, taken>>
    <2> SUFFICES ASSUME Inv, Next PROVE Abstract!Next
      BY DEF vars, Abstract!Next
    <2>1. CASE popFree
      <3>1. queue # << >> /\ Head(queue) = freeHead
        BY <2>1, IdsFacts DEF Inv, TypeOK, Coherent, Ends, at, popFree, None
      <3> QED
        BY <2>1, <3>1 DEF popFree, Abstract!Next, Abstract!Pop
    <2>2. CASE popFreeFails
      <3>1. queue = << >>
        BY <2>2, IdsFacts DEF Inv, TypeOK, Coherent, Ends, at, popFreeFails, None
      <3> QED
        BY <2>2, <3>1 DEF popFreeFails, Abstract!Next, Abstract!PopEmpty, None, Abstract!None
    <2>3. ASSUME NEW id \in Ids, appendFreeBlock(id) PROVE Abstract!Next
      <3>1. ~inFreeQueue[id]
        BY <2>3 DEF appendFreeBlock
      <3>2. \A i \in DOMAIN queue : queue[i] # id
        BY <3>1 DEF Inv, Coherent, Flags
      <3> QED
        BY <2>3, <3>2 DEF appendFreeBlock, Abstract!Next, Abstract!Push, Ids, Abstract!Ids
    <2>4. ASSUME NEW id \in Ids, removeFreeBlock(id) PROVE Abstract!Next
      <3>1. inFreeQueue[id]
        BY <2>4 DEF removeFreeBlock
      <3>2. \E i \in DOMAIN queue : queue[i] = id
        BY <3>1 DEF Inv, Coherent, Flags
      <3>3. \E i \in DOMAIN queue : queue[i] = id /\ queue' = RemoveAt(queue, i)
        BY <2>4, <3>2 DEF removeFreeBlock
      <3>4. Abstract!Withdraw(id)
        BY <2>4, <3>3 DEF removeFreeBlock, Abstract!Withdraw, RemoveAt, Abstract!RemoveAt
      <3> QED
        BY <3>4 DEF Abstract!Next, Ids, Abstract!Ids
    <2> QED
      BY <2>1, <2>2, <2>3, <2>4 DEF Next
  <1> QED
    BY InvHolds, <1>1, <1>2, PTL DEF Spec, ImplementsFreeQueue, Abstract!Spec

=============================================================================
