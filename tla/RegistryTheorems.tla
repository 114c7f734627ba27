-------------------------- MODULE RegistryTheorems --------------------------
(***************************************************************************)
(* Every action of BlockRegistry keeps Held; and what the callers of the   *)
(* block registry rely on, for every number of executors, blocks,          *)
(* requests, works and transfers.                                          *)
(*                                                                         *)
(* A step changes one manager, on behalf of one request or one transfer.   *)
(* RequestStepHeld and TransferStepHeld say once what such a step must     *)
(* leave alone (Stable, Private, Reserved) and how the counts must follow  *)
(* the tables and plans; the lemma of each action then shows only what the *)
(* action itself does.  The theorems at the end follow from Inv /\ Held.   *)
(***************************************************************************)
EXTENDS BlockRegistryProofs

-----------------------------------------------------------------------------
(* References, held and single *)

(* Two elements make a cardinality of two. *)
LEMMA CardTwo ==
  ASSUME NEW R, IsFiniteSet(R), NEW x \in R, NEW y \in R, x # y
  PROVE  Cardinality(R) >= 2
  <1>1. IsFiniteSet(R \ {x}) /\ Cardinality(R \ {x}) = Cardinality(R) - 1
    BY FS_RemoveElement
  <1>2. y \in R \ {x}
    OBVIOUS
  <1>3. Cardinality(R \ {x}) # 0
    BY <1>1, <1>2, FS_EmptySet
  <1>4. Cardinality(R) \in Nat /\ Cardinality(R \ {x}) \in Nat
    BY <1>1, FS_CardinalityType
  <1> QED
    BY <1>1, <1>3, <1>4

(* One element makes a cardinality of at least one. *)
LEMMA CardOne ==
  ASSUME NEW R, IsFiniteSet(R), NEW x \in R
  PROVE  Cardinality(R) \in Nat /\ Cardinality(R) >= 1
  <1>1. Cardinality(R) # 0
    BY FS_EmptySet
  <1>2. Cardinality(R) \in Nat
    BY FS_CardinalityType
  <1> QED
    BY <1>1, <1>2

(* Block b of executor e at position i of the table of r, *)
InTable(m, r, i, b) ==
  r \in DOMAIN m.requestBlocks /\ i \in DOMAIN m.requestBlocks[r] /\ m.requestBlocks[r][i] = b

(* of the source blocks of t, *)
InSource(plans, t, e, i, b) ==
  /\ t \in Transfers /\ plans[t].source = e
  /\ i \in DOMAIN plans[t].sourceBlocks /\ plans[t].sourceBlocks[i] = b

(* of its destination blocks. *)
InDestination(plans, t, e, i, b) ==
  /\ t \in Transfers /\ plans[t].destination = e
  /\ i \in DOMAIN plans[t].destinationBlocks /\ plans[t].destinationBlocks[i] = b

(* Every place of a block is one of its references. *)
LEMMA RefMembers ==
  ASSUME NEW m, NEW plans, NEW e, NEW b
  PROVE  /\ \A r, i : InTable(m, r, i, b) => <<r, i>> \in TableRefs(m.requestBlocks, b)
         /\ \A t, i : InSource(plans, t, e, i, b) => <<t, "source", i>> \in PlanRefs(plans, e, b)
         /\ \A t, i : InDestination(plans, t, e, i, b) =>
                        <<t, "destination", i>> \in PlanRefs(plans, e, b)
  <1>1. \A y : y \in TableRefs(m.requestBlocks, b) <=>
          \E x \in DOMAIN m.requestBlocks : \E i \in DOMAIN m.requestBlocks[x] :
             m.requestBlocks[x][i] = b /\ y = <<x, i>>
    BY DEF TableRefs
  <1>2. \A y : y \in PlanRefs(plans, e, b) <=>
          \E t \in Transfers :
            \/ \E i \in DOMAIN plans[t].sourceBlocks :
                 plans[t].source = e /\ plans[t].sourceBlocks[i] = b /\ y = <<t, "source", i>>
            \/ \E i \in DOMAIN plans[t].destinationBlocks :
                 /\ plans[t].destination = e /\ plans[t].destinationBlocks[i] = b
                 /\ y = <<t, "destination", i>>
    BY DEF PlanRefs
  <1>3. \A r, i : InTable(m, r, i, b) => <<r, i>> \in TableRefs(m.requestBlocks, b)
    BY <1>1 DEF InTable
  <1>4. \A t, i : InSource(plans, t, e, i, b) => <<t, "source", i>> \in PlanRefs(plans, e, b)
    BY <1>2 DEF InSource
  <1>5. \A t, i : InDestination(plans, t, e, i, b) => <<t, "destination", i>> \in PlanRefs(plans, e, b)
    BY <1>2 DEF InDestination
  <1> QED
    BY <1>3, <1>4, <1>5

(* A block in a table or a plan is referenced, and one with a single        *)
(* reference is at one place only.                                          *)
LEMMA Referenced ==
  ASSUME NEW e, NEW m, NEW plans, Owned(e, m, plans), NEW b \in BlockIds(e)
  PROVE  /\ \A r, i : InTable(m, r, i, b) => m.refCount[b] >= 1
         /\ \A t, i : InSource(plans, t, e, i, b) => m.refCount[b] >= 1
         /\ \A t, i : InDestination(plans, t, e, i, b) => m.refCount[b] >= 1
  <1> DEFINE T == TableRefs(m.requestBlocks, b)
             P == PlanRefs(plans, e, b)
  <1>1. IsFiniteSet(T) /\ IsFiniteSet(P) /\ m.refCount[b] = Cardinality(T) + Cardinality(P)
    BY DEF Owned
  <1>2. Cardinality(T) \in Nat /\ Cardinality(P) \in Nat
    BY <1>1, FS_CardinalityType
  <1>3. (\E x : x \in T) => Cardinality(T) >= 1
    BY <1>1, CardOne
  <1>4. (\E x : x \in P) => Cardinality(P) >= 1
    BY <1>1, CardOne
  <1>5. (\E x : x \in T) \/ (\E x : x \in P) => m.refCount[b] >= 1
    BY <1>1, <1>2, <1>3, <1>4
  <1>6. /\ \A r, i : InTable(m, r, i, b) => \E x : x \in T
        /\ \A t, i : InSource(plans, t, e, i, b) => \E x : x \in P
        /\ \A t, i : InDestination(plans, t, e, i, b) => \E x : x \in P
    BY RefMembers
  <1> QED
    BY <1>5, <1>6

(* A block that is referenced once has one place: a table position excludes *)
(* every other one and every transfer, a destination block every source     *)
(* block.                                                                   *)
LEMMA Single ==
  ASSUME NEW e, NEW m, NEW plans, Owned(e, m, plans), NEW b \in BlockIds(e), m.refCount[b] <= 1
  PROVE  /\ \A r, i, s, j : InTable(m, r, i, b) /\ InTable(m, s, j, b) => r = s /\ i = j
         /\ \A r, i, t, j : InTable(m, r, i, b) =>
              ~InSource(plans, t, e, j, b) /\ ~InDestination(plans, t, e, j, b)
         /\ \A t, i, u, j : InDestination(plans, t, e, i, b) =>
              /\ ~InSource(plans, u, e, j, b)
              /\ InDestination(plans, u, e, j, b) => t = u /\ i = j
  <1> DEFINE T == TableRefs(m.requestBlocks, b)
             P == PlanRefs(plans, e, b)
  <1>1. IsFiniteSet(T) /\ IsFiniteSet(P) /\ m.refCount[b] = Cardinality(T) + Cardinality(P)
    BY DEF Owned
  <1>2. Cardinality(T) \in Nat /\ Cardinality(P) \in Nat
    BY <1>1, FS_CardinalityType
  <1>3. \A x, y : x \in T /\ y \in T => x = y
    <2> SUFFICES ASSUME NEW x \in T, NEW y \in T, x # y PROVE FALSE
      OBVIOUS
    <2>1. Cardinality(T) >= 2
      BY <1>1, CardTwo
    <2> QED
      BY <1>1, <1>2, <2>1
  <1>4. \A x, y : x \in P /\ y \in P => x = y
    <2> SUFFICES ASSUME NEW x \in P, NEW y \in P, x # y PROVE FALSE
      OBVIOUS
    <2>1. Cardinality(P) >= 2
      BY <1>1, CardTwo
    <2> QED
      BY <1>1, <1>2, <2>1
  <1>5. \A x, y : x \in T => y \notin P
    <2> SUFFICES ASSUME NEW x \in T, NEW y \in P PROVE FALSE
      OBVIOUS
    <2>1. Cardinality(T) >= 1 /\ Cardinality(P) >= 1
      BY <1>1, CardOne
    <2> QED
      BY <1>1, <1>2, <2>1
  <1>6. /\ \A r, i : InTable(m, r, i, b) => <<r, i>> \in T
        /\ \A t, i : InSource(plans, t, e, i, b) => <<t, "source", i>> \in P
        /\ \A t, i : InDestination(plans, t, e, i, b) => <<t, "destination", i>> \in P
    BY RefMembers
  <1> HIDE DEF T, P
  <1>7. \A r, i, s, j : InTable(m, r, i, b) /\ InTable(m, s, j, b) => r = s /\ i = j
    <2> SUFFICES ASSUME NEW r, NEW i, NEW s, NEW j, InTable(m, r, i, b), InTable(m, s, j, b)
                 PROVE  r = s /\ i = j
      OBVIOUS
    <2>1. <<r, i>> \in T /\ <<s, j>> \in T
      BY <1>6
    <2>2. <<r, i>> = <<s, j>>
      BY <1>3, <2>1
    <2> QED
      BY <2>2
  <1>8. \A r, i, t, j : InTable(m, r, i, b) =>
          ~InSource(plans, t, e, j, b) /\ ~InDestination(plans, t, e, j, b)
    BY <1>5, <1>6
  <1>9. \A t, i, u, j : InDestination(plans, t, e, i, b) => ~InSource(plans, u, e, j, b)
    <2> SUFFICES ASSUME NEW t, NEW i, NEW u, NEW j,
                        InDestination(plans, t, e, i, b), InSource(plans, u, e, j, b)
                 PROVE  FALSE
      OBVIOUS
    <2>1. <<t, "destination", i>> \in P /\ <<u, "source", j>> \in P
      BY <1>6
    <2>2. <<t, "destination", i>> = <<u, "source", j>>
      BY <1>4, <2>1
    <2> QED
      BY <2>2
  <1>10. \A t, i, u, j : InDestination(plans, t, e, i, b) /\ InDestination(plans, u, e, j, b)
           => t = u /\ i = j
    <2> SUFFICES ASSUME NEW t, NEW i, NEW u, NEW j,
                        InDestination(plans, t, e, i, b), InDestination(plans, u, e, j, b)
                 PROVE  t = u /\ i = j
      OBVIOUS
    <2>1. <<t, "destination", i>> \in P /\ <<u, "destination", j>> \in P
      BY <1>6
    <2>2. <<t, "destination", i>> = <<u, "destination", j>>
      BY <1>4, <2>1
    <2> QED
      BY <2>2
  <1> QED
    BY <1>7, <1>8, <1>9, <1>10

-----------------------------------------------------------------------------
(* Ownership of one manager's blocks *)

(* A table's positions of a block are among the block's references. *)
LEMMA TableCountHeld ==
  ASSUME NEW e, NEW m, Good(e, m), NEW plans, Owned(e, m, plans), NEW r, NEW b \in BlockIds(e)
  PROVE  /\ Lookup(m.requestBlocks, r) \in Seq(BlockIds(e))
         /\ Count(Lookup(m.requestBlocks, r), b) <= m.refCount[b]
  <1> DEFINE old == m.requestBlocks
             T   == TableRefs(old, b)
             P   == PlanRefs(plans, e, b)
  <1>1. m.requestBlocks \in [DOMAIN m.requestBlocks -> Seq(BlockIds(e))]
    BY GoodFields
  <1>2. Lookup(old, r) \in Seq(BlockIds(e))
    BY <1>1 DEF Lookup
  <1>3. IsFiniteSet(T) /\ IsFiniteSet(P) /\ m.refCount[b] = Cardinality(T) + Cardinality(P)
    BY DEF Owned
  <1>4. Count(Lookup(old, r), b) <= Cardinality(T)
    <2> HIDE DEF old
    <2> QED
      BY <1>2, <1>3, TableRefsUpdate
  <1>5. Cardinality(T) \in Nat /\ Cardinality(P) \in Nat /\ Count(Lookup(old, r), b) \in Nat
    BY <1>2, <1>3, FS_CardinalityType, CountFacts
  <1> QED
    BY <1>2, <1>3, <1>4, <1>5

(* When one table changes and the counts follow it, the blocks stay owned. *)
LEMMA OwnedTable ==
  ASSUME NEW e, NEW m, NEW n, Good(e, m), Good(e, n), NEW plans, Owned(e, m, plans), NEW r,
         \A x : x # r => (x \in DOMAIN n.requestBlocks <=> x \in DOMAIN m.requestBlocks),
         \A x \in DOMAIN m.requestBlocks : x # r => n.requestBlocks[x] = m.requestBlocks[x],
         \A b \in BlockIds(e) : n.refCount[b] + Count(Lookup(m.requestBlocks, r), b)
                                  = m.refCount[b] + Count(Lookup(n.requestBlocks, r), b)
  PROVE  Owned(e, n, plans)
  <1> SUFFICES ASSUME NEW b \in BlockIds(e)
               PROVE  /\ IsFiniteSet(TableRefs(n.requestBlocks, b)) /\ IsFiniteSet(PlanRefs(plans, e, b))
                      /\ n.refCount[b] = Cardinality(TableRefs(n.requestBlocks, b))
                                           + Cardinality(PlanRefs(plans, e, b))
    BY DEF Owned
  <1> DEFINE old == m.requestBlocks
             new == n.requestBlocks
             T   == TableRefs(old, b)
             U   == TableRefs(new, b)
             P   == PlanRefs(plans, e, b)
  <1>1. /\ old \in [DOMAIN old -> Seq(BlockIds(e))] /\ new \in [DOMAIN new -> Seq(BlockIds(e))]
        /\ m.refCount[b] \in Nat /\ n.refCount[b] \in Nat
    BY GoodFields
  <1>2. Lookup(old, r) \in Seq(BlockIds(e)) /\ Lookup(new, r) \in Seq(BlockIds(e))
    BY <1>1 DEF Lookup
  <1>3. IsFiniteSet(T) /\ IsFiniteSet(P) /\ m.refCount[b] = Cardinality(T) + Cardinality(P)
    BY DEF Owned
  <1>4. /\ \A x : x # r => (x \in DOMAIN new <=> x \in DOMAIN old)
        /\ \A x \in DOMAIN old : x # r => new[x] = old[x]
        /\ n.refCount[b] + Count(Lookup(old, r), b) = m.refCount[b] + Count(Lookup(new, r), b)
    OBVIOUS
  <1> HIDE DEF old, new
  <1>5. IsFiniteSet(U) /\ Cardinality(U) + Count(Lookup(old, r), b)
                            = Cardinality(T) + Count(Lookup(new, r), b)
    BY <1>2, <1>3, <1>4, TableRefsUpdate
  <1>6. /\ Cardinality(T) \in Nat /\ Cardinality(P) \in Nat /\ Cardinality(U) \in Nat
        /\ Count(Lookup(old, r), b) \in Nat /\ Count(Lookup(new, r), b) \in Nat
    BY <1>2, <1>3, <1>5, FS_CardinalityType, CountFacts
  <1> HIDE DEF T, U, P
  <1>7. n.refCount[b] = Cardinality(U) + Cardinality(P)
    <2>1. m.refCount[b] \in Nat /\ n.refCount[b] \in Nat
      BY <1>1
    <2>2. n.refCount[b] + Count(Lookup(old, r), b) = m.refCount[b] + Count(Lookup(new, r), b)
      BY <1>4
    <2> DEFINE rn == n.refCount[b]
               rm == m.refCount[b]
               co == Count(Lookup(old, r), b)
               cn == Count(Lookup(new, r), b)
               ct == Cardinality(T)
               cu == Cardinality(U)
               cp == Cardinality(P)
    <2>3. /\ rn \in Nat /\ rm \in Nat /\ co \in Nat /\ cn \in Nat /\ ct \in Nat /\ cu \in Nat /\ cp \in Nat
          /\ rm = ct + cp /\ cu + co = ct + cn /\ rn + co = rm + cn
      BY <1>3, <1>5, <1>6, <2>1, <2>2
    <2> HIDE DEF rn, rm, co, cn, ct, cu, cp
    <2>4. rn = cu + cp
      BY <2>3
    <2> QED
      BY <2>4 DEF rn, cu, cp
  <1> QED
    BY <1>3, <1>5, <1>7 DEF U, P, new

(* A plan's positions of a block are among the block's references. *)
LEMMA PlanCountHeld ==
  ASSUME NEW e, NEW m, NEW plans, Owned(e, m, plans), DOMAIN plans = Transfers,
         NEW t \in Transfers, PlanOK(plans[t]), NEW b \in BlockIds(e)
  PROVE  planCount(plans[t], e, b) <= m.refCount[b] /\ planCount(plans[t], e, b) \in Nat
  <1> DEFINE T == TableRefs(m.requestBlocks, b)
             P == PlanRefs(plans, e, b)
  <1>1. IsFiniteSet(T) /\ IsFiniteSet(P) /\ m.refCount[b] = Cardinality(T) + Cardinality(P)
    BY DEF Owned
  <1>2. planCount(plans[t], e, b) <= Cardinality(P)
    BY <1>1, PlanRefsUpdate
  <1>3. planCount(plans[t], e, b) \in Nat
    BY PlanSlotsOK
  <1>4. Cardinality(T) \in Nat /\ Cardinality(P) \in Nat
    BY <1>1, FS_CardinalityType
  <1> QED
    BY <1>1, <1>2, <1>3, <1>4

(* When one plan changes and the counts follow it, the blocks stay owned. *)
LEMMA OwnedPlan ==
  ASSUME NEW e, NEW m, NEW n, NEW plans, Owned(e, m, plans), DOMAIN plans = Transfers,
         Good(e, m), Good(e, n), n.requestBlocks = m.requestBlocks,
         NEW t \in Transfers, NEW plan, PlanOK(plans[t]), PlanOK(plan),
         \A b \in BlockIds(e) : n.refCount[b] + planCount(plans[t], e, b)
                                  = m.refCount[b] + planCount(plan, e, b)
  PROVE  Owned(e, n, [plans EXCEPT ![t] = plan])
  <1> DEFINE next == [plans EXCEPT ![t] = plan]
  <1> SUFFICES ASSUME NEW b \in BlockIds(e)
               PROVE  /\ IsFiniteSet(TableRefs(n.requestBlocks, b)) /\ IsFiniteSet(PlanRefs(next, e, b))
                      /\ n.refCount[b] = Cardinality(TableRefs(n.requestBlocks, b))
                                           + Cardinality(PlanRefs(next, e, b))
    BY DEF Owned
  <1> DEFINE T == TableRefs(m.requestBlocks, b)
             P == PlanRefs(plans, e, b)
             Q == PlanRefs(next, e, b)
  <1>1. IsFiniteSet(T) /\ IsFiniteSet(P) /\ m.refCount[b] = Cardinality(T) + Cardinality(P)
    BY DEF Owned
  <1>2. IsFiniteSet(Q) /\ Cardinality(Q) + planCount(plans[t], e, b) = Cardinality(P) + planCount(plan, e, b)
    <2>1. next[t] = plan /\ \A x \in Transfers : x # t => next[x] = plans[x]
      OBVIOUS
    <2>2. IsFiniteSet(PlanRefs(plans, e, b))
      BY <1>1
    <2> HIDE DEF next, T, P, Q
    <2>3. /\ IsFiniteSet(PlanRefs(next, e, b))
          /\ planCount(plans[t], e, b) <= Cardinality(PlanRefs(plans, e, b))
          /\ Cardinality(PlanRefs(next, e, b)) + planCount(plans[t], e, b)
               = Cardinality(PlanRefs(plans, e, b)) + planCount(plan, e, b)
      BY <2>1, <2>2, PlanRefsUpdate
    <2> QED
      BY <2>3 DEF P, Q
  <1>3. n.refCount[b] + planCount(plans[t], e, b) = m.refCount[b] + planCount(plan, e, b)
    OBVIOUS
  <1>4. planCount(plans[t], e, b) \in Nat /\ planCount(plan, e, b) \in Nat
    BY PlanSlotsOK
  <1>5. Cardinality(T) \in Nat /\ Cardinality(P) \in Nat /\ Cardinality(Q) \in Nat
    BY <1>1, <1>2, FS_CardinalityType
  <1>6. m.refCount[b] \in Nat /\ n.refCount[b] \in Nat
    BY GoodFields
  <1> HIDE DEF T, P, Q
  <1>7. n.refCount[b] = Cardinality(T) + Cardinality(Q)
    BY <1>1, <1>2, <1>3, <1>4, <1>5, <1>6
  <1> QED
    BY <1>1, <1>2, <1>7 DEF T, Q

-----------------------------------------------------------------------------
(* Hashes of a prompt *)

(* Arithmetic of full blocks *)
LEMMA DivMul ==
  ASSUME NEW a \in Nat, NEW d \in Nat, d > 0
  PROVE  a \div d \in Nat /\ (a \div d) * d <= a
  OBVIOUS

(* Later blocks end later. *)
LEMMA MulOrder ==
  ASSUME NEW i \in Nat, NEW j \in Nat, NEW d \in Nat, d > 0
  PROVE  i * d \in Nat /\ (i < j => i * d + d <= j * d) /\ (i <= j => i * d <= j * d)
  <1>1. i * d \in Nat /\ j * d \in Nat
    OBVIOUS
  <1>2. ASSUME i <= j PROVE i * d <= j * d
    <2>1. (j - i) * d >= 0
      BY <1>2
    <2>2. (j - i) * d = j * d - i * d
      OBVIOUS
    <2> QED
      BY <1>1, <2>1, <2>2
  <1>3. ASSUME i < j PROVE i * d + d <= j * d
    <2>1. (j - i - 1) * d >= 0
      BY <1>3
    <2>2. (j - i - 1) * d = j * d - i * d - d
      OBVIOUS
    <2> QED
      BY <1>1, <2>1, <2>2
  <1> QED
    BY <1>1, <1>2, <1>3

(* The i-th hash is the salted prefix of i blocks, so the hashes of a       *)
(* prompt are distinct.                                                     *)
LEMMA HashesInjective ==
  ASSUME NEW e \in Executors, NEW p \in Prompts,
         NEW i \in DOMAIN blockHashes(BlockSize[e], p), NEW j \in DOMAIN blockHashes(BlockSize[e], p),
         blockHashes(BlockSize[e], p)[i] = blockHashes(BlockSize[e], p)[j]
  PROVE  i = j
  <1> DEFINE bs == BlockSize[e]
             L  == Len(p.tokens)
             k  == L \div bs
             hs == blockHashes(bs, p)
  <1>1. bs \in Nat /\ bs > 0 /\ L \in Nat /\ p.tokens \in Seq(Int)
    BY SizeFacts, PromptFacts
  <1>2. hs = [x \in 1..k |-> <<p.salt>> \o SubSeq(p.tokens, 1, x * bs)]
    BY DEF blockHashes
  <1>3. i \in 1..k /\ j \in 1..k
    BY <1>2
  <1>4. k \in Nat /\ k * bs <= L
    <2> HIDE DEF bs, L
    <2> QED
      BY <1>1, DivMul
  <1>5. ASSUME NEW x \in 1..k PROVE x * bs \in Nat /\ x * bs <= L /\ Len(hs[x]) = 1 + x * bs
    <2>1. x \in Nat /\ x <= k
      BY <1>4
    <2>2. x * bs \in Nat /\ x * bs <= k * bs
      BY <1>1, <1>4, <2>1, MulOrder
    <2>3. x * bs <= L /\ k * bs \in Nat
      BY <1>1, <1>4, <2>2
    <2> DEFINE y == x * bs
    <2>4. hs[x] = <<p.salt>> \o SubSeq(p.tokens, 1, y)
      BY <1>2
    <2>5. y \in Nat /\ y <= L
      BY <2>2, <2>3
    <2> HIDE DEF y
    <2>6. SubSeq(p.tokens, 1, y) \in Seq(Int) /\ Len(SubSeq(p.tokens, 1, y)) = y
      BY <1>1, <2>5
    <2>7. Len(<<p.salt>> \o SubSeq(p.tokens, 1, y)) = 1 + y
      BY <2>5, <2>6
    <2> QED
      BY <2>3, <2>4, <2>5, <2>7 DEF y
  <1>6. Len(hs[i]) = 1 + i * bs /\ Len(hs[j]) = 1 + j * bs /\ i * bs \in Nat /\ j * bs \in Nat
    BY <1>3, <1>5
  <1>7. i * bs = j * bs
    BY <1>6
  <1>8. i \in Nat /\ j \in Nat
    BY <1>3, <1>4
  <1>9. (i < j => i * bs + bs <= j * bs) /\ (j < i => j * bs + bs <= i * bs)
    BY <1>1, <1>8, MulOrder
  <1> HIDE DEF bs
  <1> QED
    BY <1>1, <1>6, <1>7, <1>8, <1>9

(* What a request may reuse are the leading hashes of its prompt. *)
LEMMA MatchablePrefix ==
  ASSUME NEW e \in Executors, NEW p \in Prompts
  PROVE  LET ms == matchableBlockHashes(BlockSize[e], p)
             hs == blockHashes(BlockSize[e], p)
         IN  /\ Len(ms) \in Nat /\ Len(hs) \in Nat /\ Len(ms) <= Len(hs)
             /\ DOMAIN ms = 1..Len(ms) /\ DOMAIN hs = 1..Len(hs)
             /\ \A i \in 1..Len(ms) : ms[i] = hs[i]
  <1> DEFINE total   == blockHashes(BlockSize[e], p)
             maximum == IF p.tokens = << >> THEN 0
                        ELSE (Len(p.tokens) - 1) \div BlockSize[e]
             n       == Min({Len(total), maximum})
             ms      == matchableBlockHashes(BlockSize[e], p)
  <1>1. total \in Seq(Hashes) /\ Len(total) \in Nat
    BY BlockHashesType
  <1>2. ms = SubSeq(total, 1, n)
    BY DEF matchableBlockHashes
  <1>3. maximum \in Nat
    <2>1. p.tokens # << >> => Len(p.tokens) \in Nat /\ Len(p.tokens) >= 1
      BY PromptFacts, EmptySeq
    <2>2. BlockSize[e] \in Nat /\ BlockSize[e] > 0
      BY SizeFacts
    <2>3. CASE p.tokens # << >>
      <3>1. Len(p.tokens) - 1 \in Nat
        BY <2>1, <2>3
      <3> QED
        BY <2>2, <2>3, <3>1, DivNat
    <2> QED
      BY <2>3
  <1>4. n \in Nat /\ n <= Len(total)
    <2> HIDE DEF maximum, total
    <2> QED
      BY <1>1, <1>3 DEF Min
  <1> HIDE DEF total, n, ms
  <1>5. Len(ms) = n /\ DOMAIN ms = 1..n /\ \A i \in 1..n : ms[i] = total[i]
    BY <1>1, <1>2, <1>4
  <1> QED
    BY <1>1, <1>4, <1>5 DEF total, ms

-----------------------------------------------------------------------------
(* What a step of one manager leaves alone *)

(* A table that does not change stays sound: its blocks are referenced. *)
LEMMA TableFrame ==
  ASSUME NEW e, NEW m, NEW n, Good(e, m), Good(e, n), NEW plans, Owned(e, m, plans),
         NEW N, Stable(m, n, N), NEW r, NEW q, TableSound(m, r, q),
         Lookup(n.requestBlocks, r) = Lookup(m.requestBlocks, r),
         \A i, b : InTable(m, r, i, b) => b \notin N
  PROVE  TableSound(n, r, q)
  <1> DEFINE table == Lookup(m.requestBlocks, r)
  <1>1. /\ Blocks(m) = BlockIds(e) /\ n.blockSize = m.blockSize /\ m.refCount \in [BlockIds(e) -> Nat]
        /\ m.requestBlocks \in [DOMAIN m.requestBlocks -> Seq(BlockIds(e))]
    BY GoodFields
  <1>2. \A i \in DOMAIN table : InTable(m, r, i, table[i]) /\ table[i] \in BlockIds(e)
    BY <1>1 DEF Lookup, InTable
  <1>3. ASSUME NEW i \in DOMAIN table
        PROVE  (n.cached[table[i]] <=> m.cached[table[i]]) /\ n.hash[table[i]] = m.hash[table[i]]
    <2>1. table[i] \in BlockIds(e) /\ table[i] \notin N
      BY <1>2
    <2>2. m.refCount[table[i]] >= 1
      BY <1>2, <2>1, Referenced
    <2>3. m.refCount[table[i]] > 0
      BY <1>1, <2>1, <2>2
    <2> QED
      BY <1>1, <2>1, <2>3 DEF Stable
  <1> HIDE DEF table
  <1>4. Lookup(n.requestBlocks, r) = table /\ Lookup(m.requestBlocks, r) = table
    BY DEF table
  <1> QED
    BY <1>1, <1>3, <1>4 DEF TableSound

(* The source blocks of a transfer are referenced, so their prefixes are    *)
(* not evicted.                                                             *)
LEMMA SourceFrame ==
  ASSUME Inv, Held, NEW e \in Executors, NEW n, Good(e, n), mgr' = [mgr EXCEPT ![e] = n],
         NEW N, Stable(mgr[e], n, N), NEW t \in Transfers,
         transfer[t].step # "idle", NEW i \in DOMAIN transfer[t].hashes
  PROVE  /\ transfer[t].hashes[i] \in DOMAIN mgr'[transfer[t].source].cachedBlocks
         /\ mgr'[transfer[t].source].cachedBlocks[transfer[t].hashes[i]] = transfer[t].sourceBlocks[i]
  <1> DEFINE m    == mgr[e]
             plan == transfer[t]
             src  == mgr[plan.source]
             dst  == mgr[plan.destination]
             src2 == mgr'[plan.source]
  <1>1. ManagersInv /\ TransfersInv
    BY InvParts
  <1>2. Good(e, m) /\ DOMAIN mgr = Executors /\ PlanOK(plan)
    BY <1>1 DEF ManagersInv, TransfersInv
  <1>3. /\ Blocks(m) = BlockIds(e) /\ m.refCount \in [BlockIds(e) -> Nat]
        /\ m.cachedBlocks \in [DOMAIN m.cachedBlocks -> BlockIds(e)]
    BY <1>2, GoodFields
  <1>4. Owned(e, m, transfer) /\ PlanSound(plan, src, dst)
    BY DEF Held, Ownership, PlansSound
  <1>5. /\ plan.source \in Executors /\ plan.destination \in Executors
        /\ plan.sourceBlocks \in Seq(BlockIds(plan.source))
        /\ plan.destinationBlocks \in Seq(BlockIds(plan.destination))
        /\ plan.hashes \in Seq(Hashes)
    BY <1>2 DEF PlanOK
  <1>6. src2 = IF plan.source = e THEN n ELSE src
    BY <1>2, <1>5
  <1> HIDE DEF src2
  <1>7. /\ plan.hashes[i] \in DOMAIN src2.cachedBlocks
        /\ src2.cachedBlocks[plan.hashes[i]] = plan.sourceBlocks[i]
    <2>1. /\ Len(plan.sourceBlocks) = Len(plan.hashes)
          /\ plan.hashes[i] \in DOMAIN src.cachedBlocks
          /\ src.cachedBlocks[plan.hashes[i]] = plan.sourceBlocks[i]
      BY <1>4 DEF PlanSound
    <2>2. CASE plan.source = e
      <3> DEFINE b == plan.sourceBlocks[i]
      <3>1. i \in DOMAIN plan.sourceBlocks /\ b \in BlockIds(e)
        BY <1>5, <2>1, <2>2
      <3>2. InSource(transfer, t, e, i, b)
        BY <2>2, <3>1 DEF InSource
      <3>3. m.refCount[b] >= 1
        BY <1>4, <3>1, <3>2, Referenced
      <3>4. m.refCount[b] # 0
        BY <1>3, <3>1, <3>3
      <3> QED
        BY <1>6, <2>1, <2>2, <3>4 DEF Stable
    <2>3. CASE plan.source # e
      BY <1>6, <2>1, <2>3
    <2> QED
      BY <2>2, <2>3
  <1> QED
    BY <1>7 DEF src2

(* None of the blocks N of e is a destination block of t. *)
Spared(t, e, N) == \A i, b : InDestination(transfer, t, e, i, b) => b \notin N

(* A transfer that does not change stays sound. *)
LEMMA PlanFrame ==
  ASSUME Inv, Held, NEW e \in Executors, NEW n, Good(e, n), mgr' = [mgr EXCEPT ![e] = n],
         NEW N, Stable(mgr[e], n, N), NEW t \in Transfers, Spared(t, e, N)
  PROVE  PlanSound(transfer[t], mgr'[transfer[t].source], mgr'[transfer[t].destination])
  <1> DEFINE m    == mgr[e]
             plan == transfer[t]
             src  == mgr[plan.source]
             dst  == mgr[plan.destination]
             src2 == mgr'[plan.source]
             dst2 == mgr'[plan.destination]
  <1>1. ManagersInv /\ TransfersInv
    BY InvParts
  <1>2. Good(e, m) /\ DOMAIN mgr = Executors /\ PlanOK(plan)
    BY <1>1 DEF ManagersInv, TransfersInv
  <1>3. /\ Blocks(m) = BlockIds(e) /\ m.refCount \in [BlockIds(e) -> Nat]
        /\ m.cachedBlocks \in [DOMAIN m.cachedBlocks -> BlockIds(e)]
    BY <1>2, GoodFields
  <1>4. Owned(e, m, transfer) /\ PlanSound(plan, src, dst)
    BY DEF Held, Ownership, PlansSound
  <1>5. /\ plan.source \in Executors /\ plan.destination \in Executors
        /\ plan.sourceBlocks \in Seq(BlockIds(plan.source))
        /\ plan.destinationBlocks \in Seq(BlockIds(plan.destination))
        /\ plan.hashes \in Seq(Hashes)
    BY <1>2 DEF PlanOK
  <1>6. /\ src2 = IF plan.source = e THEN n ELSE src
        /\ dst2 = IF plan.destination = e THEN n ELSE dst
    BY <1>2, <1>5
  <1> HIDE DEF src2, dst2
  <1>7. ASSUME plan.step # "idle", NEW i \in DOMAIN plan.hashes
        PROVE  /\ plan.hashes[i] \in DOMAIN src2.cachedBlocks
               /\ src2.cachedBlocks[plan.hashes[i]] = plan.sourceBlocks[i]
    BY <1>7, SourceFrame DEF src2
  <1>8. ASSUME NEW i \in DOMAIN plan.destinationBlocks
        PROVE  ~dst2.cached[plan.destinationBlocks[i]]
    <2> DEFINE b == plan.destinationBlocks[i]
    <2>1. ~dst.cached[b]
      BY <1>4 DEF PlanSound
    <2>2. CASE plan.destination = e
      <3>1. b \in BlockIds(e)
        BY <1>5, <2>2
      <3>2. InDestination(transfer, t, e, i, b)
        BY <2>2 DEF InDestination
      <3>3. m.refCount[b] >= 1 /\ b \notin N
        BY <1>4, <3>1, <3>2, Referenced DEF Spared
      <3>4. m.refCount[b] > 0
        BY <1>3, <3>1, <3>3
      <3>5. n.cached[b] <=> m.cached[b]
        BY <1>3, <3>1, <3>3, <3>4 DEF Stable
      <3> QED
        BY <1>6, <2>1, <2>2, <3>5
    <2>3. CASE plan.destination # e
      BY <1>6, <2>1, <2>3
    <2> QED
      BY <2>2, <2>3
  <1>9. /\ plan.step = "idle" => plan.sourceBlocks = << >>
        /\ plan.step # "pending" => plan.destinationBlocks = << >>
        /\ plan.step # "idle" => Len(plan.sourceBlocks) = Len(plan.hashes)
    BY <1>4 DEF PlanSound
  <1> HIDE DEF plan
  <1>10. PlanSound(plan, src2, dst2)
    BY <1>7, <1>8, <1>9 DEF PlanSound
  <1> QED
    BY <1>10 DEF plan, src2, dst2

(* Only the table of r may change from m to n. *)
OthersKept(m, n, r) ==
  /\ \A x : x # r => (x \in DOMAIN n.requestBlocks <=> x \in DOMAIN m.requestBlocks)
  /\ \A x \in DOMAIN m.requestBlocks : x # r => n.requestBlocks[x] = m.requestBlocks[x]

(* Only allocations of r may change, and r is left with sound ones. *)
AllocationsKept(e, m, n, r, q) ==
  \A w \in DOMAIN n.pendingAllocations :
    LET a == n.pendingAllocations[w] IN
    /\ a.request # r => w \in DOMAIN m.pendingAllocations /\ m.pendingAllocations[w] = a
    /\ a.request = r => /\ AllocationSound(e, n, a, q)
                        /\ \A v \in DOMAIN n.pendingAllocations :
                             n.pendingAllocations[v].request = r => v = w

(* The blocks N of e are in no table but that of r and in no plan. *)
Private(e, r, N) ==
  /\ \A i, b, x : x # r /\ InTable(mgr[e], x, i, b) => b \notin N
  /\ \A t, i, b : InDestination(transfer, t, e, i, b) => b \notin N

(* A step of the manager of e on behalf of request r. *)
LEMMA RequestStepHeld ==
  ASSUME Inv, Held, NEW e \in Executors, NEW n, Good(e, n), mgr' = [mgr EXCEPT ![e] = n],
         UNCHANGED transfer, IndexSound(n), Unshared(n), Owned(e, n, transfer),
         NEW r \in Requests, NEW q, request'[r] = q,
         \A x \in Requests : x # r => request'[x] = request[x],
         NEW N, Stable(mgr[e], n, N), Private(e, r, N),
         request[r].live => request[r].executor = e,
         q.live => q.executor = e /\ TableSound(n, r, q),
         OthersKept(mgr[e], n, r), r \in DOMAIN n.requestBlocks => q.live,
         AllocationsKept(e, mgr[e], n, r, q)
  PROVE  Held'
  <1>b. request'[r] = q /\ \A x \in Requests : x # r => request'[x] = request[x]
    OBVIOUS
  <1>c. /\ request'[r].live => request'[r].executor = e /\ TableSound(n, r, request'[r])
        /\ \A i, b, x : x # r /\ InTable(mgr[e], x, i, b) => b \notin N
        /\ \A t, i, b : InDestination(transfer, t, e, i, b) => b \notin N
        /\ \A x : x # r => (x \in DOMAIN n.requestBlocks <=> x \in DOMAIN mgr[e].requestBlocks)
        /\ \A x \in DOMAIN mgr[e].requestBlocks : x # r => n.requestBlocks[x] = mgr[e].requestBlocks[x]
        /\ r \in DOMAIN n.requestBlocks => request'[r].live
    BY <1>b DEF Private, OthersKept
  <1>d. \A w \in DOMAIN n.pendingAllocations :
           LET a == n.pendingAllocations[w] IN
           /\ a.request # r => w \in DOMAIN mgr[e].pendingAllocations
                               /\ mgr[e].pendingAllocations[w] = a
           /\ a.request = r => AllocationSound(e, n, a, request'[r])
                               /\ \A v \in DOMAIN n.pendingAllocations :
                                    n.pendingAllocations[v].request = r => v = w
    BY <1>b DEF AllocationsKept
  <1> DEFINE m == mgr[e]
  <1>1. ManagersInv /\ RequestsInv
    BY InvParts
  <1>2. /\ DOMAIN mgr = Executors /\ \A f \in Executors : Good(f, mgr[f])
        /\ \A x \in Requests : request[x].executor \in Executors
    BY <1>1 DEF ManagersInv, RequestsInv, RequestOK
  <1>3. mgr'[e] = n /\ \A f \in Executors : f # e => mgr'[f] = mgr[f]
    BY <1>2
  <1>4. ManagersSound'
    BY <1>3 DEF Held, ManagersSound
  <1>5. Ownership'
    BY <1>3 DEF Held, Ownership
  <1>6. TablesOfLive'
    <2> SUFFICES ASSUME NEW f \in Executors, NEW x \in DOMAIN mgr'[f].requestBlocks
                 PROVE  request'[x].live /\ request'[x].executor = f
      BY DEF TablesOfLive
    <2>1. \A g \in Executors : DOMAIN mgr[g].requestBlocks \subseteq Requests
      BY <1>2, GoodFields
    <2>2. DOMAIN n.requestBlocks \subseteq Requests
      BY GoodFields
    <2>3. \A g \in Executors : \A y \in DOMAIN mgr[g].requestBlocks :
            request[y].live /\ request[y].executor = g
      BY DEF Held, TablesOfLive
    <2>4. CASE f = e /\ x = r
      BY <1>3, <1>b, <1>c, <2>4
    <2>5. CASE f = e /\ x # r
      BY <1>3, <1>b, <1>c, <2>1, <2>3, <2>5
    <2>6. CASE f # e
      <3>1. x \in DOMAIN mgr[f].requestBlocks
        BY <1>3, <2>6
      <3>2. request[x].live /\ request[x].executor = f /\ x \in Requests
        BY <2>1, <2>3, <3>1
      <3>3. x # r
        BY <2>6, <3>2
      <3> QED
        BY <1>b, <3>2, <3>3
    <2> QED
      BY <2>4, <2>5, <2>6
  <1>7. TablesSound'
    <2> SUFFICES ASSUME NEW x \in Requests, request'[x].live
                 PROVE  TableSound(mgr'[request'[x].executor], x, request'[x])
      BY DEF TablesSound
    <2>1. CASE x = r
      BY <1>3, <1>b, <1>c, <2>1
    <2>2. CASE x # r
      <3>1. request'[x] = request[x] /\ request[x].live /\ request[x].executor \in Executors
        BY <1>2, <1>b, <2>2
      <3>2. TableSound(mgr[request[x].executor], x, request[x])
        BY <3>1 DEF Held, TablesSound
      <3>3. CASE request[x].executor = e
        <4>1. Lookup(n.requestBlocks, x) = Lookup(m.requestBlocks, x)
          BY <1>c, <2>2 DEF Lookup
        <4>2. \A i, b : InTable(m, x, i, b) => b \notin N
          BY <1>c, <2>2
        <4>3. Owned(e, m, transfer) /\ Good(e, m)
          BY <1>2 DEF Held, Ownership
        <4>4. TableSound(m, x, request[x])
          BY <3>2, <3>3
        <4> HIDE DEF m
        <4>5. Stable(m, n, N)
          BY DEF m
        <4>6. TableSound(n, x, request[x])
          BY <4>1, <4>2, <4>3, <4>4, <4>5, TableFrame
        <4> QED
          BY <1>3, <3>1, <3>3, <4>6
      <3>4. CASE request[x].executor # e
        BY <1>3, <3>1, <3>2, <3>4
      <3> QED
        BY <3>3, <3>4
    <2> QED
      BY <2>1, <2>2
  <1>8. AllocationsSound'
    <2> DEFINE pa(f) == mgr'[f].pendingAllocations
    <2> SUFFICES ASSUME NEW f \in Executors, NEW w \in DOMAIN pa(f)
                 PROVE  /\ AllocationSound(f, mgr'[f], pa(f)[w], request'[pa(f)[w].request])
                        /\ \A v \in DOMAIN pa(f) : pa(f)[v].request = pa(f)[w].request => v = w
      BY DEF AllocationsSound
    <2> DEFINE a == pa(f)[w]
    <2>1. \A g \in Executors : \A v \in DOMAIN mgr[g].pendingAllocations :
            /\ AllocationSound(g, mgr[g], mgr[g].pendingAllocations[v],
                               request[mgr[g].pendingAllocations[v].request])
            /\ \A u \in DOMAIN mgr[g].pendingAllocations :
                 mgr[g].pendingAllocations[u].request = mgr[g].pendingAllocations[v].request => u = v
      BY DEF Held, AllocationsSound
    <2>2. \A g \in Executors : \A v \in DOMAIN mgr[g].pendingAllocations :
            mgr[g].pendingAllocations[v].request \in Requests
      <3>1. \A g \in Executors :
              mgr[g].pendingAllocations \in [DOMAIN mgr[g].pendingAllocations -> Allocations(g)]
        BY <1>2, GoodFields
      <3> QED
        BY <3>1 DEF Allocations
    <2>3. CASE f = e /\ a.request = r
      BY <1>3, <1>b, <1>d, <2>3
    <2>4. CASE f = e /\ a.request # r
      <3>1. w \in DOMAIN m.pendingAllocations /\ m.pendingAllocations[w] = a /\ pa(f) = n.pendingAllocations
        BY <1>3, <1>d, <2>4
      <3>2. /\ AllocationSound(e, m, a, request[a.request]) /\ a.request \in Requests
            /\ \A u \in DOMAIN m.pendingAllocations :
                 m.pendingAllocations[u].request = a.request => u = w
        BY <2>1, <2>2, <3>1
      <3>3. request'[a.request] = request[a.request]
        BY <1>b, <2>4, <3>2
      <3>4. n.blockSize = m.blockSize
        BY <1>2, GoodFields
      <3>5. AllocationSound(e, n, a, request[a.request])
        <4> HIDE DEF a
        <4> QED
          BY <1>c, <2>4, <3>2, <3>4 DEF AllocationSound
      <3>6. \A v \in DOMAIN pa(f) : pa(f)[v].request = a.request => v = w
        BY <1>d, <2>4, <3>1, <3>2
      <3> QED
        BY <1>3, <2>4, <3>3, <3>5, <3>6
    <2>5. CASE f # e
      <3>1. mgr'[f] = mgr[f]
        BY <1>3, <2>5
      <3>2. /\ AllocationSound(f, mgr[f], a, request[a.request]) /\ a.request \in Requests
            /\ \A v \in DOMAIN pa(f) : pa(f)[v].request = a.request => v = w
        BY <2>1, <2>2, <3>1
      <3>3. a.request # r
        BY <2>5, <3>2 DEF AllocationSound
      <3> QED
        BY <1>b, <3>1, <3>2, <3>3
    <2> QED
      BY <2>3, <2>4, <2>5
  <1>9. PlansSound'
    <2> SUFFICES ASSUME NEW t \in Transfers
                 PROVE  PlanSound(transfer[t], mgr'[transfer[t].source], mgr'[transfer[t].destination])
      BY DEF PlansSound
    <2>1. Spared(t, e, N)
      BY <1>c DEF Spared
    <2> QED
      BY <2>1, PlanFrame
  <1> QED
    BY <1>4, <1>5, <1>6, <1>7, <1>8, <1>9 DEF Held

(* From the plan old of a transfer to plan the counts of e follow, and the  *)
(* other executors do not notice.                                           *)
CountsFollow(e, m, n, old, plan) ==
  /\ \A b \in BlockIds(e) : n.refCount[b] + planCount(old, e, b) = m.refCount[b] + planCount(plan, e, b)
  /\ \A f \in Executors : f # e =>
       \A b \in BlockIds(f) : planCount(plan, f, b) = planCount(old, f, b)

(* The blocks N of e are in no table and in no plan but that of t. *)
Reserved(e, t, N) ==
  /\ \A i, b, x : InTable(mgr[e], x, i, b) => b \notin N
  /\ \A u \in Transfers : u # t => Spared(u, e, N)

(* A step of the manager of e on behalf of transfer t. *)
LEMMA TransferStepHeld ==
  ASSUME Inv, Held, NEW e \in Executors, NEW n, Good(e, n), mgr' = [mgr EXCEPT ![e] = n],
         UNCHANGED request, IndexSound(n), Unshared(n),
         n.requestBlocks = mgr[e].requestBlocks, n.pendingAllocations = mgr[e].pendingAllocations,
         NEW N, Stable(mgr[e], n, N),
         NEW t \in Transfers, NEW plan, PlanOK(plan), transfer' = [transfer EXCEPT ![t] = plan],
         CountsFollow(e, mgr[e], n, transfer[t], plan), Reserved(e, t, N),
         PlanSound(plan, mgr'[plan.source], mgr'[plan.destination])
  PROVE  Held'
  <1> DEFINE m == mgr[e]
  <1>1. ManagersInv /\ RequestsInv /\ TransfersInv
    BY InvParts
  <1>2. /\ DOMAIN mgr = Executors /\ \A f \in Executors : Good(f, mgr[f])
        /\ \A x \in Requests : request[x].executor \in Executors
        /\ DOMAIN transfer = Transfers /\ \A u \in Transfers : PlanOK(transfer[u])
    BY <1>1 DEF ManagersInv, RequestsInv, RequestOK, TransfersInv
  <1>3. mgr'[e] = n /\ \A f \in Executors : f # e => mgr'[f] = mgr[f]
    BY <1>2
  <1>4. ManagersSound'
    BY <1>3 DEF Held, ManagersSound
  <1>5. Ownership'
    <2> SUFFICES ASSUME NEW f \in Executors PROVE Owned(f, mgr'[f], transfer')
      BY DEF Ownership
    <2>1. Owned(f, mgr[f], transfer) /\ Good(f, mgr[f]) /\ PlanOK(transfer[t])
      BY <1>2 DEF Held, Ownership
    <2>2. CASE f = e
      <3>1. Owned(e, n, [transfer EXCEPT ![t] = plan])
        BY <1>2, <2>1, <2>2, OwnedPlan DEF CountsFollow
      <3> QED
        BY <1>3, <2>2, <3>1
    <2>3. CASE f # e
      <3>1. \A b \in BlockIds(f) : mgr[f].refCount[b] + planCount(transfer[t], f, b)
                                     = mgr[f].refCount[b] + planCount(plan, f, b)
        BY <2>3 DEF CountsFollow
      <3>2. Owned(f, mgr[f], [transfer EXCEPT ![t] = plan])
        BY <1>2, <2>1, <3>1, OwnedPlan
      <3> QED
        BY <1>3, <2>3, <3>2
    <2> QED
      BY <2>2, <2>3
  <1>6. TablesOfLive'
    BY <1>3 DEF Held, TablesOfLive
  <1>7. TablesSound'
    <2> SUFFICES ASSUME NEW x \in Requests, request[x].live
                 PROVE  TableSound(mgr'[request[x].executor], x, request[x])
      BY DEF TablesSound
    <2>1. TableSound(mgr[request[x].executor], x, request[x])
      BY DEF Held, TablesSound
    <2>2. CASE request[x].executor = e
      <3>1. Lookup(n.requestBlocks, x) = Lookup(m.requestBlocks, x)
        OBVIOUS
      <3>2. \A i, b : InTable(m, x, i, b) => b \notin N
        BY DEF Reserved
      <3>3. Owned(e, m, transfer) /\ Good(e, m) /\ Stable(m, n, N)
        BY <1>2 DEF Held, Ownership
      <3>4. TableSound(m, x, request[x])
        BY <2>1, <2>2
      <3> HIDE DEF m
      <3>5. TableSound(n, x, request[x])
        BY <3>1, <3>2, <3>3, <3>4, TableFrame
      <3> QED
        BY <1>3, <2>2, <3>5
    <2>3. CASE request[x].executor # e
      BY <1>2, <1>3, <2>1, <2>3
    <2> QED
      BY <2>2, <2>3
  <1>8. AllocationsSound'
    <2>1. n.blockSize = m.blockSize
      BY <1>2, GoodFields
    <2>2. \A f \in Executors : /\ mgr'[f].pendingAllocations = mgr[f].pendingAllocations
                               /\ mgr'[f].requestBlocks = mgr[f].requestBlocks
                               /\ mgr'[f].blockSize = mgr[f].blockSize
      BY <1>3, <2>1
    <2> SUFFICES ASSUME NEW f \in Executors, NEW w \in DOMAIN mgr[f].pendingAllocations
                 PROVE  LET a == mgr[f].pendingAllocations[w] IN
                        /\ AllocationSound(f, mgr'[f], a, request[a.request])
                        /\ \A v \in DOMAIN mgr[f].pendingAllocations :
                             mgr[f].pendingAllocations[v].request = a.request => v = w
      BY <2>2 DEF AllocationsSound
    <2> DEFINE a == mgr[f].pendingAllocations[w]
    <2>3. /\ AllocationSound(f, mgr[f], a, request[a.request])
          /\ \A v \in DOMAIN mgr[f].pendingAllocations :
               mgr[f].pendingAllocations[v].request = a.request => v = w
      BY DEF Held, AllocationsSound
    <2>4. \A x, y : AllocationSound(f, mgr[f], x, y) => AllocationSound(f, mgr'[f], x, y)
      BY <2>2 DEF AllocationSound
    <2> QED
      BY <2>3, <2>4
  <1>9. PlansSound'
    <2> SUFFICES ASSUME NEW u \in Transfers
                 PROVE  PlanSound(transfer'[u], mgr'[transfer'[u].source], mgr'[transfer'[u].destination])
      BY DEF PlansSound
    <2>1. CASE u = t
      BY <1>2, <2>1
    <2>2. CASE u # t
      <3>1. transfer'[u] = transfer[u]
        BY <1>2, <2>2
      <3>2. Spared(u, e, N)
        BY <2>2 DEF Reserved
      <3>3. PlanSound(transfer[u], mgr'[transfer[u].source], mgr'[transfer[u].destination])
        BY <3>2, PlanFrame
      <3> QED
        BY <3>1, <3>3
    <2> QED
      BY <2>1, <2>2
  <1> QED
    BY <1>4, <1>5, <1>6, <1>7, <1>8, <1>9 DEF Held

(* Tables and allocations do not matter to a manager's blocks. *)
SameBlocks(x, n) == SameIndex(x, n) /\ n.refCount = x.refCount

(* A manager with the same blocks is as sound, and as stable. *)
LEMMA SameBlocksSound ==
  ASSUME NEW x, NEW n, SameBlocks(x, n)
  PROVE  /\ IndexSound(x) => IndexSound(n)
         /\ Unshared(x) => Unshared(n)
         /\ \A m, N : Stable(m, x, N) => Stable(m, n, N)
  <1>1. IndexSound(x) => IndexSound(n)
    BY DEF SameBlocks, SameIndex, IndexSound, transferable, Blocks
  <1>2. Unshared(x) => Unshared(n)
    BY DEF SameBlocks, SameIndex, Unshared, Blocks
  <1>3. \A m, N : Stable(m, x, N) => Stable(m, n, N)
    BY DEF SameBlocks, SameIndex, Stable
  <1> QED
    BY <1>1, <1>2, <1>3

-----------------------------------------------------------------------------
(* Each action keeps Held. *)

(* The matched blocks are cached as the leading blocks of the prompt. *)
LEMMA MatchedFacts ==
  ASSUME NEW e \in Executors, NEW m, Good(e, m), IndexSound(m), NEW p \in Prompts
  PROVE  LET ids == matchedBlocks(m, p)
             hs  == blockHashes(m.blockSize, p)
         IN  /\ ids \in Seq(BlockIds(e)) /\ Len(ids) \in Nat /\ DOMAIN ids = 1..Len(ids)
             /\ \A i \in DOMAIN ids : /\ i <= Len(hs) /\ m.cached[ids[i]]
                                      /\ m.hash[ids[i]] = hs[i]
  <1> DEFINE ms  == matchableBlockHashes(m.blockSize, p)
             hs  == blockHashes(m.blockSize, p)
             k   == hitLength(m, ms)
             ids == matchedBlocks(m, p)
  <1>1. m.blockSize = BlockSize[e]
    BY GoodFields
  <1>2. /\ Len(ms) \in Nat /\ Len(hs) \in Nat /\ Len(ms) <= Len(hs)
        /\ \A i \in 1..Len(ms) : ms[i] = hs[i]
    BY <1>1, MatchablePrefix
  <1>3. ms \in Seq(Hashes)
    BY <1>1, MatchableType
  <1>4. k \in 0..Len(ms) /\ \A i \in 1..k : ms[i] \in DOMAIN m.cachedBlocks
    <2> HIDE DEF ms
    <2> QED
      BY <1>3, HitLengthFacts
  <1>5. ids = [i \in 1..k |-> m.cachedBlocks[ms[i]]]
    BY DEF matchedBlocks
  <1>6. ids \in Seq(BlockIds(e)) /\ Len(ids) = k /\ DOMAIN ids = 1..k
    BY <1>4, <1>5, MatchedBlocksType
  <1> HIDE DEF k, ids, ms, hs
  <1>7. ASSUME NEW i \in 1..k
        PROVE  i <= Len(hs) /\ m.cached[ids[i]] /\ m.hash[ids[i]] = hs[i]
    <2>1. i \in 1..Len(ms) /\ ms[i] \in DOMAIN m.cachedBlocks /\ ids[i] = m.cachedBlocks[ms[i]]
      BY <1>2, <1>4, <1>5
    <2>2. m.cached[ids[i]] /\ m.hash[ids[i]] = ms[i]
      BY <2>1 DEF IndexSound, transferable
    <2> QED
      BY <1>2, <2>1, <2>2
  <1> QED
    BY <1>4, <1>6, <1>7 DEF ids, hs

(* A request that is not live has no work in flight. *)
LEMMA NoWorkOfDead ==
  ASSUME Held, NEW e \in Executors, NEW r, ~request[r].live,
         NEW w \in DOMAIN mgr[e].pendingAllocations
  PROVE  mgr[e].pendingAllocations[w].request # r
  <1> DEFINE a == mgr[e].pendingAllocations[w]
  <1>1. AllocationSound(e, mgr[e], a, request[a.request])
    BY DEF Held, AllocationsSound
  <1>2. request[a.request].live
    BY <1>1 DEF AllocationSound
  <1> QED
    BY <1>2

(* MatchPrefix: the table of the new request is its matched blocks, all of  *)
(* them cached for the leading blocks of its own prompt.                    *)
LEMMA MatchHeld ==
  ASSUME Inv, Held, NEW r \in Requests, NEW e \in Executors, NEW p \in Prompts,
         MatchPrefixFor(r, e, p)
  PROVE  Held'
  <1> DEFINE m   == mgr[e]
             ids == matchedBlocks(m, p)
             hs  == blockHashes(m.blockSize, p)
             x   == touch(m, ids)
             n   == MatchPrefix(m, r, p)
             q   == [live |-> TRUE, executor |-> e, prompt |-> p, cache |-> ids,
                     computed |-> Len(ids) * BlockSize[e]]
  <1>1. ManagersInv /\ RequestsInv
    BY InvParts
  <1>2. Good(e, m) /\ DOMAIN mgr = Executors /\ DOMAIN request = Requests
    BY <1>1 DEF ManagersInv, RequestsInv
  <1>3. IndexSound(m) /\ Unshared(m) /\ Owned(e, m, transfer)
    BY DEF Held, ManagersSound, Ownership
  <1>4. /\ ~request[r].live /\ mgr' = [mgr EXCEPT ![e] = n]
        /\ request' = [request EXCEPT ![r] = q] /\ transfer' = transfer
    BY DEF MatchPrefixFor
  <1>5. /\ ids \in Seq(BlockIds(e)) /\ Len(ids) \in Nat /\ DOMAIN ids = 1..Len(ids)
        /\ \A i \in DOMAIN ids : i <= Len(hs) /\ m.cached[ids[i]] /\ m.hash[ids[i]] = hs[i]
    BY <1>2, <1>3, MatchedFacts
  <1>6. n = [x EXCEPT !.requestBlocks = Put(m.requestBlocks, r, ids)]
    BY DEF MatchPrefix
  <1>7. Good(e, n)
    <2> HIDE DEF m
    <2> QED
      BY <1>2, MatchPrefixGood
  <1> HIDE DEF m, ids, hs
  <1>8. /\ Good(e, x) /\ SameIndex(m, x) /\ IndexSound(x) /\ Unshared(x)
        /\ x.requestBlocks = m.requestBlocks /\ x.pendingAllocations = m.pendingAllocations
        /\ \A b \in BlockIds(e) : x.refCount[b] = m.refCount[b] + Count(ids, b)
    BY <1>2, <1>3, <1>5, TouchEffect
  <1> HIDE DEF x, n
  <1>9. /\ SameBlocks(x, n) /\ n.requestBlocks = Put(m.requestBlocks, r, ids)
        /\ n.pendingAllocations = m.pendingAllocations
    BY <1>6, <1>8 DEF SameBlocks, SameIndex, Good, ManagerOK
  <1>10. Stable(m, x, {})
    BY <1>2, <1>8, SameIndexSound
  <1>11. IndexSound(n) /\ Unshared(n) /\ Stable(m, n, {})
    BY <1>8, <1>9, <1>10, SameBlocksSound
  <1>12. /\ DOMAIN n.requestBlocks = DOMAIN m.requestBlocks \cup {r} /\ n.requestBlocks[r] = ids
         /\ \A y \in DOMAIN m.requestBlocks : y # r => n.requestBlocks[y] = m.requestBlocks[y]
    BY <1>9 DEF Put
  <1>13. r \notin DOMAIN m.requestBlocks
    BY <1>4 DEF Held, TablesOfLive, m
  <1>14. Lookup(m.requestBlocks, r) = << >> /\ Lookup(n.requestBlocks, r) = ids
    BY <1>12, <1>13 DEF Lookup
  <1>15. Owned(e, n, transfer)
    <2>1. \A b \in BlockIds(e) : Count(<< >>, b) = 0
      <3>1. << >> \in Seq(BlockIds(e)) /\ Range(<< >>) = {}
        BY DEF Range
      <3> QED
        BY <3>1, CountFacts
    <2>2. \A b \in BlockIds(e) : /\ n.refCount[b] = m.refCount[b] + Count(ids, b)
                                 /\ m.refCount[b] \in Nat /\ Count(ids, b) \in Nat
      BY <1>2, <1>5, <1>8, <1>9, GoodFields, CountFacts DEF SameBlocks
    <2>3. \A b \in BlockIds(e) : n.refCount[b] + Count(Lookup(m.requestBlocks, r), b)
                                   = m.refCount[b] + Count(Lookup(n.requestBlocks, r), b)
      BY <1>14, <2>1, <2>2
    <2>4. \A y : y # r => (y \in DOMAIN n.requestBlocks <=> y \in DOMAIN m.requestBlocks)
      BY <1>12
    <2> QED
      BY <1>2, <1>3, <1>7, <1>12, <2>3, <2>4, OwnedTable
  <1>16. TableSound(n, r, q)
    <2>1. m.blockSize = BlockSize[e] /\ n.blockSize = m.blockSize /\ BlockSize[e] \in Nat /\ BlockSize[e] > 0
      BY <1>2, <1>7, GoodFields, SizeFacts
    <2>2. \A i \in DOMAIN ids : i * BlockSize[e] <= Len(ids) * BlockSize[e]
      BY <1>5, <2>1, MulOrder
    <2>3. \A i \in DOMAIN ids : i <= Len(hs) /\ n.hash[ids[i]] = hs[i]
      BY <1>5, <1>8, <1>9 DEF SameBlocks, SameIndex
    <2>4. hs = blockHashes(n.blockSize, p)
      BY <2>1 DEF hs
    <2>5. q.cache = ids /\ q.prompt = p /\ q.computed = Len(ids) * BlockSize[e]
      OBVIOUS
    <2> HIDE DEF q
    <2> QED
      BY <1>5, <1>14, <2>1, <2>2, <2>3, <2>4, <2>5 DEF TableSound
  <1>17. AllocationsKept(e, m, n, r, q)
    <2>1. \A w \in DOMAIN m.pendingAllocations : m.pendingAllocations[w].request # r
      BY <1>4, NoWorkOfDead DEF m
    <2> QED
      BY <1>9, <2>1 DEF AllocationsKept
  <1>18. /\ q.live /\ q.executor = e /\ request'[r] = q
         /\ \A y \in Requests : y # r => request'[y] = request[y]
    BY <1>2, <1>4
  <1> HIDE DEF q
  <1> QED
    <2>1. OthersKept(m, n, r)
      BY <1>12 DEF OthersKept
    <2>2. Private(e, r, {})
      BY DEF Private
    <2> QED
      BY <1>4, <1>7, <1>11, <1>15, <1>16, <1>17, <1>18, <2>1, <2>2, RequestStepHeld DEF m

(* A map without one entry. *)
LEMMA WithoutOne ==
  ASSUME NEW f, NEW k
  PROVE  /\ DOMAIN Without(f, {k}) = DOMAIN f \ {k}
         /\ \A x \in DOMAIN f : x # k => Without(f, {k})[x] = f[x]
         /\ Lookup(Without(f, {k}), k) = << >>
  BY DEF Without, Restrict, Lookup

(* Removing the table of r keeps the others. *)
LEMMA KeptWithout ==
  ASSUME NEW m, NEW n, NEW r, n.requestBlocks = Without(m.requestBlocks, {r})
  PROVE  /\ OthersKept(m, n, r) /\ r \notin DOMAIN n.requestBlocks
         /\ Lookup(n.requestBlocks, r) = << >>
  <1> DEFINE f == m.requestBlocks
             g == n.requestBlocks
  <1>1. g = Without(f, {r})
    OBVIOUS
  <1> HIDE DEF f, g
  <1>2. /\ DOMAIN g = DOMAIN f \ {r} /\ \A x \in DOMAIN f : x # r => g[x] = f[x]
        /\ Lookup(g, r) = << >>
    BY <1>1, WithoutOne
  <1> QED
    BY <1>2 DEF f, g, OthersKept

(* Setting the table of r keeps the others. *)
LEMMA KeptPut ==
  ASSUME NEW m, NEW n, NEW r, NEW v, n.requestBlocks = Put(m.requestBlocks, r, v)
  PROVE  /\ OthersKept(m, n, r) /\ r \in DOMAIN n.requestBlocks /\ n.requestBlocks[r] = v
         /\ Lookup(n.requestBlocks, r) = v
  BY DEF Put, OthersKept, Lookup

(* An empty list counts nothing. *)
LEMMA CountEmpty ==
  ASSUME NEW b
  PROVE  Count(<< >>, b) = 0
  <1>1. << >> \in Seq({}) /\ Range(<< >>) = {}
    BY DEF Range
  <1> QED
    BY <1>1, CountFacts

(* FreeRequest: the references of the table go, and with them the table and *)
(* the works of the request.                                                *)
LEMMA FreeHeld ==
  ASSUME Inv, Held, NEW r \in Requests, FreeRequestOf(r)
  PROVE  Held'
  <1> DEFINE e     == request[r].executor
             m     == mgr[e]
             table == Lookup(m.requestBlocks, r)
             x     == pushFree(m, table)
             n     == FreeRequest(m, r)
  <1>1. ManagersInv /\ RequestsInv
    BY InvParts
  <1>2. /\ e \in Executors /\ Good(e, m) /\ DOMAIN mgr = Executors /\ DOMAIN request = Requests
    BY <1>1 DEF ManagersInv, RequestsInv, RequestOK
  <1>3. IndexSound(m) /\ Unshared(m) /\ Owned(e, m, transfer)
    BY <1>2 DEF Held, ManagersSound, Ownership
  <1>4. /\ request[r].live /\ mgr' = [mgr EXCEPT ![e] = n]
        /\ request' = [request EXCEPT ![r] = noRequest] /\ transfer' = transfer
    BY DEF FreeRequestOf
  <1>5. n = [x EXCEPT !.requestBlocks      = Without(m.requestBlocks, {r}),
                      !.pendingAllocations = Without(m.pendingAllocations, worksOf(m, r))]
    BY DEF FreeRequest
  <1> HIDE DEF e, m, table
  <1>6. Good(e, n)
    BY <1>2, FreeRequestGood
  <1>7. /\ table \in Seq(BlockIds(e))
        /\ \A b \in BlockIds(e) : Count(table, b) <= m.refCount[b]
    <2>1. m.requestBlocks \in [DOMAIN m.requestBlocks -> Seq(BlockIds(e))]
      BY <1>2, GoodFields
    <2>2. table \in Seq(BlockIds(e))
      BY <2>1 DEF table, Lookup
    <2> QED
      BY <1>2, <1>3, <2>2, TableCountHeld DEF table
  <1>8. /\ Good(e, x) /\ SameIndex(m, x) /\ IndexSound(x) /\ Unshared(x)
        /\ \A b \in BlockIds(e) : x.refCount[b] = m.refCount[b] - Count(table, b)
    BY <1>2, <1>3, <1>7, PushFreeEffect
  <1> HIDE DEF x, n
  <1>9. /\ SameBlocks(x, n) /\ n.requestBlocks = Without(m.requestBlocks, {r})
        /\ n.pendingAllocations = Without(m.pendingAllocations, worksOf(m, r))
    BY <1>5, <1>8 DEF SameBlocks, SameIndex, Good, ManagerOK
  <1>10. Stable(m, x, {})
    BY <1>2, <1>8, SameIndexSound
  <1>11. IndexSound(n) /\ Unshared(n) /\ Stable(m, n, {})
    BY <1>8, <1>9, <1>10, SameBlocksSound
  <1>12. /\ r \notin DOMAIN n.requestBlocks /\ OthersKept(m, n, r)
         /\ Lookup(n.requestBlocks, r) = << >>
    BY <1>9, KeptWithout
  <1>13. Owned(e, n, transfer)
    <2>1. \A b \in BlockIds(e) : /\ n.refCount[b] = m.refCount[b] - Count(table, b)
                                 /\ m.refCount[b] \in Nat /\ Count(table, b) \in Nat
      BY <1>2, <1>7, <1>8, <1>9, GoodFields, CountFacts DEF SameBlocks
    <2>2. \A b \in BlockIds(e) : n.refCount[b] + Count(Lookup(m.requestBlocks, r), b)
                                   = m.refCount[b] + Count(Lookup(n.requestBlocks, r), b)
      BY <1>12, <2>1, CountEmpty DEF table
    <2> QED
      BY <1>2, <1>3, <1>6, <1>12, <2>2, OwnedTable DEF OthersKept
  <1>14. AllocationsKept(e, m, n, r, noRequest)
    BY <1>9 DEF AllocationsKept, Without, Restrict, worksOf
  <1>15. /\ ~noRequest.live /\ request'[r] = noRequest
         /\ \A y \in Requests : y # r => request'[y] = request[y]
    BY <1>2, <1>4 DEF noRequest
  <1>16. Private(e, r, {})
    BY DEF Private
  <1>17. request[r].live => request[r].executor = e
    BY DEF e
  <1> QED
    BY <1>2, <1>4, <1>6, <1>11, <1>12, <1>13, <1>14, <1>15, <1>16, <1>17, RequestStepHeld DEF m

(* What is known of a work in flight. *)
LEMMA WorkFacts ==
  ASSUME Inv, Held, NEW e \in Executors, NEW w \in DOMAIN mgr[e].pendingAllocations
  PROVE  LET a == mgr[e].pendingAllocations[w]
             q == request[a.request]
         IN  /\ a \in Allocations(e) /\ a.request \in Requests /\ AllocationSound(e, mgr[e], a, q)
             /\ \A v \in DOMAIN mgr[e].pendingAllocations :
                  mgr[e].pendingAllocations[v].request = a.request => v = w
             /\ Lookup(mgr[e].requestBlocks, a.request) = a.blockTable
             /\ TableSound(mgr[e], a.request, q)
             /\ a.blockTable \in Seq(BlockIds(e)) /\ a.allocated \in Seq(BlockIds(e))
             /\ a.hashes \in Seq(Hashes) /\ a.tokens \in Nat
             /\ q.computed \in Nat /\ q.prompt \in Prompts
  <1> DEFINE m == mgr[e]
             a == m.pendingAllocations[w]
             q == request[a.request]
  <1>1. ManagersInv /\ RequestsInv
    BY InvParts
  <1>2. Good(e, m)
    BY <1>1 DEF ManagersInv
  <1>3. m.pendingAllocations \in [DOMAIN m.pendingAllocations -> Allocations(e)]
    <2> HIDE DEF m
    <2> QED
      BY <1>2, GoodFields
  <1>4. a \in Allocations(e)
    BY <1>3
  <1>5. /\ AllocationSound(e, m, a, q)
        /\ \A v \in DOMAIN m.pendingAllocations : m.pendingAllocations[v].request = a.request => v = w
    BY DEF Held, AllocationsSound
  <1> HIDE DEF a, m
  <1>6. /\ a.request \in Requests
        /\ a.blockTable \in Seq(BlockIds(e)) /\ a.allocated \in Seq(BlockIds(e))
        /\ a.hashes \in Seq(Hashes) /\ a.tokens \in Nat
    BY <1>4 DEF Allocations
  <1>7. Lookup(m.requestBlocks, a.request) = a.blockTable
    BY <1>5 DEF AllocationSound, Lookup
  <1>8. TableSound(m, a.request, q)
    BY <1>5, <1>6 DEF Held, TablesSound, AllocationSound, m
  <1>9. q.computed \in Nat /\ q.prompt \in Prompts
    BY <1>1, <1>6 DEF RequestsInv, RequestOK
  <1> QED
    BY <1>4, <1>5, <1>6, <1>7, <1>8, <1>9 DEF a, m

(* Rollback: the work's blocks are the end of the table, so what is cut off *)
(* is what is freed.                                                        *)
LEMMA RollbackHeld ==
  ASSUME Inv, Held, NEW e \in Executors, NEW w \in Works, RollbackWork(e, w)
  PROVE  Held'
  <1> DEFINE m   == mgr[e]
             a   == m.pendingAllocations[w]
             r   == a.request
             q   == request[r]
             bt  == a.blockTable
             new == a.allocated
             cut == SubSeq(bt, 1, Len(bt) - Len(new))
             x   == pushFree(m, new)
             n   == Rollback(m, w)
  <1>1. ManagersInv /\ RequestsInv
    BY InvParts
  <1>2. Good(e, m) /\ DOMAIN mgr = Executors /\ DOMAIN request = Requests
    BY <1>1 DEF ManagersInv, RequestsInv
  <1>3. IndexSound(m) /\ Unshared(m) /\ Owned(e, m, transfer)
    BY DEF Held, ManagersSound, Ownership
  <1>4. /\ w \in DOMAIN m.pendingAllocations /\ mgr' = [mgr EXCEPT ![e] = n]
        /\ request' = request /\ transfer' = transfer
    BY DEF RollbackWork
  <1>5. /\ r \in Requests /\ AllocationSound(e, m, a, q)
        /\ \A v \in DOMAIN m.pendingAllocations : m.pendingAllocations[v].request = r => v = w
        /\ Lookup(m.requestBlocks, r) = bt /\ TableSound(m, r, q)
        /\ bt \in Seq(BlockIds(e)) /\ new \in Seq(BlockIds(e))
    BY <1>4, WorkFacts
  <1>6. q \in [live : BOOLEAN, executor : Executors, prompt : Prompts,
               cache : Seq(BlockIds(q.executor)), computed : Nat]
    BY <1>1, <1>5 DEF RequestsInv, RequestOK
  <1>7. /\ Len(bt) \in Nat /\ Len(new) \in Nat /\ Len(q.cache) \in Nat
        /\ Len(q.cache) + Len(new) <= Len(bt) /\ bt = cut \o new /\ q.live /\ q.executor = e
    <2>1. Len(bt) \in Nat /\ Len(new) \in Nat
      BY <1>5, SMTT(30)
    <2>2. Len(q.cache) \in Nat
      BY <1>6
    <2> HIDE DEF m, a, q
    <2> QED
      BY <1>5, <2>1, <2>2 DEF AllocationSound
  <1>8. n = [x EXCEPT !.requestBlocks      = IF cut = << >> THEN Without(m.requestBlocks, {r})
                                             ELSE Put(m.requestBlocks, r, cut),
                      !.pendingAllocations = Without(m.pendingAllocations, {w})]
    <2>1. truncated(bt, Len(new)) = cut
      <3> HIDE DEF a, bt, new, q
      <3> QED
        BY <1>7 DEF truncated
    <2> QED
      BY <1>4, <1>5, <2>1 DEF Rollback
  <1>9. Good(e, n)
    <2> HIDE DEF m
    <2> QED
      BY <1>2, <1>4, RollbackGood
  <1>10. /\ cut \in Seq(BlockIds(e)) /\ Len(cut) = Len(bt) - Len(new)
         /\ DOMAIN cut = 1..Len(cut) /\ \A i \in DOMAIN cut : i \in DOMAIN bt /\ cut[i] = bt[i]
    <2> HIDE DEF bt, new
    <2> QED
      BY <1>5, <1>7, SMTT(30)
  <1> HIDE DEF m, a, bt, new, cut
  <1>11. \A b \in BlockIds(e) : /\ Count(new, b) \in Nat /\ Count(cut, b) \in Nat
                                /\ Count(bt, b) = Count(cut, b) + Count(new, b)
    BY <1>5, <1>7, <1>10, CountConcat, CountFacts
  <1>12. \A b \in BlockIds(e) : Count(bt, b) <= m.refCount[b] /\ m.refCount[b] \in Nat
    <2>1. \A b \in BlockIds(e) : Count(Lookup(m.requestBlocks, r), b) <= m.refCount[b]
      <3> HIDE DEF r
      <3> QED
        BY <1>2, <1>3, TableCountHeld
    <2>2. m.refCount \in [BlockIds(e) -> Nat]
      BY <1>2, GoodFields
    <2> QED
      BY <1>5, <2>1, <2>2
  <1>13. \A b \in BlockIds(e) : Count(new, b) <= m.refCount[b]
    BY <1>11, <1>12
  <1>14. /\ Good(e, x) /\ SameIndex(m, x) /\ IndexSound(x) /\ Unshared(x)
         /\ \A b \in BlockIds(e) : x.refCount[b] = m.refCount[b] - Count(new, b)
    BY <1>2, <1>3, <1>5, <1>13, PushFreeEffect
  <1> HIDE DEF x, n
  <1>15. /\ SameBlocks(x, n)
         /\ n.requestBlocks = IF cut = << >> THEN Without(m.requestBlocks, {r})
                              ELSE Put(m.requestBlocks, r, cut)
         /\ n.pendingAllocations = Without(m.pendingAllocations, {w})
    BY <1>8, <1>14 DEF SameBlocks, SameIndex, Good, ManagerOK
  <1>16. Stable(m, x, {})
    BY <1>2, <1>14, SameIndexSound
  <1>17. IndexSound(n) /\ Unshared(n) /\ Stable(m, n, {})
    BY <1>14, <1>15, <1>16, SameBlocksSound
  <1>18. OthersKept(m, n, r) /\ Lookup(n.requestBlocks, r) = cut
    <2>1. CASE cut = << >>
      BY <1>15, <2>1, KeptWithout
    <2>2. CASE cut # << >>
      <3>1. n.requestBlocks = Put(m.requestBlocks, r, cut)
        BY <1>15, <2>2
      <3> HIDE DEF r
      <3> QED
        BY <3>1, KeptPut
    <2> QED
      BY <2>1, <2>2
  <1>19. Owned(e, n, transfer)
    <2>1. \A b \in BlockIds(e) : n.refCount[b] = m.refCount[b] - Count(new, b)
      BY <1>14, <1>15 DEF SameBlocks
    <2>2. \A b \in BlockIds(e) : n.refCount[b] + Count(bt, b) = m.refCount[b] + Count(cut, b)
      BY <1>11, <1>12, <2>1
    <2>3. \A b \in BlockIds(e) : n.refCount[b] + Count(Lookup(m.requestBlocks, r), b)
                                   = m.refCount[b] + Count(Lookup(n.requestBlocks, r), b)
      BY <1>5, <1>18, <2>2
    <2> QED
      BY <1>2, <1>3, <1>9, <1>18, <2>3, OwnedTable DEF OthersKept
  <1>20. TableSound(n, r, q)
    <2>1. n.blockSize = m.blockSize /\ n.cached = m.cached /\ n.hash = m.hash
      BY <1>14, <1>15 DEF SameBlocks, SameIndex
    <2>2. Len(q.cache) <= Len(cut)
      BY <1>7, <1>10
    <2> HIDE DEF q
    <2> QED
      BY <1>5, <1>10, <1>18, <2>1, <2>2 DEF TableSound
  <1>21. AllocationsKept(e, m, n, r, q)
    BY <1>5, <1>15 DEF AllocationsKept, Without, Restrict
  <1>22. Private(e, r, {})
    BY DEF Private
  <1>23. request[r] = q
    OBVIOUS
  <1> HIDE DEF q, r
  <1> QED
    BY <1>4, <1>5, <1>7, <1>9, <1>17, <1>18, <1>19, <1>20, <1>21, <1>22, <1>23,
       RequestStepHeld DEF m

(* A list cut where its second part begins. *)
LEMMA CutConcat ==
  ASSUME NEW S, NEW s \in Seq(S), NEW t \in Seq(S)
  PROVE  /\ Len(s \o t) = Len(s) + Len(t)
         /\ SubSeq(s \o t, 1, Len(s \o t) - Len(t)) = s
  <1>1. Len(s \o t) = Len(s) + Len(t) /\ Len(s) \in Nat /\ Len(t) \in Nat
    OBVIOUS
  <1>2. Len(s \o t) - Len(t) = Len(s)
    BY <1>1
  <1>3. SubSeq(s \o t, 1, Len(s)) = s
    OBVIOUS
  <1> QED
    BY <1>1, <1>2, <1>3

(* AllocateBlocks: the new blocks had no reference and now have one, at the *)
(* end of one table.                                                        *)
LEMMA AllocateHeld ==
  ASSUME Inv, Held, NEW r \in Requests, NEW w \in Works, NEW tokens \in nextTokens(r),
         AllocateBlocksFor(r, w, tokens)
  PROVE  Held'
  <1> DEFINE q    == request[r]
             e    == q.executor
             m    == mgr[e]
             work == workItem(w, r, tokens)
             k    == requiredBlocks(m, work)
             old  == Lookup(m.requestBlocks, r)
             ids  == popped(m, k)
             bt   == old \o ids
             a    == newAllocation(m, work)
             x    == allocate(m, k)
             n    == AllocateBlocks(m, work)
  <1>1. ManagersInv /\ RequestsInv
    BY InvParts
  <1>2. /\ q \in [live : BOOLEAN, executor : Executors, prompt : Prompts,
                  cache : Seq(BlockIds(q.executor)), computed : Nat]
        /\ e \in Executors /\ Good(e, m) /\ DOMAIN mgr = Executors
    BY <1>1 DEF ManagersInv, RequestsInv, RequestOK
  <1>3. IndexSound(m) /\ Unshared(m) /\ Owned(e, m, transfer)
    BY <1>2 DEF Held, ManagersSound, Ownership
  <1>4. /\ q.live /\ w \notin DOMAIN m.pendingAllocations /\ worksOf(m, r) = {}
        /\ mgr' = [mgr EXCEPT ![e] = n] /\ request' = request /\ transfer' = transfer
    BY <1>2 DEF AllocateBlocksFor, pendingWorks
  <1>5. /\ work.id = w /\ work.request = r /\ work.cache = q.cache /\ work.tokens = tokens
        /\ work.hashes = blockHashes(BlockSize[e], q.prompt) /\ work.phase \in {Prefill, Decode}
    BY DEF workItem
  <1>6. tokens \in Nat /\ q.computed < tokens /\ q.computed \in Nat
    <2>1. Len(q.prompt.tokens) \in Nat /\ q.computed \in Nat
      BY <1>2, PromptFacts
    <2> QED
      BY <2>1 DEF nextTokens
  <1>7. TableSound(m, r, q)
    BY <1>4 DEF Held, TablesSound
  <1>8. m.blockSize = BlockSize[e] /\ BlockSize[e] \in Nat /\ BlockSize[e] > 0
    <2> HIDE DEF m, e
    <2> QED
      BY <1>2, GoodFields, SizeFacts
  <1>9. old \in Seq(BlockIds(e)) /\ Len(q.cache) \in Nat /\ Len(q.cache) <= Len(old)
    <2>1. m.requestBlocks \in [DOMAIN m.requestBlocks -> Seq(BlockIds(e))]
      <3> HIDE DEF m, e
      <3> QED
        BY <1>2, GoodFields
    <2>2. Len(q.cache) \in Nat
      BY <1>2
    <2>3. old \in Seq(BlockIds(e))
      <3> HIDE DEF m, e
      <3> QED
        BY <2>1 DEF Lookup
    <2>4. Len(q.cache) <= Len(old)
      <3> HIDE DEF q, m
      <3> QED
        BY <1>7 DEF TableSound
    <2> QED
      BY <2>2, <2>3, <2>4
  <1>10. r \notin DOMAIN m.requestBlocks => q.cache = << >>
    <2> SUFFICES ASSUME r \notin DOMAIN m.requestBlocks PROVE q.cache = << >>
      OBVIOUS
    <2>1. old = << >>
      BY DEF Lookup
    <2>2. Len(q.cache) = 0
      BY <1>9, <2>1
    <2> QED
      BY <1>2, <2>2, EmptySeq
  <1> HIDE DEF q, e, m, work
  <1>11. existingBlocks(m, work) = old
    BY <1>5, <1>10 DEF existingBlocks, Lookup
  <1>12. restoreTable(m, work) = m
    BY <1>5, <1>10 DEF restoreTable
  <1>13. k \in Nat
    <2>1. ceilDiv(tokens, BlockSize[e]) \in Nat
      BY <1>6, <1>8, DivNat DEF ceilDiv
    <2>2. Len(old) \in Nat
      BY <1>9
    <2> HIDE DEF old
    <2> QED
      BY <1>5, <1>8, <1>11, <2>1, <2>2 DEF requiredBlocks
  <1>14. a = [request |-> r, phase |-> work.phase, blockTable |-> bt, hashes |-> work.hashes,
              allocated |-> ids, tokens |-> tokens]
    BY <1>5, <1>11 DEF newAllocation
  <1>15. Private(e, r, {})
    BY DEF Private
  <1>16. q = request[r] /\ q.executor = e
    BY DEF q, e
  <1>17. CASE canAllocate(m, k)
    <2>1. n = [x EXCEPT !.requestBlocks      = Put(m.requestBlocks, r, bt),
                        !.pendingAllocations = Put(m.pendingAllocations, w, a)]
      BY <1>5, <1>14, <1>17 DEF AllocateBlocks
    <2> HIDE DEF k, a, x, n, ids
    <2>2. /\ Good(e, x) /\ IndexSound(x) /\ Unshared(x) /\ Stable(m, x, {})
          /\ x.requestBlocks = m.requestBlocks /\ x.pendingAllocations = m.pendingAllocations
          /\ ids \in Seq(BlockIds(e)) /\ Len(ids) = k
          /\ \A i \in DOMAIN ids : m.refCount[ids[i]] = 0 /\ ~x.cached[ids[i]]
          /\ \A b \in BlockIds(e) : x.refCount[b] = m.refCount[b] + Count(ids, b)
      BY <1>2, <1>3, <1>13, <1>17, AllocateEffect DEF x, ids
    <2> HIDE DEF old
    <2>3. /\ bt \in Seq(BlockIds(e)) /\ Len(bt) = Len(old) + Len(ids)
          /\ SubSeq(bt, 1, Len(bt) - Len(ids)) = old
          /\ Len(old) \in Nat /\ Len(ids) \in Nat
          /\ DOMAIN bt = 1..(Len(old) + Len(ids))
          /\ DOMAIN old = 1..Len(old) /\ DOMAIN ids = 1..Len(ids)
          /\ \A i \in 1..Len(old) : bt[i] = old[i]
          /\ \A i \in 1..Len(ids) : bt[Len(old) + i] = ids[i]
      BY <1>9, <2>2, CutConcat
    <2>4. \A b \in BlockIds(e) : Count(bt, b) = Count(old, b) + Count(ids, b)
      BY <1>9, <2>2, CountConcat
    <2> HIDE DEF bt
    <2>5. /\ SameBlocks(x, n) /\ n.requestBlocks = Put(m.requestBlocks, r, bt)
          /\ n.pendingAllocations = Put(m.pendingAllocations, w, a)
      BY <2>1, <2>2 DEF SameBlocks, SameIndex, Good, ManagerOK
    <2>6. Good(e, n)
      <3>1. n = AllocateBlocks(m, work)
        BY DEF n
      <3>2. work.hashes \in Seq(Hashes)
        BY <1>2, <1>5, BlockHashesType
      <3>3. q.cache \in Seq(BlockIds(e))
        BY <1>2, <1>16
      <3>4. WorkOK(e, work)
        BY <1>5, <1>6, <3>2, <3>3 DEF WorkOK
      <3> QED
        BY <1>2, <3>1, <3>4, AllocateBlocksGood
    <2>7. IndexSound(n) /\ Unshared(n) /\ Stable(m, n, {})
      BY <2>2, <2>5, SameBlocksSound
    <2>8. /\ OthersKept(m, n, r) /\ r \in DOMAIN n.requestBlocks /\ n.requestBlocks[r] = bt
          /\ Lookup(n.requestBlocks, r) = bt
      BY <2>5, KeptPut
    <2>9. Owned(e, n, transfer)
      <3>1. \A b \in BlockIds(e) : n.refCount[b] = m.refCount[b] + Count(ids, b)
        BY <2>2, <2>5 DEF SameBlocks
      <3>2. \A b \in BlockIds(e) : Count(ids, b) \in Nat /\ Count(old, b) \in Nat
        BY <1>9, <2>2, CountFacts
      <3>3. m.refCount \in [BlockIds(e) -> Nat]
        BY <1>2, GoodFields
      <3>4. \A b \in BlockIds(e) : n.refCount[b] + Count(old, b) = m.refCount[b] + Count(bt, b)
        BY <2>4, <3>1, <3>2, <3>3
      <3>5. \A b \in BlockIds(e) : n.refCount[b] + Count(Lookup(m.requestBlocks, r), b)
                                     = m.refCount[b] + Count(Lookup(n.requestBlocks, r), b)
        BY <2>8, <3>4 DEF old
      <3> QED
        BY <1>2, <1>3, <2>6, <2>8, <3>5, OwnedTable DEF OthersKept
    <2>10. TableSound(n, r, q)
      <3>1. n.blockSize = m.blockSize
        BY <1>2, <2>6, GoodFields
      <3>2. ASSUME NEW i \in 1..Len(old)
            PROVE  (n.cached[old[i]] <=> m.cached[old[i]]) /\ n.hash[old[i]] = m.hash[old[i]]
        <4>1. InTable(m, r, i, old[i])
          <5>1. i \in DOMAIN old /\ old = Lookup(m.requestBlocks, r)
            BY <2>3 DEF old
          <5>2. r \in DOMAIN m.requestBlocks /\ m.requestBlocks[r] = old
            BY <5>1 DEF Lookup
          <5> QED
            BY <5>1, <5>2 DEF InTable
        <4>2. old[i] \in BlockIds(e)
          BY <1>9, <2>3
        <4>3. m.refCount[old[i]] >= 1
          BY <1>3, <4>1, <4>2, Referenced
        <4>4. m.refCount \in [BlockIds(e) -> Nat] /\ Blocks(m) = BlockIds(e)
          BY <1>2, GoodFields
        <4>5. m.refCount[old[i]] > 0
          BY <4>2, <4>3, <4>4
        <4> QED
          BY <2>7, <4>2, <4>4, <4>5 DEF Stable
      <3>3. \A i \in 1..Len(ids) : ~n.cached[ids[i]]
        BY <2>2, <2>3, <2>5 DEF SameBlocks, SameIndex
      <3>4. ASSUME NEW i \in DOMAIN bt, n.cached[bt[i]]
            PROVE  /\ i * n.blockSize <= q.computed
                   /\ i <= Len(blockHashes(n.blockSize, q.prompt))
                   /\ n.hash[bt[i]] = blockHashes(n.blockSize, q.prompt)[i]
        <4>1. CASE i <= Len(old)
          <5>1. i \in 1..Len(old) /\ i \in DOMAIN old /\ bt[i] = old[i]
            BY <2>3, <4>1
          <5>2. m.cached[old[i]]
            BY <3>2, <3>4, <5>1
          <5> QED
            BY <1>7, <3>1, <3>2, <5>1, <5>2 DEF TableSound, old
        <4>2. CASE i > Len(old)
          <5>1. i - Len(old) \in 1..Len(ids) /\ Len(old) + (i - Len(old)) = i
            BY <2>3, <4>2
          <5>2. bt[i] = ids[i - Len(old)]
            BY <2>3, <5>1
          <5> QED
            BY <3>3, <3>4, <5>1, <5>2
        <4> QED
          BY <2>3, <4>1, <4>2
      <3>5. Len(q.cache) <= Len(bt)
        BY <1>9, <2>3
      <3> QED
        BY <2>8, <3>4, <3>5 DEF TableSound
    <2>11. AllocationSound(e, n, a, q)
      <3>1. /\ a.request = r /\ a.blockTable = bt /\ a.allocated = ids /\ a.tokens = tokens
            /\ a.hashes = blockHashes(BlockSize[e], q.prompt)
        BY <1>5, <1>14
      <3>2. n.blockSize = BlockSize[e]
        BY <2>6, GoodFields
      <3>3. Len(q.cache) + Len(ids) <= Len(bt)
        BY <1>9, <2>3
      <3>4. bt = SubSeq(bt, 1, Len(bt) - Len(ids)) \o ids
        BY <2>3 DEF bt
      <3> QED
        BY <1>4, <1>6, <1>16, <2>8, <3>1, <3>2, <3>3, <3>4 DEF AllocationSound
    <2>12. AllocationsKept(e, m, n, r, q)
      <3>1. \A v \in DOMAIN m.pendingAllocations : m.pendingAllocations[v].request # r
        BY <1>4 DEF worksOf
      <3>2. /\ DOMAIN n.pendingAllocations = DOMAIN m.pendingAllocations \cup {w}
            /\ n.pendingAllocations[w] = a
            /\ \A v \in DOMAIN m.pendingAllocations : v # w =>
                 n.pendingAllocations[v] = m.pendingAllocations[v]
        BY <2>5 DEF Put
      <3>3. a.request = r
        BY <1>14
      <3> QED
        BY <1>4, <2>11, <3>1, <3>2, <3>3 DEF AllocationsKept
    <2> QED
      BY <1>2, <1>4, <1>15, <1>16, <2>6, <2>7, <2>8, <2>9, <2>10, <2>12, RequestStepHeld DEF m
  <1>18. CASE ~canAllocate(m, k)
    <2>1. n = m
      BY <1>12, <1>18 DEF AllocateBlocks
    <2> HIDE DEF n
    <2>2. Stable(m, m, {})
      BY DEF Stable
    <2>3. OthersKept(m, m, r)
      BY DEF OthersKept
    <2>4. AllocationsKept(e, m, m, r, q)
      BY <1>4 DEF AllocationsKept, worksOf
    <2> QED
      BY <1>2, <1>3, <1>4, <1>7, <1>15, <1>16, <2>1, <2>2, <2>3, <2>4, RequestStepHeld DEF m
  <1> QED
    BY <1>17, <1>18

(* The i-th block is full when the request has i blocks of tokens. *)
LEMMA FullTokens ==
  ASSUME NEW bs \in Nat, bs > 0, NEW tokens \in Nat, NEW i \in Nat, i >= 1
  PROVE  tokensAt(bs, tokens, i) = bs <=> i * bs <= tokens
  <1> DEFINE start == (i - 1) * bs
  <1>1. start \in Nat /\ start + bs = i * bs
    <2>1. (i - 1) * bs + bs = i * bs
      OBVIOUS
    <2>2. i - 1 \in Nat
      OBVIOUS
    <2>3. (i - 1) * bs \in Nat
      BY <2>2, MulOrder
    <2> QED
      BY <2>1, <2>3
  <1>2. tokensAt(bs, tokens, i) = IF tokens <= start THEN 0 ELSE Min({bs, tokens - start})
    BY DEF tokensAt
  <1> HIDE DEF start
  <1>3. tokens > start => Min({bs, tokens - start}) = IF bs <= tokens - start THEN bs ELSE tokens - start
    BY <1>1 DEF Min
  <1> QED
    BY <1>1, <1>2, <1>3

(* No table names a block twice: the cached ones are different prefixes,    *)
(* the others have one reference.                                           *)
LEMMA TableInjective ==
  ASSUME Inv, Held, NEW r \in Requests, request[r].live, NEW e, e = request[r].executor,
         NEW table, table = Lookup(mgr[e].requestBlocks, r),
         NEW i \in DOMAIN table, NEW j \in DOMAIN table, table[i] = table[j]
  PROVE  i = j
  <1> DEFINE m  == mgr[e]
             p  == request[r].prompt
             hs == blockHashes(BlockSize[e], p)
             b  == table[i]
  <1>1. ManagersInv /\ RequestsInv
    BY InvParts
  <1>2. e \in Executors /\ Good(e, m) /\ p \in Prompts
    BY <1>1 DEF ManagersInv, RequestsInv, RequestOK
  <1>3. Unshared(m) /\ Owned(e, m, transfer)
    BY <1>2 DEF Held, ManagersSound, Ownership
  <1>4. TableSound(m, r, request[r])
    BY DEF Held, TablesSound
  <1> HIDE DEF m
  <1>5. /\ m.requestBlocks \in [DOMAIN m.requestBlocks -> Seq(BlockIds(e))]
        /\ Blocks(m) = BlockIds(e) /\ m.blockSize = BlockSize[e]
    BY <1>2, GoodFields
  <1>6. /\ table = Lookup(m.requestBlocks, r) /\ r \in DOMAIN m.requestBlocks
        /\ table = m.requestBlocks[r] /\ table \in Seq(BlockIds(e))
    BY <1>5 DEF m, Lookup
  <1>7. b \in BlockIds(e) /\ i \in Nat /\ j \in Nat /\ i >= 1 /\ j >= 1
    BY <1>6
  <1>8. CASE m.cached[b]
    <2>1. i <= Len(hs) /\ m.hash[b] = hs[i]
      BY <1>4, <1>5, <1>6, <1>8 DEF TableSound
    <2>2. j <= Len(hs) /\ m.hash[b] = hs[j]
      BY <1>4, <1>5, <1>6, <1>8 DEF TableSound
    <2>3. DOMAIN hs = 1..Len(hs) /\ Len(hs) \in Nat
      BY <1>2, MatchablePrefix
    <2>4. i \in DOMAIN hs /\ j \in DOMAIN hs /\ hs[i] = hs[j]
      BY <1>7, <2>1, <2>2, <2>3
    <2> QED
      BY <1>2, <2>4, HashesInjective
  <1>9. CASE ~m.cached[b]
    <2>1. m.refCount[b] <= 1
      BY <1>3, <1>5, <1>7, <1>9 DEF Unshared
    <2>2. InTable(m, r, i, b) /\ InTable(m, r, j, b)
      BY <1>6 DEF InTable
    <2> QED
      BY <1>3, <1>7, <2>1, <2>2, Single
  <1> QED
    BY <1>8, <1>9

(* The token counts that Commit writes: cached blocks stay full, and a      *)
(* position whose block becomes full lies within the computed tokens.       *)
LEMMA CommittedFull ==
  ASSUME Inv, Held, NEW e \in Executors, NEW w \in DOMAIN mgr[e].pendingAllocations,
         NEW m, m = mgr[e], NEW a, a = m.pendingAllocations[w]
  PROVE  /\ \A i, j \in DOMAIN a.blockTable : a.blockTable[i] = a.blockTable[j] => i = j
         /\ \A i \in DOMAIN a.blockTable :
              committedTokens(m, a)[a.blockTable[i]] = m.blockSize <=> i * m.blockSize <= a.tokens
         /\ \A b \in BlockIds(e) : m.cached[b] => committedTokens(m, a)[b] = m.blockSize
  <1> DEFINE q  == request[a.request]
             bt == a.blockTable
             bs == m.blockSize
  <1>1. /\ a.request \in Requests /\ AllocationSound(e, m, a, q)
        /\ Lookup(m.requestBlocks, a.request) = bt /\ TableSound(m, a.request, q)
        /\ bt \in Seq(BlockIds(e)) /\ a.tokens \in Nat /\ q.computed \in Nat
    BY WorkFacts
  <1>2. ManagersInv
    BY InvParts
  <1>3. Good(e, m) /\ IndexSound(m)
    BY <1>2 DEF ManagersInv, Held, ManagersSound
  <1>4. bs = BlockSize[e] /\ bs \in Nat /\ bs > 0 /\ Blocks(m) = BlockIds(e)
    BY <1>3, GoodFields, SizeFacts
  <1>5. q.live /\ q.executor = e /\ q.computed < a.tokens
    BY <1>1 DEF AllocationSound
  <1>6. \A i, j \in DOMAIN bt : bt[i] = bt[j] => i = j
    BY <1>1, <1>5, TableInjective, ZenonT(30)
  <1>7. \A i \in DOMAIN bt : i \in Nat /\ i >= 1 /\ bt[i] \in BlockIds(e)
    BY <1>1
  <1> HIDE DEF bt, bs
  <1>8. ASSUME NEW i \in DOMAIN bt
        PROVE  committedTokens(m, a)[bt[i]] = tokensAt(bs, a.tokens, i)
    <2>1. {j \in DOMAIN bt : bt[j] = bt[i]} = {i}
      BY <1>6
    <2>2. Max({i}) = i
      BY <1>7 DEF Max
    <2> QED
      BY <1>4, <1>7, <2>1, <2>2 DEF committedTokens, bt, bs
  <1>9. \A i \in DOMAIN bt : committedTokens(m, a)[bt[i]] = bs <=> i * bs <= a.tokens
    BY <1>1, <1>4, <1>7, <1>8, FullTokens
  <1>10. ASSUME NEW b \in BlockIds(e), m.cached[b]
         PROVE  committedTokens(m, a)[b] = bs
    <2>1. CASE \E i \in DOMAIN bt : bt[i] = b
      <3>1. PICK i \in DOMAIN bt : bt[i] = b
        BY <2>1
      <3>2. i * bs <= q.computed
        BY <1>1, <1>10, <3>1 DEF TableSound, bs
      <3>3. i * bs \in Nat
        BY <1>4, <1>7, MulOrder
      <3>4. i * bs <= a.tokens
        BY <1>1, <1>5, <3>2, <3>3
      <3> QED
        BY <1>9, <3>1, <3>4
    <2>2. CASE ~\E i \in DOMAIN bt : bt[i] = b
      <3>1. {j \in DOMAIN bt : bt[j] = b} = {}
        BY <2>2
      <3>2. committedTokens(m, a)[b] = m.tokenCount[b]
        BY <1>4, <3>1 DEF committedTokens, bt
      <3>3. m.hash[b] \in DOMAIN m.cachedBlocks /\ m.cachedBlocks[m.hash[b]] = b
        BY <1>3, <1>4, <1>10 DEF IndexSound
      <3>4. m.tokenCount[b] = bs
        BY <1>3, <3>3 DEF IndexSound, transferable, bs
      <3> QED
        BY <3>2, <3>4
    <2> QED
      BY <2>1, <2>2
  <1> QED
    BY <1>6, <1>9, <1>10 DEF bt, bs

(* Commit: the blocks that enter the index are full, were in this table     *)
(* alone and carry the hashes of their positions.                           *)
LEMMA CommitHeld ==
  ASSUME Inv, Held, NEW e \in Executors, NEW w \in Works, CommitWork(e, w)
  PROVE  Held'
  <1> DEFINE m  == mgr[e]
             a  == m.pendingAllocations[w]
             r  == a.request
             old == request[r]
             q  == [old EXCEPT !.computed = a.tokens]
             bt == a.blockTable
             hs == a.hashes
             bs == m.blockSize
             K  == newlyCached(m, a)
             N  == {bt[i] : i \in K}
             tc == committedTokens(m, a)
             x  == [indexBlocks(m, bt, hs, K) EXCEPT !.tokenCount = tc]
             n  == Commit(m, w)
  <1>1. ManagersInv /\ RequestsInv
    BY InvParts
  <1>2. Good(e, m) /\ DOMAIN mgr = Executors /\ DOMAIN request = Requests
    BY <1>1 DEF ManagersInv, RequestsInv
  <1>3. IndexSound(m) /\ Unshared(m) /\ Owned(e, m, transfer)
    BY DEF Held, ManagersSound, Ownership
  <1>4. /\ w \in DOMAIN m.pendingAllocations /\ mgr' = [mgr EXCEPT ![e] = n]
        /\ request' = [request EXCEPT ![r].computed = a.tokens] /\ transfer' = transfer
    BY DEF CommitWork
  <1>5. /\ a \in Allocations(e) /\ r \in Requests /\ AllocationSound(e, m, a, old)
        /\ \A v \in DOMAIN m.pendingAllocations : m.pendingAllocations[v].request = r => v = w
        /\ Lookup(m.requestBlocks, r) = bt /\ TableSound(m, r, old)
        /\ bt \in Seq(BlockIds(e)) /\ hs \in Seq(Hashes) /\ a.tokens \in Nat
        /\ old.computed \in Nat /\ old.prompt \in Prompts
    BY <1>4, WorkFacts
  <1>6. /\ \A i, j \in DOMAIN bt : bt[i] = bt[j] => i = j
        /\ \A i \in DOMAIN bt : tc[bt[i]] = bs <=> i * bs <= a.tokens
        /\ \A b \in BlockIds(e) : m.cached[b] => tc[b] = bs
    BY <1>4, CommittedFull, SMTT(30)
  <1>7. n = [x EXCEPT !.pendingAllocations = Without(m.pendingAllocations, {w})]
    <2>1. n = [indexBlocks(m, bt, hs, K) EXCEPT !.tokenCount = tc,
                 !.pendingAllocations = Without(m.pendingAllocations, {w})]
      BY <1>4 DEF Commit
    <2> HIDE DEF n, m, K, tc
    <2> QED
      BY <2>1 DEF indexBlocks
  <1>8. Good(e, n)
    <2> HIDE DEF m
    <2> QED
      BY <1>2, <1>4, CommitGood
  <1>9. request'[r] = q /\ \A y \in Requests : y # r => request'[y] = request[y]
    BY <1>2, <1>4, <1>5
  <1>10. /\ q.live = old.live /\ q.executor = old.executor /\ q.prompt = old.prompt
         /\ q.cache = old.cache /\ q.computed = a.tokens
    <2>1. old \in [live : BOOLEAN, executor : Executors, prompt : Prompts,
                   cache : Seq(BlockIds(old.executor)), computed : Nat]
      BY <1>1, <1>5 DEF RequestsInv, RequestOK
    <2> HIDE DEF old, a
    <2> QED
      BY <2>1
  <1>11. tc \in [BlockIds(e) -> Nat]
    <2> HIDE DEF m, a
    <2> QED
      BY <1>2, <1>5, CommittedTokensType
  <1>12. old.live /\ old.executor = e /\ hs = blockHashes(bs, old.prompt) /\ old.computed < a.tokens
    <2> HIDE DEF m, a, old
    <2> QED
      BY <1>5 DEF AllocationSound, hs, bs
  <1>13. ASSUME NEW i \in K
         PROVE  /\ i \in DOMAIN bt /\ i \in DOMAIN hs /\ i <= Len(hs) /\ bt[i] \in BlockIds(e)
                /\ hs[i] \in Hashes
                /\ ~m.cached[bt[i]] /\ tc[bt[i]] = bs /\ hs[i] \notin DOMAIN m.cachedBlocks
    <2> HIDE DEF m, a
    <2>1. i \in eligible(m, a)
      BY DEF newlyCached
    <2>2. /\ i \in DOMAIN bt /\ ~m.cached[bt[i]] /\ tc[bt[i]] = bs
          /\ i <= Len(hs) /\ hs[i] \notin DOMAIN m.cachedBlocks
      BY <2>1 DEF eligible
    <2> HIDE DEF bt, hs
    <2>3. i \in DOMAIN hs
      BY <1>5, <2>2
    <2> QED
      BY <1>5, <2>2, <2>3
  <1>14. bs = BlockSize[e] /\ bs \in Nat /\ bs > 0 /\ Blocks(m) = BlockIds(e)
    <2> HIDE DEF m
    <2> QED
      BY <1>2, GoodFields, SizeFacts DEF bs
  <1> HIDE DEF m, a, r, old, q, bt, hs, K, tc, n
  <1>15. \A i, j \in K : hs[i] = hs[j] => i = j
    <2> SUFFICES ASSUME NEW i \in K, NEW j \in K, hs[i] = hs[j] PROVE i = j
      OBVIOUS
    <2>1. hs = blockHashes(BlockSize[e], old.prompt)
      BY <1>12, <1>14
    <2>2. i \in DOMAIN hs /\ j \in DOMAIN hs
      BY <1>13
    <2> QED
      BY <1>5, <2>1, <2>2, HashesInjective
  <1>16. \A i, j \in K : bt[i] = bt[j] => i = j
    BY <1>6, <1>13
  <1>17. /\ Good(e, x) /\ IndexSound(x) /\ Unshared(x) /\ Stable(m, x, N)
         /\ x.requestBlocks = m.requestBlocks /\ x.pendingAllocations = m.pendingAllocations
         /\ x.refCount = m.refCount
         /\ \A i \in K : x.cached[bt[i]] /\ x.hash[bt[i]] = hs[i]
         /\ \A b \in BlockIds(e) : x.cached[b] => m.cached[b] \/ \E i \in K : bt[i] = b
    <2>1. \A i \in K : bt[i] \in BlockIds(e) /\ hs[i] \in Hashes
      BY <1>13
    <2>2. \A i \in K : ~m.cached[bt[i]] /\ hs[i] \notin DOMAIN m.cachedBlocks
      BY <1>13
    <2>3. \A i \in K : tc[bt[i]] = m.blockSize
      BY <1>13
    <2>4. \A b \in BlockIds(e) : m.cached[b] => tc[b] = m.blockSize
      BY <1>6
    <2> QED
      BY <1>2, <1>3, <1>11, <1>15, <1>16, <2>1, <2>2, <2>3, <2>4, IndexBlocksEffect, SMTT(30)
  <1> HIDE DEF x
  <1>18. /\ SameBlocks(x, n) /\ n.requestBlocks = m.requestBlocks
         /\ n.pendingAllocations = Without(m.pendingAllocations, {w})
    BY <1>7, <1>17 DEF SameBlocks, SameIndex, Good, ManagerOK
  <1>19. IndexSound(n) /\ Unshared(n) /\ Stable(m, n, N)
    BY <1>17, <1>18, SameBlocksSound
  <1>20. OthersKept(m, n, r) /\ Lookup(n.requestBlocks, r) = bt
    BY <1>5, <1>18 DEF OthersKept
  <1>21. Owned(e, n, transfer)
    BY <1>3, <1>17, <1>18 DEF Owned, SameBlocks
  <1>22. r \in DOMAIN m.requestBlocks /\ m.requestBlocks[r] = bt
    BY <1>5 DEF AllocationSound, r, bt
  <1>23. Private(e, r, N)
    <2> SUFFICES ASSUME NEW i \in K
                 PROVE  /\ \A j, y : y # r => ~InTable(m, y, j, bt[i])
                        /\ \A t, j : ~InDestination(transfer, t, e, j, bt[i])
      BY DEF Private, m
    <2>1. m.refCount[bt[i]] <= 1 /\ bt[i] \in BlockIds(e)
      BY <1>3, <1>13, <1>14 DEF Unshared
    <2>2. InTable(m, r, i, bt[i])
      BY <1>13, <1>22 DEF InTable
    <2> QED
      BY <1>3, <2>1, <2>2, Single
  <1>24. TableSound(n, r, q)
    <2>1. n.blockSize = bs
      BY <1>8, <1>14, GoodFields
    <2>2. ASSUME NEW i \in DOMAIN bt, n.cached[bt[i]]
          PROVE  i * bs <= a.tokens /\ i <= Len(hs) /\ n.hash[bt[i]] = hs[i]
      <3>1. i \in Nat /\ bt[i] \in BlockIds(e)
        BY <1>5
      <3>2. x.cached[bt[i]] /\ n.hash[bt[i]] = x.hash[bt[i]]
        BY <1>18, <2>2 DEF SameBlocks, SameIndex
      <3>3. CASE m.cached[bt[i]]
        <4>1. i * bs <= old.computed /\ i <= Len(hs) /\ m.hash[bt[i]] = hs[i]
          BY <1>5, <1>12, <3>3 DEF TableSound, bs
        <4>2. i * bs \in Nat
          BY <1>14, <3>1, MulOrder
        <4>3. i * bs <= a.tokens
          BY <1>5, <1>12, <4>1, <4>2
        <4>4. bt[i] \notin N
          BY <1>13, <3>3
        <4>5. m.refCount[bt[i]] > 0
          <5>1. InTable(m, r, i, bt[i])
            BY <1>22 DEF InTable
          <5>2. m.refCount[bt[i]] >= 1
            BY <1>3, <3>1, <5>1, Referenced
          <5>3. m.refCount \in [BlockIds(e) -> Nat]
            BY <1>2, GoodFields
          <5> QED
            BY <3>1, <5>2, <5>3
        <4>6. x.hash[bt[i]] = m.hash[bt[i]]
          BY <1>14, <1>17, <3>1, <4>4, <4>5 DEF Stable
        <4> QED
          BY <3>2, <4>1, <4>3, <4>6
      <3>4. CASE ~m.cached[bt[i]]
        <4>1. PICK j \in K : bt[j] = bt[i]
          BY <1>17, <3>1, <3>2, <3>4
        <4>2. i \in K
          BY <1>6, <1>13, <4>1
        <4>3. tc[bt[i]] = bs /\ i <= Len(hs) /\ x.hash[bt[i]] = hs[i]
          BY <1>13, <1>17, <4>2
        <4> QED
          BY <1>6, <3>2, <4>3
      <3> QED
        BY <3>3, <3>4
    <2>3. Len(q.cache) <= Len(bt)
      BY <1>5, <1>10 DEF TableSound
    <2> QED
      BY <1>10, <1>12, <1>20, <2>1, <2>2, <2>3 DEF TableSound
  <1>25. AllocationsKept(e, m, n, r, q)
    BY <1>5, <1>18 DEF AllocationsKept, Without, Restrict
  <1> HIDE DEF N
  <1>26. request[r] = old
    BY DEF old
  <1> QED
    BY <1>4, <1>5, <1>8, <1>9, <1>10, <1>12, <1>19, <1>20, <1>21, <1>23, <1>24, <1>25, <1>26,
       RequestStepHeld DEF m

(* What is known of a transfer. *)
LEMMA PlanFacts ==
  ASSUME Inv, Held, NEW t \in Transfers
  PROVE  LET plan == transfer[t] IN
         /\ DOMAIN transfer = Transfers /\ PlanOK(plan)
         /\ plan.source \in Executors /\ plan.destination \in Executors
         /\ plan.hashes \in Seq(Hashes)
         /\ plan.sourceBlocks \in Seq(BlockIds(plan.source))
         /\ plan.destinationBlocks \in Seq(BlockIds(plan.destination))
         /\ plan.step = "pending" => Len(plan.destinationBlocks) = Len(plan.hashes)
         /\ PlanSound(plan, mgr[plan.source], mgr[plan.destination])
  <1>1. TransfersInv
    BY InvParts
  <1>2. DOMAIN transfer = Transfers /\ PlanOK(transfer[t])
    BY <1>1 DEF TransfersInv
  <1>3. transfer[t].step = "pending" => Len(transfer[t].destinationBlocks) = Len(transfer[t].hashes)
    BY <1>1 DEF TransfersInv, PlanLengths
  <1>4. PlanSound(transfer[t], mgr[transfer[t].source], mgr[transfer[t].destination])
    BY DEF Held, PlansSound
  <1> QED
    BY <1>2, <1>3, <1>4 DEF PlanOK

(* What is known of an executor. *)
LEMMA ExecutorFacts ==
  ASSUME Inv, Held, NEW e \in Executors
  PROVE  /\ DOMAIN mgr = Executors /\ Good(e, mgr[e]) /\ IndexSound(mgr[e]) /\ Unshared(mgr[e])
         /\ Owned(e, mgr[e], transfer)
  <1>1. ManagersInv
    BY InvParts
  <1> QED
    BY <1>1 DEF ManagersInv, Held, ManagersSound, Ownership

(* No table of a manager names a block twice.                               *)
LEMMA TablesDistinct ==
  ASSUME Inv, Held, NEW e \in Executors, NEW r \in DOMAIN mgr[e].requestBlocks
  PROVE  \A i, j \in DOMAIN mgr[e].requestBlocks[r] :
           mgr[e].requestBlocks[r][i] = mgr[e].requestBlocks[r][j] => i = j
  <1>1. r \in Requests
    BY ExecutorFacts, GoodFields
  <1>2. request[r].live /\ request[r].executor = e
    BY DEF Held, TablesOfLive
  <1>3. PICK table : table = mgr[e].requestBlocks[r]
    OBVIOUS
  <1>4. table = Lookup(mgr[e].requestBlocks, r)
    BY <1>3 DEF Lookup
  <1> QED
    BY <1>1, <1>2, <1>3, <1>4, TableInjective

(* PrepareTransfer: the pinned blocks are cached ones. *)
LEMMA PrepareHeld ==
  ASSUME Inv, Held, NEW t \in Transfers, NEW s \in Executors, NEW d \in Executors,
         NEW hashes \in HashPrefixes, PrepareTransfer(t, s, d, hashes)
  PROVE  Held'
  <1> DEFINE m    == mgr[s]
             ids  == pinnedBlocks(m, hashes)
             n    == touch(m, ids)
             plan == [step |-> "pinned", source |-> s, destination |-> d, hashes |-> hashes,
                      sourceBlocks |-> ids, destinationBlocks |-> << >>]
  <1>1. /\ DOMAIN mgr = Executors /\ Good(s, m) /\ IndexSound(m) /\ Unshared(m) /\ Owned(s, m, transfer)
    BY ExecutorFacts
  <1>2. hashes \in Seq(Hashes)
    BY HashPrefixType
  <1>3. /\ transfer[t].step = "idle" /\ s # d /\ canPin(m, hashes)
        /\ mgr' = [mgr EXCEPT ![s] = n] /\ transfer' = [transfer EXCEPT ![t] = plan]
        /\ request' = request
    BY DEF PrepareTransfer, pinCachedBlocks
  <1>4. transfer[t].sourceBlocks = << >> /\ transfer[t].destinationBlocks = << >>
    BY <1>3, PlanFacts DEF PlanSound
  <1>5. ids \in Seq(BlockIds(s)) /\ Len(ids) = Len(hashes)
    <2>1. ids \in Seq(BlockIds(s))
      <3> HIDE DEF m
      <3> QED
        BY <1>1, <1>2, <1>3, PinGood
    <2>2. ids = [i \in 1..Len(hashes) |-> m.cachedBlocks[hashes[i]]] /\ Len(hashes) \in Nat
      BY <1>2 DEF pinnedBlocks
    <2> HIDE DEF ids
    <2>3. Len(ids) = Len(hashes)
      BY <2>2
    <2> QED
      BY <2>1, <2>3
  <1>6. \A i \in DOMAIN hashes : /\ ids[i] = m.cachedBlocks[hashes[i]] /\ i \in DOMAIN ids
                                 /\ hashes[i] \in DOMAIN m.cachedBlocks
    BY <1>3 DEF pinnedBlocks, canPin, transferable
  <1>7. \A i \in DOMAIN ids : m.cached[ids[i]]
    BY <1>3 DEF pinnedBlocks, canPin, transferable
  <1> HIDE DEF m, ids
  <1>8. /\ Good(s, n) /\ SameIndex(m, n) /\ IndexSound(n) /\ Unshared(n)
        /\ n.requestBlocks = m.requestBlocks /\ n.pendingAllocations = m.pendingAllocations
        /\ \A b \in BlockIds(s) : n.refCount[b] = m.refCount[b] + Count(ids, b)
    BY <1>1, <1>5, <1>7, TouchEffect
  <1> HIDE DEF n
  <1>9. Stable(m, n, {})
    BY <1>1, <1>8, SameIndexSound
  <1>10. PlanOK(plan)
    <2>1. PICK none \in Seq(BlockIds(d)) : none = << >>
      BY EmptySeq
    <2> QED
      BY <1>2, <1>5, <2>1 DEF PlanOK
  <1>11. \A f, b : /\ planCount(transfer[t], f, b) = 0
                   /\ planCount(plan, f, b) = IF f = s THEN Count(ids, b) + 0 ELSE 0
    <2>1. \A b : Count(<< >>, b) = 0
      BY CountEmpty
    <2>2. \A b : Count(ids, b) \in Nat
      BY <1>5, CountFacts
    <2> QED
      BY <1>3, <1>4, <2>1, <2>2 DEF planCount
  <1>12. /\ plan.source = s /\ plan.destination = d /\ plan.step = "pinned"
         /\ plan.hashes = hashes /\ plan.sourceBlocks = ids /\ plan.destinationBlocks = << >>
    OBVIOUS
  <1> HIDE DEF plan
  <1>13. PlanSound(plan, mgr'[plan.source], mgr'[plan.destination])
    <2>1. mgr'[s] = n /\ n.cachedBlocks = m.cachedBlocks
      BY <1>1, <1>3, <1>8 DEF SameIndex
    <2>2. \A i \in DOMAIN << >> : FALSE
      OBVIOUS
    <2> QED
      BY <1>5, <1>6, <1>12, <2>1, <2>2 DEF PlanSound
  <1>14. CountsFollow(s, m, n, transfer[t], plan)
    <2>1. \A b \in BlockIds(s) : m.refCount[b] \in Nat /\ Count(ids, b) \in Nat
      BY <1>1, <1>5, GoodFields, CountFacts
    <2> QED
      BY <1>8, <1>11, <2>1 DEF CountsFollow
  <1>15. Reserved(s, t, {})
    BY DEF Reserved, Spared
  <1> QED
    BY <1>3, <1>8, <1>9, <1>10, <1>13, <1>14, <1>15, TransferStepHeld DEF m

(* ReserveDestination: the reserved blocks had no reference; a refusal      *)
(* changes only the plan.                                                   *)
LEMMA ReserveHeld ==
  ASSUME Inv, Held, NEW t \in Transfers, ReserveDestination(t)
  PROVE  Held'
  <1> DEFINE plan == transfer[t]
             d    == plan.destination
             k    == Len(plan.hashes)
             m    == mgr[d]
             n    == reserveTransferBlocks(m, k)
             ids  == popped(m, k)
  <1>1. /\ DOMAIN transfer = Transfers /\ PlanOK(plan) /\ d \in Executors
        /\ plan.sourceBlocks \in Seq(BlockIds(plan.source))
        /\ plan.hashes \in Seq(Hashes) /\ PlanSound(plan, mgr[plan.source], m)
    BY PlanFacts
  <1>2. DOMAIN mgr = Executors /\ Good(d, m) /\ IndexSound(m) /\ Unshared(m) /\ Owned(d, m, transfer)
    BY <1>1, ExecutorFacts
  <1>3. plan.step = "pinned" /\ mgr' = [mgr EXCEPT ![d] = n] /\ request' = request
    BY DEF ReserveDestination
  <1>4. plan.destinationBlocks = << >> /\ k \in Nat
    BY <1>1, <1>3 DEF PlanSound
  <1>5. \A b : Count(<< >>, b) = 0
    BY CountEmpty
  <1>6. m.refCount \in [BlockIds(d) -> Nat]
    <2> HIDE DEF m, d
    <2> QED
      BY <1>2, GoodFields
  <1>7. Reserved(d, t, {}) /\ Spared(t, d, {})
    BY DEF Reserved, Spared
  <1>8. CASE canAllocate(m, k)
    <2> DEFINE next == [plan EXCEPT !.step = "pending", !.destinationBlocks = ids]
    <2>1. transfer' = [transfer EXCEPT ![t] = next]
      BY <1>1, <1>8 DEF ReserveDestination
    <2>2. n = allocate(m, k)
      BY <1>8 DEF reserveTransferBlocks
    <2> HIDE DEF m, d, k, n, ids
    <2>3. /\ Good(d, n) /\ IndexSound(n) /\ Unshared(n) /\ Stable(m, n, {})
          /\ n.requestBlocks = m.requestBlocks /\ n.pendingAllocations = m.pendingAllocations
          /\ ids \in Seq(BlockIds(d)) /\ Len(ids) = k
          /\ \A i \in DOMAIN ids : ~n.cached[ids[i]]
          /\ \A b \in BlockIds(d) : n.refCount[b] = m.refCount[b] + Count(ids, b)
      BY <1>2, <1>4, <1>8, <2>2, AllocateEffect DEF ids
    <2>4. PlanOK(next)
      BY <1>1, <2>3 DEF PlanOK, d
    <2>5. PlanSound(plan, mgr'[plan.source], mgr'[plan.destination])
      BY <1>1, <1>3, <1>7, <2>3, PlanFrame DEF m
    <2>6. /\ next.step = "pending" /\ next.source = plan.source /\ next.destination = plan.destination
          /\ next.hashes = plan.hashes /\ next.sourceBlocks = plan.sourceBlocks
          /\ next.destinationBlocks = ids
      BY <1>1 DEF PlanOK
    <2> HIDE DEF next
    <2>7. \A i \in DOMAIN ids : ~mgr'[next.destination].cached[ids[i]]
      BY <1>1, <1>2, <1>3, <2>3, <2>6 DEF d
    <2>8. PlanSound(next, mgr'[next.source], mgr'[next.destination])
      BY <1>3, <2>5, <2>6, <2>7 DEF PlanSound
    <2>9. \A b : Count(ids, b) \in Nat /\ Count(plan.sourceBlocks, b) \in Nat
      BY <1>1, <2>3, CountFacts
    <2>10. CountsFollow(d, m, n, plan, next)
      <3>1. plan.destination = d
        BY DEF d
      <3> HIDE DEF plan
      <3>2. ASSUME NEW f, NEW b, f # d PROVE planCount(next, f, b) = planCount(plan, f, b)
        BY <2>6, <3>1, <3>2 DEF planCount
      <3>3. ASSUME NEW b PROVE /\ planCount(next, d, b) = planCount(plan, d, b) + Count(ids, b)
                               /\ planCount(plan, d, b) \in Nat
        <4>1. planCount(plan, d, b) = (IF plan.source = d THEN Count(plan.sourceBlocks, b) ELSE 0) + 0
          BY <1>4, <1>5, <3>1 DEF planCount
        <4>2. planCount(next, d, b) = (IF plan.source = d THEN Count(plan.sourceBlocks, b) ELSE 0)
                                        + Count(ids, b)
          BY <2>6, <3>1 DEF planCount
        <4> QED
          BY <2>9, <4>1, <4>2
      <3>4. \A b \in BlockIds(d) : n.refCount[b] + planCount(plan, d, b)
                                     = m.refCount[b] + planCount(next, d, b)
        BY <1>6, <2>3, <2>9, <3>3
      <3> QED
        BY <3>2, <3>4 DEF CountsFollow
    <2> QED
      BY <1>1, <1>3, <1>7, <2>1, <2>3, <2>4, <2>8, <2>10, TransferStepHeld DEF m
  <1>9. CASE ~canAllocate(m, k)
    <2> DEFINE next == [plan EXCEPT !.step = "settled"]
    <2>1. transfer' = [transfer EXCEPT ![t] = next]
      BY <1>1, <1>9 DEF ReserveDestination
    <2>2. n = m
      BY <1>9 DEF reserveTransferBlocks
    <2> HIDE DEF m, d, k, n
    <2>3. Stable(m, m, {})
      BY DEF Stable
    <2>4. PlanOK(next)
      BY <1>1 DEF PlanOK
    <2>5. PlanSound(plan, mgr'[plan.source], mgr'[plan.destination])
      BY <1>1, <1>2, <1>3, <1>7, <2>2, <2>3, PlanFrame DEF m
    <2>6. /\ next.step = "settled" /\ next.source = plan.source /\ next.destination = plan.destination
          /\ next.hashes = plan.hashes /\ next.sourceBlocks = plan.sourceBlocks
          /\ next.destinationBlocks = plan.destinationBlocks
      BY <1>1 DEF PlanOK
    <2> HIDE DEF next
    <2>7. PlanSound(next, mgr'[next.source], mgr'[next.destination])
      BY <1>3, <1>4, <2>5, <2>6 DEF PlanSound
    <2>8. \A f, b : planCount(next, f, b) = planCount(plan, f, b)
      BY <2>6 DEF planCount
    <2>9. CountsFollow(d, m, m, plan, next)
      BY <2>8 DEF CountsFollow
    <2> QED
      BY <1>1, <1>2, <1>3, <1>7, <2>1, <2>2, <2>3, <2>4, <2>7, <2>9, TransferStepHeld DEF m
  <1> QED
    BY <1>8, <1>9

(* The plan of a transfer whose destination is done. *)
settled(plan) == [plan EXCEPT !.step = "settled", !.destinationBlocks = << >>]

(* A step that gives the destination blocks of t back, whichever of them it *)
(* first put in the index.                                                  *)
LEMMA SettleHeld ==
  ASSUME Inv, Held, NEW t \in Transfers, transfer[t].step = "pending",
         NEW n, Good(transfer[t].destination, n),
         mgr' = [mgr EXCEPT ![transfer[t].destination] = n],
         UNCHANGED request, IndexSound(n), Unshared(n),
         n.requestBlocks = mgr[transfer[t].destination].requestBlocks,
         n.pendingAllocations = mgr[transfer[t].destination].pendingAllocations,
         NEW N, Stable(mgr[transfer[t].destination], n, N),
         Reserved(transfer[t].destination, t, N),
         \A b \in BlockIds(transfer[t].destination) :
           n.refCount[b] = mgr[transfer[t].destination].refCount[b]
                             - Count(transfer[t].destinationBlocks, b),
         transfer' = [transfer EXCEPT ![t] = settled(transfer[t])]
  PROVE  Held'
  <1> DEFINE plan == transfer[t]
             d    == plan.destination
             m    == mgr[d]
             ids  == plan.destinationBlocks
             next == settled(plan)
  <1>1. /\ DOMAIN transfer = Transfers /\ PlanOK(plan) /\ d \in Executors
        /\ plan.sourceBlocks \in Seq(BlockIds(plan.source)) /\ ids \in Seq(BlockIds(d))
        /\ plan.hashes \in Seq(Hashes) /\ PlanSound(plan, mgr[plan.source], m)
    BY PlanFacts
  <1>2. DOMAIN mgr = Executors /\ Good(d, m)
    BY <1>1, ExecutorFacts
  <1>3. m.refCount \in [BlockIds(d) -> Nat]
    <2> HIDE DEF m, d
    <2> QED
      BY <1>2, GoodFields
  <1>4. PlanOK(next)
    <2>1. PICK none \in Seq(BlockIds(d)) : none = << >>
      BY EmptySeq
    <2> QED
      BY <1>1, <2>1 DEF PlanOK, settled
  <1>5. /\ next.step = "settled" /\ next.source = plan.source /\ next.destination = d
        /\ next.hashes = plan.hashes /\ next.sourceBlocks = plan.sourceBlocks
        /\ next.destinationBlocks = << >>
    BY <1>1 DEF PlanOK, settled
  <1>6. \A i \in DOMAIN plan.hashes :
          /\ plan.hashes[i] \in DOMAIN mgr'[plan.source].cachedBlocks
          /\ mgr'[plan.source].cachedBlocks[plan.hashes[i]] = plan.sourceBlocks[i]
    BY <1>1, SourceFrame
  <1>7. Len(plan.sourceBlocks) = Len(plan.hashes)
    BY <1>1 DEF PlanSound
  <1>8. /\ transfer[t] = plan /\ transfer' = [transfer EXCEPT ![t] = next]
        /\ Good(d, n) /\ mgr' = [mgr EXCEPT ![d] = n] /\ Stable(mgr[d], n, N) /\ Reserved(d, t, N)
        /\ n.requestBlocks = mgr[d].requestBlocks
        /\ n.pendingAllocations = mgr[d].pendingAllocations
        /\ \A b \in BlockIds(d) : n.refCount[b] = m.refCount[b] - Count(ids, b)
    OBVIOUS
  <1> HIDE DEF next
  <1>9. PlanSound(next, mgr'[next.source], mgr'[next.destination])
    <2>1. \A i \in DOMAIN << >> : FALSE
      OBVIOUS
    <2> QED
      BY <1>5, <1>6, <1>7, <2>1 DEF PlanSound
  <1>10. CountsFollow(d, m, n, plan, next)
    <2>1. plan.destination = d /\ plan.destinationBlocks = ids
      OBVIOUS
    <2>2. \A b : Count(<< >>, b) = 0
      BY CountEmpty
    <2>3. \A b : Count(ids, b) \in Nat /\ Count(plan.sourceBlocks, b) \in Nat
      BY <1>1, CountFacts
    <2> HIDE DEF plan, d, m, ids
    <2>4. ASSUME NEW f, NEW b, f # d PROVE planCount(next, f, b) = planCount(plan, f, b)
      BY <1>5, <2>1, <2>4 DEF planCount
    <2>5. ASSUME NEW b PROVE /\ planCount(plan, d, b) = planCount(next, d, b) + Count(ids, b)
                             /\ planCount(next, d, b) \in Nat
      <3>1. planCount(next, d, b) = (IF plan.source = d THEN Count(plan.sourceBlocks, b) ELSE 0) + 0
        BY <1>5, <2>2 DEF planCount
      <3>2. planCount(plan, d, b) = (IF plan.source = d THEN Count(plan.sourceBlocks, b) ELSE 0)
                                      + Count(ids, b)
        BY <2>1 DEF planCount
      <3> QED
        BY <2>3, <3>1, <3>2
    <2>6. \A b \in BlockIds(d) : n.refCount[b] + planCount(plan, d, b)
                                   = m.refCount[b] + planCount(next, d, b)
      BY <1>3, <1>8, <2>3, <2>5
    <2> QED
      BY <2>4, <2>6 DEF CountsFollow
  <1> HIDE DEF plan, d
  <1> QED
    BY <1>1, <1>4, <1>8, <1>9, <1>10, TransferStepHeld DEF m

(* A pending transfer's destination blocks are its own. *)
LEMMA DestinationHeld ==
  ASSUME Inv, Held, NEW t \in Transfers, transfer[t].step = "pending"
  PROVE  LET d   == transfer[t].destination
             ids == transfer[t].destinationBlocks
         IN  /\ \A b \in BlockIds(d) : Count(ids, b) <= mgr[d].refCount[b]
             /\ \A i \in DOMAIN ids : ids[i] \in BlockIds(d) /\ mgr[d].refCount[ids[i]] = 1
             /\ \A i, j \in DOMAIN ids : ids[i] = ids[j] => i = j
             /\ Reserved(d, t, Range(ids))
  <1> DEFINE plan == transfer[t]
             d    == plan.destination
             m    == mgr[d]
             ids  == plan.destinationBlocks
  <1>1. /\ DOMAIN transfer = Transfers /\ PlanOK(plan) /\ d \in Executors
        /\ plan.sourceBlocks \in Seq(BlockIds(plan.source)) /\ ids \in Seq(BlockIds(d))
        /\ PlanSound(plan, mgr[plan.source], m)
    BY PlanFacts
  <1>2. Good(d, m) /\ Unshared(m) /\ Owned(d, m, transfer)
    BY <1>1, ExecutorFacts
  <1>3. \A i \in DOMAIN ids : ids[i] \in BlockIds(d) /\ ~m.cached[ids[i]]
    BY <1>1 DEF PlanSound
  <1>4. \A i \in DOMAIN ids : InDestination(transfer, t, d, i, ids[i])
    BY DEF InDestination
  <1>5. transfer[t] = plan /\ plan.destination = d /\ plan.destinationBlocks = ids
    OBVIOUS
  <1> HIDE DEF plan, d, m, ids
  <1>6. m.refCount \in [BlockIds(d) -> Nat] /\ Blocks(m) = BlockIds(d)
    BY <1>2, GoodFields
  <1>7. \A i \in DOMAIN ids : m.refCount[ids[i]] = 1
    <2> SUFFICES ASSUME NEW i \in DOMAIN ids PROVE m.refCount[ids[i]] = 1
      OBVIOUS
    <2>1. ids[i] \in BlockIds(d) /\ m.refCount[ids[i]] <= 1
      BY <1>2, <1>3, <1>6 DEF Unshared
    <2>2. m.refCount[ids[i]] >= 1
      BY <1>2, <1>4, <2>1, Referenced
    <2> QED
      BY <1>6, <2>1, <2>2
  <1>8. ASSUME NEW b \in BlockIds(d) PROVE Count(ids, b) <= m.refCount[b]
    <2>1. planCount(plan, d, b) <= m.refCount[b]
      BY <1>1, <1>2, <1>5, PlanCountHeld
    <2>2. Count(ids, b) \in Nat /\ Count(plan.sourceBlocks, b) \in Nat
      BY <1>1, CountFacts
    <2>3. planCount(plan, d, b) = (IF plan.source = d THEN Count(plan.sourceBlocks, b) ELSE 0) + Count(ids, b)
      BY <1>5 DEF planCount
    <2>4. m.refCount[b] \in Nat
      BY <1>6
    <2> QED
      BY <2>1, <2>2, <2>3, <2>4
  <1>9. ASSUME NEW i \in DOMAIN ids
        PROVE  /\ \A r, j : ~InTable(m, r, j, ids[i])
               /\ \A u, j : InDestination(transfer, u, d, j, ids[i]) => u = t /\ j = i
    <2>1. ids[i] \in BlockIds(d) /\ m.refCount[ids[i]] <= 1 /\ InDestination(transfer, t, d, i, ids[i])
      BY <1>3, <1>4, <1>6, <1>7
    <2> DEFINE b == ids[i]
    <2>2. b \in BlockIds(d) /\ m.refCount[b] <= 1 /\ InDestination(transfer, t, d, i, b)
      BY <2>1
    <2> HIDE DEF b
    <2>3. /\ \A r, j : ~InTable(m, r, j, b)
          /\ \A u, j : InDestination(transfer, u, d, j, b) => u = t /\ j = i
      BY <1>2, <2>2, Single
    <2> QED
      BY <2>3 DEF b
  <1>10. \A i, j \in DOMAIN ids : ids[i] = ids[j] => i = j
    BY <1>4, <1>9
  <1>11. Reserved(d, t, Range(ids))
    BY <1>9 DEF Reserved, Spared, Range, m
  <1> QED
    BY <1>3, <1>7, <1>8, <1>10, <1>11 DEF plan, d, m, ids

(* RollbackTransfer: the reserved blocks go back, none of them indexed. *)
LEMMA RollbackTransferHeld ==
  ASSUME Inv, Held, NEW t \in Transfers, RollbackTransfer(t)
  PROVE  Held'
  <1> DEFINE plan == transfer[t]
             d    == plan.destination
             m    == mgr[d]
             ids  == plan.destinationBlocks
             n    == pushFree(m, ids)
  <1>1. DOMAIN transfer = Transfers /\ PlanOK(plan) /\ d \in Executors /\ ids \in Seq(BlockIds(d))
    BY PlanFacts
  <1>2. DOMAIN mgr = Executors /\ Good(d, m) /\ IndexSound(m) /\ Unshared(m)
    BY <1>1, ExecutorFacts
  <1>3. plan.step = "pending" /\ mgr' = [mgr EXCEPT ![d] = n] /\ request' = request
    BY DEF RollbackTransfer, releaseTransferBlocks
  <1>4. transfer' = [transfer EXCEPT ![t] = settled(transfer[t])]
    BY <1>1 DEF RollbackTransfer, settled
  <1>5. \A b \in BlockIds(d) : Count(ids, b) <= m.refCount[b]
    BY <1>3, DestinationHeld
  <1>6. transfer[t] = plan /\ plan.destination = d /\ plan.destinationBlocks = ids /\ mgr[d] = m
    OBVIOUS
  <1> HIDE DEF m, ids, d, plan
  <1>7. /\ Good(d, n) /\ SameIndex(m, n) /\ IndexSound(n) /\ Unshared(n)
        /\ n.requestBlocks = m.requestBlocks /\ n.pendingAllocations = m.pendingAllocations
        /\ \A b \in BlockIds(d) : n.refCount[b] = m.refCount[b] - Count(ids, b)
    BY <1>1, <1>2, <1>5, PushFreeEffect
  <1> HIDE DEF n
  <1>8. Stable(m, n, {})
    BY <1>2, <1>7, SameIndexSound
  <1>9. Reserved(d, t, {})
    BY DEF Reserved, Spared
  <1> QED
    BY <1>3, <1>4, <1>6, <1>7, <1>8, <1>9, SettleHeld, ZenonT(30)

(* CommitTransfer indexes imported blocks whose prefix is new, full ones,   *)
(* each once, and drops its references to all of them.                      *)
LEMMA CommitTransferHeld ==
  ASSUME Inv, Held, NEW t \in Transfers, CommitTransfer(t)
  PROVE  Held'
  <1> DEFINE plan   == transfer[t]
             d      == plan.destination
             m      == mgr[d]
             ids    == plan.destinationBlocks
             hashes == plan.hashes
             K      == installed(m, ids, hashes)
             tc     == [b \in Blocks(m) |-> IF \E i \in K : ids[i] = b THEN m.blockSize
                                            ELSE m.tokenCount[b]]
             x      == [indexBlocks(m, ids, hashes, K) EXCEPT !.tokenCount = tc]
             n      == pushFree(x, ids)
             N      == {ids[i] : i \in K}
  <1>1. /\ DOMAIN transfer = Transfers /\ PlanOK(plan) /\ d \in Executors
        /\ ids \in Seq(BlockIds(d)) /\ hashes \in Seq(Hashes)
        /\ PlanSound(plan, mgr[plan.source], m)
    BY PlanFacts
  <1>2. DOMAIN mgr = Executors /\ Good(d, m) /\ IndexSound(m) /\ Unshared(m)
    BY <1>1, ExecutorFacts
  <1>3. plan.step = "pending" /\ mgr' = [mgr EXCEPT ![d] = n] /\ request' = request
    BY DEF CommitTransfer, commitImportedBlocks
  <1>4. transfer' = [transfer EXCEPT ![t] = settled(transfer[t])]
    BY <1>1 DEF CommitTransfer, settled
  <1>5. /\ \A b \in BlockIds(d) : Count(ids, b) <= m.refCount[b]
        /\ \A i \in DOMAIN ids : ids[i] \in BlockIds(d)
        /\ \A i, j \in DOMAIN ids : ids[i] = ids[j] => i = j
        /\ Reserved(d, t, Range(ids))
    BY <1>3, DestinationHeld
  <1>6. Len(ids) = Len(hashes)
    BY <1>3, PlanFacts
  <1>7. \A i \in DOMAIN ids : ~m.cached[ids[i]]
    BY <1>1 DEF PlanSound
  <1>8. transfer[t] = plan /\ plan.destination = d /\ plan.destinationBlocks = ids /\ mgr[d] = m
    OBVIOUS
  <1> HIDE DEF m, ids, d, plan, hashes
  <1>9. /\ Blocks(m) = BlockIds(d) /\ m.blockSize \in Nat /\ m.tokenCount \in [BlockIds(d) -> Nat]
        /\ m.cachedBlocks \in [DOMAIN m.cachedBlocks -> BlockIds(d)]
    <2>1. m.blockSize = BlockSize[d] /\ m.tokenCount \in [BlockIds(d) -> Nat]
      BY <1>2 DEF Good, ManagerOK
    <2> QED
      BY <1>1, <1>2, <2>1, GoodFields, SizeFacts
  <1>10. /\ K \subseteq DOMAIN ids /\ DOMAIN ids = 1..Len(ids) /\ DOMAIN hashes = 1..Len(ids)
         /\ Len(ids) \in Nat
    BY <1>1, <1>6 DEF installed
  <1>11. \A i \in K : ids[i] \in BlockIds(d) /\ hashes[i] \in Hashes
    BY <1>1, <1>5, <1>10
  <1>12. \A i, j \in K : ids[i] = ids[j] => i = j
    BY <1>5, <1>10
  <1>13. \A i, j \in K : hashes[i] = hashes[j] => i = j
    <2> SUFFICES ASSUME NEW i \in K, NEW j \in K, hashes[i] = hashes[j], i < j PROVE FALSE
      BY <1>10
    <2>1. i \in 1..(j - 1)
      BY <1>10
    <2> QED
      BY <2>1 DEF installed
  <1>14. \A i \in K : ~m.cached[ids[i]] /\ hashes[i] \notin DOMAIN m.cachedBlocks
    <2> SUFFICES ASSUME NEW i \in K, hashes[i] \in DOMAIN m.cachedBlocks PROVE FALSE
      BY <1>7, <1>10
    <2>1. m.cachedBlocks[hashes[i]] = ids[i]
      BY DEF installed
    <2>2. m.cached[m.cachedBlocks[hashes[i]]]
      BY <1>2 DEF IndexSound, transferable
    <2> QED
      BY <1>7, <1>10, <2>1, <2>2
  <1>15. /\ tc \in [BlockIds(d) -> Nat] /\ \A i \in K : tc[ids[i]] = m.blockSize
         /\ \A b \in BlockIds(d) : m.cached[b] => tc[b] = m.blockSize
    <2>1. tc \in [BlockIds(d) -> Nat]
      BY <1>9
    <2>2. \A i \in K : tc[ids[i]] = m.blockSize
      BY <1>9, <1>11
    <2>3. \A b \in BlockIds(d) : m.cached[b] => m.tokenCount[b] = m.blockSize
      BY <1>2, <1>9 DEF IndexSound, transferable
    <2>4. \A b \in BlockIds(d) : m.cached[b] => tc[b] = m.blockSize
      BY <1>9, <2>3
    <2> QED
      BY <2>1, <2>2, <2>4
  <1> HIDE DEF K, tc
  <1>16. /\ Good(d, x) /\ IndexSound(x) /\ Unshared(x) /\ Stable(m, x, N)
         /\ x.requestBlocks = m.requestBlocks /\ x.pendingAllocations = m.pendingAllocations
         /\ x.refCount = m.refCount
    BY <1>2, <1>11, <1>12, <1>13, <1>14, <1>15, IndexBlocksEffect
  <1> HIDE DEF x
  <1>17. /\ Good(d, n) /\ SameIndex(x, n) /\ IndexSound(n) /\ Unshared(n)
         /\ n.requestBlocks = x.requestBlocks /\ n.pendingAllocations = x.pendingAllocations
         /\ \A b \in BlockIds(d) : n.refCount[b] = x.refCount[b] - Count(ids, b)
    BY <1>1, <1>5, <1>16, PushFreeEffect
  <1> HIDE DEF n
  <1>18. Stable(m, n, N)
    BY <1>16, <1>17 DEF Stable, SameIndex
  <1>19. Reserved(d, t, N)
    <2>1. \A b \in N : b \in Range(ids)
      BY <1>10 DEF Range
    <2> QED
      BY <1>5, <2>1 DEF Reserved, Spared
  <1> HIDE DEF N
  <1>20. /\ n.requestBlocks = m.requestBlocks /\ n.pendingAllocations = m.pendingAllocations
         /\ \A b \in BlockIds(d) : n.refCount[b] = m.refCount[b] - Count(ids, b)
    BY <1>16, <1>17
  <1>21. /\ transfer[t].step = "pending" /\ UNCHANGED request
         /\ mgr' = [mgr EXCEPT ![transfer[t].destination] = n]
         /\ Good(transfer[t].destination, n) /\ IndexSound(n) /\ Unshared(n)
         /\ n.requestBlocks = mgr[transfer[t].destination].requestBlocks
         /\ n.pendingAllocations = mgr[transfer[t].destination].pendingAllocations
         /\ Stable(mgr[transfer[t].destination], n, N)
         /\ Reserved(transfer[t].destination, t, N)
         /\ \A b \in BlockIds(transfer[t].destination) :
              n.refCount[b] = mgr[transfer[t].destination].refCount[b]
                                - Count(transfer[t].destinationBlocks, b)
    BY <1>3, <1>8, <1>17, <1>18, <1>19, <1>20
  <1> QED
    BY <1>4, <1>21, SettleHeld

(* ReleaseSource gives the pinned blocks back and forgets the transfer. *)
LEMMA ReleaseSourceHeld ==
  ASSUME Inv, Held, NEW t \in Transfers, ReleaseSource(t)
  PROVE  Held'
  <1> DEFINE plan == transfer[t]
             s    == plan.source
             m    == mgr[s]
             ids  == plan.sourceBlocks
             n    == pushFree(m, ids)
             next == noTransferPlan
  <1>1. /\ DOMAIN transfer = Transfers /\ PlanOK(plan) /\ s \in Executors
        /\ ids \in Seq(BlockIds(s)) /\ PlanSound(plan, m, mgr[plan.destination])
    BY PlanFacts
  <1>2. /\ DOMAIN mgr = Executors /\ Good(s, m) /\ IndexSound(m) /\ Unshared(m)
        /\ Owned(s, m, transfer)
    BY <1>1, ExecutorFacts
  <1>3. /\ plan.step = "settled" /\ mgr' = [mgr EXCEPT ![s] = n] /\ request' = request
        /\ transfer' = [transfer EXCEPT ![t] = next]
    BY DEF ReleaseSource, releaseTransferBlocks
  <1>4. plan.destinationBlocks = << >>
    BY <1>1, <1>3 DEF PlanSound
  <1>5. transfer[t] = plan /\ plan.source = s /\ plan.sourceBlocks = ids /\ mgr[s] = m
    OBVIOUS
  <1>6. \A b : Count(<< >>, b) = 0
    BY CountEmpty
  <1>7. \A b : Count(ids, b) \in Nat
    BY <1>1, CountFacts
  <1>8. /\ PlanOK(next) /\ next.step = "idle" /\ next.hashes = << >>
        /\ next.sourceBlocks = << >> /\ next.destinationBlocks = << >>
    BY NoPlanOK DEF noTransferPlan
  <1> HIDE DEF m, ids, s, plan, next
  <1>9. \A f, b : /\ planCount(plan, f, b) = IF f = s THEN Count(ids, b) ELSE 0
                  /\ planCount(next, f, b) = 0
    BY <1>4, <1>5, <1>6, <1>7, <1>8 DEF planCount
  <1>10. m.refCount \in [BlockIds(s) -> Nat]
    BY <1>2, GoodFields
  <1>11. \A b \in BlockIds(s) : Count(ids, b) <= m.refCount[b]
    <2> SUFFICES ASSUME NEW b \in BlockIds(s) PROVE Count(ids, b) <= m.refCount[b]
      OBVIOUS
    <2>1. planCount(plan, s, b) <= m.refCount[b]
      BY <1>1, <1>2, <1>5, PlanCountHeld
    <2> QED
      BY <1>9, <2>1
  <1>12. /\ Good(s, n) /\ SameIndex(m, n) /\ IndexSound(n) /\ Unshared(n)
         /\ n.requestBlocks = m.requestBlocks /\ n.pendingAllocations = m.pendingAllocations
         /\ \A b \in BlockIds(s) : n.refCount[b] = m.refCount[b] - Count(ids, b)
    BY <1>1, <1>2, <1>11, PushFreeEffect
  <1> HIDE DEF n
  <1>13. Stable(m, n, {})
    BY <1>2, <1>12, SameIndexSound
  <1>14. Reserved(s, t, {})
    BY DEF Reserved, Spared
  <1>15. CountsFollow(s, m, n, plan, next)
    BY <1>7, <1>9, <1>10, <1>12 DEF CountsFollow
  <1>16. PlanSound(next, mgr'[next.source], mgr'[next.destination])
    <2>1. \A i \in DOMAIN << >> : FALSE
      OBVIOUS
    <2> QED
      BY <1>8, <2>1 DEF PlanSound
  <1> QED
    BY <1>1, <1>3, <1>5, <1>8, <1>12, <1>13, <1>14, <1>15, <1>16, TransferStepHeld

-----------------------------------------------------------------------------
(* Inv and Held are invariants of Spec, and what follows from them. *)

(* Nothing is referenced in a registry of new managers. *)
LEMMA NoReferences ==
  ASSUME NEW plans, \A t \in Transfers : plans[t].sourceBlocks = << >> /\ plans[t].destinationBlocks = << >>,
         NEW e, NEW b
  PROVE  TableRefs(EmptyMap, b) = {} /\ PlanRefs(plans, e, b) = {}
  <1>1. DOMAIN EmptyMap = {}
    BY DEF EmptyMap
  <1>2. TableRefs(EmptyMap, b) = {}
    BY <1>1 DEF TableRefs
  <1>3. DOMAIN << >> = {}
    OBVIOUS
  <1>4. PlanRefs(plans, e, b) = {}
    BY <1>3 DEF PlanRefs
  <1> QED
    BY <1>2, <1>4

(* A registry of new managers, without requests and transfers, satisfies    *)
(* Held.                                                                    *)
LEMMA InitHeld == Init => Held
  <1> SUFFICES ASSUME Init PROVE Held
    OBVIOUS
  <1>1. ASSUME NEW e \in Executors
        PROVE  LET m == mgr[e] IN
               /\ Blocks(m) = BlockIds(e) /\ m.refCount = [b \in BlockIds(e) |-> 0]
               /\ m.cached = [b \in BlockIds(e) |-> FALSE] /\ m.requestBlocks = EmptyMap
               /\ DOMAIN m.cachedBlocks = {} /\ DOMAIN m.requestBlocks = {}
               /\ DOMAIN m.pendingAllocations = {}
    BY DEF Init, newManager, BlockIds, Blocks, EmptyMap
  <1>2. \A r \in Requests : ~request[r].live
    BY DEF Init, noRequest
  <1>3. \A t \in Transfers : /\ transfer[t].step = "idle" /\ transfer[t].sourceBlocks = << >>
                             /\ transfer[t].destinationBlocks = << >>
    BY DEF Init, noTransferPlan
  <1>4. ManagersSound
    <2> SUFFICES ASSUME NEW e \in Executors PROVE IndexSound(mgr[e]) /\ Unshared(mgr[e])
      BY DEF ManagersSound
    <2> DEFINE m == mgr[e]
    <2>1. /\ Blocks(m) = BlockIds(e) /\ m.refCount = [b \in BlockIds(e) |-> 0]
          /\ m.cached = [b \in BlockIds(e) |-> FALSE] /\ DOMAIN m.cachedBlocks = {}
      BY <1>1
    <2> HIDE DEF m
    <2>2. IndexSound(m) /\ Unshared(m)
      BY <2>1 DEF IndexSound, Unshared
    <2> QED
      BY <2>2 DEF m
  <1>5. Ownership
    <2> SUFFICES ASSUME NEW e \in Executors PROVE Owned(e, mgr[e], transfer)
      BY DEF Ownership
    <2>1. \A b : TableRefs(mgr[e].requestBlocks, b) = {} /\ PlanRefs(transfer, e, b) = {}
      BY <1>1, <1>3, NoReferences
    <2>2. IsFiniteSet({}) /\ Cardinality({}) = 0
      BY FS_EmptySet
    <2>3. \A b \in BlockIds(e) : mgr[e].refCount[b] = 0
      BY <1>1, ZenonT(30)
    <2> QED
      BY <2>1, <2>2, <2>3 DEF Owned
  <1>6. TablesOfLive /\ AllocationsSound
    BY <1>1 DEF TablesOfLive, AllocationsSound
  <1>7. TablesSound
    BY <1>2 DEF TablesSound
  <1>8. PlansSound
    <2>1. DOMAIN << >> = {}
      OBVIOUS
    <2> QED
      BY <1>3, <2>1 DEF PlansSound, PlanSound
  <1> QED
    BY <1>4, <1>5, <1>6, <1>7, <1>8 DEF Held

(* Every step of the callers and of transfers keeps Held. *)
LEMMA NextHeld == Inv /\ Held /\ [Next]_vars => Held'
  <1> SUFFICES ASSUME Inv, Held, [Next]_vars PROVE Held'
    OBVIOUS
  <1>1. CASE RequestNext
    <2>1. CASE \E r \in Requests, e \in Executors, p \in Prompts : MatchPrefixFor(r, e, p)
      BY <2>1, MatchHeld
    <2>2. CASE \E r \in Requests, w \in Works : \E tokens \in nextTokens(r) :
                 AllocateBlocksFor(r, w, tokens)
      BY <2>2, AllocateHeld
    <2>3. CASE \E e \in Executors, w \in Works : CommitWork(e, w) \/ RollbackWork(e, w)
      BY <2>3, CommitHeld, RollbackHeld
    <2>4. CASE \E r \in Requests : FreeRequestOf(r)
      BY <2>4, FreeHeld
    <2> QED
      BY <1>1, <2>1, <2>2, <2>3, <2>4 DEF RequestNext
  <1>2. CASE TransferNext
    <2>1. CASE \E t \in Transfers, s, d \in Executors, hs \in HashPrefixes :
                 PrepareTransfer(t, s, d, hs)
      BY <2>1, PrepareHeld
    <2>2. CASE \E t \in Transfers : ReserveDestination(t)
      BY <2>2, ReserveHeld
    <2>3. CASE \E t \in Transfers : CommitTransfer(t)
      BY <2>3, CommitTransferHeld
    <2>4. CASE \E t \in Transfers : RollbackTransfer(t)
      BY <2>4, RollbackTransferHeld
    <2>5. CASE \E t \in Transfers : ReleaseSource(t)
      BY <2>5, ReleaseSourceHeld
    <2> QED
      BY <1>2, <2>1, <2>2, <2>3, <2>4, <2>5 DEF TransferNext
  <1>3. CASE UNCHANGED vars
    <2>1. mgr' = mgr /\ request' = request /\ transfer' = transfer
      BY <1>3 DEF vars
    <2> QED
      BY <2>1 DEF Held, ManagersSound, Ownership, TablesOfLive, TablesSound, AllocationsSound, PlansSound
  <1> QED
    BY <1>1, <1>2, <1>3 DEF Next

(* Inv /\ Held is an invariant of the registry whose callers keep the       *)
(* protocol.                                                                *)
THEOREM RegistryHeld == Spec => [](Inv /\ Held)
  <1>1. Init => Inv /\ Held
    BY InitInv, InitHeld
  <1>2. Inv /\ Held /\ [Next]_vars => Inv' /\ Held'
    <2>1. [Next]_vars => [OpenNext]_vars
      BY DEF OpenNext
    <2> QED
      BY <2>1, NextInv, NextHeld
  <1> QED
    BY <1>1, <1>2, PTL DEF Spec

-----------------------------------------------------------------------------
(* Invariants *)

(* RefCount is the number of references to a block, from the tables of      *)
(* requests and from transfers: touch, allocate and pushFree neither lose   *)
(* nor invent one, whatever calls fall between the halves of a transfer.    *)
THEOREM RegistryRefCounts == Spec => []RefCountIsOwnership
  <1>1. Inv /\ Held => RefCountIsOwnership
    <2> SUFFICES ASSUME Held, NEW e \in Executors, NEW b \in BlockIds(e)
                 PROVE  mgr[e].refCount[b] = Cardinality(references(e, b))
      BY DEF RefCountIsOwnership
    <2> DEFINE T == TableRefs(mgr[e].requestBlocks, b)
               P == PlanRefs(transfer, e, b)
    <2>1. IsFiniteSet(T) /\ IsFiniteSet(P) /\ mgr[e].refCount[b] = Cardinality(T) + Cardinality(P)
      BY DEF Held, Ownership, Owned
    <2>2. references(e, b) = T \cup P
      <3>1. tableReferences(e, b) = T
        BY DEF tableReferences, TableRefs
      <3>2. UNION {planReferences(t, e, b) : t \in Transfers} = P
        BY DEF planReferences, PlanRefs
      <3> QED
        BY <3>1, <3>2 DEF references
    <2>3. \A x \in P : x \notin T
      <3>1. \A x \in T : \E r, i : x = <<r, i>>
        BY DEF TableRefs
      <3>2. \A x \in P : \E t, s, i : x = <<t, s, i>>
        BY DEF PlanRefs
      <3>3. \A r, i, t, s, j : <<r, i>> # <<t, s, j>>
        OBVIOUS
      <3> QED
        BY <3>1, <3>2, <3>3
    <2> HIDE DEF T, P
    <2>4. Cardinality(T \cup P) = Cardinality(T) + Cardinality(P)
      BY <2>1, <2>3, CardUnion
    <2> QED
      BY <2>1, <2>2, <2>4
  <1> QED
    BY <1>1, RegistryHeld, PTL

(* The prefix index and the metadata of the blocks agree, and only full     *)
(* blocks are indexed: the checks of pinCachedBlocks never fail on an       *)
(* indexed prefix.                                                          *)
THEOREM RegistryIndex == Spec => []CacheIndexSound
  <1>1. Inv /\ Held => CacheIndexSound
    <2> SUFFICES ASSUME Inv, Held, NEW e \in Executors
                 PROVE  /\ \A h \in DOMAIN mgr[e].cachedBlocks : transferable(mgr[e], h)
                        /\ \A b \in BlockIds(e) : mgr[e].cached[b] =>
                             /\ mgr[e].hash[b] \in DOMAIN mgr[e].cachedBlocks
                             /\ mgr[e].cachedBlocks[mgr[e].hash[b]] = b
      BY DEF CacheIndexSound
    <2>1. Good(e, mgr[e]) /\ IndexSound(mgr[e])
      BY ExecutorFacts
    <2>2. Blocks(mgr[e]) = BlockIds(e)
      BY <2>1, GoodFields
    <2> QED
      BY <2>1, <2>2 DEF IndexSound
  <1> QED
    BY <1>1, RegistryHeld, PTL

(* A cached block at position i of a live request's table is cached as the  *)
(* i-th block of that request's own prompt: no request reads another        *)
(* prompt's KV, though blocks are evicted, reused and imported under it.    *)
THEOREM RegistryTables == Spec => []TableHoldsOwnPrefix
  <1>1. Inv /\ Held => TableHoldsOwnPrefix
    <2> SUFFICES ASSUME Inv, Held, NEW r \in Requests, request[r].live
                 PROVE  LET e      == request[r].executor
                            table  == Lookup(mgr[e].requestBlocks, r)
                            hashes == blockHashes(BlockSize[e], request[r].prompt)
                        IN  \A i \in DOMAIN table : mgr[e].cached[table[i]] =>
                              i <= Len(hashes) /\ mgr[e].hash[table[i]] = hashes[i]
      BY DEF TableHoldsOwnPrefix
    <2> DEFINE e == request[r].executor
    <2>1. e \in Executors
      <3>1. RequestsInv
        BY InvParts
      <3> QED
        BY <3>1 DEF RequestsInv, RequestOK
    <2>2. TableSound(mgr[e], r, request[r])
      BY DEF Held, TablesSound
    <2>3. Good(e, mgr[e])
      BY <2>1, ExecutorFacts
    <2> HIDE DEF e
    <2>4. mgr[e].blockSize = BlockSize[e]
      BY <2>3, GoodFields
    <2> QED
      BY <2>2, <2>4 DEF TableSound, e
  <1> QED
    BY <1>1, RegistryHeld, PTL

(* The blocks a work in flight writes have one owner and are not indexed. *)
LEMMA HeldWrites == Inv /\ Held => WrittenBlocksExclusive
  <1> SUFFICES ASSUME Inv, Held, NEW e \in Executors,
                      NEW w \in DOMAIN mgr[e].pendingAllocations,
                      NEW i \in DOMAIN mgr[e].pendingAllocations[w].blockTable,
                      i * BlockSize[e] > request[mgr[e].pendingAllocations[w].request].computed
               PROVE  /\ mgr[e].refCount[mgr[e].pendingAllocations[w].blockTable[i]] = 1
                      /\ ~mgr[e].cached[mgr[e].pendingAllocations[w].blockTable[i]]
    BY DEF WrittenBlocksExclusive
  <1> DEFINE m == mgr[e]
             a == m.pendingAllocations[w]
             r == a.request
             q == request[r]
             b == a.blockTable[i]
  <1>1. /\ Lookup(m.requestBlocks, r) = a.blockTable /\ TableSound(m, r, q)
        /\ a.blockTable \in Seq(BlockIds(e)) /\ q.computed \in Nat
        /\ AllocationSound(e, m, a, q)
    BY WorkFacts
  <1>2. Good(e, m) /\ Unshared(m) /\ Owned(e, m, transfer)
    BY ExecutorFacts
  <1>3. b \in BlockIds(e) /\ i \in Nat
    BY <1>1
  <1>4. InTable(m, r, i, b)
    BY <1>1 DEF AllocationSound, InTable
  <1>5. i * BlockSize[e] > q.computed /\ i \in DOMAIN a.blockTable /\ a.blockTable[i] = b
    OBVIOUS
  <1> HIDE DEF m, a, r, q, b
  <1>6. /\ Blocks(m) = BlockIds(e) /\ m.blockSize = BlockSize[e]
        /\ m.refCount \in [BlockIds(e) -> Nat] /\ BlockSize[e] \in Nat
    BY <1>2, GoodFields, SizeFacts
  <1>7. ~m.cached[b]
    <2> SUFFICES ASSUME m.cached[b] PROVE FALSE
      OBVIOUS
    <2>1. i * m.blockSize <= q.computed
      BY <1>1, <1>5 DEF TableSound
    <2> DEFINE x == i * BlockSize[e]
               y == q.computed
    <2>2. x \in Nat /\ y \in Nat /\ x <= y /\ x > y
      BY <1>1, <1>3, <1>5, <1>6, <2>1
    <2> HIDE DEF x, y
    <2> QED
      BY <2>2
  <1>8. m.refCount[b] <= 1
    BY <1>2, <1>3, <1>6, <1>7 DEF Unshared
  <1>9. m.refCount[b] >= 1
    BY <1>2, <1>3, <1>4, Referenced
  <1>10. m.refCount[b] = 1
    BY <1>3, <1>6, <1>8, <1>9
  <1> QED
    BY <1>7, <1>10 DEF m, a, b

(* The blocks a work in flight writes, those beyond what its request has    *)
(* computed, are in one table, in no transfer and not in the prefix index.  *)
THEOREM RegistryWrites == Spec => []WrittenBlocksExclusive
  BY HeldWrites, RegistryHeld, PTL

(* From PrepareTransfer to the last step of a transfer its source blocks    *)
(* stay cached under the plan's hashes, and its destination blocks have no  *)
(* other owner and are in no index: requests that allocate, finish or are   *)
(* cancelled meanwhile do not disturb it.                                   *)
THEOREM RegistryTransfers == Spec => []TransferBlocksHeld
  <1>1. Inv /\ Held => TransferBlocksHeld
    <2> SUFFICES ASSUME Inv, Held, NEW t \in Transfers, transfer[t].step # "idle"
                 PROVE  LET plan == transfer[t]
                            src  == mgr[plan.source]
                            dst  == mgr[plan.destination]
                        IN  /\ \A i \in DOMAIN plan.hashes :
                                 /\ plan.hashes[i] \in DOMAIN src.cachedBlocks
                                 /\ src.cachedBlocks[plan.hashes[i]] = plan.sourceBlocks[i]
                            /\ \A i \in DOMAIN plan.destinationBlocks :
                                 /\ dst.refCount[plan.destinationBlocks[i]] = 1
                                 /\ ~dst.cached[plan.destinationBlocks[i]]
      BY DEF TransferBlocksHeld
    <2>1. PlanSound(transfer[t], mgr[transfer[t].source], mgr[transfer[t].destination])
      BY PlanFacts
    <2>2. CASE transfer[t].step = "pending"
      <3>1. \A i \in DOMAIN transfer[t].destinationBlocks :
              mgr[transfer[t].destination].refCount[transfer[t].destinationBlocks[i]] = 1
        BY <2>2, DestinationHeld
      <3> QED
        BY <2>1, <3>1 DEF PlanSound
    <2>3. CASE transfer[t].step # "pending"
      <3>1. transfer[t].destinationBlocks = << >> /\ DOMAIN << >> = {}
        BY <2>1, <2>3 DEF PlanSound
      <3> QED
        BY <2>1, <3>1 DEF PlanSound
    <2> QED
      BY <2>2, <2>3
  <1> QED
    BY <1>1, RegistryHeld, PTL

(* probePrefix, on which placement decides, counts the blocks that a        *)
(* MatchPrefix at that moment would reuse, though it tests the metadata of  *)
(* each block and MatchPrefix only the index.                               *)
THEOREM RegistryProbe == Spec => []ProbeAgreesWithMatch
  <1>1. Inv /\ Held => ProbeAgreesWithMatch
    <2> SUFFICES ASSUME Inv, Held, NEW e \in Executors, NEW p \in Prompts
                 PROVE  probePrefix(mgr[e], p) = Len(matchedBlocks(mgr[e], p))
      BY DEF ProbeAgreesWithMatch
    <2> DEFINE m  == mgr[e]
               ms == matchableBlockHashes(m.blockSize, p)
    <2>1. Good(e, m) /\ IndexSound(m)
      BY ExecutorFacts
    <2> HIDE DEF m
    <2>2. ms \in Seq(Hashes)
      <3>1. m.blockSize = BlockSize[e]
        BY <2>1, GoodFields
      <3> QED
        BY <3>1, MatchableType
    <2>3. \A h : transferable(m, h) <=> h \in DOMAIN m.cachedBlocks
      BY <2>1 DEF IndexSound, transferable
    <2>4. probePrefix(m, p) = hitLength(m, ms)
      <3>1. \A n \in 0..Len(ms) : (\A i \in 1..n : transferable(m, ms[i]))
                                    <=> (\A i \in 1..n : ms[i] \in DOMAIN m.cachedBlocks)
        BY <2>3
      <3>2. {n \in 0..Len(ms) : \A i \in 1..n : transferable(m, ms[i])}
              = {n \in 0..Len(ms) : \A i \in 1..n : ms[i] \in DOMAIN m.cachedBlocks}
        BY <3>1
      <3> QED
        BY <3>2 DEF probePrefix, hitLength
    <2>5. matchedBlocks(m, p) = [i \in 1..hitLength(m, ms) |-> m.cachedBlocks[ms[i]]]
      BY DEF matchedBlocks
    <2> HIDE DEF ms
    <2>6. hitLength(m, ms) \in Nat
      <3>1. hitLength(m, ms) \in 0..Len(ms) /\ Len(ms) \in Nat
        BY <2>2, HitLengthFacts
      <3> QED
        BY <3>1
    <2>7. Len(matchedBlocks(m, p)) = hitLength(m, ms)
      BY <2>5, <2>6
    <2> QED
      BY <2>4, <2>7 DEF m
  <1> QED
    BY <1>1, RegistryHeld, PTL

-----------------------------------------------------------------------------
(* Action properties *)

(* From m to n only prefixes of unreferenced blocks leave the index. *)
EvictsFree(m, n) ==
  \A h \in DOMAIN m.cachedBlocks :
    \/ h \in DOMAIN n.cachedBlocks /\ n.cachedBlocks[h] = m.cachedBlocks[h]
    \/ m.refCount[m.cachedBlocks[h]] = 0

(* touch, pushFree and the updates of maps do not evict, and allocate takes *)
(* unreferenced blocks only.                                                *)
LEMMA OperationsEvictFree ==
  ASSUME NEW e, NEW m, Good(e, m), IndexSound(m), Unshared(m)
  PROVE  /\ \A ids : EvictsFree(m, touch(m, ids)) /\ EvictsFree(m, pushFree(m, ids))
         /\ \A k \in Nat : canAllocate(m, k) => EvictsFree(m, allocate(m, k))
         /\ \A x, tables, works : EvictsFree(m, x) /\ DOMAIN x = DOMAIN m =>
              EvictsFree(m, [x EXCEPT !.requestBlocks = tables, !.pendingAllocations = works])
         /\ \A x, tables : EvictsFree(m, x) /\ DOMAIN x = DOMAIN m =>
              EvictsFree(m, [x EXCEPT !.requestBlocks = tables])
  <1>1. {"requestBlocks", "pendingAllocations", "cachedBlocks"} \subseteq DOMAIN m
    BY DEF Good, ManagerOK
  <1>2. \A ids : EvictsFree(m, touch(m, ids)) /\ EvictsFree(m, pushFree(m, ids))
    BY DEF touch, pushFree, EvictsFree, Good, ManagerOK
  <1>3. ASSUME NEW k \in Nat, canAllocate(m, k) PROVE EvictsFree(m, allocate(m, k))
    <2>1. Stable(m, allocate(m, k), {})
      BY <1>3, AllocateEffect
    <2> QED
      BY <2>1 DEF Stable, EvictsFree
  <1>4. \A x, tables, works : EvictsFree(m, x) /\ DOMAIN x = DOMAIN m =>
          EvictsFree(m, [x EXCEPT !.requestBlocks = tables, !.pendingAllocations = works])
    BY <1>1 DEF EvictsFree
  <1>5. \A x, tables : EvictsFree(m, x) /\ DOMAIN x = DOMAIN m =>
          EvictsFree(m, [x EXCEPT !.requestBlocks = tables])
    BY <1>1 DEF EvictsFree
  <1> QED
    BY <1>2, <1>3, <1>4, <1>5

(* A step of one manager that evicts only unreferenced blocks. *)
EvictionStep ==
  \E e \in Executors : \E n : mgr' = [mgr EXCEPT ![e] = n] /\ EvictsFree(mgr[e], n)

(* Every step of the registry is one. *)
LEMMA RequestEviction ==
  ASSUME Inv, Held, RequestNext
  PROVE  EvictionStep
  <1>1. ASSUME NEW r \in Requests, NEW e \in Executors, NEW p \in Prompts, MatchPrefixFor(r, e, p)
        PROVE  EvictionStep
    <2> DEFINE m == mgr[e]
               n == MatchPrefix(m, r, p)
    <2>1. mgr' = [mgr EXCEPT ![e] = n]
      BY <1>1 DEF MatchPrefixFor
    <2>2. Good(e, m)
      BY ExecutorFacts
    <2> HIDE DEF m
    <2>3. EvictsFree(m, n)
      BY <2>2 DEF MatchPrefix, touch, EvictsFree, Good, ManagerOK
    <2> HIDE DEF n
    <2> QED
      BY <2>1, <2>3 DEF EvictionStep, m
  <1>2. ASSUME NEW r \in Requests, NEW w \in Works, NEW tokens \in nextTokens(r),
               AllocateBlocksFor(r, w, tokens)
        PROVE  EvictionStep
    <2> DEFINE q    == request[r]
               e    == q.executor
               m    == mgr[e]
               work == workItem(w, r, tokens)
               k    == requiredBlocks(m, work)
               n    == AllocateBlocks(m, work)
    <2>1. mgr' = [mgr EXCEPT ![e] = n]
      BY <1>2 DEF AllocateBlocksFor
    <2>2. RequestsInv /\ q \in [live : BOOLEAN, executor : Executors, prompt : Prompts,
                                cache : Seq(BlockIds(q.executor)), computed : Nat]
      BY InvParts DEF RequestsInv, RequestOK
    <2>3. e \in Executors /\ q.computed \in Nat /\ q.cache \in Seq(BlockIds(e))
      BY <2>2
    <2>4. Good(e, m) /\ IndexSound(m) /\ Unshared(m)
      BY <2>3, ExecutorFacts
    <2>5. tokens \in Nat
      <3>1. Len(q.prompt.tokens) \in Nat
        BY <2>2, PromptFacts
      <3> QED
        BY <2>3, <3>1 DEF nextTokens
    <2>6. work.tokens = tokens /\ work.cache = q.cache
      BY DEF workItem
    <2> HIDE DEF q, e, m, work
    <2>7. /\ m.blockSize = BlockSize[e] /\ BlockSize[e] \in Nat /\ BlockSize[e] > 0
          /\ m.requestBlocks \in [DOMAIN m.requestBlocks -> Seq(BlockIds(e))]
      BY <2>3, <2>4, GoodFields, SizeFacts
    <2>8. k \in Nat
      <3>1. ceilDiv(tokens, BlockSize[e]) \in Nat
        BY <2>5, <2>7, DivNat DEF ceilDiv
      <3>2. existingBlocks(m, work) \in Seq(BlockIds(e))
        BY <2>3, <2>6, <2>7 DEF existingBlocks
      <3>3. Len(existingBlocks(m, work)) \in Nat
        BY <3>2
      <3> QED
        BY <2>6, <2>7, <3>1, <3>3 DEF requiredBlocks
    <2>9. EvictsFree(m, n)
      <3>1. CASE canAllocate(m, k)
        <4> DEFINE x == allocate(m, k)
        <4>1. EvictsFree(m, x) /\ DOMAIN x = DOMAIN m
          BY <2>4, <2>8, <3>1, OperationsEvictFree DEF allocate
        <4>2. n = [x EXCEPT !.requestBlocks      = Put(m.requestBlocks, work.request,
                                                       newAllocation(m, work).blockTable),
                            !.pendingAllocations = Put(m.pendingAllocations, work.id,
                                                       newAllocation(m, work))]
          BY <3>1 DEF AllocateBlocks
        <4> HIDE DEF x, n
        <4> QED
          BY <2>4, <4>1, <4>2, OperationsEvictFree
      <3>2. CASE ~canAllocate(m, k)
        <4>1. n = restoreTable(m, work)
          BY <3>2 DEF AllocateBlocks
        <4>2. EvictsFree(m, restoreTable(m, work))
          BY <2>4 DEF restoreTable, EvictsFree, Good, ManagerOK
        <4> QED
          BY <4>1, <4>2
      <3> QED
        BY <3>1, <3>2
    <2> HIDE DEF n
    <2> QED
      BY <2>1, <2>3, <2>9 DEF EvictionStep, m
  <1>3. ASSUME NEW e \in Executors, NEW w \in Works, CommitWork(e, w)
        PROVE  EvictionStep
    <2> DEFINE m == mgr[e]
               n == Commit(m, w)
               a == m.pendingAllocations[w]
               K == newlyCached(m, a)
    <2>1. mgr' = [mgr EXCEPT ![e] = n] /\ w \in DOMAIN m.pendingAllocations
      BY <1>3 DEF CommitWork
    <2>2. Good(e, m)
      BY ExecutorFacts
    <2> HIDE DEF m
    <2>3. \A i \in K : a.hashes[i] \notin DOMAIN m.cachedBlocks
      BY DEF newlyCached, eligible
    <2>4. n.cachedBlocks = [h \in DOMAIN m.cachedBlocks \cup {a.hashes[i] : i \in K} |->
                              IF \E i \in K : a.hashes[i] = h
                              THEN a.blockTable[CHOOSE i \in K : a.hashes[i] = h] ELSE m.cachedBlocks[h]]
      BY <2>1, <2>2 DEF Commit, indexBlocks, Good, ManagerOK
    <2> HIDE DEF n, K, a
    <2>5. EvictsFree(m, n)
      BY <2>3, <2>4 DEF EvictsFree
    <2> QED
      BY <2>1, <2>5 DEF EvictionStep, m
  <1>4. ASSUME NEW e \in Executors, NEW w \in Works, RollbackWork(e, w)
        PROVE  EvictionStep
    <2> DEFINE m == mgr[e]
               n == Rollback(m, w)
    <2>1. mgr' = [mgr EXCEPT ![e] = n]
      BY <1>4 DEF RollbackWork
    <2>2. Good(e, m)
      BY ExecutorFacts
    <2> HIDE DEF m
    <2>3. n.cachedBlocks = m.cachedBlocks
      BY <2>2 DEF Rollback, pushFree, Good, ManagerOK
    <2> HIDE DEF n
    <2>4. EvictsFree(m, n)
      BY <2>3 DEF EvictsFree
    <2> QED
      BY <2>1, <2>4 DEF EvictionStep, m
  <1>5. ASSUME NEW r \in Requests, FreeRequestOf(r)
        PROVE  EvictionStep
    <2> DEFINE e == request[r].executor
               m == mgr[e]
               n == FreeRequest(m, r)
    <2>1. mgr' = [mgr EXCEPT ![e] = n]
      BY <1>5 DEF FreeRequestOf
    <2>2. RequestsInv
      BY InvParts
    <2>3. e \in Executors
      BY <2>2 DEF RequestsInv, RequestOK
    <2>4. Good(e, m)
      BY <2>3, ExecutorFacts
    <2> HIDE DEF m, e
    <2>5. n.cachedBlocks = m.cachedBlocks
      BY <2>4 DEF FreeRequest, pushFree, Good, ManagerOK
    <2> HIDE DEF n
    <2>6. EvictsFree(m, n)
      BY <2>5 DEF EvictsFree
    <2> QED
      BY <2>1, <2>3, <2>6 DEF EvictionStep, m
  <1> QED
    BY <1>1, <1>2, <1>3, <1>4, <1>5 DEF RequestNext

(* The index of the destination after CommitTransfer. *)
LEMMA CommittedIndex ==
  ASSUME Inv, Held, NEW t \in Transfers, CommitTransfer(t)
  PROVE  LET d      == transfer[t].destination
             m      == mgr[d]
             ids    == transfer[t].destinationBlocks
             hashes == transfer[t].hashes
             K      == installed(m, ids, hashes)
         IN  \E n : /\ mgr' = [mgr EXCEPT ![d] = n]
                    /\ DOMAIN n.cachedBlocks = DOMAIN m.cachedBlocks \cup {hashes[i] : i \in K}
                    /\ EvictsFree(m, n)
  <1> DEFINE d      == transfer[t].destination
             m      == mgr[d]
             ids    == transfer[t].destinationBlocks
             hashes == transfer[t].hashes
             K      == installed(m, ids, hashes)
             n      == commitImportedBlocks(m, ids, hashes)
  <1>1. mgr' = [mgr EXCEPT ![d] = n]
    BY DEF CommitTransfer
  <1>2. d \in Executors
    BY PlanFacts
  <1>3. Good(d, m)
    BY <1>2, ExecutorFacts
  <1> HIDE DEF m, d, ids, hashes
  <1>4. n.cachedBlocks = [h \in DOMAIN m.cachedBlocks \cup {hashes[i] : i \in K} |->
                            IF \E i \in K : hashes[i] = h
                            THEN ids[CHOOSE i \in K : hashes[i] = h] ELSE m.cachedBlocks[h]]
    BY <1>3 DEF commitImportedBlocks, indexBlocks, pushFree, Good, ManagerOK
  <1>5. \A i \in K : hashes[i] \in DOMAIN m.cachedBlocks => m.cachedBlocks[hashes[i]] = ids[i]
    BY DEF installed
  <1> HIDE DEF n, K
  <1>6. EvictsFree(m, n)
    <2> SUFFICES ASSUME NEW h \in DOMAIN m.cachedBlocks
                 PROVE  h \in DOMAIN n.cachedBlocks /\ n.cachedBlocks[h] = m.cachedBlocks[h]
      BY DEF EvictsFree
    <2>1. h \in DOMAIN n.cachedBlocks
      BY <1>4
    <2>2. CASE \E i \in K : hashes[i] = h
      <3> DEFINE c == CHOOSE i \in K : hashes[i] = h
      <3>1. c \in K /\ hashes[c] = h
        BY <2>2
      <3>2. n.cachedBlocks[h] = ids[c]
        BY <1>4, <2>2
      <3> QED
        BY <1>5, <2>1, <3>1, <3>2
    <2>3. CASE ~\E i \in K : hashes[i] = h
      BY <1>4, <2>1, <2>3
    <2> QED
      BY <2>2, <2>3
  <1>7. DOMAIN n.cachedBlocks = DOMAIN m.cachedBlocks \cup {hashes[i] : i \in K}
    BY <1>4
  <1> QED
    BY <1>1, <1>6, <1>7 DEF m, d, ids, hashes, K

(* Steps of transfers evict as those of requests do. *)
LEMMA TransferEviction ==
  ASSUME Inv, Held, TransferNext
  PROVE  EvictionStep
  <1>1. ASSUME NEW t \in Transfers, NEW s \in Executors, NEW d \in Executors,
               NEW hs \in HashPrefixes, PrepareTransfer(t, s, d, hs)
        PROVE  EvictionStep
    <2> DEFINE n == touch(mgr[s], pinnedBlocks(mgr[s], hs))
    <2>1. mgr' = [mgr EXCEPT ![s] = n]
      BY <1>1 DEF PrepareTransfer, pinCachedBlocks
    <2>2. EvictsFree(mgr[s], n)
      BY ExecutorFacts, OperationsEvictFree
    <2> HIDE DEF n
    <2> QED
      BY <2>1, <2>2 DEF EvictionStep
  <1>2. ASSUME NEW t \in Transfers, ReserveDestination(t) PROVE EvictionStep
    <2> DEFINE d == transfer[t].destination
               k == Len(transfer[t].hashes)
               n == reserveTransferBlocks(mgr[d], k)
    <2>1. mgr' = [mgr EXCEPT ![d] = n]
      BY <1>2 DEF ReserveDestination
    <2>2. d \in Executors /\ k \in Nat
      BY PlanFacts
    <2> HIDE DEF d, k
    <2>3. EvictsFree(mgr[d], n)
      <3>1. canAllocate(mgr[d], k) => EvictsFree(mgr[d], allocate(mgr[d], k))
        BY <2>2, ExecutorFacts, OperationsEvictFree
      <3>2. EvictsFree(mgr[d], mgr[d])
        BY DEF EvictsFree
      <3> QED
        BY <3>1, <3>2 DEF reserveTransferBlocks
    <2> HIDE DEF n
    <2> QED
      BY <2>1, <2>2, <2>3 DEF EvictionStep
  <1>3. ASSUME NEW t \in Transfers, CommitTransfer(t) PROVE EvictionStep
    <2>1. PICK n : /\ mgr' = [mgr EXCEPT ![transfer[t].destination] = n]
                   /\ EvictsFree(mgr[transfer[t].destination], n)
      BY <1>3, CommittedIndex
    <2>2. transfer[t].destination \in Executors
      BY PlanFacts
    <2> QED
      BY <2>1, <2>2 DEF EvictionStep
  <1>4. ASSUME NEW t \in Transfers, RollbackTransfer(t) PROVE EvictionStep
    <2> DEFINE d == transfer[t].destination
               n == pushFree(mgr[d], transfer[t].destinationBlocks)
    <2>1. mgr' = [mgr EXCEPT ![d] = n]
      BY <1>4 DEF RollbackTransfer, releaseTransferBlocks
    <2>2. d \in Executors
      BY PlanFacts
    <2> HIDE DEF d
    <2>3. EvictsFree(mgr[d], n)
      BY <2>2, ExecutorFacts, OperationsEvictFree
    <2> HIDE DEF n
    <2> QED
      BY <2>1, <2>2, <2>3 DEF EvictionStep
  <1>5. ASSUME NEW t \in Transfers, ReleaseSource(t) PROVE EvictionStep
    <2> DEFINE s == transfer[t].source
               n == pushFree(mgr[s], transfer[t].sourceBlocks)
    <2>1. mgr' = [mgr EXCEPT ![s] = n]
      BY <1>5 DEF ReleaseSource, releaseTransferBlocks
    <2>2. s \in Executors
      BY PlanFacts
    <2> HIDE DEF s
    <2>3. EvictsFree(mgr[s], n)
      BY <2>2, ExecutorFacts, OperationsEvictFree
    <2> HIDE DEF n
    <2> QED
      BY <2>1, <2>2, <2>3 DEF EvictionStep
  <1> QED
    BY <1>1, <1>2, <1>3, <1>4, <1>5 DEF TransferNext

(* A cached prefix leaves an index only when nothing references its block,  *)
(* and never moves to another block, in any step of any caller: popFree     *)
(* evicts, and commits of prefill and of transfers do not overwrite.        *)
THEOREM RegistryEviction == Spec => EvictsOnlyUnreferenced
  <1> DEFINE A == \A e \in Executors : \A h \in DOMAIN mgr[e].cachedBlocks :
                    \/ /\ h \in DOMAIN mgr'[e].cachedBlocks
                       /\ mgr'[e].cachedBlocks[h] = mgr[e].cachedBlocks[h]
                    \/ mgr[e].refCount[mgr[e].cachedBlocks[h]] = 0
  <1>1. Inv /\ Held /\ [Next]_vars => [A]_vars
    <2> SUFFICES ASSUME Inv, Held, Next PROVE A
      OBVIOUS
    <2>1. EvictionStep
      BY RequestEviction, TransferEviction DEF Next
    <2>2. PICK e \in Executors : \E n : mgr' = [mgr EXCEPT ![e] = n] /\ EvictsFree(mgr[e], n)
      BY <2>1 DEF EvictionStep
    <2>3. PICK n : mgr' = [mgr EXCEPT ![e] = n] /\ EvictsFree(mgr[e], n)
      BY <2>2
    <2>4. DOMAIN mgr = Executors
      BY <2>2, ExecutorFacts
    <2>5. mgr'[e] = n /\ \A f \in Executors : f # e => mgr'[f] = mgr[f]
      BY <2>3, <2>4
    <2> QED
      BY <2>3, <2>5 DEF EvictsFree
  <1>2. Spec => [][A]_vars
    <2> HIDE DEF A
    <2> QED
      BY <1>1, RegistryHeld, PTL DEF Spec
  <1> QED
    BY <1>2 DEF EvictsOnlyUnreferenced

(* A set of positions has a first one. *)
LEMMA FirstPosition ==
  ASSUME NEW n \in Nat, NEW K \in SUBSET (1..n), K # {}
  PROVE  \E i \in K : \A j \in K : i <= j
  <1>1. IsFiniteSet(K) /\ K \in SUBSET Nat
    BY PositionsFinite
  <1>2. Cardinality(K) \in Nat /\ Cardinality(K) # 0
    BY <1>1, FS_CardinalityType, FS_EmptySet
  <1>3. 1 \in 1..Cardinality(K)
    BY <1>2
  <1>4. PICK x \in K : rank(K, x) = 1
    BY <1>1, <1>3, NthFacts
  <1>5. \A j \in K : x <= j
    <2> SUFFICES ASSUME NEW j \in K, j < x PROVE FALSE
      BY <1>1
    <2>1. rank(K, j) < rank(K, x) /\ rank(K, j) \in 1..Cardinality(K)
      BY <1>1, RankInjection
    <2> QED
      BY <1>2, <1>4, <2>1
  <1> QED
    BY <1>5

(* Committing a transfer makes the whole prefix reusable at the             *)
(* destination: a block that is not installed lost to an equal prefix that  *)
(* a local prefill, or an earlier block of the import, put in the index.    *)
THEOREM RegistryReuse == Spec => CommittedTransferIsReusable
  <1> DEFINE A == \A t \in Transfers : CommitTransfer(t) =>
                    \A i \in DOMAIN transfer[t].hashes :
                      transferable(mgr'[transfer[t].destination], transfer[t].hashes[i])
  <1>1. Inv /\ Held /\ Held' /\ [Next]_vars => [A]_vars
    <2> SUFFICES ASSUME Inv, Held, Held', NEW t \in Transfers, CommitTransfer(t),
                        NEW i \in DOMAIN transfer[t].hashes
                 PROVE  transferable(mgr'[transfer[t].destination], transfer[t].hashes[i])
      OBVIOUS
    <2> DEFINE d      == transfer[t].destination
               m      == mgr[d]
               ids    == transfer[t].destinationBlocks
               hashes == transfer[t].hashes
               K      == installed(m, ids, hashes)
    <2>1. PICK n : /\ mgr' = [mgr EXCEPT ![d] = n]
                   /\ DOMAIN n.cachedBlocks = DOMAIN m.cachedBlocks \cup {hashes[j] : j \in K}
      BY CommittedIndex
    <2>2. d \in Executors /\ transfer[t].step = "pending"
      BY PlanFacts DEF CommitTransfer
    <2>3. /\ ids \in Seq(BlockIds(d)) /\ hashes \in Seq(Hashes) /\ Len(ids) = Len(hashes)
      BY <2>2, PlanFacts
    <2>4. DOMAIN mgr = Executors
      BY <2>2, ExecutorFacts
    <2>5. mgr'[d] = n
      BY <2>1, <2>2, <2>4
    <2>6. \A h \in DOMAIN mgr'[d].cachedBlocks : transferable(mgr'[d], h)
      BY <2>2 DEF Held, ManagersSound, IndexSound
    <2>7. i \in DOMAIN hashes
      OBVIOUS
    <2> HIDE DEF d, m, ids, hashes
    <2>8. CASE hashes[i] \in DOMAIN m.cachedBlocks
      BY <2>1, <2>5, <2>6, <2>8 DEF d, hashes
    <2>9. CASE hashes[i] \notin DOMAIN m.cachedBlocks
      <3> DEFINE J == {j \in DOMAIN hashes : hashes[j] = hashes[i]}
      <3>1. Len(hashes) \in Nat /\ J \in SUBSET (1..Len(hashes)) /\ J # {}
        BY <2>3, <2>7
      <3>2. PICK j \in J : \A x \in J : j <= x
        BY <3>1, FirstPosition
      <3>3. j \in K
        <4>1. j \in DOMAIN ids /\ hashes[j] \notin DOMAIN m.cachedBlocks
          BY <2>3, <2>9
        <4>2. \A x \in 1..(j - 1) : hashes[x] # hashes[j]
          <5> SUFFICES ASSUME NEW x \in 1..(j - 1), hashes[x] = hashes[j] PROVE FALSE
            OBVIOUS
          <5>1. j \in 1..Len(hashes)
            BY <3>1
          <5>2. x \in 1..Len(hashes) /\ x < j
            BY <3>1, <5>1
          <5>3. x \in J
            BY <2>3, <5>2
          <5> QED
            BY <3>2, <5>1, <5>2, <5>3
        <4> QED
          BY <4>1, <4>2 DEF installed
      <3>4. hashes[i] \in DOMAIN n.cachedBlocks
        BY <2>1, <3>3
      <3> QED
        BY <2>5, <2>6, <3>4 DEF d, hashes
    <2> QED
      BY <2>8, <2>9
  <1>2. Spec => [][A]_vars
    <2> HIDE DEF A
    <2> QED
      BY <1>1, RegistryHeld, PTL DEF Spec
  <1> QED
    BY <1>2 DEF CommittedTransferIsReusable

=============================================================================
