--------------------------- MODULE IdOrder_proofs ---------------------------
(***************************************************************************)
(* Facts about rows in id order, and the least-number principle, for the   *)
(* proofs about the modules that read the audit log.                       *)
(***************************************************************************)
EXTENDS IdOrder, FiniteSetTheorems, TLAPS

-----------------------------------------------------------------------------
(* A set of numbers has a least element, a bounded one a greatest.  (The   *)
(* library has the least-number principle for operators only; of the       *)
(* intervals 0..x the smallest is found among the finite sets.)            *)
LEMMA Least ==
  ASSUME NEW S \in SUBSET Nat, S # {}
  PROVE  \E x \in S : \A y \in S : x <= y
<1>. DEFINE T == {0..x : x \in S}
<1>1. T \subseteq FiniteSubsetsOf(Nat) /\ T # {}
  <2>1. \A x \in S : IsFiniteSet(0..x) /\ 0..x \subseteq Nat
    BY FS_Interval
  <2>2. QED
    BY <2>1 DEF FiniteSubsetsOf
<1>. HIDE DEF T
<1>2. PICK I \in T : \A J \in T : <<J, I>> \notin StrictSubsetOrdering(Nat)
  BY <1>1, FS_StrictSubsetOrderingWellFounded, WFMin
<1>. USE DEF T
<1>3. PICK x \in S : I = 0..x
  BY <1>2
<1>4. ASSUME NEW y \in S, y < x
      PROVE  FALSE
  <2>1. 0..y \subseteq 0..x /\ x \in 0..x /\ x \notin 0..y
    BY <1>4
  <2>2. <<0..y, 0..x>> \in StrictSubsetOrdering(Nat)
    BY <2>1 DEF StrictSubsetOrdering
  <2>3. QED
    BY <2>2, <1>2, <1>3
<1>5. QED
  BY <1>4

LEMMA Greatest ==
  ASSUME NEW n \in Nat, NEW S \in SUBSET (0..n), S # {}
  PROVE  \E x \in S : \A y \in S : y <= x
<1>. DEFINE T == {n - x : x \in S}
<1>1. T \in SUBSET Nat
  OBVIOUS
<1>2. T # {}
  OBVIOUS
<1>3. PICK z \in T : \A y \in T : z <= y
  BY <1>1, <1>2, Least
<1>4. PICK x \in S : z = n - x
  BY <1>3
<1>5. \A y \in S : z <= n - y
  BY <1>3
<1>6. QED
  BY <1>4, <1>5

-----------------------------------------------------------------------------
(* Ranks count from one, in the order of the ids.                          *)
LEMMA RankFacts ==
  ASSUME NEW ids \in SUBSET Nat, IsFiniteSet(ids)
  PROVE  /\ Cardinality(ids) \in Nat
         /\ \A id \in ids : Rank(ids, id) \in 1..Cardinality(ids)
         /\ \A id, other \in ids : id < other => Rank(ids, id) < Rank(ids, other)
<1>. DEFINE upTo(id) == {other \in ids : other <= id}
<1>1. \A id \in Nat : /\ IsFiniteSet(upTo(id)) /\ Cardinality(upTo(id)) \in Nat
                      /\ Cardinality(upTo(id)) <= Cardinality(ids)
  <2>1. \A id \in Nat : upTo(id) \in SUBSET ids
    OBVIOUS
  <2>. HIDE DEF upTo
  <2>2. QED
    BY <2>1, FS_Subset, FS_CardinalityType
<1>2. ASSUME NEW id \in ids
      PROVE  Cardinality(upTo(id)) # 0
  <2>1. id \in upTo(id) /\ IsFiniteSet(upTo(id))
    BY <1>1
  <2>. HIDE DEF upTo
  <2>2. QED
    BY <2>1, FS_EmptySet
<1>3. ASSUME NEW id \in ids, NEW other \in ids, id < other
      PROVE  Cardinality(upTo(id)) < Cardinality(upTo(other))
  <2>1. id \in Nat /\ other \in Nat
    OBVIOUS
  <2>2. upTo(id) \in SUBSET upTo(other)
    <3>1. \A x \in ids : x <= id => x <= other
      BY <1>3, <2>1
    <3>2. QED
      BY <3>1
  <2>3. other \in upTo(other) /\ other \notin upTo(id)
    BY <1>3, <2>1
  <2>. HIDE DEF upTo
  <2>4. QED
    BY <1>1, <2>1, <2>2, <2>3, FS_Subset
<1>4. Cardinality(ids) \in Nat
  BY FS_CardinalityType
<1>5. QED
  BY <1>1, <1>2, <1>3, <1>4 DEF Rank

(* Every position has a row, every row a position, in the order of the ids.*)
LEMMA OrderFacts ==
  ASSUME NEW ids \in SUBSET Nat, IsFiniteSet(ids)
  PROVE  LET s == InIdOrder(ids)
         IN /\ Cardinality(ids) \in Nat
            /\ s \in [1..Cardinality(ids) -> ids]
            /\ \A i \in 1..Cardinality(ids) : Rank(ids, s[i]) = i
            /\ \A id \in ids : Rank(ids, id) \in 1..Cardinality(ids) /\ s[Rank(ids, id)] = id
            /\ \A i, j \in 1..Cardinality(ids) : i < j => s[i] < s[j]
<1>. DEFINE n == Cardinality(ids)
            f == [id \in ids |-> Rank(ids, id)]
<1>1. /\ n \in Nat
      /\ \A id \in ids : Rank(ids, id) \in 1..n
      /\ \A id, other \in ids : id < other => Rank(ids, id) < Rank(ids, other)
  BY RankFacts
<1>2. f \in Injection(ids, 1..n)
  <2>1. f \in [ids -> 1..n]
    BY <1>1
  <2>2. \A id, other \in ids : Rank(ids, id) = Rank(ids, other) => id = other
    <3>1. \A id, other \in ids : id < other \/ other < id \/ id = other
      OBVIOUS
    <3>2. \A id \in ids : Rank(ids, id) \in Nat
      BY <1>1
    <3>3. QED
      BY <1>1, <3>1, <3>2
  <2>3. QED
    BY <2>1, <2>2 DEF Injection, IsInjective
<1>3. f \in Surjection(ids, 1..n)
  <2>1. IsFiniteSet(1..n) /\ Cardinality(1..n) = n
    BY <1>1, FS_Interval
  <2>. HIDE DEF f
  <2>2. QED
    BY <1>2, <2>1, FS_Injection
<1>4. \A i \in 1..n : \E id \in ids : Rank(ids, id) = i
  BY <1>3 DEF Surjection
<1>5. \A i \in 1..n : InIdOrder(ids)[i] \in ids /\ Rank(ids, InIdOrder(ids)[i]) = i
  BY <1>4 DEF InIdOrder
<1>6. \A id \in ids : InIdOrder(ids)[Rank(ids, id)] = id
  BY <1>1, <1>2, <1>5 DEF Injection, IsInjective
<1>7. InIdOrder(ids) \in [1..n -> ids]
  BY <1>5 DEF InIdOrder
<1>8. ASSUME NEW i \in 1..n, NEW j \in 1..n, i < j
      PROVE  InIdOrder(ids)[i] < InIdOrder(ids)[j]
  <2>. DEFINE a == InIdOrder(ids)[i]
              b == InIdOrder(ids)[j]
  <2>1. a \in ids /\ b \in ids /\ Rank(ids, a) = i /\ Rank(ids, b) = j
    BY <1>5
  <2>. HIDE DEF a, b
  <2>2. ~(b < a) /\ a # b
    BY <1>1, <1>8, <2>1
  <2>3. a \in Nat /\ b \in Nat
    BY <2>1
  <2>4. a < b
    BY <2>2, <2>3
  <2>5. QED
    BY <2>4 DEF a, b
<1>9. QED
  BY <1>1, <1>5, <1>6, <1>7, <1>8

(* More rows can only push a row back.                                     *)
LEMMA RankGrows ==
  ASSUME NEW ids \in SUBSET Nat, NEW more \in SUBSET Nat, ids \subseteq more,
         IsFiniteSet(more), NEW id \in Nat
  PROVE  /\ Rank(ids, id) \in Nat /\ Rank(more, id) \in Nat
         /\ Rank(ids, id) <= Rank(more, id)
<1>. DEFINE before == {other \in ids : other <= id}
            after == {other \in more : other <= id}
<1>1. before \subseteq after /\ after \subseteq more
  OBVIOUS
<1>. HIDE DEF before, after
<1>2. /\ IsFiniteSet(after) /\ IsFiniteSet(before)
      /\ Cardinality(before) \in Nat /\ Cardinality(after) \in Nat
      /\ Cardinality(before) <= Cardinality(after)
  BY <1>1, FS_Subset, FS_CardinalityType
<1>3. QED
  BY <1>2 DEF Rank, before, after
=============================================================================
