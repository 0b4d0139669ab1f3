--------------------------- MODULE PositionProofs ---------------------------
(***************************************************************************)
(* What picking positions of a sequence returns: the members at those      *)
(* positions, all of them, in their order.                                 *)
(*                                                                         *)
(* Everything rests on the least member of a set of natural numbers, which *)
(* stands in for induction: whatever fails for some number fails for a     *)
(* least one.                                                              *)
(***************************************************************************)
EXTENDS Positions, SequenceTheorems, FiniteSetTheorems, WellFoundedInduction, TLAPS

LEMMA LeastMember ==
  ASSUME NEW S \in SUBSET Nat, S # {}
  PROVE  \E n \in S : \A m \in S : n <= m
<1> DEFINE R == OpToRel(<, Nat)
<1>1. IsWellFoundedOn(R, Nat)
  BY NatLessThanWellFounded
<1>2. \A x, y \in Nat : <<x, y>> \in R <=> x < y
  BY DEF OpToRel
<1> HIDE DEF R
<1>3. PICK n \in S : \A m \in S : ~(<<m, n>> \in R)
  BY <1>1, WFMin, Zenon
<1>4. \A m \in S : ~(m < n)
  BY <1>2, <1>3, Zenon
<1>5. n \in Nat /\ \A m \in S : m \in Nat
  OBVIOUS
<1> QED BY <1>4, <1>5, SMT

\* A finite set of positions in which every rank is somebody's, and only his: what
\* the CHOOSE of Fresh relies on.
Ranked(at) ==
  /\ IsFiniteSet(at)
  /\ \A i \in at : Cardinality(Below(at, i)) < Cardinality(at)
  /\ \A k \in 1..Cardinality(at) :
       \E i \in at : /\ Cardinality(Below(at, i)) = k - 1
                     /\ \A j \in at : Cardinality(Below(at, j)) = k - 1 => j = i

LEMMA RankedEmpty == Ranked({})
BY FS_EmptySet DEF Ranked

\* A position past all others takes the last rank and leaves the others theirs.
LEMMA RankedAdd ==
  ASSUME NEW at \in SUBSET Nat, Ranked(at), NEW n \in Nat, \A i \in at : i < n
  PROVE  /\ Ranked(at \cup {n})
         /\ Cardinality(at \cup {n}) = Cardinality(at) + 1
         /\ \A i \in at : Below(at \cup {n}, i) = Below(at, i)
         /\ Below(at \cup {n}, n) = at
         /\ Cardinality(at) \in Nat
<1> DEFINE new == at \cup {n}
<1>1. IsFiniteSet(at) /\ Cardinality(at) \in Nat
  BY FS_CardinalityType DEF Ranked
<1>2. n \notin at /\ IsFiniteSet(new) /\ Cardinality(new) = Cardinality(at) + 1
  BY <1>1, FS_AddElement
<1>3. \A i \in at : Below(new, i) = Below(at, i)
  BY DEF Below
<1>4. Below(new, n) = at
  <2>1. \A j \in new : j \in at <=> j < n
    OBVIOUS
  <2> QED BY <2>1 DEF Below
<1>5. \A i \in at : Cardinality(Below(at, i)) \in Nat /\ Cardinality(Below(at, i)) < Cardinality(at)
  <2> SUFFICES ASSUME NEW i \in at PROVE Cardinality(Below(at, i)) \in Nat
    BY DEF Ranked
  <2> QED BY <1>1, FS_Subset, FS_CardinalityType DEF Below
<1>6. \A i \in new : Cardinality(Below(new, i)) < Cardinality(new)
  BY <1>1, <1>2, <1>3, <1>4, <1>5
<1>7. ASSUME NEW k \in 1..Cardinality(new)
      PROVE  \E i \in new : /\ Cardinality(Below(new, i)) = k - 1
                            /\ \A j \in new : Cardinality(Below(new, j)) = k - 1 => j = i
  <2>1. CASE k = Cardinality(at) + 1
    BY <1>1, <1>2, <1>3, <1>4, <1>5, <2>1
  <2>2. CASE k # Cardinality(at) + 1
    <3>1. k \in 1..Cardinality(at)
      BY <1>1, <1>2, <2>2
    <3>2. PICK i \in at : /\ Cardinality(Below(at, i)) = k - 1
                          /\ \A j \in at : Cardinality(Below(at, j)) = k - 1 => j = i
      BY <3>1 DEF Ranked
    <3>3. Cardinality(Below(new, n)) # k - 1
      BY <1>1, <1>4, <3>1
    <3> QED BY <1>3, <3>2, <3>3
  <2> QED BY <2>1, <2>2
<1> HIDE DEF new
<1>8. Ranked(new)
  BY <1>2, <1>6, <1>7 DEF Ranked
<1> QED BY <1>1, <1>2, <1>3, <1>4, <1>8 DEF new

-----------------------------------------------------------------------------
(* Every set of positions of a sequence is ranked. *)

LEMMA PositionsRanked ==
  ASSUME NEW n \in Nat, NEW at \in SUBSET (1..n)
  PROVE  Ranked(at)
<1> DEFINE bad == {m \in Nat : \E s \in SUBSET (1..m) : ~Ranked(s)}
<1> SUFFICES ASSUME bad # {} PROVE FALSE
  OBVIOUS
<1>1. PICK m \in bad : \A k \in bad : m <= k
  BY LeastMember
<1>2. PICK s \in SUBSET (1..m) : ~Ranked(s)
  OBVIOUS
<1>3. m # 0
  <2>1. SUFFICES ASSUME m = 0 PROVE FALSE
    OBVIOUS
  <2>2. s = {}
    BY <2>1
  <2> QED BY <1>2, <2>2, RankedEmpty
<1>4. m \in Nat /\ m - 1 \in Nat /\ m - 1 \notin bad
  <2>1. m \in Nat
    OBVIOUS
  <2> HIDE DEF bad
  <2>2. m - 1 \in Nat /\ ~(m <= m - 1)
    BY <1>3, <2>1
  <2> QED BY <1>1, <2>1, <2>2
<1>5. s \ {m} \in SUBSET (1..(m - 1)) /\ s \ {m} \in SUBSET Nat
  OBVIOUS
<1>6. Ranked(s \ {m}) /\ \A i \in s \ {m} : i < m
  BY <1>4, <1>5
<1>7. Ranked((s \ {m}) \cup {m})
  BY <1>5, <1>6, RankedAdd
<1>8. m \in s => s = (s \ {m}) \cup {m}
  OBVIOUS
<1>9. m \notin s => s = s \ {m}
  OBVIOUS
<1> QED BY <1>2, <1>6, <1>7, <1>8, <1>9

LEMMA NthInRanked ==
  ASSUME NEW at, Ranked(at), NEW k \in 1..Cardinality(at)
  PROVE  /\ Nth(at, k) \in at
         /\ Cardinality(Below(at, Nth(at, k))) = k - 1
         /\ \A j \in at : Cardinality(Below(at, j)) = k - 1 => j = Nth(at, k)
<1>1. PICK i \in at : /\ Cardinality(Below(at, i)) = k - 1
                      /\ \A j \in at : Cardinality(Below(at, j)) = k - 1 => j = i
  BY DEF Ranked
<1> QED BY <1>1 DEF Nth

\* The order of the ranks is the order of the positions, and every position has one.
LEMMA NthInOrder ==
  ASSUME NEW at \in SUBSET Nat, Ranked(at),
         NEW k \in 1..Cardinality(at), NEW l \in 1..Cardinality(at), k < l
  PROVE  Nth(at, k) < Nth(at, l)
<1> DEFINE i == Nth(at, k)
           j == Nth(at, l)
<1>1. /\ i \in at /\ Cardinality(Below(at, i)) = k - 1
      /\ j \in at /\ Cardinality(Below(at, j)) = l - 1
  BY NthInRanked
<1> SUFFICES ASSUME ~(i < j) PROVE FALSE
  OBVIOUS
<1> HIDE DEF i, j
<1>2. Below(at, j) \in SUBSET Below(at, i)
  <2>1. i \in Nat /\ j \in Nat /\ at \subseteq Nat /\ j <= i
    BY <1>1
  <2>2. \A x \in at : x < j => x < i
    BY <2>1
  <2> QED BY <2>2 DEF Below
<1>3. IsFiniteSet(Below(at, i))
  BY FS_Subset DEF Ranked, Below
<1>4. Cardinality(Below(at, j)) <= Cardinality(Below(at, i))
  BY <1>2, <1>3, FS_Subset
<1>5. Cardinality(at) \in Nat
  BY FS_CardinalityType DEF Ranked
<1> QED BY <1>1, <1>4, <1>5

LEMMA RankOfPosition ==
  ASSUME NEW at \in SUBSET Nat, Ranked(at), NEW i \in at
  PROVE  \E k \in 1..Cardinality(at) : Nth(at, k) = i
<1>1. IsFiniteSet(at) /\ Cardinality(at) \in Nat
  BY FS_CardinalityType DEF Ranked
<1>2. Cardinality(Below(at, i)) \in Nat
  BY <1>1, FS_Subset, FS_CardinalityType DEF Below
<1> DEFINE k == Cardinality(Below(at, i)) + 1
<1>3. Cardinality(Below(at, i)) < Cardinality(at)
  BY DEF Ranked
<1>4. k \in 1..Cardinality(at) /\ Cardinality(Below(at, i)) = k - 1
  BY <1>1, <1>2, <1>3
<1> HIDE DEF k
<1>5. i = Nth(at, k)
  BY <1>4, NthInRanked
<1> QED BY <1>4, <1>5

\* p is the members of s at the positions at, f being the position of each.
PicksBy(f, p, s, at) ==
  /\ f \in [1..Len(p) -> at]
  /\ \A k \in 1..Len(p) : p[k] = s[f[k]]
  /\ \A k, l \in 1..Len(p) : k < l => f[k] < f[l]
  /\ \A i \in at : \E k \in 1..Len(p) : f[k] = i

\* Picked returns a sequence of members, in order, none left out.
THEOREM PickedInOrder ==
  ASSUME NEW S, NEW s \in Seq(S), NEW at \in SUBSET (1..Len(s))
  PROVE  /\ Picked(s, at) \in Seq(S)
         /\ \E f : PicksBy(f, Picked(s, at), s, at)
<1> DEFINE n == Cardinality(at)
           p == Picked(s, at)
           f == [k \in 1..n |-> Nth(at, k)]
<1>1. Len(s) \in Nat /\ s \in [1..Len(s) -> S]
  BY LenProperties
<1>2. Ranked(at) /\ at \in SUBSET Nat
  <2>1. Ranked(at)
    BY <1>1, PositionsRanked, Zenon
  <2>2. 1..Len(s) \subseteq Nat
    BY <1>1
  <2> QED BY <2>1, <2>2
<1>3. n \in Nat
  BY <1>2, FS_CardinalityType DEF Ranked
<1>4. \A k \in 1..n : Nth(at, k) \in at
  BY <1>2, NthInRanked
<1>5. p \in [1..n -> S]
  BY <1>1, <1>4 DEF Picked
<1>6. p \in Seq(S) /\ Len(p) = n
  BY <1>3, <1>5, SeqDef, LenProperties
<1>7. PicksBy(f, p, s, at)
  <2>1. f \in [1..n -> at]
    BY <1>4
  <2>2. \A k \in 1..n : p[k] = s[f[k]]
    BY DEF Picked
  <2>3. \A k, l \in 1..n : k < l => f[k] < f[l]
    BY <1>2, NthInOrder
  <2>4. \A i \in at : \E k \in 1..n : f[k] = i
    BY <1>2, RankOfPosition
  <2> HIDE DEF f, p, n
  <2> QED BY <1>6, <2>1, <2>2, <2>3, <2>4 DEF PicksBy
<1> QED BY <1>6, <1>7
=============================================================================
