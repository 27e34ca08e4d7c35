----------------------------- MODULE OrderLemmas -----------------------------
(***************************************************************************)
(* Facts about sets of naturals that the proofs of several components      *)
(* need: the least element of a set, and the element of a given rank in a  *)
(* finite set, which is how the frame allocator's lists are described.     *)
(* They rest on the well-foundedness of < in the library: applied to a set *)
(* (of counterexamples, say) instead of a predicate, it needs no operator  *)
(* parameter, and so serves as induction.                                  *)
(***************************************************************************)
EXTENDS Integers, FiniteSets, FiniteSetTheorems, WellFoundedInduction, TLAPS

\* Every set of naturals that is not empty has a least element: the scans of
\* the allocators return one.
LEMMA LeastElement ==
  ASSUME NEW T, T \subseteq Nat, T # {}
  PROVE  \E x \in T : \A y \in T : x <= y
<1>1. PICK R : /\ IsWellFoundedOn(R, Nat)
               /\ \A x, y \in Nat : <<x, y>> \in R <=> x < y
  <2> DEFINE Less == OpToRel(<, Nat)
  <2>1. IsWellFoundedOn(Less, Nat)
    BY NatLessThanWellFounded
  <2>2. \A x, y \in Nat : <<x, y>> \in Less <=> x < y
    BY DEF OpToRel
  <2> QED BY <2>1, <2>2
<1>2. PICK x \in T : \A y \in T : ~(<<y, x>> \in R)
  <2>1. IsWellFoundedOn(R, Nat)
    BY <1>1
  <2> QED BY <2>1, WFMin, Zenon
<1>3. \A y \in T : y \in Nat /\ x \in Nat
  OBVIOUS
<1>4. \A y \in T : ~(y < x)
  BY <1>1, <1>2, <1>3
<1> QED BY <1>3, <1>4

\* The elements of S up to f.
UpTo(S, f) == {g \in S : g <= f}

\* A finite set of n naturals has an element of every rank from 1 to n: the
\* lists of ialloc_frames are defined by the rank of their frames.
LEMMA RankExists ==
  ASSUME NEW S, S \subseteq Nat, IsFiniteSet(S),
         NEW i \in 1..Cardinality(S)
  PROVE  \E f \in S : Cardinality(UpTo(S, f)) = i
<1> DEFINE Bad == {k \in Nat : /\ k \in 1..Cardinality(S)
                               /\ \A f \in S : Cardinality(UpTo(S, f)) # k}
<1>1. Cardinality(S) \in Nat
  BY FS_CardinalityType
<1>2. SUFFICES Bad = {}
  BY <1>1
<1>3. SUFFICES ASSUME Bad # {} PROVE FALSE
  OBVIOUS
<1>4. PICK k \in Bad : \A j \in Bad : k <= j
  <2>1. Bad \subseteq Nat
    OBVIOUS
  <2> HIDE DEF Bad
  <2> QED BY <2>1, <1>3, LeastElement
<1>5. /\ k \in Nat /\ k \in 1..Cardinality(S)
      /\ \A f \in S : Cardinality(UpTo(S, f)) # k
  BY <1>4
\* What is left above the elements before rank k has a least element of rank k.
<1>6. ASSUME NEW low \in SUBSET S, Cardinality(low) = k - 1,
             \A x \in low, y \in S \ low : x < y
      PROVE  FALSE
  <2>1. IsFiniteSet(low)
    BY FS_Subset
  <2>2. S \ low # {}
    <3>1. S = low => Cardinality(S) = k - 1
      BY <1>6
    <3>2. S # low
      BY <3>1, <1>1, <1>5
    <3> QED BY <3>2
  <2>3. PICK m \in S \ low : \A y \in S \ low : m <= y
    BY <2>2, LeastElement
  <2>4. UpTo(S, m) = low \cup {m}
    <3>1. m \in Nat /\ low \subseteq Nat
      OBVIOUS
    <3>2. \A g \in S : g <= m <=> g \in low \/ g = m
      <4> TAKE g \in S
      <4>1. g \in Nat
        OBVIOUS
      <4>2. CASE g \in low
        BY <4>1, <4>2, <3>1, <1>6
      <4>3. CASE g \notin low
        <5>1. m <= g
          BY <4>3, <2>3
        <5> QED BY <5>1, <4>1, <4>3, <3>1
      <4> QED BY <4>2, <4>3
    <3> QED BY <3>2 DEF UpTo
  <2>5. Cardinality(low \cup {m}) = Cardinality(low) + 1
    BY <2>1, <2>3, FS_AddElement
  <2> QED BY <2>3, <2>4, <2>5, <1>5, <1>6
<1>7. CASE k = 1
  <2>1. Cardinality({}) = k - 1
    BY <1>7, FS_EmptySet
  <2> QED BY <2>1, <1>6
<1>8. CASE k # 1
  <2>1. k - 1 \in 1..Cardinality(S) /\ ~(k <= k - 1) /\ k - 1 \in Nat
    BY <1>1, <1>5, <1>8
  <2>2. k - 1 \notin Bad
    BY <1>4, <2>1
  <2>3. PICK f \in S : Cardinality(UpTo(S, f)) = k - 1
    BY <2>1, <2>2
  <2>4. /\ UpTo(S, f) \in SUBSET S
        /\ \A x \in UpTo(S, f), y \in S \ UpTo(S, f) : x < y
    BY DEF UpTo
  <2> QED BY <2>3, <2>4, <1>6
<1> QED BY <1>7, <1>8
=============================================================================
