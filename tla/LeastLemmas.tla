----------------------------- MODULE LeastLemmas -----------------------------
(***************************************************************************)
(* Least elements of sets of natural numbers, and partitions of such a set *)
(* that map each element to the least one of its class.                    *)
(***************************************************************************)
EXTENDS Naturals, FiniteSetsExt, TLAPS, FiniteSetTheorems, WellFoundedInduction

(* A set of natural numbers that is not empty has a least element, and Min *)
(* returns it.                                                             *)
LEMMA MinProps ==
  ASSUME NEW S \in SUBSET Nat, S # {}
  PROVE  Min(S) \in S /\ \A x \in S : Min(S) <= x
<1>. DEFINE T == {0 .. x : x \in S}
<1>1. T \subseteq FiniteSubsetsOf(Nat) /\ T # {}
  <2>1. \A x \in S : IsFiniteSet(0 .. x) /\ 0 .. x \in SUBSET Nat
    BY FS_Interval
  <2>. QED BY <2>1 DEF FiniteSubsetsOf
<1>2. PICK I \in T : \A J \in T : ~ (<<J, I>> \in StrictSubsetOrdering(Nat))
  BY <1>1, WFMin, FS_StrictSubsetOrderingWellFounded
<1>3. PICK m \in S : I = 0 .. m
  OBVIOUS
<1>4. ASSUME NEW y \in S, y < m PROVE FALSE
  <2>1. 0 .. y \subseteq 0 .. m /\ 0 .. y # 0 .. m
    BY <1>4
  <2>2. 0 .. y \in T
    OBVIOUS
  <2>. QED BY <1>1, <1>2, <1>3, <2>1, <2>2 DEF StrictSubsetOrdering, FiniteSubsetsOf
<1>5. \A y \in S : m <= y
  BY <1>4
<1>. QED BY <1>5 DEF Min

LeastPartition(S) == {Q \in [S -> S] : \A q \in S : Q[q] <= q /\ Q[Q[q]] = Q[q]}

(* Cutting one class of a partition in two, each half led by its least     *)
(* element, gives a partition.                                             *)
LEMMA CutPartition ==
  ASSUME NEW S \in SUBSET Nat, NEW Q \in LeastPartition(S),
         NEW f \in S, NEW U, NEW V, NEW R,
         U \cup V = {q \in S : Q[q] = f}, U \cap V = {}, U # {}, V # {},
         R = [q \in S |-> R[q]],
         \A q \in U : R[q] = Min(U),
         \A q \in V : R[q] = Min(V),
         \A q \in S : q \notin U /\ q \notin V => R[q] = Q[q]
  PROVE  R \in LeastPartition(S)
<1>1. U \subseteq S /\ V \subseteq S
  OBVIOUS
<1>2. U \in SUBSET Nat /\ V \in SUBSET Nat
  BY <1>1
<1>3. Min(U) \in U /\ \A x \in U : Min(U) <= x
  BY <1>2, MinProps
<1>4. Min(V) \in V /\ \A x \in V : Min(V) <= x
  BY <1>2, MinProps
<1>0. Q \in [S -> S] /\ \A q \in S : Q[q] <= q /\ Q[Q[q]] = Q[q]
  BY DEF LeastPartition
<1>5. ASSUME NEW q \in S PROVE R[q] \in S /\ R[q] <= q /\ R[R[q]] = R[q]
  <2>1. CASE q \in U
    BY <1>1, <1>3, <2>1
  <2>2. CASE q \in V
    BY <1>1, <1>4, <2>2
  <2>3. CASE q \notin U /\ q \notin V
    <3>1. Q[q] \notin U /\ Q[q] \notin V
      BY <1>0, <2>3
    <3>. QED BY <1>0, <2>3, <3>1
  <2>. QED BY <2>1, <2>2, <2>3
<1>6. R \in [S -> S]
  BY <1>5
<1>. QED BY <1>5, <1>6 DEF LeastPartition

(* So does the partition of S into F and the rest.                         *)
LEMMA TwoClasses ==
  ASSUME NEW S \in SUBSET Nat, NEW F \in SUBSET S, NEW R,
         R = [q \in S |-> R[q]],
         \A q \in F : R[q] = Min(F),
         \A q \in S \ F : R[q] = Min(S \ F)
  PROVE  R \in LeastPartition(S)
<1>. DEFINE Same(q) == IF q \in F THEN F ELSE S \ F
<1>1. \A q \in S : Same(q) \in SUBSET Nat /\ q \in Same(q) /\ Same(q) \subseteq S
  OBVIOUS
<1>2. \A q \in S : Min(Same(q)) \in Same(q) /\ Min(Same(q)) <= q
  BY <1>1, MinProps
<1>0. \A q \in S : R[q] = Min(Same(q))
  OBVIOUS
<1>3. R \in [S -> S]
  BY <1>0, <1>1, <1>2
<1>4. ASSUME NEW q \in S PROVE R[q] <= q /\ R[R[q]] = R[q]
  <2>1. Same(R[q]) = Same(q)
    BY <1>0, <1>1, <1>2
  <2>. QED BY <1>0, <1>2, <1>3, <2>1
<1>. QED BY <1>3, <1>4 DEF LeastPartition

=============================================================================
