---------------------- MODULE PartitionRefinementProofs ----------------------
(***************************************************************************)
(* The abstract algorithm reaches a partition with the language of the     *)
(* input and never separates what a stable partition keeps together.       *)
(***************************************************************************)
EXTENDS PartitionRefinement, LeastLemmas

LEMMA StateNat == State \in SUBSET Nat
  BY NAssumption DEF State

LEMMA PartitionIsLeast == Partition = LeastPartition(State)
  BY DEF Partition, LeastPartition

(* Every variable keeps its type; in particular P stays a partition named  *)
(* by least states.                                                        *)
THEOREM TypeCorrect == Spec => []TypeOK
<1>1. Init => TypeOK
  <2>. SUFFICES ASSUME Init PROVE P \in Partition
    BY DEF Init, TypeOK
  <2>1. /\ finals \in SUBSET State
        /\ P = [q \in State |-> P[q]]
        /\ \A q \in finals : P[q] = Min(finals)
        /\ \A q \in State \ finals : P[q] = Min(State \ finals)
    BY DEF Init, SameFinality
  <2>. QED BY <2>1, StateNat, PartitionIsLeast, TwoClasses
<1>2. TypeOK /\ [Next]_vars => TypeOK'
  <2>. SUFFICES ASSUME TypeOK, [Next]_vars PROVE TypeOK'
    OBVIOUS
  <2>1. ASSUME NEW f \in State, NEW a \in Letter, NEW X \in SUBSET State, Cut(f, a, X)
        PROVE  TypeOK'
    <3>. DEFINE U == Class(P, f) \cap Preds(a, X)
                V == Class(P, f) \ Preds(a, X)
    <3>1. P \in Partition /\ U # {} /\ V # {} /\ U \cap V = {}
      BY <2>1 DEF Cut, TypeOK
    <3>2. U \cup V = {q \in State : P[q] = f}
      BY <2>1 DEF Cut, Class
    <3>3. /\ P' = [q \in State |-> P'[q]]
          /\ \A q \in U : P'[q] = Min(U)
          /\ \A q \in V : P'[q] = Min(V)
          /\ \A q \in State : q \notin U /\ q \notin V => P'[q] = P[q]
      BY <2>1, <3>1, <3>2 DEF Cut
    <3>4. P' \in Partition
      <4>. HIDE DEF U, V
      <4>. QED BY <3>1, <3>2, <3>3, StateNat, PartitionIsLeast, CutPartition
    <3>. QED BY <2>1, <3>4 DEF Cut, TypeOK, Partition
  <2>2. CASE Finish
    BY <2>2 DEF Finish, TypeOK, Partition
  <2>3. CASE UNCHANGED vars
    BY <2>3 DEF vars, TypeOK, Partition
  <2>. QED BY <2>1, <2>2, <2>3 DEF Next
<1>. QED BY <1>1, <1>2, PTL DEF Spec

(* A cut by the predecessors of a union of classes keeps together what     *)
(* every stable partition keeps together.                                  *)
LEMMA CutSound ==
  ASSUME TypeOK, NeverOversplit,
         NEW f \in State, NEW a \in Letter, NEW X \in SUBSET State, Cut(f, a, X)
  PROVE  NeverOversplit'
<1>. SUFFICES ASSUME NEW Q \in Partition, Stable(Q),
                     NEW p \in State, NEW q \in State, Q[p] = Q[q]
              PROVE  P'[p] = P'[q]
  <2>1. succ' = succ /\ finals' = finals
    BY DEF Cut
  <2>2. \A Q : Stable(Q)' <=> Stable(Q)
    BY <2>1 DEF Stable, Under
  <2>. QED BY <2>2 DEF NeverOversplit, Partition
<1>1. \A r, s \in State : Q[r] = Q[s] => P[r] = P[s]
  BY DEF NeverOversplit
<1>2. p \in Preds(a, X) <=> q \in Preds(a, X)
  <2>1. Under(Q, succ[p][a]) = Under(Q, succ[q][a])
    BY DEF Stable
  <2>2. /\ succ[p][a] \in State \cup {Undef}
        /\ succ[q][a] \in State \cup {Undef}
    BY DEF TypeOK
  <2>3. \A s \in State : s # Undef /\ Q[s] # Undef
    BY DEF State, Undef, Partition
  <2>4. CASE succ[p][a] = Undef
    BY <2>1, <2>2, <2>3, <2>4 DEF Under, Preds
  <2>5. CASE succ[p][a] # Undef
    <3>1. succ[q][a] \in State /\ Q[succ[p][a]] = Q[succ[q][a]]
      BY <2>1, <2>2, <2>3, <2>5 DEF Under
    <3>2. succ[p][a] \in X <=> succ[q][a] \in X
      BY <1>1, <2>2, <2>5, <3>1 DEF Cut, Saturated
    <3>. QED BY <3>2 DEF Preds
  <2>. QED BY <2>4, <2>5
<1>3. P[p] = P[q]
  BY <1>1
<1>. QED BY <1>2, <1>3 DEF Cut, Class

(* No partition reached is finer than a stable one.                        *)
THEOREM NeverOversplits == Spec => []NeverOversplit
<1>1. Init => NeverOversplit
  <2>. SUFFICES ASSUME Init, NEW Q \in Partition, Stable(Q),
                       NEW p \in State, NEW q \in State, Q[p] = Q[q]
                PROVE  P[p] = P[q]
    BY DEF NeverOversplit
  <2>1. p \in finals <=> q \in finals
    BY DEF Stable
  <2>. QED BY <2>1 DEF Init, SameFinality
<1>2. TypeOK /\ NeverOversplit /\ [Next]_vars => NeverOversplit'
  <2>. SUFFICES ASSUME TypeOK, NeverOversplit, [Next]_vars PROVE NeverOversplit'
    OBVIOUS
  <2>1. ASSUME NEW f \in State, NEW a \in Letter, NEW X \in SUBSET State, Cut(f, a, X)
        PROVE  NeverOversplit'
    BY <2>1, CutSound
  <2>2. CASE Finish
    BY <2>2 DEF Finish, NeverOversplit, Stable, Partition, Under
  <2>3. CASE UNCHANGED vars
    BY <2>3 DEF vars, NeverOversplit, Stable, Partition, Under
  <2>. QED BY <2>1, <2>2, <2>3 DEF Next
<1>. QED BY <1>1, <1>2, TypeCorrect, PTL DEF Spec

(* The partition is stable once it is the answer.                          *)
THEOREM EndsStable == Spec => []StableAtEnd
<1>1. Init => StableAtEnd
  BY DEF Init, StableAtEnd
<1>2. StableAtEnd /\ [Next]_vars => StableAtEnd'
  <2>. SUFFICES ASSUME StableAtEnd, [Next]_vars PROVE StableAtEnd'
    OBVIOUS
  <2>1. CASE \E f \in State, a \in Letter, X \in SUBSET State : Cut(f, a, X)
    BY <2>1 DEF Cut, StableAtEnd
  <2>2. CASE Finish
    BY <2>2 DEF Finish, StableAtEnd, Stable, Under
  <2>3. CASE UNCHANGED vars
    BY <2>3 DEF vars, StableAtEnd, Stable, Under
  <2>. QED BY <2>1, <2>2, <2>3 DEF Next
<1>. QED BY <1>1, <1>2, PTL DEF Spec

=============================================================================
