--------------------------- MODULE HopcroftProofs ---------------------------
(***************************************************************************)
(* hopcroft_minimize keeps its marks, leaders and worklist in order for    *)
(* every automaton, implements PartitionRefinement, and so returns the     *)
(* coarsest partition with the language of the input; and it always goes   *)
(* on with the smaller half.                                               *)
(***************************************************************************)
EXTENDS HopcroftWork, LeastLemmas

PRP == INSTANCE PartitionRefinementProofs WITH P <- B, done <- (pc = "built")

(* Final and other states never share a block (fsa.cc 503-535).            *)
FinalityInv == \A p, q \in State : B[p] = B[q] => (p \in finals <=> q \in finals)

(* The inductive invariant: the worklist argument needs the marks to be    *)
(* those of the splitter's old ring, and these need the leaders.           *)
IInv == TypeOK /\ LeadersInv /\ MarksClean /\ MarksInv /\ WorklistInv /\ FinalityInv

LEMMA StateNat == State \in SUBSET Nat
  BY NAssumption DEF State

LEMMA PartitionIsLeast == Partition = LeastPartition(State)
  BY DEF Partition, LeastPartition

(* The predecessors of the splitter's ring as it was walked.               *)
Y == Preds(cur.a, cur.xs)

LEMMA BlockFacts ==
  \A f : Block(f) \in SUBSET State /\ IsFiniteSet(Block(f)) /\ Cardinality(Block(f)) \in Nat
<1>1. IsFiniteSet(State)
  BY NAssumption, FS_Interval DEF State
<1>. QED BY <1>1, FS_Subset, FS_CardinalityType DEF Block

LEMMA InitInv == Init => IInv
<1>. SUFFICES ASSUME Init PROVE IInv
  OBVIOUS
<1>1. B \in Partition
  <2>1. /\ finals \in SUBSET State
        /\ B = [q \in State |-> B[q]]
        /\ \A q \in finals : B[q] = Min(finals)
        /\ \A q \in State \ finals : B[q] = Min(State \ finals)
    BY DEF Init, SameFinality
  <2>. QED BY <2>1, StateNat, PartitionIsLeast, TwoClasses
<1>2. TypeOK
  BY <1>1 DEF Init, TypeOK, Partition
<1>3. LeadersInv
  BY <1>1 DEF Init, LeadersInv, Leaders
<1>4. MarksClean /\ MarksInv
  BY DEF Init, MarksClean, MarksInv
<1>5. FinalityInv
  <2>1. \A q \in State : SameFinality(q) \in SUBSET Nat /\ q \in SameFinality(q)
    BY <1>2, NAssumption DEF SameFinality, TypeOK, State
  <2>2. \A q \in State : B[q] \in SameFinality(q)
    BY <2>1, MinProps DEF Init
  <2>. QED BY <2>2 DEF FinalityInv, SameFinality
<1>6. WorklistInv
  <2>. SUFFICES ASSUME NEW p \in State, NEW b \in Letter, succ[p][b] # Undef
                PROVE  <<b, B[succ[p][b]]>> \in refines
    BY DEF WorklistInv, Pending
  <2>1. succ[p][b] \in State
    BY <1>2 DEF TypeOK
  <2>2. B[succ[p][b]] \in Leaders
    BY <1>1, <2>1 DEF Leaders, Partition
  <2>3. b \in Labels(Block(B[succ[p][b]]))
    BY <2>1 DEF Labels, Block, Preds
  <2>. QED BY <2>2, <2>3 DEF Init, Leaders
<1>. QED BY <1>2, <1>3, <1>4, <1>5, <1>6 DEF IInv

LEMMA PickInv ==
  ASSUME IInv, NEW a \in Letter, NEW fx \in State, Pick(a, fx)
  PROVE  IInv'
<1>. USE DEF IInv
<1>. DEFINE Z == Preds(a, Block(fx))
<1>1. /\ cur' = [a |-> a, fx |-> fx, xs |-> Block(fx)]
      /\ pc = "loop" /\ pc' = "split"
      /\ start' = start /\ succ' = succ /\ finals' = finals /\ B' = B
      /\ refines' = refines \ {<<a, fx>>}
      /\ <<a, fx>> \in refines
  BY DEF Pick, Rest
<1>2. mark = {} /\ \A q \in State : CC[q] = 0
  BY <1>1 DEF MarksClean
<1>3. Y' = Z
  BY <1>1 DEF Y, Preds, Block
<1>4. mark' = Z
  BY <1>2 DEF Pick, Rest
<1>5. bs' = {f \in State : Z \cap Block(f) # {}}
  BY <1>2 DEF Pick, Rest
<1>6. \A f \in State : /\ Block(f)' = Block(f)
                       /\ IsFiniteSet(Z \cap Block(f))
                       /\ CC'[f] = Cardinality(Z \cap Block(f))
                       /\ CC'[f] \in Nat
  <2>1. \A f \in State : IsFiniteSet(Z \cap Block(f)) /\ Cardinality(Z \cap Block(f)) \in Nat
    BY BlockFacts, FS_Subset, FS_CardinalityType
  <2>2. CC' = [f \in State |-> CC[f] + Cardinality(Z \cap Block(f))]
    BY DEF Pick, Rest
  <2>3. \A f \in State : Block(f)' = Block(f)
    BY <1>1 DEF Block
  <2>. HIDE DEF Z, IInv
  <2>4. \A f \in State : CC'[f] = 0 + Cardinality(Z \cap Block(f))
    BY <1>2, <2>2
  <2>. QED BY <2>1, <2>3, <2>4
<1>7. Z \in SUBSET State
  BY DEF Preds
<1>. HIDE DEF Z
<1>8. TypeOK'
  <2>1. CC' \in [State -> Nat]
    BY <1>6 DEF Pick, Rest
  <2>2. Block(fx) \in SUBSET State
    BY BlockFacts
  <2>. QED BY <1>1, <1>4, <1>5, <1>7, <2>1, <2>2 DEF TypeOK
<1>9. LeadersInv'
  <2>1. \A q \in State : B[B[q]] = B[q] /\ B[q] \in State
    BY DEF LeadersInv, Partition
  <2>2. bs' \subseteq Leaders
    BY <1>5, <2>1 DEF Leaders, Block
  <2>. QED BY <1>1, <2>2 DEF LeadersInv, Leaders, Partition
<1>10. MarksInv'
  <2>1. PR!Saturated(B, Block(fx))
    BY DEF PR!Saturated, PR!State, State, Block
  <2>2. \A q \in State : q \in Block(B[q])
    BY DEF Block
  <2>3. \A q \in State : B[q] \in bs' \/ (q \notin Z /\ B[q] \notin Z)
    <3>1. \A q \in State : B[q] \in State /\ B[B[q]] = B[q]
      BY DEF LeadersInv, Partition
    <3>. QED BY <1>5, <2>2, <3>1 DEF Block
  <2>4. \A f \in State : CC'[f] = IF f \in bs' THEN Cardinality(Block(f) \cap Z) ELSE 0
    <3>1. \A f \in State : Z \cap Block(f) = Block(f) \cap Z
      OBVIOUS
    <3>. QED BY <1>5, <1>6, <3>1, FS_EmptySet
  <2>5. \A f \in bs' : Block(f) \cap Z # {}
    BY <1>5
  <2>6. cur'.xs = Block(fx)
    BY <1>1
  <2>7. PR!Saturated(B', cur'.xs)
    BY <1>1, <2>1, <2>6
  <2>8. \A f \in State : Block(f)' = Block(f)
    BY <1>6
  <2>. QED
    BY <1>1, <1>3, <1>4, <1>5, <2>3, <2>4, <2>5, <2>7, <2>8
    DEF MarksInv, PR!Saturated, Y
<1>11. WorklistInv'
  <2>. SUFFICES ASSUME NEW p \in State, NEW q \in State, NEW b \in Letter,
                       B[p] = B[q], succ[p][b] # Undef,
                       Under(B, succ[p][b]) # Under(B, succ[q][b])
                PROVE  Pending(p, q, b)'
    BY <1>1 DEF WorklistInv, Under
  <2>. DEFINE s == succ[p][b]
              t == succ[q][b]
  <2>1. Pending(p, q, b)
    BY DEF WorklistInv
  <2>2. s \in State /\ t \in State \cup {Undef}
    BY DEF TypeOK
  <2>3. t # Undef => B[s] # B[t]
    BY DEF Under
  <2>4. <<b, B[s]>> \in refines \/ (t # Undef /\ <<b, B[t]>> \in refines)
    BY <1>1, <2>1 DEF Pending
  <2>5. ASSUME b = a, B[s] = fx
        PROVE  Pending(p, q, b)'
    <3>1. s \in Block(fx) /\ t \notin Block(fx)
      BY <2>2, <2>3, <2>5 DEF Block, Undef, State
    <3>2. p \in Z
      BY <2>5, <3>1 DEF Z, Preds
    <3>3. B[p] \in bs'
      BY <1>5, <3>2 DEF Block, TypeOK
    <3>. QED BY <1>1, <2>5, <3>1, <3>3 DEF Pending
  <2>6. ASSUME b = a, t # Undef, B[t] = fx
        PROVE  Pending(p, q, b)'
    <3>1. t \in Block(fx) /\ s \notin Block(fx)
      BY <2>2, <2>3, <2>6 DEF Block, Undef, State
    <3>2. q \in Z
      BY <2>6, <3>1 DEF Z, Preds
    <3>3. B[p] \in bs'
      BY <1>5, <3>2 DEF Block, TypeOK
    <3>. QED BY <1>1, <2>6, <3>1, <3>3 DEF Pending
  <2>7. CASE b = a /\ (B[s] = fx \/ (t # Undef /\ B[t] = fx))
    BY <2>5, <2>6, <2>7
  <2>8. CASE ~ (b = a /\ (B[s] = fx \/ (t # Undef /\ B[t] = fx)))
    BY <1>1, <2>4, <2>8 DEF Pending
  <2>. QED BY <2>7, <2>8
<1>12. MarksClean' /\ FinalityInv'
  BY <1>1 DEF MarksClean, FinalityInv
<1>. QED BY <1>8, <1>9, <1>10, <1>11, <1>12

-----------------------------------------------------------------------------
(* What one iteration of the loop over bs does to the blocks: it separates *)
(* the states of fy's block that precede the splitter's old ring from the  *)
(* others, and leaves every other block alone.                             *)
LEMMA SplitEffect ==
  ASSUME IInv, NEW fy \in State, SplitBlock(fy)
  PROVE  /\ B' \in Partition
         /\ \A q \in State : B[q] # fy => B'[q] = B[q]
         /\ \A q \in State : B[q] = fy => B[B'[q]] = fy
         /\ \A p, q \in State : B'[p] = B'[q] <=>
              B[p] = B[q] /\ (B[p] = fy => (p \in Y <=> q \in Y))
         /\ refines \subseteq refines'
         /\ refines' \in SUBSET (Letter \X State)
         /\ \A r \in refines' : r \in refines \/ B'[r[2]] = r[2]
         /\ \A p, q \in State : \A b \in Labels(Block(fy)) :
              B[p] = fy /\ B[q] = fy /\ B'[p] # B'[q]
                => /\ <<b, B'[p]>> \in refines' \/ <<b, B'[q]>> \in refines'
                   /\ <<b, fy>> \in refines => <<b, B'[p]>> \in refines'
<1>. USE DEF IInv
<1>. DEFINE U == Block(fy) \cap mark
            V == Block(fy) \ mark
            fu == Min(U)
            fv == Min(V)
<1>1. /\ fy \in bs /\ pc = "split" /\ B[fy] = fy
      /\ B \in Partition /\ B \in [State -> State]
      /\ refines \in SUBSET (Letter \X State)
  BY DEF SplitBlock, Regrouped, Unmarked, Uncounted, LeadersInv, Leaders, TypeOK
<1>2. \A q \in Block(fy) : q \in State /\ B[q] = fy /\ (q \in mark <=> q \in Y)
  BY <1>1 DEF MarksInv, Block, Y
<1>3. U = Block(fy) \cap Y
  BY <1>2
<1>4. U # {}
  BY <1>1, <1>3 DEF MarksInv, Y
<1>5. CC[fy] < Cardinality(Block(fy)) <=> V # {}
  <2>1. CC[fy] = Cardinality(U)
    BY <1>1, <1>3 DEF MarksInv, Y
  <2>2. /\ IsFiniteSet(U) /\ Cardinality(U) \in Nat /\ Cardinality(Block(fy)) \in Nat
        /\ Cardinality(U) <= Cardinality(Block(fy))
        /\ Cardinality(Block(fy)) = Cardinality(U) => Block(fy) = U
    BY BlockFacts, FS_Subset, FS_CardinalityType
  <2>3. V = {} <=> U = Block(fy)
    OBVIOUS
  <2>. QED BY <2>1, <2>2, <2>3
<1>6. U \cup V = {q \in State : B[q] = fy} /\ U \cap V = {}
  BY DEF Block
<1>7. U \in SUBSET Nat /\ V \in SUBSET Nat /\ U \in SUBSET State /\ V \in SUBSET State
  BY <1>6, StateNat
<1>8. fu \in U /\ \A x \in U : fu <= x
  BY <1>4, <1>7, MinProps
<1>9. V # {} => fv \in V /\ \A x \in V : fv <= x
  BY <1>7, MinProps
<1>10. CASE V = {}
  <2>1. B' = B /\ refines' = refines
    BY <1>5, <1>10 DEF SplitBlock, Regrouped, Unmarked, Uncounted
  <2>2. \A q \in State : B[q] = fy => q \in Y
    BY <1>3, <1>6, <1>10
  <2>. QED BY <1>1, <2>1, <2>2
<1>11. CASE V # {}
  <2>. DEFINE R == NewSplitters(fy, fu, Cardinality(U), fv, Cardinality(V))
  <2>1. /\ B' = [q \in State |-> IF q \in U THEN fu ELSE IF q \in V THEN fv ELSE B[q]]
        /\ refines' = refines \cup R
    BY <1>5, <1>11 DEF SplitBlock, Regrouped, Unmarked, Uncounted
  <2>2. /\ B' = [q \in State |-> B'[q]]
        /\ \A q \in U : B'[q] = fu
        /\ \A q \in V : B'[q] = fv
        /\ \A q \in State : q \notin U /\ q \notin V => B'[q] = B[q]
    BY <1>6, <1>7, <2>1
  <2>3. B' \in Partition
    <3>. HIDE DEF U, V
    <3>1. B' \in LeastPartition(State)
      BY <1>1, <1>4, <1>6, <1>11, <2>2, StateNat, PartitionIsLeast, CutPartition
    <3>. QED BY <3>1, PartitionIsLeast
  <2>4. \A b \in Labels(Block(fy)) :
          /\ <<b, fu>> \in refines' \/ <<b, fv>> \in refines'
          /\ <<b, fy>> \in refines => <<b, fu>> \in refines' /\ <<b, fv>> \in refines'
    <3>. SUFFICES ASSUME NEW b \in Labels(Block(fy))
                  PROVE  /\ <<b, fu>> \in refines' \/ <<b, fv>> \in refines'
                         /\ <<b, fy>> \in refines =>
                              <<b, fu>> \in refines' /\ <<b, fv>> \in refines'
      OBVIOUS
    <3>1. fu = fy \/ fv = fy
      <4>1. \A q \in U \cup V : fy <= q
        BY <1>1, <1>6 DEF Partition
      <4>2. fy \in U \cup V
        BY <1>1, <1>6
      <4>3. fy \in Nat /\ fu \in Nat /\ fv \in Nat
        BY <1>7, <1>8, <1>9, <1>11, <4>2
      <4>. HIDE DEF U, V, fu, fv
      <4>. QED BY <1>8, <1>9, <1>11, <4>1, <4>2, <4>3
    <3>2. <<b, IF <<b, fy>> \in refines
                 THEN IF fu # fy THEN fu ELSE fv
                 ELSE IF Cardinality(U) < Cardinality(V) THEN fu ELSE fv>> \in refines'
      BY <2>1 DEF NewSplitters
    <3>. HIDE DEF U, V, fu, fv, R
    <3>. QED BY <2>1, <3>1, <3>2
  <2>5. \A r \in R : r \in Letter \X {fu, fv}
    <3>. SUFFICES ASSUME NEW b \in Labels(Block(fy))
                  PROVE  <<b, IF <<b, fy>> \in refines
                                THEN IF fu # fy THEN fu ELSE fv
                                ELSE IF Cardinality(U) < Cardinality(V) THEN fu ELSE fv>>
                           \in Letter \X {fu, fv}
      BY DEF NewSplitters
    <3>1. b \in Letter
      BY DEF Labels
    <3>. HIDE DEF U, V, fu, fv
    <3>. QED BY <3>1
  <2>. HIDE DEF R
  <2>6. B'[fu] = fu /\ B'[fv] = fv /\ fu \in State /\ fv \in State
    BY <1>7, <1>8, <1>9, <1>11, <2>2
  <2>. HIDE DEF U, V, fu, fv
  <2>7. fu # fv
    BY <1>6, <1>8, <1>9, <1>11
  <2>8. \A q \in State : /\ B[q] = fy <=> q \in U \/ q \in V
                         /\ q \in U <=> B[q] = fy /\ q \in Y
    BY <1>2, <1>3, <1>6 DEF Block
  <2>9. \A q \in State : B[q] = fy => B[B'[q]] = fy
    BY <1>8, <1>9, <1>11, <2>2, <2>6, <2>8
  <2>10. \A q \in State : B[q] # fy => B'[q] = B[q]
    BY <2>2, <2>8
  <2>11. \A p, q \in State : B'[p] = B'[q] <=>
              B[p] = B[q] /\ (B[p] = fy => (p \in Y <=> q \in Y))
    <3>. SUFFICES ASSUME NEW p \in State, NEW q \in State
                  PROVE  B'[p] = B'[q] <=>
                           B[p] = B[q] /\ (B[p] = fy => (p \in Y <=> q \in Y))
      OBVIOUS
    <3>1. CASE B[p] = fy /\ B[q] = fy
      BY <2>2, <2>7, <2>8, <3>1
    <3>2. CASE B[p] # fy /\ B[q] # fy
      BY <2>10, <3>2
    <3>3. CASE (B[p] = fy /\ B[q] # fy) \/ (B[p] # fy /\ B[q] = fy)
      <4>1. \A r \in State : B[B[r]] = B[r]
        BY <1>1 DEF Partition
      <4>. QED BY <2>9, <2>10, <3>3, <4>1
    <3>. QED BY <3>1, <3>2, <3>3
  <2>12. refines' \in SUBSET (Letter \X State)
    BY <1>1, <2>1, <2>5, <2>6
  <2>13. \A r \in refines' : r \in refines \/ B'[r[2]] = r[2]
    BY <2>1, <2>5, <2>6
  <2>14. \A p, q \in State : \A b \in Labels(Block(fy)) :
              B[p] = fy /\ B[q] = fy /\ B'[p] # B'[q]
                => /\ <<b, B'[p]>> \in refines' \/ <<b, B'[q]>> \in refines'
                   /\ <<b, fy>> \in refines => <<b, B'[p]>> \in refines'
    BY <2>2, <2>4, <2>8
  <2>. QED BY <2>1, <2>3, <2>9, <2>10, <2>11, <2>12, <2>13, <2>14
<1>. QED BY <1>10, <1>11

(* An iteration preserves the invariant: the splitters it adds stand in    *)
(* for the separations it no longer guarantees through bs.                 *)
LEMMA SplitInv ==
  ASSUME IInv, NEW fy \in State, SplitBlock(fy)
  PROVE  IInv'
<1>. USE DEF IInv
<1>1. /\ pc = "split" /\ pc' = "split" /\ fy \in bs /\ B[fy] = fy
      /\ start' = start /\ succ' = succ /\ finals' = finals /\ cur' = cur
      /\ mark' = mark \ Block(fy)
      /\ CC' = [CC EXCEPT ![fy] = 0]
      /\ bs' = bs \ {fy}
  BY DEF SplitBlock, Regrouped, Unmarked, Uncounted, LeadersInv, Leaders
<1>2. /\ B' \in Partition
      /\ \A q \in State : B[q] # fy => B'[q] = B[q]
      /\ \A q \in State : B[q] = fy => B[B'[q]] = fy
  BY SplitEffect
<1>3. \A p, q \in State : B'[p] = B'[q] <=>
        B[p] = B[q] /\ (B[p] = fy => (p \in Y <=> q \in Y))
  BY SplitEffect
<1>4. /\ refines \subseteq refines'
      /\ refines' \in SUBSET (Letter \X State)
      /\ \A r \in refines' : r \in refines \/ B'[r[2]] = r[2]
  BY SplitEffect
<1>5. \A p, q \in State : \A b \in Labels(Block(fy)) :
        B[p] = fy /\ B[q] = fy /\ B'[p] # B'[q]
          => /\ <<b, B'[p]>> \in refines' \/ <<b, B'[q]>> \in refines'
             /\ <<b, fy>> \in refines => <<b, B'[p]>> \in refines'
  BY SplitEffect
<1>6. Y' = Y
  BY <1>1 DEF Y, Preds
<1>7. B \in Partition /\ \A q \in State : B[q] \in State /\ B[B[q]] = B[q] /\ B[q] <= q
  BY DEF LeadersInv, Partition
<1>8. \A f \in State : B[f] = f => B'[f] = f
  <2>. SUFFICES ASSUME NEW f \in State, B[f] = f, f = fy PROVE B'[f] = f
    BY <1>2
  <2>1. B'[fy] \in State /\ B[B'[fy]] = fy /\ B'[fy] <= fy
    BY <1>1, <1>2 DEF Partition
  <2>2. fy <= B'[fy]
    BY <1>7, <2>1
  <2>3. fy \in Nat /\ B'[fy] \in Nat
    BY <2>1, StateNat
  <2>. QED BY <2>1, <2>2, <2>3
<1>9. TypeOK'
  <2>1. B' \in [State -> State]
    BY <1>2 DEF Partition
  <2>. QED BY <1>1, <1>4, <2>1 DEF TypeOK
<1>10. LeadersInv'
  BY <1>1, <1>2, <1>4, <1>8 DEF LeadersInv, Leaders, TypeOK
<1>11. FinalityInv' /\ MarksClean'
  BY <1>1, <1>3 DEF FinalityInv, MarksClean
<1>12. MarksInv'
  <2>1. PR!Saturated(B', cur'.xs)
    BY <1>1, <1>3 DEF MarksInv, PR!Saturated, PR!State, State
  <2>2. ASSUME NEW q \in State
        PROVE  IF B'[q] \in bs' THEN q \in mark' <=> q \in Y
               ELSE q \notin mark' /\ (q \in Y <=> B'[q] \in Y)
    <3>1. IF B[q] \in bs THEN q \in mark <=> q \in Y
          ELSE q \notin mark /\ (q \in Y <=> B[q] \in Y)
      BY <1>1 DEF MarksInv, Y
    <3>2. q \in mark' <=> q \in mark /\ B[q] # fy
      BY <1>1 DEF Block
    <3>3. CASE B[q] = fy
      <4>1. B'[q] \notin bs'
        <5>1. CASE B'[q] = fy
          BY <1>1, <5>1
        <5>2. CASE B'[q] # fy
          BY <1>1, <1>2, <3>3, <5>2 DEF LeadersInv, Leaders
        <5>. QED BY <5>1, <5>2
      <4>2. q \in Y <=> B'[q] \in Y
        <5>1. B'[q] \in State /\ B'[B'[q]] = B'[q]
          BY <1>2 DEF Partition
        <5>. QED BY <1>3, <3>3, <5>1
      <4>. QED BY <3>2, <3>3, <4>1, <4>2
    <3>4. CASE B[q] # fy
      BY <1>1, <1>2, <3>1, <3>2, <3>4
    <3>. QED BY <3>3, <3>4
  <2>3. ASSUME NEW f \in State
        PROVE  /\ CC'[f] = IF f \in bs' THEN Cardinality(Block(f)' \cap Y) ELSE 0
               /\ f \in bs' => Block(f)' \cap Y # {}
    <3>1. /\ CC[f] = IF f \in bs THEN Cardinality(Block(f) \cap Y) ELSE 0
          /\ f \in bs => Block(f) \cap Y # {}
      BY <1>1 DEF MarksInv, Y
    <3>2. CASE f = fy
      BY <1>1, <3>2 DEF TypeOK
    <3>3. CASE f # fy
      <4>1. f \in bs => Block(f)' = Block(f)
        <5>. SUFFICES ASSUME f \in bs, NEW q \in State PROVE B'[q] = f <=> B[q] = f
          BY DEF Block
        <5>1. B[f] = f
          BY DEF LeadersInv, Leaders
        <5>. QED BY <1>2, <3>3, <5>1
      <4>. QED BY <1>1, <3>1, <3>3, <4>1 DEF TypeOK
    <3>. QED BY <3>2, <3>3
  <2>4. /\ \A q \in State : IF B'[q] \in bs' THEN q \in mark' <=> q \in Y'
                             ELSE q \notin mark' /\ (q \in Y' <=> B'[q] \in Y')
        /\ \A f \in State :
             CC'[f] = IF f \in bs' THEN Cardinality(Block(f)' \cap Y') ELSE 0
        /\ \A f \in bs' : Block(f)' \cap Y' # {}
    BY <1>1, <1>6, <2>2, <2>3 DEF TypeOK
  <2>. QED BY <2>1, <2>4 DEF MarksInv, PR!Saturated, Y
<1>13. WorklistInv'
  <2>. SUFFICES ASSUME NEW p \in State, NEW q \in State, NEW b \in Letter,
                       B'[p] = B'[q], succ[p][b] # Undef,
                       Under(B', succ[p][b]) # Under(B', succ[q][b])
                PROVE  Pending(p, q, b)'
    BY <1>1 DEF WorklistInv, Under
  <2>. DEFINE s == succ[p][b]
              t == succ[q][b]
  <2>1. s \in State /\ t \in State \cup {Undef} /\ (t # Undef => t \in State)
    BY DEF TypeOK
  <2>2. B[p] = B[q] /\ (B[p] = fy => (p \in Y <=> q \in Y))
    BY <1>3
  <2>3. B[s] = fy => b \in Labels(Block(fy))
    BY <2>1 DEF Labels, Block, Preds
  <2>4. t \in State /\ B[t] = fy => b \in Labels(Block(fy))
    BY <2>1 DEF Labels, Block, Preds
  <2>5. CASE Under(B, s) = Under(B, t)
    <3>1. t \in State /\ B[s] = B[t] /\ B'[s] # B'[t]
      BY <1>2, <2>1, <2>5 DEF Under, State, Undef
    <3>2. B[s] = fy /\ B[t] = fy
      BY <1>2, <2>1, <3>1
    <3>3. <<b, B'[s]>> \in refines' \/ <<b, B'[t]>> \in refines'
      BY <1>5, <2>1, <2>3, <3>1, <3>2
    <3>. QED BY <1>1, <2>1, <3>1, <3>3 DEF Pending, Undef, State
  <2>6. CASE Under(B, s) # Under(B, t)
    <3>1. Pending(p, q, b)
      BY <2>2, <2>6 DEF WorklistInv
    <3>2. ASSUME NEW r \in State, r = s \/ r = t, <<b, B[r]>> \in refines
          PROVE  <<b, B'[r]>> \in refines'
      <4>1. CASE B[r] # fy
        BY <1>2, <1>4, <3>2, <4>1
      <4>2. CASE B[r] = fy
        <5>1. b \in Labels(Block(fy)) /\ <<b, fy>> \in refines
          BY <2>3, <2>4, <3>2, <4>2
        <5>2. CASE B'[r] = fy
          BY <1>4, <5>1, <5>2
        <5>3. CASE B'[r] # fy
          <6>1. B[fy] = fy /\ B'[fy] = fy
            BY <1>1, <1>8
          <6>. QED BY <1>5, <4>2, <5>1, <5>3, <6>1
        <5>. QED BY <5>2, <5>3
      <4>. QED BY <4>1, <4>2
    <3>3. ASSUME b = cur.a, B[p] \in bs, (s \in cur.xs) # (t \in cur.xs)
          PROVE  B'[p] \in bs'
      <4>1. (p \in Y) # (q \in Y)
        BY <3>3 DEF Y, Preds
      <4>2. B[p] # fy
        BY <2>2, <4>1
      <4>. QED BY <1>1, <1>2, <3>3, <4>2
    <3>. QED BY <1>1, <2>1, <3>1, <3>2, <3>3 DEF Pending
  <2>. QED BY <2>5, <2>6
<1>. QED BY <1>9, <1>10, <1>11, <1>12, <1>13

LEMMA CleanupInv == IInv /\ Cleanup => IInv'
<1>. SUFFICES ASSUME IInv, Cleanup PROVE IInv'
  OBVIOUS
<1>. USE DEF IInv
<1>1. /\ pc = "split" /\ pc' = "loop" /\ bs = {} /\ bs' = bs
      /\ start' = start /\ succ' = succ /\ finals' = finals /\ B' = B /\ refines' = refines
  BY DEF Cleanup
<1>2. mark = {} /\ \A q \in State : CC[q] = 0
  BY <1>1 DEF MarksInv, TypeOK
<1>3. mark' = {} /\ CC' = [f \in State |-> 0]
  BY <1>2 DEF Cleanup
<1>4. TypeOK'
  BY <1>1, <1>3 DEF TypeOK
<1>5. LeadersInv'
  BY <1>1 DEF LeadersInv, Leaders
<1>6. MarksClean' /\ MarksInv' /\ FinalityInv'
  BY <1>1, <1>3 DEF MarksClean, MarksInv, FinalityInv
<1>7. WorklistInv'
  BY <1>1 DEF WorklistInv, Pending, Under
<1>. QED BY <1>4, <1>5, <1>6, <1>7

LEMMA StepInv == IInv /\ [Next]_vars => IInv'
<1>. SUFFICES ASSUME IInv, [Next]_vars PROVE IInv'
  OBVIOUS
<1>1. ASSUME NEW a \in Letter, NEW fx \in State, Pick(a, fx) PROVE IInv'
  BY <1>1, PickInv
<1>2. ASSUME NEW fy \in State, SplitBlock(fy) PROVE IInv'
  BY <1>2, SplitInv
<1>3. CASE Cleanup
  BY <1>3, CleanupInv
<1>4. CASE Build
  <2>1. /\ pc = "loop" /\ pc' = "built" /\ start' = start /\ succ' = succ /\ finals' = finals /\ B' = B
        /\ refines' = refines /\ mark' = mark /\ CC' = CC /\ bs' = bs
    BY <1>4 DEF Build, NoSplitterLeft
  <2>. QED BY <2>1 DEF IInv, TypeOK, LeadersInv, Leaders, MarksClean, MarksInv,
                       FinalityInv, WorklistInv, Pending, Under
<1>5. CASE UNCHANGED vars
  <2>1. /\ pc' = pc /\ start' = start /\ succ' = succ /\ finals' = finals /\ B' = B /\ cur' = cur
        /\ refines' = refines /\ mark' = mark /\ CC' = CC /\ bs' = bs
    BY <1>5 DEF vars
  <2>2. TypeOK' /\ LeadersInv' /\ MarksClean' /\ FinalityInv'
    BY <2>1 DEF IInv, TypeOK, LeadersInv, Leaders, MarksClean, FinalityInv
  <2>3. WorklistInv'
    BY <2>1 DEF IInv, WorklistInv, Pending, Under
  <2>4. MarksInv'
    <3>1. MarksInv
      BY DEF IInv
    <3>2. Y' = Y /\ \A f \in State : Block(f)' = Block(f)
      BY <2>1 DEF Y, Preds, Block
    <3>3. bs \subseteq State
      BY DEF IInv, TypeOK
    <3>. QED BY <2>1, <3>1, <3>2, <3>3 DEF MarksInv, Y, PR!Saturated
  <2>. QED BY <2>2, <2>3, <2>4 DEF IInv
<1>6. CASE Done
  BY <1>5, <1>6 DEF Done
<1>. QED BY <1>1, <1>2, <1>3, <1>4, <1>5, <1>6 DEF Next, Step

(* The invariant holds of every behaviour of hopcroft_minimize.            *)
THEOREM Invariance == Spec => []IInv
<1>. QED BY InitInv, StepInv, PTL DEF Spec

(* Every leader, counter and splitter names a state.                       *)
THEOREM TypeCorrect == Spec => []TypeOK
<1>1. IInv => TypeOK
  BY DEF IInv
<1>. QED BY <1>1, Invariance, PTL

(* The marks and counters of the loop body are those of the splitter's old *)
(* ring, and none survives to the next iteration.                          *)
THEOREM MarksCorrect == Spec => [](MarksInv /\ MarksClean)
<1>1. IInv => MarksInv /\ MarksClean
  BY DEF IInv
<1>. QED BY <1>1, Invariance, PTL

(* Whatever still has to be separated has a splitter that will do it.      *)
THEOREM WorklistCorrect == Spec => [](LeadersInv /\ WorklistInv)
<1>1. IInv => LeadersInv /\ WorklistInv
  BY DEF IInv
<1>. QED BY <1>1, Invariance, PTL

-----------------------------------------------------------------------------
(* With no splitter pending, WorklistInv says that the blocks are stable.  *)
LEMMA EmptyWorklist ==
  ASSUME IInv, pc = "loop", refines = {}
  PROVE  PR!Stable(B)
<1>1. ASSUME NEW p \in State, NEW q \in State, B[p] = B[q], NEW b \in Letter
      PROVE  Under(B, succ[p][b]) = Under(B, succ[q][b])
  <2>1. succ[p][b] # Undef => Under(B, succ[p][b]) = Under(B, succ[q][b])
    BY <1>1 DEF IInv, WorklistInv, Pending
  <2>2. succ[q][b] # Undef => Under(B, succ[p][b]) = Under(B, succ[q][b])
    BY <1>1 DEF IInv, WorklistInv, Pending
  <2>. QED BY <2>1, <2>2 DEF Under
<1>. QED BY <1>1 DEF PR!Stable, PR!State, State, PR!Under, Under, PR!Undef, Undef,
                     IInv, FinalityInv

(* A split is a cut of the abstract algorithm, by the ring the splitter    *)
(* led when it was taken, or no change of the blocks at all.               *)
LEMMA SplitCuts ==
  ASSUME IInv, NEW fy \in State, SplitBlock(fy)
  PROVE  PR!Cut(fy, cur.a, cur.xs) \/ UNCHANGED PR!vars
<1>. USE DEF IInv
<1>. DEFINE C == PR!Class(B, fy)
            U == C \cap Y
            V == C \ Y
<1>1. /\ fy \in bs /\ pc = "split" /\ pc' = "split" /\ B[fy] = fy
      /\ start' = start /\ succ' = succ /\ finals' = finals
  BY DEF SplitBlock, Regrouped, Unmarked, Uncounted, LeadersInv, Leaders
<1>2. C = Block(fy)
  BY <1>1 DEF PR!Class, PR!State, State, Block
<1>3. U = Block(fy) \cap mark /\ V = Block(fy) \ mark
  <2>1. \A q \in Block(fy) : q \in mark <=> q \in Y
    BY <1>1 DEF MarksInv, Block, Y
  <2>. QED BY <1>2, <2>1
<1>4. Y = PR!Preds(cur.a, cur.xs)
  BY DEF Y, Preds, PR!Preds, PR!State, State
<1>5. U # {} /\ PR!Saturated(B, cur.xs)
  BY <1>1, <1>2 DEF MarksInv, Y
<1>6. CC[fy] < Cardinality(Block(fy)) <=> V # {}
  <2>1. CC[fy] = Cardinality(U)
    BY <1>1, <1>2 DEF MarksInv, Y
  <2>2. /\ IsFiniteSet(U) /\ Cardinality(U) \in Nat /\ Cardinality(C) \in Nat
        /\ Cardinality(U) <= Cardinality(C)
        /\ Cardinality(C) = Cardinality(U) => C = U
    BY <1>2, BlockFacts, FS_Subset, FS_CardinalityType
  <2>3. V = {} <=> U = C
    OBVIOUS
  <2>. QED BY <1>2, <2>1, <2>2, <2>3
<1>7. CASE V = {}
  <2>1. B' = B
    BY <1>3, <1>6, <1>7 DEF SplitBlock, Regrouped, Unmarked, Uncounted
  <2>. QED BY <1>1, <2>1 DEF PR!vars
<1>8. CASE V # {}
  <2>1. B' = [q \in State |-> IF q \in U THEN Min(U) ELSE IF q \in V THEN Min(V) ELSE B[q]]
    BY <1>3, <1>6, <1>8 DEF SplitBlock, Regrouped, Unmarked, Uncounted
  <2>. QED BY <1>1, <1>4, <1>5, <1>8, <2>1 DEF PR!Cut, PR!State, State, PR!Min, Min
<1>. QED BY <1>7, <1>8

(* Every behaviour of hopcroft_minimize is one of PartitionRefinement.     *)
THEOREM Refinement == Spec => Implements
<1>1. Init => PR!Init
  BY DEF Init, PR!Init, PR!State, State, PR!Undef, Undef, PR!Min, Min,
         PR!SameFinality, SameFinality
<1>2. IInv /\ [Next]_vars => [PR!Next]_PR!vars
  <2>. SUFFICES ASSUME IInv, [Next]_vars PROVE [PR!Next]_PR!vars
    OBVIOUS
  <2>1. ASSUME NEW a \in Letter, NEW fx \in State, Pick(a, fx) PROVE UNCHANGED PR!vars
    BY <2>1 DEF Pick, Rest, PR!vars
  <2>2. ASSUME NEW fy \in State, SplitBlock(fy) PROVE [PR!Next]_PR!vars
    <3>1. fy \in PR!State /\ cur.a \in Letter /\ cur.xs \in SUBSET PR!State
      BY <2>2 DEF SplitBlock, Regrouped, Unmarked, Uncounted, IInv, TypeOK, PR!State, State
    <3>. QED BY <2>2, <3>1, SplitCuts DEF PR!Next
  <2>3. CASE Cleanup
    BY <2>3 DEF Cleanup, PR!vars
  <2>4. CASE Build
    <3>1. PR!Stable(B)
      BY <2>4, EmptyWorklist DEF Build, NoSplitterLeft
    <3>2. PR!Finish
      BY <2>4, <3>1 DEF Build, NoSplitterLeft, PR!Finish
    <3>. QED BY <3>2 DEF PR!Next
  <2>5. CASE UNCHANGED vars
    BY <2>5 DEF vars, PR!vars
  <2>6. CASE Done
    BY <2>5, <2>6 DEF Done
  <2>. QED BY <2>1, <2>2, <2>3, <2>4, <2>5, <2>6 DEF Next, Step
<1>. QED BY <1>1, <1>2, Invariance, PTL DEF Spec, Implements, PR!Spec

(* hopcroft_minimize never separates states that an automaton with the     *)
(* same language merges, and ends with the language of the input.          *)
THEOREM Minimal == Spec => [](NeverOversplit /\ StableAtEnd)
<1>1. PR!Init => PRP!Init
  BY DEF PR!Init, PRP!Init, PR!State, PRP!State, PR!Undef, PRP!Undef, PR!Min, PRP!Min,
         PR!SameFinality, PRP!SameFinality
<1>2. [PR!Next]_PR!vars => [PRP!Next]_PRP!vars
  BY DEF PR!Next, PRP!Next, PR!vars, PRP!vars, PR!Cut, PRP!Cut, PR!Finish, PRP!Finish,
         PR!State, PRP!State, PR!Class, PRP!Class, PR!Preds, PRP!Preds, PR!Min, PRP!Min,
         PR!Saturated, PRP!Saturated, PR!Stable, PRP!Stable, PR!Under, PRP!Under,
         PR!Undef, PRP!Undef
<1>3. Implements => PRP!Spec
  BY <1>1, <1>2, PTL DEF Implements, PR!Spec, PRP!Spec
<1>4. PRP!NeverOversplit /\ PRP!StableAtEnd => NeverOversplit /\ StableAtEnd
  BY DEF NeverOversplit, StableAtEnd, PR!NeverOversplit, PRP!NeverOversplit,
         PR!StableAtEnd, PRP!StableAtEnd, PR!Partition, PRP!Partition, PR!State, PRP!State,
         PR!Stable, PRP!Stable, PR!Under, PRP!Under, PR!Undef, PRP!Undef
<1>5. PRP!Spec => []PRP!NeverOversplit
  BY NAssumption, PRP!NeverOversplits
<1>6. PRP!Spec => []PRP!StableAtEnd
  BY NAssumption, PRP!EndsStable
<1>. QED BY <1>3, <1>4, <1>5, <1>6, Refinement, PTL


-----------------------------------------------------------------------------
(* Leaders are ranked by their order: two states get one number iff they   *)
(* share a block, and the numbers are below the number of leaders.         *)
LEMMA NumberFacts ==
  ASSUME IInv
  PROVE  /\ \A q \in State : Number(q) \in 0 .. Cardinality(Leaders) - 1
         /\ \A p, q \in State : Number(p) = Number(q) <=> B[p] = B[q]
<1>. DEFINE Below(x) == {f \in Leaders : f < x}
<1>1. IsFiniteSet(Leaders) /\ Cardinality(Leaders) \in Nat
  <2>1. IsFiniteSet(State) /\ Leaders \subseteq State
    BY NAssumption, FS_Interval DEF State, Leaders
  <2>. QED BY <2>1, FS_Subset, FS_CardinalityType
<1>2. \A q \in State : B[q] \in Leaders /\ B[q] \in Nat
  BY StateNat DEF IInv, LeadersInv, Partition, Leaders
<1>3. ASSUME NEW x
      PROVE  /\ IsFiniteSet(Below(x)) /\ Cardinality(Below(x)) \in Nat
             /\ Cardinality(Below(x)) <= Cardinality(Leaders)
             /\ Cardinality(Below(x)) = Cardinality(Leaders) => Below(x) = Leaders
  BY <1>1, FS_Subset, FS_CardinalityType
<1>4. ASSUME NEW q \in State
      PROVE  Number(q) \in 0 .. Cardinality(Leaders) - 1
  <2>1. B[q] \notin Below(B[q]) /\ B[q] \in Leaders
    BY <1>2
  <2>2. Cardinality(Below(B[q])) < Cardinality(Leaders)
    <3>. HIDE DEF Below
    <3>. QED BY <1>1, <1>3, <2>1
  <2>3. Number(q) = Cardinality(Below(B[q]))
    BY DEF Number
  <2>4. Cardinality(Below(B[q])) \in Nat
    BY <1>3
  <2>. HIDE DEF Below
  <2>. QED BY <1>1, <2>2, <2>3, <2>4
<1>5. ASSUME NEW p \in State, NEW q \in State, B[p] < B[q]
      PROVE  Number(p) # Number(q)
  <2>1. Below(B[p]) \subseteq Below(B[q])
    <3>1. Leaders \subseteq Nat
      BY StateNat DEF Leaders
    <3>2. B[p] \in Nat /\ B[q] \in Nat
      BY <1>2
    <3>3. \A f \in Leaders : f < B[p] => f < B[q]
      BY <1>5, <3>1, <3>2
    <3>. QED BY <3>3
  <2>2. B[p] \in Below(B[q]) /\ B[p] \notin Below(B[p])
    BY <1>2, <1>5
  <2>3. Cardinality(Below(B[p])) # Cardinality(Below(B[q]))
    <3>. HIDE DEF Below
    <3>. QED BY <1>3, <2>1, <2>2, FS_Subset
  <2>. QED BY <2>3 DEF Number
<1>6. ASSUME NEW p \in State, NEW q \in State, Number(p) = Number(q)
      PROVE  B[p] = B[q]
  BY <1>2, <1>5, <1>6
<1>7. ASSUME NEW p \in State, NEW q \in State, B[p] = B[q]
      PROVE  Number(p) = Number(q)
  BY <1>7 DEF Number
<1>. QED BY <1>4, <1>6, <1>7

(* The automaton of the blocks simulates the old one, because the blocks   *)
(* are stable when it is built.                                            *)
LEMMA BuildFaithful == IInv /\ Build => OutputFaithful'
<1>. SUFFICES ASSUME IInv, Build PROVE OutputFaithful'
  OBVIOUS
<1>1. /\ pc = "loop" /\ refines = {} /\ pc' = "built"
      /\ start' = start /\ succ' = succ /\ finals' = finals /\ B' = B
      /\ out' = [start  |-> Number(start),
                 finals |-> {Number(f) : f \in Leaders \cap finals},
                 adj    |-> {<<Number(e[1]), e[2], Number(succ[e[1]][e[2]])>> :
                               e \in {d \in State \X Letter :
                                        succ[d[1]][d[2]] # Undef}},
                 related |-> [i \in 0 .. Cardinality(Leaders) - 1 |->
                                {q \in State : Number(q) = i}]]
  BY DEF Build, NoSplitterLeft
<1>2. /\ \A q \in State : Number(q) \in 0 .. Cardinality(Leaders) - 1
      /\ \A p, q \in State : Number(p) = Number(q) <=> B[p] = B[q]
  BY NumberFacts
<1>3. PR!Stable(B)
  BY <1>1, EmptyWorklist
<1>4. \A p, q \in State : B[p] = B[q] =>
        /\ p \in finals <=> q \in finals
        /\ \A a \in Letter : Under(B, succ[p][a]) = Under(B, succ[q][a])
  BY <1>3 DEF PR!Stable, PR!State, State, PR!Under, Under, PR!Undef, Undef
<1>5. /\ succ \in [State -> [Letter -> State \cup {Undef}]]
      /\ \A q \in State : B[q] \in State /\ B[B[q]] = B[q]
      /\ Undef \notin State
  BY DEF IInv, TypeOK, LeadersInv, Partition, State, Undef
<1>. DEFINE new == 0 .. Cardinality(Leaders) - 1
            Group(i) == {q \in State : Number(q) = i}
            F == {Number(f) : f \in Leaders \cap finals}
            A == {<<Number(e[1]), e[2], Number(succ[e[1]][e[2]])>> :
                    e \in {d \in State \X Letter : succ[d[1]][d[2]] # Undef}}
            Targets(i, a) == {e[3] : e \in {d \in A : d[1] = i /\ d[2] = a}}
<1>6. /\ out'.start = Number(start) /\ out'.finals = F /\ out'.adj = A
      /\ DOMAIN (out'.related) = new
      /\ \A i \in new : out'.related[i] = Group(i)
  BY <1>1
<1>7. start \in State /\ start' = start
  BY <1>1 DEF IInv, TypeOK
<1>8. ASSUME NEW q \in State
      PROVE  q \in finals <=> Number(q) \in F
  <2>1. ASSUME q \in finals PROVE Number(q) \in F
    <3>1. B[q] \in Leaders \cap finals /\ Number(B[q]) = Number(q)
      BY <1>2, <1>4, <1>5, <2>1 DEF Leaders
    <3>. QED BY <3>1
  <2>2. ASSUME NEW f \in Leaders \cap finals, Number(q) = Number(f) PROVE q \in finals
    BY <1>2, <1>4, <2>2 DEF Leaders
  <2>. QED BY <2>1, <2>2
<1>9. ASSUME NEW i, NEW a, NEW t
      PROVE  t \in Targets(i, a) <=>
               \E p \in State : /\ a \in Letter /\ succ[p][a] # Undef
                                /\ i = Number(p) /\ t = Number(succ[p][a])
  <2>1. ASSUME NEW p \in State, a \in Letter, succ[p][a] # Undef,
               i = Number(p), t = Number(succ[p][a])
        PROVE  t \in Targets(i, a)
    <3>1. <<p, a>> \in {d \in State \X Letter : succ[d[1]][d[2]] # Undef}
      BY <2>1
    <3>2. <<i, a, t>> \in A
      BY <2>1, <3>1
    <3>. HIDE DEF A
    <3>. QED BY <3>2
  <2>2. ASSUME t \in Targets(i, a)
        PROVE  \E p \in State : /\ a \in Letter /\ succ[p][a] # Undef
                                /\ i = Number(p) /\ t = Number(succ[p][a])
    <3>1. PICK d \in A : d[1] = i /\ d[2] = a /\ t = d[3]
      BY <2>2
    <3>2. PICK e \in State \X Letter : /\ succ[e[1]][e[2]] # Undef
                                       /\ d = <<Number(e[1]), e[2], Number(succ[e[1]][e[2]])>>
      OBVIOUS
    <3>. QED BY <3>1, <3>2
  <2>. QED BY <2>1, <2>2
<1>. HIDE DEF F, A, Targets
<1>10. ASSUME NEW q \in State, NEW a \in Letter, succ[q][a] = Undef
       PROVE  Targets(Number(q), a) = {}
  <2>. SUFFICES ASSUME NEW t, t \in Targets(Number(q), a) PROVE FALSE
    OBVIOUS
  <2>1. PICK p \in State : succ[p][a] # Undef /\ Number(q) = Number(p)
    BY <1>9
  <2>2. Under(B, succ[p][a]) = Under(B, succ[q][a])
    BY <1>2, <1>4, <2>1
  <2>3. succ[p][a] \in State
    BY <1>5, <2>1
  <2>. QED BY <1>5, <1>10, <2>1, <2>2, <2>3 DEF Under
<1>11. ASSUME NEW q \in State, NEW a \in Letter, succ[q][a] # Undef
       PROVE  /\ succ[q][a] \in State
              /\ Targets(Number(q), a) = {Number(succ[q][a])}
  <2>1. succ[q][a] \in State
    BY <1>5, <1>11
  <2>2. Number(succ[q][a]) \in Targets(Number(q), a)
    BY <1>9, <1>11
  <2>3. ASSUME NEW t, t \in Targets(Number(q), a) PROVE t = Number(succ[q][a])
    <3>1. PICK p \in State : /\ succ[p][a] # Undef /\ Number(q) = Number(p)
                             /\ t = Number(succ[p][a])
      BY <1>9, <2>3
    <3>2. Under(B, succ[p][a]) = Under(B, succ[q][a])
      BY <1>2, <1>4, <3>1
    <3>3. succ[p][a] \in State /\ B[succ[p][a]] = B[succ[q][a]]
      BY <1>5, <1>11, <3>1, <3>2 DEF Under
    <3>. QED BY <1>2, <2>1, <3>1, <3>3
  <2>. QED BY <2>1, <2>2, <2>3
<1>. HIDE DEF new, Group
<1>12. \A q \in State : Number(q) \in new /\ \A i \in new : q \in Group(i) <=> Number(q) = i
  BY <1>2 DEF new, Group
<1>. DEFINE TargetsOf(i, a) == {e[3] : e \in {d \in out'.adj : d[1] = i /\ d[2] = a}}
<1>13. \A i, a : TargetsOf(i, a) = Targets(i, a)
  BY <1>6 DEF Targets
<1>. HIDE DEF TargetsOf
<1>14. ASSUME NEW i \in new, NEW q \in State, q \in out'.related[i]
       PROVE  /\ \A j \in new : q \in out'.related[j] => i = j
              /\ q \in finals' <=> i \in out'.finals
              /\ \A a \in Letter :
                   IF succ'[q][a] = Undef
                     THEN TargetsOf(i, a) = {}
                     ELSE \E j \in new : /\ succ'[q][a] \in out'.related[j]
                                         /\ TargetsOf(i, a) = {j}
  <2>1. i = Number(q)
    BY <1>6, <1>12, <1>14
  <2>2. \A j \in new : q \in out'.related[j] => i = j
    BY <1>6, <1>12, <2>1
  <2>3. q \in finals' <=> i \in out'.finals
    BY <1>1, <1>6, <1>8, <2>1
  <2>4. ASSUME NEW a \in Letter, succ[q][a] = Undef PROVE TargetsOf(i, a) = {}
    BY <1>10, <1>13, <2>1, <2>4
  <2>5. ASSUME NEW a \in Letter, succ[q][a] # Undef
        PROVE  \E j \in new : succ[q][a] \in out'.related[j] /\ TargetsOf(i, a) = {j}
    BY <1>6, <1>11, <1>12, <1>13, <2>1, <2>5
  <2>. QED BY <1>1, <2>2, <2>3, <2>4, <2>5
<1>15. \A q \in State : \E i \in new : q \in out'.related[i]
  BY <1>6, <1>12
<1>16. start' \in out'.related[out'.start]
  BY <1>6, <1>7, <1>12
<1>17. out'.related[out'.start] = Group(Number(start)) /\ new = DOMAIN (out'.related)
  BY <1>6, <1>7, <1>12
<1>18. /\ \A q \in State : \E i \in DOMAIN (out'.related) : q \in out'.related[i]
       /\ start' \in out'.related[out'.start]
       /\ \A i \in DOMAIN (out'.related), q \in State : q \in out'.related[i] =>
            /\ \A j \in DOMAIN (out'.related) : q \in out'.related[j] => i = j
            /\ q \in finals' <=> i \in out'.finals
            /\ \A a \in Letter :
                 IF succ'[q][a] = Undef
                   THEN TargetsOf(i, a) = {}
                   ELSE \E j \in DOMAIN (out'.related) :
                          /\ succ'[q][a] \in out'.related[j]
                          /\ TargetsOf(i, a) = {j}
  BY <1>14, <1>15, <1>16, <1>17
<1>. QED BY <1>18 DEF OutputFaithful, TargetsOf

(* relate() is handed disjoint groups that cover the old states, and each  *)
(* new state starts, accepts and moves as every old state it stands for.   *)
THEOREM OutputFaithfulAlways == Spec => []OutputFaithful
<1>1. Init => OutputFaithful
  BY DEF Init, OutputFaithful
<1>2. IInv /\ OutputFaithful /\ [Next]_vars => OutputFaithful'
  <2>. SUFFICES ASSUME IInv, OutputFaithful, [Next]_vars PROVE OutputFaithful'
    OBVIOUS
  <2>1. ASSUME NEW a \in Letter, NEW fx \in State, Pick(a, fx) PROVE OutputFaithful'
    BY <2>1 DEF Pick, OutputFaithful
  <2>2. ASSUME NEW fy \in State, SplitBlock(fy) PROVE OutputFaithful'
    BY <2>2 DEF SplitBlock, OutputFaithful
  <2>3. CASE Cleanup
    BY <2>3 DEF Cleanup, OutputFaithful
  <2>4. CASE Build
    BY <2>4, BuildFaithful
  <2>5. CASE UNCHANGED vars
    <3>1. pc' = pc /\ start' = start /\ succ' = succ /\ finals' = finals /\ out' = out
      BY <2>5 DEF vars
    <3>. DEFINE Targets(o, i, a) == {e[3] : e \in {d \in o.adj : d[1] = i /\ d[2] = a}}
                Faithful(o, st, s, f) ==
                  /\ \A q \in State : \E i \in DOMAIN o.related : q \in o.related[i]
                  /\ st \in o.related[o.start]
                  /\ \A i \in DOMAIN o.related, q \in State : q \in o.related[i] =>
                       /\ \A j \in DOMAIN o.related : q \in o.related[j] => i = j
                       /\ q \in f <=> i \in o.finals
                       /\ \A a \in Letter :
                            IF s[q][a] = Undef
                              THEN Targets(o, i, a) = {}
                              ELSE \E j \in DOMAIN o.related :
                                     /\ s[q][a] \in o.related[j]
                                     /\ Targets(o, i, a) = {j}
    <3>2. OutputFaithful <=> (pc = "built" => Faithful(out, start, succ, finals))
      BY Zenon DEF OutputFaithful
    <3>3. OutputFaithful' <=> (pc' = "built" => Faithful(out', start', succ', finals'))
      BY Zenon DEF OutputFaithful
    <3>. HIDE DEF Faithful
    <3>. QED BY <3>1, <3>2, <3>3
  <2>6. CASE Done
    BY <2>5, <2>6 DEF Done
  <2>. QED BY <2>1, <2>2, <2>3, <2>4, <2>5, <2>6 DEF Next, Step
<1>. QED BY <1>1, <1>2, Invariance, PTL DEF Spec

-----------------------------------------------------------------------------
(* The work done.  A state is in a block no larger than the splitter that  *)
(* held it last, with a letter, and than half of it while its block is     *)
(* pending as a splitter with that letter.                                 *)
Size(q) == Cardinality(Block(B[q]))
WorkInv ==
  /\ last \in [State -> [Letter -> Nat]]
  /\ \A q \in State, a \in Letter :
       /\ Size(q) <= last[q][a]
       /\ <<a, B[q]>> \in refines => 2 * Size(q) <= last[q][a]

LEMMA InitWork == WorkInit => WorkInv
<1>. SUFFICES ASSUME WorkInit PROVE WorkInv
  OBVIOUS
<1>1. /\ N \in Nat /\ State = 0 .. N - 1
      /\ last = [q \in State |-> [a \in Letter |-> 2 * N]]
  BY NAssumption DEF WorkInit, State
<1>2. 2 * N \in Nat /\ last \in [State -> [Letter -> Nat]]
  BY <1>1
<1>3. ASSUME NEW q \in State PROVE Size(q) \in Nat /\ Size(q) <= N
  <2>1. IsFiniteSet(State) /\ Cardinality(State) = N
    BY <1>1, FS_Interval
  <2>2. Block(B[q]) \in SUBSET State /\ Size(q) \in Nat
    BY BlockFacts DEF Size
  <2>. QED BY <2>1, <2>2, FS_Subset DEF Size
<1>. QED BY <1>1, <1>2, <1>3 DEF WorkInv

(* A splitter taken is not pending any more, and has the size remembered.  *)
LEMMA PickWork ==
  ASSUME IInv, WorkInv, NEW a \in Letter, NEW fx \in State, Pick(a, fx), Walk(a, fx)
  PROVE  WorkInv'
<1>1. B' = B /\ refines' = refines \ {<<a, fx>>}
  BY DEF Pick, Rest
<1>2. \A q \in State : Size(q)' = Size(q) /\ Size(q) \in Nat
  BY <1>1, BlockFacts DEF Size, Block
<1>3. PICK n : n = Cardinality(Block(fx)) /\ n \in Nat
  BY BlockFacts
<1>4. last' = [q \in State |-> IF q \in Block(fx) THEN [last[q] EXCEPT ![a] = n] ELSE last[q]]
  BY <1>3 DEF Walk
<1>5. /\ last \in [State -> [Letter -> Nat]] /\ last' \in [State -> [Letter -> Nat]]
      /\ \A q \in State, b \in Letter :
           last'[q][b] = IF B[q] = fx /\ b = a THEN n ELSE last[q][b]
  BY <1>3, <1>4 DEF WorkInv, Block
<1>6. ASSUME NEW q \in State, NEW b \in Letter
      PROVE  /\ Size(q) <= last'[q][b]
             /\ <<b, B[q]>> \in refines' => 2 * Size(q) <= last'[q][b]
  <2>1. CASE B[q] = fx /\ b = a
    <3>1. Size(q) = n /\ last'[q][b] = n
      BY <1>3, <1>5, <2>1 DEF Size
    <3>. QED BY <1>1, <1>3, <2>1, <3>1
  <2>2. CASE ~ (B[q] = fx /\ b = a)
    BY <1>1, <1>5, <2>2 DEF WorkInv
  <2>. QED BY <2>1, <2>2
<1>. QED BY <1>1, <1>2, <1>5, <1>6 DEF WorkInv

(* Of a block split, both halves are pending if it was, else the smaller.  *)
LEMMA SplitWork ==
  ASSUME IInv, WorkInv, NEW fy \in State, SplitBlock(fy), last' = last
  PROVE  WorkInv'
<1>. DEFINE X == Block(fy)
            U == X \cap mark
            V == X \ mark
            fu == Min(U)
            fv == Min(V)
<1>1. /\ fy \in bs /\ pc = "split" /\ B[fy] = fy /\ fy \in X
      /\ B \in [State -> State] /\ \A q \in State : B[B[q]] = B[q]
      /\ \A r \in refines : B[r[2]] = r[2]
      /\ last \in [State -> [Letter -> Nat]]
  BY DEF SplitBlock, IInv, LeadersInv, Leaders, TypeOK, Block, Partition, WorkInv
<1>2. \A q \in X : q \in State /\ B[q] = fy /\ (q \in mark <=> q \in Y)
  BY <1>1 DEF IInv, MarksInv, Block, Y
<1>3. /\ IsFiniteSet(U) /\ IsFiniteSet(V) /\ Cardinality(U) \in Nat /\ Cardinality(V) \in Nat
      /\ Cardinality(X) \in Nat /\ Cardinality(X) = Cardinality(U) + Cardinality(V)
  <2>1. IsFiniteSet(X) /\ Cardinality(X) \in Nat /\ U \subseteq X /\ V \subseteq X
    BY BlockFacts
  <2>2. /\ IsFiniteSet(U) /\ IsFiniteSet(V) /\ Cardinality(U) \in Nat /\ Cardinality(V) \in Nat
    BY <2>1, FS_Subset, FS_CardinalityType
  <2>3. U \cup V = X /\ U \cap V = {}
    OBVIOUS
  <2>4. Cardinality(U \cup V) = Cardinality(U) + Cardinality(V) - Cardinality(U \cap V)
    BY <2>2, FS_Union
  <2>5. Cardinality(U \cap V) = 0 /\ Cardinality(U \cup V) = Cardinality(X)
    BY <2>3, FS_EmptySet
  <2>6. Cardinality(X) = Cardinality(U) + Cardinality(V)
    <3>. HIDE DEF U, V, X
    <3>. QED BY <2>2, <2>4, <2>5
  <2>. QED BY <2>1, <2>2, <2>6
<1>4. ASSUME NEW q \in State
      PROVE  {p \in State : B'[p] = B'[q]} =
               IF B[q] # fy THEN Block(B[q]) ELSE IF q \in mark THEN U ELSE V
  <2>1. \A p \in State : B'[p] = B'[q] <=> B[p] = B[q] /\ (B[p] = fy => (p \in Y <=> q \in Y))
    BY SplitEffect
  <2>3. \A p \in State : p \in X <=> B[p] = fy
    BY DEF Block
  <2>4. CASE B[q] # fy
    BY <2>1, <2>4 DEF Block
  <2>5. CASE B[q] = fy
    <3>1. \A p \in State : B'[p] = B'[q] <=> p \in X /\ (p \in mark <=> q \in mark)
      BY <1>2, <2>1, <2>3, <2>5
    <3>2. \A p \in X : p \in State
      BY <1>2
    <3>. QED BY <2>5, <3>1, <3>2
  <2>. QED BY <2>4, <2>5
<1>5. ASSUME NEW q \in State, NEW a \in Letter
      PROVE  /\ Size(q) \in Nat /\ last[q][a] \in Nat
             /\ Size(q) <= last[q][a] /\ (<<a, B[q]>> \in refines => 2 * Size(q) <= last[q][a])
  BY <1>1, BlockFacts DEF WorkInv, Size
<1>6. \A q \in State : Size(q)' = Cardinality({p \in State : B'[p] = B'[q]})
  BY DEF Size, Block, State
<1>7. CASE ~ CC[fy] < Cardinality(X)
  <2>1. B' = B /\ refines' = refines
    BY <1>7 DEF SplitBlock
  <2>2. \A q \in State : Size(q)' = Size(q)
    BY <2>1 DEF Size, Block
  <2>. QED BY <2>1, <2>2 DEF WorkInv
<1>8. CASE CC[fy] < Cardinality(X)
  <2>. DEFINE R == NewSplitters(fy, fu, Cardinality(U), fv, Cardinality(V))
  <2>1. B' = Regrouped(U, fu, V, fv) /\ refines' = refines \cup R
    BY <1>8 DEF SplitBlock
  <2>2. U # {} /\ V # {}
    <3>1. U = Block(fy) \cap Y
      BY <1>2
    <3>2. CC[fy] = Cardinality(U) /\ U # {}
      BY <1>1, <3>1 DEF IInv, MarksInv, Y
    <3>3. V = {} => U = X
      OBVIOUS
    <3>. HIDE DEF U, V, X
    <3>. QED BY <1>3, <1>8, <3>2, <3>3
  <2>3. fu \in U /\ fv \in V
    <3>1. U \in SUBSET Nat /\ V \in SUBSET Nat
      BY <1>2, StateNat
    <3>. QED BY <2>2, <3>1, MinProps
  <2>4. fu # fv /\ B[fu] = fy /\ B[fv] = fy
    BY <1>2, <2>3
  <2>5. ASSUME NEW a \in Letter, NEW f, <<a, f>> \in R
        PROVE  \/ <<a, fy>> \in refines /\ f \in {fu, fv}
               \/ f = fu /\ Cardinality(U) < Cardinality(V)
               \/ f = fv /\ ~ Cardinality(U) < Cardinality(V)
    <3>1. f = IF <<a, fy>> \in refines
                THEN IF fu # fy THEN fu ELSE fv
                ELSE IF Cardinality(U) < Cardinality(V) THEN fu ELSE fv
      BY <2>5 DEF NewSplitters
    <3>. HIDE DEF U, V, fu, fv, X, R
    <3>. QED BY <3>1
  <2>6. ASSUME NEW q \in State
        PROVE  /\ B[q] # fy => B'[q] = B[q]
               /\ B[q] = fy /\ q \in mark => B'[q] = fu
               /\ B[q] = fy /\ q \notin mark => B'[q] = fv
    BY <2>1 DEF Regrouped, Block
  <2>. HIDE DEF R, fu, fv
  <2>7. ASSUME NEW q \in State, NEW a \in Letter
        PROVE  /\ Size(q)' <= last[q][a]
               /\ <<a, B'[q]>> \in refines' => 2 * Size(q)' <= last[q][a]
    <3>1. CASE B[q] # fy
      <4>1. Size(q)' = Size(q) /\ B'[q] = B[q]
        BY <1>4, <1>6, <2>6, <3>1 DEF Size
      <4>2. <<a, B[q]>> \notin R
        BY <1>1, <2>4, <2>5, <3>1
      <4>. QED BY <1>5, <2>1, <4>1, <4>2
    <3>2. CASE B[q] = fy
      <4>. HIDE DEF U, V, X
      <4>1. Size(q) = Cardinality(X)
        BY <3>2 DEF Size, X
      <4>2. Size(q)' = IF q \in mark THEN Cardinality(U) ELSE Cardinality(V)
        BY <1>4, <1>6, <3>2
      <4>3. CASE <<a, fy>> \in refines
        BY <1>3, <1>5, <3>2, <4>1, <4>2, <4>3
      <4>4. CASE <<a, fy>> \notin refines
        <5>1. <<a, fu>> \notin refines /\ <<a, fv>> \notin refines
          BY <1>1, <2>4, <4>4
        <5>2. <<a, fu>> \in refines' => Cardinality(U) < Cardinality(V)
          BY <2>1, <2>4, <2>5, <4>4, <5>1
        <5>3. <<a, fv>> \in refines' => ~ Cardinality(U) < Cardinality(V)
          BY <2>1, <2>4, <2>5, <4>4, <5>1
        <5>4. Size(q) <= last[q][a] /\ last[q][a] \in Nat
          BY <1>5
        <5>5. CASE q \in mark
          BY <1>3, <2>6, <3>2, <4>1, <4>2, <5>2, <5>4, <5>5
        <5>6. CASE q \notin mark
          BY <1>3, <2>6, <3>2, <4>1, <4>2, <5>3, <5>4, <5>6
        <5>. QED BY <5>5, <5>6
      <4>. QED BY <4>3, <4>4
    <3>. QED BY <3>1, <3>2
  <2>. QED BY <1>1, <2>7 DEF WorkInv
<1>. QED BY <1>7, <1>8

LEMMA StepWork == IInv /\ WorkInv /\ [WorkNext]_<<vars, last>> => WorkInv'
<1>. SUFFICES ASSUME IInv, WorkInv, [WorkNext]_<<vars, last>> PROVE WorkInv'
  OBVIOUS
<1>1. ASSUME NEW a \in Letter, NEW fx \in State, Pick(a, fx), Walk(a, fx) PROVE WorkInv'
  BY <1>1, PickWork
<1>2. ASSUME NEW fy \in State, SplitBlock(fy), last' = last PROVE WorkInv'
  BY <1>2, SplitWork
<1>3. ASSUME B' = B, refines' = refines, last' = last PROVE WorkInv'
  BY <1>3 DEF WorkInv, Size, Block
<1>4. CASE (Cleanup \/ Build \/ Done) /\ UNCHANGED last
  BY <1>3, <1>4 DEF Cleanup, Build, Done, vars
<1>5. CASE UNCHANGED <<vars, last>>
  BY <1>3, <1>5 DEF vars
<1>. QED BY <1>1, <1>2, <1>4, <1>5 DEF WorkNext

(* Whenever a state is walked again with the same letter, as part of a     *)
(* splitter, that has at most half the states it had the last time         *)
(* (fsa.cc 624-630): a state is walked about log N times for a letter.     *)
THEOREM HalvesAlways == WorkSpec => HalvesWork
<1>1. WorkSpec => Spec
  <2>1. WorkInit => Init
    BY DEF WorkInit
  <2>2. [WorkNext]_<<vars, last>> => [Next]_vars
    BY DEF WorkNext, Next, Step
  <2>. QED BY <2>1, <2>2, PTL DEF WorkSpec, Spec
<1>2. WorkSpec => []WorkInv
  BY <1>1, InitWork, StepWork, Invariance, PTL DEF WorkSpec
<1>3. WorkInv => \A a \in Letter, fx \in State :
                   Pick(a, fx) => \A q \in Block(fx) : 2 * Cardinality(Block(fx)) <= last[q][a]
  <2>. SUFFICES ASSUME WorkInv, NEW a \in Letter, NEW fx \in State, Pick(a, fx),
                       NEW q \in Block(fx)
                PROVE  2 * Cardinality(Block(fx)) <= last[q][a]
    OBVIOUS
  <2>1. q \in State /\ B[q] = fx /\ <<a, fx>> \in refines
    BY DEF Block, Pick
  <2>. QED BY <2>1 DEF WorkInv, Size
<1>. QED BY <1>2, <1>3, PTL DEF WorkSpec, HalvesWork
=============================================================================
