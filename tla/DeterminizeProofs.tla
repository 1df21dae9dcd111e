-------------------------- MODULE DeterminizeProofs --------------------------
(***************************************************************************)
(* For every automaton and all further starts: Fsa::determinize builds the *)
(* subset construction.  Subsets are numbered without a gap, each label    *)
(* leads where it leads in the automaton given, edges are sorted and as    *)
(* wide as they can be, and the closure of each start is built.            *)
(***************************************************************************)
EXTENDS Determinize, LeastLemmas, SequenceTheorems

-----------------------------------------------------------------------------
(* The automaton given.                                                    *)
GivenInv ==
  /\ start \in State /\ finals \subseteq State /\ starts \in Seq(State)
  /\ adj \in [State -> {es \in Seq(Edge) : Sorted(es)}]

LEMMA EdgeProps ==
  ASSUME NEW e \in Edge
  PROVE  /\ e[1] \in Int /\ e[2] \in Nat /\ e[3] \in State
         /\ -1 <= e[1] /\ e[1] < e[2] /\ e[2] <= Limit
         /\ e[1] = -1 => e[2] = 0
BY DeterminizeAssumption DEF Edge, State

LEMMA AdjProps ==
  ASSUME GivenInv, NEW u \in State
  PROVE  /\ adj[u] \in Seq(Edge)
         /\ Len(adj[u]) \in Nat /\ DOMAIN adj[u] = 1 .. Len(adj[u])
         /\ \A j \in DOMAIN adj[u] : adj[u][j] \in Edge
         /\ \A j, l \in DOMAIN adj[u] : j < l => adj[u][j][1] <= adj[u][l][1]
<1>1. adj[u] \in {es \in Seq(Edge) : Sorted(es)}
  BY DEF GivenInv
<1>2. adj[u] \in Seq(Edge) /\ Sorted(adj[u])
  BY <1>1
<1>3. Len(adj[u]) \in Nat /\ DOMAIN adj[u] = 1 .. Len(adj[u])
  BY <1>2
<1>4. \A j \in DOMAIN adj[u] : adj[u][j] \in Edge
  BY <1>2, <1>3
<1>. QED BY <1>2, <1>3, <1>4 DEF Sorted

LEMMA StateFinite == IsFiniteSet(State) /\ Cardinality(State) = N /\ N \in Nat
BY FS_Interval, DeterminizeAssumption DEF State

-----------------------------------------------------------------------------
(* epsilon_closure stops at the first edge that is no epsilon, but there   *)
(* are none behind it.                                                     *)
LEMMA EpsilonFromAll ==
  ASSUME GivenInv, NEW u \in State
  PROVE  EpsilonFrom(u) = {adj[u][j][3] : j \in {j \in DOMAIN adj[u] : adj[u][j][1] = -1}}
<1>1. ASSUME NEW j \in DOMAIN adj[u]
      PROVE  (\A h \in 1 .. j : adj[u][h][1] = -1) <=> adj[u][j][1] = -1
  <2>1. j \in Nat /\ j \in 1 .. j /\ 1 .. j \subseteq DOMAIN adj[u]
    BY AdjProps
  <2>2. ASSUME adj[u][j][1] = -1, NEW h \in 1 .. j PROVE adj[u][h][1] = -1
    <3>1. h \in DOMAIN adj[u] /\ h \in Nat
      BY <2>1
    <3>2. -1 <= adj[u][h][1] /\ adj[u][h][1] \in Int
      BY <3>1, AdjProps, EdgeProps
    <3>3. h < j => adj[u][h][1] <= adj[u][j][1]
      BY <3>1, AdjProps
    <3>. QED BY <2>1, <2>2, <3>1, <3>2, <3>3
  <2>. QED BY <2>1, <2>2
<1>. QED BY <1>1 DEF EpsilonFrom

LEMMA EpsilonFromStates ==
  ASSUME GivenInv, NEW u \in State
  PROVE  EpsilonFrom(u) \subseteq State
BY EpsilonFromAll, AdjProps, EdgeProps

LEMMA ClosedByFrom ==
  ASSUME GivenInv, NEW Y \in SUBSET State
  PROVE  EpsilonClosed(Y) <=> \A u \in Y : EpsilonFrom(u) \subseteq Y
BY EpsilonFromAll DEF EpsilonClosed

(* The search, one round after the other.                                  *)
Round(S) == S \cup UNION {EpsilonFrom(u) : u \in S}

LEMMA RoundsDefined ==
  ASSUME NEW X, NEW n \in Nat
  PROVE  \E f : f = [j \in 0 .. n |-> IF j = 0 THEN X ELSE Round(f[j - 1])]
<1>. DEFINE P(k) == \E f : f = [j \in 0 .. k |-> IF j = 0 THEN X ELSE Round(f[j - 1])]
            B == {k \in Nat : ~ P(k)}
<1>1. SUFFICES ASSUME B # {} PROVE FALSE
  OBVIOUS
<1>2. PICK k \in B : \A i \in B : k <= i
  <2>. HIDE DEF P
  <2>. QED BY <1>1, MinProps
<1>3. k # 0
  <2>1. SUFFICES ASSUME k = 0 PROVE P(0)
    BY <1>2
  <2>. DEFINE f == [j \in 0 .. 0 |-> X]
  <2>2. f = [j \in 0 .. 0 |-> IF j = 0 THEN X ELSE Round(f[j - 1])]
    OBVIOUS
  <2>. QED BY <2>2
<1>4. k - 1 \in Nat /\ P(k - 1)
  <2>. HIDE DEF P
  <2>. QED BY <1>2, <1>3
<1>5. PICK f : f = [j \in 0 .. k - 1 |-> IF j = 0 THEN X ELSE Round(f[j - 1])]
  BY <1>4
<1>. DEFINE g == [j \in 0 .. k |-> IF j = k THEN Round(f[k - 1]) ELSE f[j]]
<1>6. ASSUME NEW j \in 0 .. k PROVE g[j] = IF j = 0 THEN X ELSE Round(g[j - 1])
  <2>1. CASE j = k
    BY <1>3, <1>4, <2>1
  <2>2. CASE j # k
    <3>1. j \in 0 .. k - 1 /\ g[j] = f[j]
      BY <1>4, <2>2
    <3>2. j # 0 => g[j - 1] = f[j - 1]
      BY <1>4, <2>2
    <3>. QED BY <1>5, <3>1, <3>2
  <2>. QED BY <2>1, <2>2
<1>7. g = [j \in 0 .. k |-> IF j = 0 THEN X ELSE Round(g[j - 1])]
  <2>1. g = [j \in 0 .. k |-> g[j]]
    OBVIOUS
  <2>. HIDE DEF g
  <2>. QED BY <1>6, <2>1
<1>8. P(k)
  BY <1>7
<1>. QED BY <1>2, <1>8

LEMMA ClosureByRounds ==
  ASSUME NEW X
  PROVE  \E f : /\ f = [j \in 0 .. N |-> IF j = 0 THEN X ELSE Round(f[j - 1])]
                /\ Closure(X) = f[N]
<1>. DEFINE f == CHOOSE g : g = [j \in 0 .. N |-> IF j = 0 THEN X ELSE Round(g[j - 1])]
<1>1. f = [j \in 0 .. N |-> IF j = 0 THEN X ELSE Round(f[j - 1])]
  BY RoundsDefined, DeterminizeAssumption, SMTT(30)
<1>2. Closure(X) = f[N]
  BY DEF Closure, Round
<1>. QED BY <1>1, <1>2

LEMMA RoundInState ==
  ASSUME GivenInv, NEW S \in SUBSET State
  PROVE  Round(S) \in SUBSET State /\ S \subseteq Round(S)
BY EpsilonFromStates DEF Round

(* A search of N rounds has found all that epsilons lead to.               *)
LEMMA ClosureLeast ==
  ASSUME GivenInv, NEW X \in SUBSET State
  PROVE  /\ Closure(X) = LeastClosed(X)
         /\ Closure(X) \in SUBSET State /\ X \subseteq Closure(X)
<1>1. PICK f : /\ f = [j \in 0 .. N |-> IF j = 0 THEN X ELSE Round(f[j - 1])]
               /\ Closure(X) = f[N]
  BY ClosureByRounds
<1>2. N \in Nat \ {0} /\ f[0] = X /\ \A j \in 1 .. N : f[j] = Round(f[j - 1])
  BY <1>1, DeterminizeAssumption
<1>3. \A j \in 0 .. N : f[j] \in SUBSET State /\ X \subseteq f[j]
  <2>. DEFINE B == {j \in 0 .. N : ~ (f[j] \in SUBSET State /\ X \subseteq f[j])}
  <2>1. SUFFICES ASSUME B # {} PROVE FALSE
    OBVIOUS
  <2>0. B \in SUBSET Nat
    BY <1>2
  <2>2. PICK k \in B : \A j \in B : k <= j
    BY <2>0, <2>1, MinProps
  <2>3. k # 0 /\ k - 1 \in 0 .. N /\ k \in 1 .. N /\ k - 1 \notin B
    BY <1>2, <2>2
  <2>4. f[k - 1] \in SUBSET State /\ X \subseteq f[k - 1]
    BY <2>3
  <2>5. f[k] \in SUBSET State /\ X \subseteq f[k]
    BY <1>2, <2>3, <2>4, RoundInState
  <2>. QED BY <2>2, <2>5
<1>4. ASSUME NEW Y \in SUBSET State, X \subseteq Y, EpsilonClosed(Y)
      PROVE  f[N] \subseteq Y
  <2>. DEFINE B == {j \in 0 .. N : ~ (f[j] \subseteq Y)}
  <2>1. SUFFICES ASSUME B # {} PROVE FALSE
    BY <1>2
  <2>0. B \in SUBSET Nat
    BY <1>2
  <2>2. PICK k \in B : \A j \in B : k <= j
    BY <2>0, <2>1, MinProps
  <2>3. k # 0 /\ k \in 1 .. N /\ k - 1 \in 0 .. N /\ k - 1 \notin B
    BY <1>2, <1>4, <2>2
  <2>4. f[k - 1] \subseteq Y
    BY <2>3
  <2>5. \A u \in Y : EpsilonFrom(u) \subseteq Y
    BY <1>4, ClosedByFrom
  <2>6. f[k] \subseteq Y
    BY <1>2, <2>3, <2>4, <2>5 DEF Round
  <2>. QED BY <2>2, <2>6
<1>5. Round(f[N]) = f[N]
  <2>1. SUFFICES ASSUME Round(f[N]) # f[N] PROVE FALSE
    OBVIOUS
  <2>2. \A j \in 0 .. N : Round(f[j]) # f[j]
    <3>1. SUFFICES ASSUME NEW j \in 0 .. N, Round(f[j]) = f[j] PROVE FALSE
      OBVIOUS
    <3>. DEFINE B == {l \in j .. N : f[l] # f[j]}
    <3>2. B # {}
      BY <1>2, <2>1, <3>1
    <3>3. B \subseteq Nat
      BY <1>2
    <3>4. PICK k \in B : \A l \in B : k <= l
      BY <3>2, <3>3, MinProps
    <3>5. k # j /\ k \in 1 .. N /\ k - 1 \in j .. N /\ k - 1 \notin B
      BY <1>2, <3>4
    <3>. QED BY <1>2, <3>1, <3>4, <3>5
  <2>3. \A j \in 0 .. N : IsFiniteSet(f[j]) /\ Cardinality(f[j]) \in Nat
    BY <1>3, StateFinite, FS_Subset, FS_CardinalityType
  <2>4. \A j \in 1 .. N : Cardinality(f[j - 1]) < Cardinality(f[j])
    <3>1. TAKE j \in 1 .. N
    <3>2. j - 1 \in 0 .. N /\ j \in 0 .. N
      BY <1>2
    <3>3. f[j - 1] \subseteq f[j] /\ f[j - 1] # f[j]
      BY <1>2, <1>3, <2>2, <3>2, RoundInState
    <3>4. /\ Cardinality(f[j - 1]) <= Cardinality(f[j])
          /\ Cardinality(f[j]) = Cardinality(f[j - 1]) => f[j] = f[j - 1]
      BY <2>3, <3>2, <3>3, FS_Subset
    <3>5. Cardinality(f[j]) \in Nat /\ Cardinality(f[j - 1]) \in Nat
      BY <2>3, <3>2
    <3>. QED BY <3>3, <3>4, <3>5
  <2>5. \A j \in 0 .. N : j <= Cardinality(f[j])
    <3>. DEFINE B == {l \in 0 .. N : ~ (l <= Cardinality(f[l]))}
    <3>1. SUFFICES ASSUME B # {} PROVE FALSE
      OBVIOUS
    <3>0. B \in SUBSET Nat
      BY <1>2
    <3>2. PICK k \in B : \A l \in B : k <= l
      BY <3>0, <3>1, MinProps
    <3>3. 0 \in 0 .. N /\ k \in 0 .. N /\ Cardinality(f[0]) \in Nat /\ Cardinality(f[k]) \in Nat
      BY <1>2, <2>3, <3>2
    <3>4. k # 0 /\ k - 1 \in 0 .. N /\ k \in 1 .. N /\ k - 1 \notin B
      BY <1>2, <3>2, <3>3
    <3>5. Cardinality(f[k - 1]) \in Nat
      BY <2>3, <3>4
    <3>6. k - 1 <= Cardinality(f[k - 1]) /\ Cardinality(f[k - 1]) < Cardinality(f[k])
      BY <2>4, <3>4
    <3>. QED BY <3>2, <3>3, <3>4, <3>5, <3>6
  <2>6. Cardinality(f[N]) = N /\ f[N] \in SUBSET State
    <3>1. N \in 0 .. N
      BY <1>2
    <3>2. Cardinality(f[N]) \in Nat /\ f[N] \in SUBSET State /\ N <= Cardinality(f[N])
      BY <1>3, <2>3, <2>5, <3>1
    <3>3. Cardinality(f[N]) <= Cardinality(State)
      BY <3>2, StateFinite, FS_Subset
    <3>. QED BY <1>2, <3>2, <3>3, StateFinite
  <2>7. f[N] = State
    BY <2>6, StateFinite, FS_Subset
  <2>. QED BY <2>1, <2>6, <2>7, RoundInState
<1>6. N \in 0 .. N /\ f[N] \in SUBSET State /\ X \subseteq f[N]
  BY <1>2, <1>3
<1>7. EpsilonClosed(f[N])
  <2>1. \A u \in f[N] : EpsilonFrom(u) \subseteq f[N]
    BY <1>5 DEF Round
  <2>. QED BY <1>6, <2>1, ClosedByFrom
<1>8. f[N] = LeastClosed(X)
  BY <1>4, <1>6, <1>7 DEF LeastClosed
<1>. QED BY <1>1, <1>6, <1>8

-----------------------------------------------------------------------------
(* Numbers.  Subsets on the stack have no edges yet, all others do.        *)
Handled == DOMAIN m \ ToSet(st)

NumbersInv ==
  /\ m \in [DOMAIN m -> Nat] /\ DOMAIN m \subseteq SUBSET State
  /\ IsInjective(m) /\ Ids = 0 .. Cardinality(DOMAIN m) - 1
  /\ st \in Seq(SUBSET State) /\ IsInjective(st) /\ ToSet(st) \subseteq DOMAIN m
  /\ DOMAIN radj = {m[X] : X \in Handled}
  /\ rfinals = {m[X] : X \in {X \in Handled : X \cap finals # {}}}
  /\ id \in DOMAIN radj \cup {None}

(* The further starts come before the first subset is processed.           *)
StartsInv ==
  /\ further \in 0 .. Len(starts)
  /\ further < Len(starts) => id = None /\ st # <<>>
  /\ LeastClosed({start}) \in DOMAIN m /\ m[LeastClosed({start})] = 0
  /\ \A j \in 1 .. further : LeastClosed({starts[j]}) \in DOMAIN m

LEMMA SubsetsFinite ==
  ASSUME NumbersInv
  PROVE  IsFiniteSet(DOMAIN m) /\ Cardinality(DOMAIN m) \in Nat
BY StateFinite, FS_SUBSET, FS_Subset, FS_CardinalityType DEF NumbersInv

(* A subset gets the next number, unless it has one.                       *)
LEMMA NumberStep ==
  ASSUME NumbersInv, NEW V \in SUBSET State, m' = Numbered(V), st' = Pushed(V),
         DOMAIN (radj') = DOMAIN radj, UNCHANGED <<given, rfinals, id>>
  PROVE  /\ NumbersInv'
         /\ Handled' = Handled
         /\ V \in DOMAIN (m') /\ DOMAIN m \subseteq DOMAIN (m')
         /\ \A X \in DOMAIN m : (m')[X] = m[X]
         /\ Ids \subseteq Ids' /\ (m')[V] \in Ids'
         /\ st' # <<>> \/ st' = st
         /\ st # <<>> => st' # <<>>
<1>. DEFINE n == Cardinality(DOMAIN m)
<1>1. IsFiniteSet(DOMAIN m) /\ n \in Nat
  BY SubsetsFinite
<1>2. CASE V \in DOMAIN m
  <2>1. m' = [z \in DOMAIN m |-> m[z]] /\ st' = st
    BY <1>2 DEF Numbered, Emplaced, Pushed
  <2>2. m' = m
    BY <2>1 DEF NumbersInv
  <2>3. Ids' = Ids /\ Handled' = Handled
    BY <2>1, <2>2 DEF Ids, Handled, Range
  <2>4. m[V] \in Ids
    BY <1>2 DEF Ids, Range
  <2>. QED BY <1>2, <2>1, <2>2, <2>3, <2>4 DEF NumbersInv, given
<1>3. CASE V \notin DOMAIN m
  <2>1. st' = Append(st, V)
    BY <1>3 DEF Pushed
  <2>2. DOMAIN (m') = DOMAIN m \cup {V} /\ (m')[V] = n /\ \A X \in DOMAIN m : (m')[X] = m[X]
    BY <1>3 DEF Numbered, Emplaced
  <2>3. st \in Seq(SUBSET State) /\ Len(st) \in Nat /\ DOMAIN st = 1 .. Len(st)
    BY DEF NumbersInv
  <2>4. /\ st' \in Seq(SUBSET State) /\ DOMAIN (st') = 1 .. Len(st) + 1
        /\ (st')[Len(st) + 1] = V /\ \A j \in 1 .. Len(st) : (st')[j] = st[j]
        /\ st' # <<>>
    BY <2>1, <2>3
  <2>5. ToSet(st') = ToSet(st) \cup {V}
    BY <2>3, <2>4 DEF ToSet
  <2>6. Handled' = Handled
    BY <1>3, <2>2, <2>5 DEF Handled
  <2>7. Ids = {m[X] : X \in DOMAIN m} /\ Ids' = {(m')[X] : X \in DOMAIN (m')} /\ Ids = 0 .. n - 1
    BY DEF NumbersInv, Ids, Range
  <2>8. Ids' = Ids \cup {n}
    BY <2>2, <2>7
  <2>9. Cardinality(DOMAIN (m')) = n + 1
    BY <1>1, <1>3, <2>2, FS_AddElement
  <2>10. Ids' = 0 .. Cardinality(DOMAIN (m')) - 1
    <3>1. 0 .. n = (0 .. n - 1) \cup {n} /\ n + 1 - 1 = n
      BY <1>1
    <3>. QED BY <2>7, <2>8, <2>9, <3>1, SMTT(30)
  <2>11. \A X \in DOMAIN m : m[X] \in 0 .. n - 1
    BY <2>7
  <2>12. IsInjective(m')
    BY <1>1, <2>2, <2>11 DEF IsInjective, NumbersInv
  <2>13. \A j \in DOMAIN st : st[j] \in DOMAIN m
    BY DEF NumbersInv, ToSet
  <2>14. IsInjective(st')
    BY <1>3, <2>3, <2>4, <2>13 DEF IsInjective, NumbersInv
  <2>15. m' \in [DOMAIN (m') -> Nat] /\ DOMAIN (m') \subseteq SUBSET State
    <3>1. m' = [z \in DOMAIN (m') |-> (m')[z]]
      BY DEF Numbered, Emplaced
    <3>2. \A z \in DOMAIN (m') : (m')[z] \in Nat
      BY <1>1, <2>2 DEF NumbersInv
    <3>. QED BY <2>2, <3>1, <3>2 DEF NumbersInv
  <2>16. {(m')[X] : X \in Handled} = {m[X] : X \in Handled}
    BY <2>2 DEF Handled
  <2>17. {(m')[X] : X \in {X \in Handled : X \cap finals # {}}}
           = {m[X] : X \in {X \in Handled : X \cap finals # {}}}
    BY <2>2 DEF Handled
  <2>18. DOMAIN (radj') = {(m')[X] : X \in Handled'}
    BY <2>6, <2>16 DEF NumbersInv
  <2>19. rfinals' = {(m')[X] : X \in {X \in Handled' : X \cap finals' # {}}}
    BY <2>6, <2>17 DEF NumbersInv, given
  <2>20. id' \in DOMAIN (radj') \cup {None}
    BY DEF NumbersInv
  <2>21. ToSet(st') \subseteq DOMAIN (m')
    BY <2>2, <2>5 DEF NumbersInv
  <2>22. NumbersInv'
    BY <2>4, <2>10, <2>12, <2>14, <2>15, <2>18, <2>19, <2>20, <2>21 DEF NumbersInv
  <2>. QED BY <2>2, <2>4, <2>6, <2>8, <2>22
<1>. QED BY <1>2, <1>3

-----------------------------------------------------------------------------
(* Events.                                                                 *)
LEMMA EdgesOfProps ==
  ASSUME GivenInv, NEW X \in SUBSET State, NEW p \in EdgesOf(X)
  PROVE  /\ p = <<p[1], p[2]>> /\ p[1] \in X /\ p[2] \in DOMAIN adj[p[1]]
         /\ At(p) \in Edge
<1>1. p = <<p[1], p[2]>> /\ p[1] \in X /\ p[2] \in DOMAIN adj[p[1]]
  BY DEF EdgesOf
<1>. QED BY <1>1, AdjProps DEF At

LEMMA EdgesOfFinite ==
  ASSUME GivenInv, NEW X \in SUBSET State
  PROVE  IsFiniteSet(EdgesOf(X))
<1>. DEFINE T == {{u} \X DOMAIN adj[u] : u \in X}
            f == [u \in X |-> {u} \X DOMAIN adj[u]]
<1>1. IsFiniteSet(X)
  BY StateFinite, FS_Subset
<1>2. f \in Surjection(X, T)
  BY DEF Surjection
<1>3. IsFiniteSet(T)
  BY <1>1, <1>2, FS_Surjection
<1>4. ASSUME NEW u \in X PROVE IsFiniteSet({u} \X DOMAIN adj[u])
  <2>1. u \in State /\ Len(adj[u]) \in Nat /\ DOMAIN adj[u] = 1 .. Len(adj[u])
    BY AdjProps
  <2>2. IsFiniteSet(1 .. Len(adj[u]))
    BY <2>1, FS_Interval
  <2>3. IsFiniteSet({u})
    BY FS_Singleton
  <2>. QED BY <2>1, <2>2, <2>3, FS_Product
<1>5. IsFiniteSet(UNION T)
  BY <1>3, <1>4, FS_UNION
<1>. QED BY <1>5 DEF EdgesOf

LEMMA EventProps ==
  ASSUME GivenInv, NEW X \in SUBSET State, NEW p \in EdgesOf(X)
  PROVE  /\ Opening(p) \in Events(X) /\ Closing(p) \in Events(X)
         /\ Opening(p)[1] = At(p)[1] /\ Opening(p)[2] = At(p)[3] /\ Opening(p)[2] >= 0
         /\ Closing(p)[1] = At(p)[2] /\ Closing(p)[2] = -At(p)[3] - 1 /\ Closing(p)[2] < 0
         /\ -Closing(p)[2] - 1 = At(p)[3]
         /\ Before(Opening(p), Closing(p))
<1>1. At(p) \in Edge
  BY EdgesOfProps
<1>2. /\ At(p)[1] \in Int /\ At(p)[2] \in Nat /\ At(p)[3] \in Int /\ At(p)[3] >= 0
      /\ At(p)[1] < At(p)[2]
  BY <1>1, EdgeProps, DeterminizeAssumption DEF State
<1>3. Opening(p) \in Events(X) /\ Closing(p) \in Events(X)
  BY DEF Events
<1>4. Opening(p)[1] = At(p)[1] /\ Opening(p)[2] = At(p)[3]
  BY DEF Opening
<1>5. Closing(p)[1] = At(p)[2] /\ Closing(p)[2] = -At(p)[3] - 1
  BY DEF Closing
<1>. QED BY <1>2, <1>3, <1>4, <1>5 DEF Before

LEMMA EventsDistinct ==
  ASSUME GivenInv, NEW X \in SUBSET State, NEW p \in EdgesOf(X), NEW q \in EdgesOf(X)
  PROVE  /\ Opening(p) = Opening(q) => p = q
         /\ Closing(p) = Closing(q) => p = q
         /\ Opening(p) # Closing(q)
<1>1. p = <<p[1], p[2]>> /\ q = <<q[1], q[2]>>
  BY EdgesOfProps
<1>2. /\ Opening(p)[3] = p[1] /\ Opening(p)[4] = p[2] /\ Opening(q)[3] = q[1] /\ Opening(q)[4] = q[2]
      /\ Closing(p)[3] = p[1] /\ Closing(p)[4] = p[2] /\ Closing(q)[3] = q[1] /\ Closing(q)[4] = q[2]
  BY DEF Opening, Closing
<1>3. Opening(p)[2] >= 0 /\ Closing(q)[2] < 0 /\ Opening(p)[2] \in Int /\ Closing(q)[2] \in Int
  <2>1. At(p)[3] \in Int /\ At(q)[3] \in Int
    BY EdgesOfProps, EdgeProps, DeterminizeAssumption DEF State
  <2>. QED BY <2>1, EventProps
<1>4. Opening(p) # Closing(q)
  BY <1>3
<1>. QED BY <1>1, <1>2, <1>4

LEMMA EventType ==
  ASSUME GivenInv, NEW X \in SUBSET State, NEW e \in Events(X)
  PROVE  /\ e[1] \in Int /\ e[2] \in Int /\ -1 <= e[1] /\ e[1] <= Limit
         /\ \E p \in EdgesOf(X) : e = Opening(p) \/ e = Closing(p)
<1>1. PICK p \in EdgesOf(X) : e = Opening(p) \/ e = Closing(p)
  BY DEF Events
<1>2. /\ At(p)[1] \in Int /\ At(p)[2] \in Nat /\ At(p)[3] \in Int
      /\ -1 <= At(p)[1] /\ At(p)[1] < At(p)[2] /\ At(p)[2] <= Limit
  BY EdgesOfProps, EdgeProps, DeterminizeAssumption DEF State
<1>. QED BY <1>1, <1>2, EventProps, DeterminizeAssumption

-----------------------------------------------------------------------------
(* The sweep over the events of X.  An edge is open between its events;    *)
(* live counts the open edges, and the labels below last are dealt with.   *)
Open(X, v) ==
  {p \in EdgesOf(X) : At(p)[3] = v /\ Opening(p) \notin events /\ Closing(p) \in events}

Reads(es, a) == {es[j][3] : j \in {j \in DOMAIN es : Has(es[j], a)}}
Followed(n, X, a) ==
  LET to == Move(X, a)
  IN /\ to = {} => Reads(radj[n], a) = {}
     /\ to # {} => LeastClosed(to) \in DOMAIN m /\ Reads(radj[n], a) = {m[LeastClosed(to)]}

EventsInv(X) ==
  /\ events \subseteq Events(X)
  /\ \A f \in Events(X) \ events : f[1] <= last /\ \A e \in events : ~ Before(e, f)
  /\ \A e \in events : last = 0 \/ last <= e[1]
Sweep(X) ==
  /\ EventsInv(X)
  /\ \A v \in State : live[v] = Cardinality(Open(X, v))
  /\ \A j \in DOMAIN radj[id] : radj[id][j][2] <= last
  /\ \A a \in 0 .. last - 1 : Followed(id, X, a)

SweepInv ==
  /\ last \in 0 .. Limit /\ live \in [State -> Nat]
  /\ \A X \in DOMAIN m : m[X] = id => Sweep(X)

Canonical(es) ==
  /\ \A j \in DOMAIN es : es[j][1] < es[j][2]
  /\ \A j \in 2 .. Len(es) : es[j - 1][2] < es[j][1] \/ (es[j - 1][2] = es[j][1] /\ es[j - 1][3] # es[j][3])
EdgesInto(R) == (0 .. Limit - 1) \X (0 .. Limit) \X R
NewEdge == EdgesInto(Ids)
EdgesInv == \A n \in DOMAIN radj : radj[n] \in Seq(NewEdge) /\ Canonical(radj[n])

FollowedInv == \A X \in Handled : m[X] # id => \A a \in 0 .. Limit - 1 : Followed(m[X], X, a)

IInv == GivenInv /\ NumbersInv /\ StartsInv /\ SweepInv /\ EdgesInv /\ FollowedInv

-----------------------------------------------------------------------------
(* The labels up to the next event lead to the targets of the open edges.  *)
LEMMA TargetsMoved ==
  ASSUME GivenInv, SweepInv, NEW X \in SUBSET State, Sweep(X),
         NEW e \in events, \A f \in events : ~ Before(f, e),
         NEW a \in last .. e[1] - 1
  PROVE  Move(X, a) = Targets
<1>1. \A v \in State : IsFiniteSet(Open(X, v))
  BY EdgesOfFinite, FS_Subset DEF Open
<1>2. ASSUME NEW v \in State PROVE live[v] > 0 <=> Open(X, v) # {}
  <2>1. Cardinality(Open(X, v)) \in Nat /\ (Cardinality(Open(X, v)) = 0 <=> Open(X, v) = {})
    BY <1>1, FS_EmptySet, FS_CardinalityType
  <2>. QED BY <2>1 DEF Sweep
<1>3. e \in Events(X) /\ e[1] \in Int /\ e[2] \in Int /\ last \in Nat /\ last <= a /\ a < e[1] /\ a \in Int
  BY EventType DEF Sweep, EventsInv, SweepInv
<1>4. ASSUME NEW p \in EdgesOf(X)
      PROVE  Has(At(p), a) <=> Opening(p) \notin events /\ Closing(p) \in events
  <2>1. /\ At(p)[1] \in Int /\ At(p)[2] \in Nat
        /\ Opening(p)[1] = At(p)[1] /\ Closing(p)[1] = At(p)[2]
        /\ Opening(p) \in Events(X) /\ Closing(p) \in Events(X)
    BY EdgesOfProps, EdgeProps, EventProps
  <2>2. Opening(p) \notin events => At(p)[1] <= last
    BY <2>1 DEF Sweep, EventsInv
  <2>3. Opening(p) \in events => e[1] <= At(p)[1]
    BY <1>3, <2>1 DEF Before
  <2>4. Closing(p) \notin events => At(p)[2] <= last
    BY <2>1 DEF Sweep, EventsInv
  <2>5. Closing(p) \in events => e[1] <= At(p)[2]
    BY <1>3, <2>1 DEF Before
  <2>. QED BY <1>3, <2>1, <2>2, <2>3, <2>4, <2>5 DEF Has
<1>5. Move(X, a) = {At(p)[3] : p \in {p \in EdgesOf(X) : Opening(p) \notin events /\ Closing(p) \in events}}
  BY <1>4 DEF Move
<1>6. \A p \in EdgesOf(X) : At(p)[3] \in State
  BY EdgesOfProps, EdgeProps
<1>. QED BY <1>2, <1>5, <1>6 DEF Targets, Open

(* Extending the edges of a state from last to next.                       *)
LEMMA ExtendedProps ==
  ASSUME NEW R, NEW es \in Seq(EdgesInto(R)), Canonical(es),
         \A j \in DOMAIN es : es[j][2] <= last,
         last \in 0 .. Limit, NEW next \in 0 .. Limit, last < next, NEW w \in R
  PROVE  /\ Extended(es, next, w) \in Seq(EdgesInto(R))
         /\ Canonical(Extended(es, next, w))
         /\ \A j \in DOMAIN Extended(es, next, w) : Extended(es, next, w)[j][2] <= next
         /\ \A a \in 0 .. last - 1 : Reads(Extended(es, next, w), a) = Reads(es, a)
         /\ \A a \in last .. next - 1 : Reads(Extended(es, next, w), a) = {w}
<1>. DEFINE l == Len(es)
            ext == Extended(es, next, w)
<1>0. PICK E : E = EdgesInto(R)
  OBVIOUS
<1>1. es \in Seq(E) /\ l \in Nat /\ DOMAIN es = 1 .. l /\ \A j \in 1 .. l : es[j] \in E
  BY <1>0
<1>2. /\ Limit \in Nat /\ last \in Nat /\ next \in Nat /\ last <= Limit - 1
      /\ \A j \in 1 .. l : /\ es[j][1] \in Int /\ es[j][2] \in Int /\ es[j][3] \in R
                           /\ es[j][1] >= 0 /\ es[j][1] <= Limit - 1
                           /\ es[j][1] < es[j][2] /\ es[j][2] <= last
  <2>1. Limit \in Nat /\ last \in Nat /\ next \in Nat /\ last <= Limit - 1
    BY DeterminizeAssumption
  <2>2. ASSUME NEW j \in 1 .. l
        PROVE  /\ es[j][1] \in Int /\ es[j][2] \in Int /\ es[j][3] \in R
               /\ es[j][1] >= 0 /\ es[j][1] <= Limit - 1
    <3>1. es[j] \in (0 .. Limit - 1) \X (0 .. Limit) \X R
      BY <1>0, <1>1 DEF EdgesInto
    <3>. QED BY <2>1, <3>1
  <2>. QED BY <1>1, <2>1, <2>2 DEF Canonical
<1>3. CASE es # <<>> /\ es[l][2] = last /\ es[l][3] = w
  <2>1. l \in 1 .. l /\ l >= 1
    BY <1>1, <1>3
  <2>2. ext = [es EXCEPT ![l] = [es[l] EXCEPT ![2] = next]]
    BY <1>3 DEF Extended
  <2>3. /\ [es[l] EXCEPT ![2] = next] = <<es[l][1], next, w>>
        /\ <<es[l][1], next, w>> \in E
    BY <1>0, <1>1, <1>2, <1>3, <2>1 DEF EdgesInto
  <2>4. /\ ext \in Seq(E) /\ Len(ext) = l /\ DOMAIN ext = 1 .. l
        /\ ext[l] = <<es[l][1], next, w>>
        /\ \A j \in 1 .. l : j # l => ext[j] = es[j]
    <3>1. PICK b \in E : b = [es[l] EXCEPT ![2] = next] /\ b = <<es[l][1], next, w>>
      BY <2>3
    <3>2. ext = [es EXCEPT ![l] = b]
      BY <2>2, <3>1
    <3>3. ext \in Seq(E) /\ Len(ext) = l /\ DOMAIN ext = 1 .. l
          /\ ext[l] = b /\ \A j \in 1 .. l : j # l => ext[j] = es[j]
      BY <1>1, <2>1, <3>2
    <3>. QED BY <3>1, <3>3
  <2>. HIDE DEF ext
  <2>5. ext[l][1] = es[l][1] /\ ext[l][2] = next /\ ext[l][3] = w
    <3>1. ext[l] = <<es[l][1], next, w>>
      BY <2>4
    <3>. QED BY <3>1
  <2>6. \A j \in 1 .. l : ext[j][1] < ext[j][2] /\ ext[j][2] <= next
    <3>1. TAKE j \in 1 .. l
    <3>2. CASE j = l
      BY <1>2, <2>1, <2>5, <3>2
    <3>3. CASE j # l
      <4>1. ext[j] = es[j]
        BY <2>4, <3>3
      <4>. QED BY <1>2, <4>1
    <3>. QED BY <3>2, <3>3
  <2>7. Canonical(ext)
    <3>1. ASSUME NEW j \in 2 .. l
          PROVE  ext[j - 1][2] < ext[j][1] \/ (ext[j - 1][2] = ext[j][1] /\ ext[j - 1][3] # ext[j][3])
      <4>1. es[j - 1][2] < es[j][1] \/ (es[j - 1][2] = es[j][1] /\ es[j - 1][3] # es[j][3])
        BY DEF Canonical
      <4>2. j - 1 \in 1 .. l /\ j - 1 # l /\ j \in 1 .. l
        BY <1>1
      <4>3. ext[j - 1] = es[j - 1] /\ ext[j][1] = es[j][1] /\ ext[j][3] = es[j][3]
        BY <1>3, <2>4, <2>5, <4>2
      <4>. QED BY <4>1, <4>3
    <3>. QED BY <2>4, <2>6, <3>1 DEF Canonical
  <2>8. ASSUME NEW a \in 0 .. last - 1 PROVE Reads(ext, a) = Reads(es, a)
    <3>1. \A j \in 1 .. l : (Has(ext[j], a) <=> Has(es[j], a)) /\ ext[j][3] = es[j][3]
      <4>1. TAKE j \in 1 .. l
      <4>2. CASE j = l
        BY <1>2, <1>3, <2>1, <2>5, <4>2 DEF Has
      <4>3. CASE j # l
        <5>1. ext[j] = es[j]
          BY <2>4, <4>3
        <5>. QED BY <5>1 DEF Has
      <4>. QED BY <4>2, <4>3
    <3>2. DOMAIN ext = 1 .. l
      BY <2>4
    <3>. QED BY <1>1, <3>1, <3>2 DEF Reads
  <2>9. ASSUME NEW a \in last .. next - 1 PROVE Reads(ext, a) = {w}
    <3>1. \A j \in 1 .. l : Has(ext[j], a) <=> j = l
      <4>1. TAKE j \in 1 .. l
      <4>2. CASE j = l
        BY <1>2, <1>3, <2>1, <2>5, <4>2 DEF Has
      <4>3. CASE j # l
        <5>1. ext[j] = es[j]
          BY <2>4, <4>3
        <5>. QED BY <1>2, <4>3, <5>1 DEF Has
      <4>. QED BY <4>2, <4>3
    <3>2. DOMAIN ext = 1 .. l
      BY <2>4
    <3>. QED BY <2>1, <2>5, <3>1, <3>2 DEF Reads
  <2>. QED BY <2>4, <2>6, <2>7, <2>8, <2>9, <1>0 DEF ext
<1>4. CASE ~ (es # <<>> /\ es[l][2] = last /\ es[l][3] = w)
  <2>1. ext = Append(es, <<last, next, w>>)
    BY <1>4 DEF Extended
  <2>2. <<last, next, w>> \in E
    BY <1>0, <1>2 DEF EdgesInto
  <2>3. /\ ext \in Seq(E) /\ Len(ext) = l + 1 /\ DOMAIN ext = 1 .. l + 1
        /\ ext[l + 1] = <<last, next, w>> /\ \A j \in 1 .. l : ext[j] = es[j]
    BY <1>1, <2>1, <2>2
  <2>. HIDE DEF ext
  <2>4. ext[l + 1][1] = last /\ ext[l + 1][2] = next /\ ext[l + 1][3] = w
    BY <2>3
  <2>5. \A j \in 1 .. l + 1 : j = l + 1 \/ j \in 1 .. l
    BY <1>1
  <2>6. \A j \in 1 .. l + 1 : ext[j][1] < ext[j][2] /\ ext[j][2] <= next
    <3>1. TAKE j \in 1 .. l + 1
    <3>2. CASE j = l + 1
      BY <1>2, <2>4, <3>2
    <3>3. CASE j \in 1 .. l
      <4>1. ext[j] = es[j]
        BY <2>3, <3>3
      <4>. QED BY <1>2, <3>3, <4>1
    <3>. QED BY <2>5, <3>2, <3>3
  <2>7. Canonical(ext)
    <3>1. ASSUME NEW j \in 2 .. l + 1
          PROVE  ext[j - 1][2] < ext[j][1] \/ (ext[j - 1][2] = ext[j][1] /\ ext[j - 1][3] # ext[j][3])
      <4>1. CASE j = l + 1
        <5>1. l \in 1 .. l /\ l >= 2 - 1 /\ j - 1 = l /\ es # <<>>
          BY <1>1, <4>1
        <5>2. ext[l] = es[l] /\ es[l][2] <= last
          BY <1>2, <2>3, <5>1
        <5>. QED BY <1>2, <1>4, <2>4, <4>1, <5>1, <5>2
      <4>2. CASE j # l + 1
        <5>1. j \in 2 .. l /\ j - 1 \in 1 .. l /\ j \in 1 .. l
          BY <1>1, <4>2
        <5>. QED BY <2>3, <5>1 DEF Canonical
      <4>. QED BY <4>1, <4>2
    <3>. QED BY <2>3, <2>6, <3>1 DEF Canonical
  <2>8. ASSUME NEW a \in 0 .. last - 1 PROVE Reads(ext, a) = Reads(es, a)
    <3>1. ~ Has(ext[l + 1], a)
      BY <1>2, <2>4 DEF Has
    <3>2. /\ DOMAIN ext = 1 .. l + 1 /\ DOMAIN es = 1 .. l /\ \A j \in 1 .. l : j \in 1 .. l + 1
          /\ \A j \in 1 .. l : ext[j] = es[j]
      BY <1>1, <2>3
    <3>. QED BY <2>5, <3>1, <3>2 DEF Reads
  <2>9. ASSUME NEW a \in last .. next - 1 PROVE Reads(ext, a) = {w}
    <3>1. \A j \in 1 .. l : ~ Has(ext[j], a)
      <4>1. TAKE j \in 1 .. l
      <4>2. ext[j] = es[j]
        BY <2>3
      <4>. QED BY <1>2, <4>2 DEF Has
    <3>2. Has(ext[l + 1], a) /\ l + 1 \in 1 .. l + 1
      BY <1>1, <1>2, <2>4 DEF Has
    <3>. QED BY <2>3, <2>4, <2>5, <3>1, <3>2 DEF Reads
  <2>. QED BY <2>3, <2>6, <2>7, <2>8, <2>9, <1>0 DEF ext
<1>. QED BY <1>3, <1>4

-----------------------------------------------------------------------------
(* An event opens or closes an edge.                                       *)
LEMMA EventsStep ==
  ASSUME GivenInv, SweepInv, NEW X \in SUBSET State, Sweep(X), NEW e \in events,
         \A f \in events : ~ Before(f, e),
         events' = events \ {e}, adj' = adj,
         last' = IF last < e[1] THEN e[1] ELSE last
  PROVE  EventsInv(X)' /\ last' \in 0 .. Limit /\ last <= last'
<1>1. e \in Events(X) /\ events \subseteq Events(X)
  BY DEF Sweep, EventsInv
<1>2. e[1] \in Int /\ e[2] \in Int /\ e[1] <= Limit /\ last \in 0 .. Limit /\ Limit \in Nat
  BY <1>1, EventType, DeterminizeAssumption DEF SweepInv
<1>3. last' \in 0 .. Limit /\ last <= last' /\ e[1] <= last'
  BY <1>2
<1>4. Events(X)' = Events(X)
  BY DEF Events, EdgesOf, Opening, Closing, At
<1>5. \A f \in events : f[1] \in Int /\ f[2] \in Int
  BY <1>1, EventType
<1>6. \A f \in Events(X) \ events : f[1] \in Int /\ f[1] <= last /\ \A g \in events : ~ Before(g, f)
  BY EventType DEF Sweep, EventsInv
<1>7. ASSUME NEW f \in Events(X) \ events'
      PROVE  f[1] <= last' /\ \A g \in events' : ~ Before(g, f)
  <2>1. CASE f = e
    BY <1>3, <2>1
  <2>2. CASE f # e
    <3>1. f \in Events(X) \ events
      BY <2>2
    <3>2. f[1] <= last' /\ f[1] \in Int
      BY <1>2, <1>3, <1>6, <3>1
    <3>. QED BY <1>6, <3>1, <3>2
  <2>. QED BY <2>1, <2>2
<1>8. ASSUME NEW f \in events' PROVE last' = 0 \/ last' <= f[1]
  <2>1. e[1] <= f[1] /\ (last = 0 \/ last <= f[1])
    BY <1>2, <1>5 DEF Before, Sweep, EventsInv
  <2>. QED BY <2>1
<1>9. events' \subseteq Events(X)
  BY <1>1
<1>. QED BY <1>3, <1>4, <1>7, <1>8, <1>9 DEF EventsInv, Before

LEMMA LiveStep ==
  ASSUME GivenInv, SweepInv, NEW X \in SUBSET State, Sweep(X), NEW e \in events,
         \A f \in events : ~ Before(f, e),
         events' = events \ {e}, adj' = adj,
         live' = IF e[2] >= 0 THEN [live EXCEPT ![e[2]] = @ + 1] ELSE Closed(-e[2] - 1)
  PROVE  live' \in [State -> Nat] /\ \A v \in State : (live')[v] = Cardinality(Open(X, v)')
<1>1. events \subseteq Events(X)
  BY DEF Sweep, EventsInv
<1>2. PICK p \in EdgesOf(X) : e = Opening(p) \/ e = Closing(p)
  BY <1>1, EventType
<1>3. PICK t \in State : At(p)[3] = t
  BY EdgesOfProps, EdgeProps
<1>4. \A v \in State : /\ IsFiniteSet(Open(X, v)) /\ Cardinality(Open(X, v)) \in Nat
                       /\ live[v] = Cardinality(Open(X, v))
  BY EdgesOfFinite, FS_Subset, FS_CardinalityType DEF Open, Sweep
<1>5. \A v \in State : Open(X, v)' = {q \in EdgesOf(X) : At(q)[3] = v /\ Opening(q) \notin events'
                                                        /\ Closing(q) \in events'}
  BY DEF Open, EdgesOf, Opening, Closing, At
<1>6. live \in [State -> Nat]
  BY DEF SweepInv
<1>7. CASE e = Opening(p)
  <2>1. e[2] = t /\ e[2] >= 0 /\ live' = [live EXCEPT ![t] = @ + 1]
    BY <1>2, <1>3, <1>7, EventProps
  <2>2. Closing(p) \in events /\ Closing(p) # e
    <3>1. Closing(p) \in Events(X) /\ Before(e, Closing(p))
      BY <1>7, EventProps
    <3>2. Closing(p) \in events
      BY <3>1 DEF Sweep, EventsInv
    <3>. QED BY <1>7, <3>2, EventsDistinct
  <2>3. \A q \in EdgesOf(X) : /\ Opening(q) \in events' <=> Opening(q) \in events /\ q # p
                              /\ Closing(q) \in events' <=> Closing(q) \in events
    BY <1>7, EventsDistinct
  <2>4. Open(X, t)' = Open(X, t) \cup {p} /\ p \notin Open(X, t)
    BY <1>3, <1>5, <1>7, <2>2, <2>3 DEF Open
  <2>5. \A v \in State : v # t => Open(X, v)' = Open(X, v)
    BY <1>3, <1>5, <1>7, <2>3 DEF Open
  <2>6. Cardinality(Open(X, t)') = Cardinality(Open(X, t)) + 1
    BY <1>3, <1>4, <2>4, FS_AddElement, ZenonT(40)
  <2>7. (live')[t] = live[t] + 1 /\ \A v \in State : v # t => (live')[v] = live[v]
    BY <1>6, <2>1
  <2>8. \A v \in State : (live')[v] = Cardinality(Open(X, v)') /\ (live')[v] \in Nat
    <3>1. (live')[t] = Cardinality(Open(X, t)') /\ (live')[t] \in Nat
      BY <1>4, <2>6, <2>7
    <3>. QED BY <1>4, <2>5, <2>7, <3>1
  <2>9. live' \in [State -> Nat]
    <3>1. live' = [v \in State |-> (live')[v]]
      BY <1>6, <2>1
    <3>. QED BY <2>8, <3>1
  <2>. QED BY <2>8, <2>9
<1>8. CASE e = Closing(p)
  <2>1. -e[2] - 1 = t /\ ~ (e[2] >= 0) /\ live' = [live EXCEPT ![t] = @ - 1]
    <3>1. e[2] < 0 /\ e[2] \in Int /\ -e[2] - 1 = t
      <4>1. At(p)[3] \in Int
        BY <1>3, DeterminizeAssumption DEF State
      <4>. QED BY <1>2, <1>3, <1>8, <4>1, EventProps
    <3>2. ~ (e[2] >= 0)
      BY <3>1
    <3>. QED BY <3>1, <3>2 DEF Closed
  <2>2. Opening(p) \notin events /\ Opening(p) # e
    BY <1>8, EventProps, EventsDistinct
  <2>3. \A q \in EdgesOf(X) : /\ Closing(q) \in events' <=> Closing(q) \in events /\ q # p
                              /\ Opening(q) \in events' <=> Opening(q) \in events
    BY <1>8, EventsDistinct
  <2>4. Open(X, t)' = Open(X, t) \ {p} /\ p \in Open(X, t)
    <3>1. p \in Open(X, t)
      BY <1>3, <1>8, <2>2 DEF Open
    <3>2. Open(X, t)' = Open(X, t) \ {p}
      BY <1>5, <2>3 DEF Open
    <3>. QED BY <3>1, <3>2
  <2>5. \A v \in State : v # t => Open(X, v)' = Open(X, v)
    BY <1>3, <1>5, <1>8, <2>3 DEF Open
  <2>6. Cardinality(Open(X, t)') = Cardinality(Open(X, t)) - 1 /\ Cardinality(Open(X, t)') \in Nat
    <3>1. IsFiniteSet(Open(X, t)')
      BY <1>3, <1>4, <2>4, FS_RemoveElement
    <3>. QED BY <1>3, <1>4, <2>4, <3>1, FS_RemoveElement, FS_CardinalityType
  <2>7. (live')[t] = live[t] - 1 /\ \A v \in State : v # t => (live')[v] = live[v]
    BY <1>6, <2>1
  <2>8. \A v \in State : (live')[v] = Cardinality(Open(X, v)') /\ (live')[v] \in Nat
    <3>1. (live')[t] = Cardinality(Open(X, t)') /\ (live')[t] \in Nat
      BY <1>4, <2>6, <2>7
    <3>. QED BY <1>4, <2>5, <2>7, <3>1
  <2>9. live' \in [State -> Nat]
    <3>1. live' = [v \in State |-> (live')[v]]
      BY <1>6, <2>1
    <3>. QED BY <2>8, <3>1
  <2>. QED BY <2>8, <2>9
<1>. QED BY <1>2, <1>7, <1>8

(* What has been dealt with stays right while further subsets get numbers. *)
LEMMA FollowedStays ==
  ASSUME NEW n, NEW X, NEW a, Followed(n, X, a), adj' = adj,
         Reads(radj[n], a)' = Reads(radj[n], a),
         DOMAIN m \subseteq DOMAIN (m'), \A Y \in DOMAIN m : (m')[Y] = m[Y]
  PROVE  Followed(n, X, a)'
<1>1. Move(X, a)' = Move(X, a)
  BY DEF Move, EdgesOf, At
<1>2. LeastClosed(Move(X, a))' = LeastClosed(Move(X, a))
  BY <1>1 DEF LeastClosed, EpsilonClosed
<1>. QED BY <1>1, <1>2 DEF Followed

-----------------------------------------------------------------------------
LEMMA InitStep == InitFrom(Automata) => IInv
<1>. SUFFICES ASSUME InitFrom(Automata) PROVE IInv
  OBVIOUS
<1>1. GivenInv
  BY DEF InitFrom, Automata, GivenInv
<1>. DEFINE X == Closure({start})
<1>2. X = LeastClosed({start}) /\ X \in SUBSET State
  BY <1>1, ClosureLeast DEF GivenInv
<1>. HIDE DEF X
<1>3. /\ m = Emplaced(<<>>, X, 0) /\ st = <<X>> /\ radj = <<>> /\ rfinals = {} /\ id = None
      /\ further = 0 /\ last = 0 /\ live = [v \in State |-> 0]
  BY DEF InitFrom, X
<1>4. DOMAIN m = {X} /\ m[X] = 0 /\ m \in [DOMAIN m -> Nat]
  BY <1>3 DEF Emplaced
<1>5. DOMAIN st = {1} /\ st[1] = X /\ st \in Seq(SUBSET State) /\ ToSet(st) = {X} /\ st # <<>>
  <2>1. DOMAIN st = {1} /\ st[1] = X /\ st \in Seq(SUBSET State) /\ st # <<>>
    BY <1>2, <1>3
  <2>2. ToSet(st) = {X}
    BY <2>1 DEF ToSet
  <2>. QED BY <2>1, <2>2
<1>6. Handled = {}
  BY <1>4, <1>5 DEF Handled
<1>7. DOMAIN radj = {}
  BY <1>3
<1>8. Ids = 0 .. Cardinality(DOMAIN m) - 1
  <2>1. Ids = {0} /\ Cardinality(DOMAIN m) = 1
    BY <1>4, FS_Singleton DEF Ids, Range
  <2>. QED BY <2>1
<1>9. NumbersInv
  <2>1. IsInjective(m) /\ IsInjective(st)
    BY <1>4, <1>5 DEF IsInjective
  <2>. QED BY <1>2, <1>3, <1>4, <1>5, <1>6, <1>7, <1>8, <2>1 DEF NumbersInv
<1>10. StartsInv
  <2>1. Len(starts) \in Nat
    BY <1>1 DEF GivenInv
  <2>2. \A j \in 1 .. further : FALSE
    BY <1>3
  <2>3. LeastClosed({start}) \in DOMAIN m /\ m[LeastClosed({start})] = 0
    BY <1>2, <1>4
  <2>4. further \in 0 .. Len(starts) /\ id = None /\ st # <<>>
    BY <1>3, <1>5, <2>1
  <2>. QED BY <2>2, <2>3, <2>4 DEF StartsInv
<1>11. SweepInv
  BY <1>3, <1>4, DeterminizeAssumption DEF SweepInv, None
<1>12. EdgesInv /\ FollowedInv
  BY <1>6, <1>7 DEF EdgesInv, FollowedInv
<1>. QED BY <1>1, <1>9, <1>10, <1>11, <1>12 DEF IInv

(* While no subset is processed only the numbers grow.                     *)
LEMMA AddStartStep ==
  ASSUME IInv, AddStart
  PROVE  IInv'
<1>1. GivenInv /\ NumbersInv /\ StartsInv /\ SweepInv /\ EdgesInv /\ FollowedInv
  BY DEF IInv
<1>2. /\ further < Len(starts) /\ further' = further + 1
      /\ UNCHANGED <<start, finals, adj, starts, radj, rfinals, id, events, last, live>>
  BY DEF AddStart, Further, given
<1>3. further \in Nat /\ Len(starts) \in Nat /\ further + 1 \in 1 .. Len(starts) /\ id = None /\ st # <<>>
  BY <1>1, <1>2 DEF StartsInv, GivenInv
<1>4. starts[further + 1] \in State
  BY <1>1, <1>3 DEF GivenInv
<1>. DEFINE V == Closure({starts[further + 1]})
<1>5. V \in SUBSET State /\ V = LeastClosed({starts[further + 1]})
  BY <1>1, <1>4, ClosureLeast
<1>6. m' = Numbered(V) /\ st' = Pushed(V)
  BY DEF AddStart, Further
<1>. HIDE DEF V
<1>7. /\ NumbersInv' /\ Handled' = Handled
      /\ V \in DOMAIN (m') /\ DOMAIN m \subseteq DOMAIN (m')
      /\ \A X \in DOMAIN m : (m')[X] = m[X]
      /\ Ids \subseteq Ids' /\ st' # <<>>
  BY <1>1, <1>2, <1>3, <1>5, <1>6, NumberStep DEF given
<1>8. GivenInv'
  BY <1>1, <1>2 DEF GivenInv
<1>9. \A S : LeastClosed(S)' = LeastClosed(S)
  BY <1>2 DEF LeastClosed, EpsilonClosed
<1>10. StartsInv'
  <2>1. further' \in 0 .. Len(starts')
    BY <1>2, <1>3
  <2>2. ASSUME NEW j \in 1 .. further' PROVE LeastClosed({starts[j]}) \in DOMAIN (m')
    <3>1. CASE j = further + 1
      BY <1>5, <1>7, <3>1
    <3>2. CASE j # further + 1
      <4>1. j \in 1 .. further
        BY <1>2, <1>3, <3>2
      <4>. QED BY <1>1, <1>7, <4>1 DEF StartsInv
    <3>. QED BY <3>1, <3>2
  <2>3. LeastClosed({start}) \in DOMAIN (m') /\ (m')[LeastClosed({start})] = 0
    BY <1>1, <1>7 DEF StartsInv
  <2>4. \A j \in 1 .. further' : LeastClosed({starts[j]})' = LeastClosed({starts[j]})
    BY <1>2 DEF LeastClosed, EpsilonClosed
  <2>5. LeastClosed({start})' = LeastClosed({start})
    BY <1>2 DEF LeastClosed, EpsilonClosed
  <2>. QED BY <1>2, <1>3, <1>7, <2>1, <2>2, <2>3, <2>4, <2>5 DEF StartsInv
<1>11. SweepInv'
  <2>1. \A X \in DOMAIN (m') : (m')[X] # id'
    <3>1. \A X \in DOMAIN (m') : (m')[X] \in Nat
      BY <1>7 DEF NumbersInv
    <3>. QED BY <1>2, <1>3, <3>1 DEF None
  <2>. QED BY <1>1, <1>2, <2>1 DEF SweepInv
<1>12. EdgesInv'
  <2>1. ASSUME NEW n \in DOMAIN radj PROVE radj[n] \in Seq(NewEdge')
    BY <1>1, <1>7 DEF EdgesInv, NewEdge, EdgesInto
  <2>. QED BY <1>1, <1>2, <2>1 DEF EdgesInv, Canonical
<1>13. FollowedInv'
  <2>1. ASSUME NEW X \in Handled, NEW a \in 0 .. Limit - 1, NEW n, n = (m')[X]
        PROVE  Followed(n, X, a)'
    <3>1. m[X] # id /\ (m')[X] = m[X]
      BY <1>1, <1>3, <1>7 DEF NumbersInv, Handled, None
    <3>3. Followed(n, X, a)
      BY <1>1, <2>1, <3>1 DEF FollowedInv
    <3>4. Reads(radj[n], a)' = Reads(radj[n], a)
      BY <1>2 DEF Reads, Has
    <3>. QED BY <1>2, <1>7, <3>3, <3>4, FollowedStays
  <2>. QED BY <1>7, <2>1 DEF FollowedInv, Followed
<1>. QED BY <1>7, <1>8, <1>10, <1>11, <1>12, <1>13 DEF IInv

(* The subset on top of the stack is processed next.                       *)
LEMMA PopStep ==
  ASSUME IInv, Pop
  PROVE  IInv'
<1>1. GivenInv /\ NumbersInv /\ StartsInv /\ SweepInv /\ EdgesInv /\ FollowedInv
  BY DEF IInv
<1>2. PICK X : X = Last(st)
  OBVIOUS
<1>3. /\ further = Len(starts) /\ id = None /\ st # <<>>
      /\ id' = m[X] /\ radj' = Emplaced(radj, m[X], <<>>) /\ events' = Events(X)
      /\ rfinals' = IF X \cap finals # {} THEN rfinals \cup {m[X]} ELSE rfinals
      /\ st' = Front(st) /\ last' = 0 /\ live' = [v \in State |-> 0]
      /\ UNCHANGED <<start, finals, adj, starts, further, m>>
  BY <1>2 DEF Pop, Further, Rest, given
<1>4. /\ st \in Seq(SUBSET State) /\ Len(st) \in Nat \ {0} /\ DOMAIN st = 1 .. Len(st)
      /\ X = st[Len(st)] /\ \A j, l \in 1 .. Len(st) : st[j] = st[l] => j = l
      /\ \A j \in 1 .. Len(st) : st[j] \in DOMAIN m
  BY <1>1, <1>2, <1>3 DEF NumbersInv, Last, IsInjective, ToSet
<1>5. /\ st' \in Seq(SUBSET State) /\ DOMAIN (st') = 1 .. Len(st) - 1
      /\ \A j \in 1 .. Len(st) - 1 : (st')[j] = st[j]
  BY <1>3, <1>4 DEF Front
<1>6. ToSet(st) = ToSet(st') \cup {X} /\ X \notin ToSet(st') /\ X \in DOMAIN m
  <2>1. X \in DOMAIN m /\ Len(st) \in 1 .. Len(st)
    BY <1>4
  <2>2. PICK l \in Nat \ {0} : l = Len(st)
    BY <1>4
  <2>3. \A j \in 1 .. l : j = l \/ j \in 1 .. l - 1
    OBVIOUS
  <2>4. \A j \in 1 .. l - 1 : j \in 1 .. l /\ j # l
    OBVIOUS
  <2>5. ToSet(st) = {st[j] : j \in 1 .. l} /\ ToSet(st') = {st[j] : j \in 1 .. l - 1}
    BY <1>4, <1>5, <2>2 DEF ToSet
  <2>6. st[l] = X /\ l \in 1 .. l /\ \A j \in 1 .. l : st[j] = X => j = l
    BY <1>4, <2>1, <2>2
  <2>. QED BY <2>1, <2>3, <2>4, <2>5, <2>6
<1>7. Handled' = Handled \cup {X} /\ X \notin Handled
  BY <1>3, <1>6 DEF Handled
<1>8. X \in SUBSET State /\ m[X] \in Nat /\ m[X] # None
  BY <1>1, <1>6 DEF NumbersInv, None
<1>9. \A Y \in DOMAIN m : m[Y] = m[X] => Y = X
  BY <1>1, <1>6 DEF NumbersInv, IsInjective
<1>10. m[X] \notin DOMAIN radj
  BY <1>1, <1>7, <1>9 DEF NumbersInv, Handled
<1>11. /\ DOMAIN (radj') = DOMAIN radj \cup {m[X]} /\ (radj')[m[X]] = <<>>
       /\ \A n \in DOMAIN radj : (radj')[n] = radj[n]
  BY <1>3, <1>10 DEF Emplaced
<1>12. NumbersInv'
  <2>1. IsInjective(st')
    BY <1>4, <1>5 DEF IsInjective
  <2>2. DOMAIN (radj') = {m[Y] : Y \in Handled'}
    BY <1>1, <1>7, <1>11 DEF NumbersInv
  <2>3. rfinals' = {m[Y] : Y \in {Y \in Handled' : Y \cap finals # {}}}
    <3>1. rfinals = {m[Y] : Y \in {Y \in Handled : Y \cap finals # {}}}
      BY <1>1 DEF NumbersInv
    <3>2. CASE X \cap finals # {}
      <4>1. {Y \in Handled' : Y \cap finals # {}} = {Y \in Handled : Y \cap finals # {}} \cup {X}
        BY <1>7, <3>2
      <4>. QED BY <1>3, <3>1, <3>2, <4>1
    <3>3. CASE X \cap finals = {}
      <4>1. {Y \in Handled' : Y \cap finals # {}} = {Y \in Handled : Y \cap finals # {}}
        BY <1>7, <3>3
      <4>. QED BY <1>3, <3>1, <3>3, <4>1
    <3>. QED BY <3>2, <3>3
  <2>4. ToSet(st') \subseteq DOMAIN m /\ id' \in DOMAIN (radj')
    BY <1>1, <1>3, <1>6, <1>11 DEF NumbersInv
  <2>5. Ids' = Ids
    BY <1>3 DEF Ids, Range
  <2>6. /\ m \in [DOMAIN m -> Nat] /\ DOMAIN m \subseteq SUBSET State
        /\ IsInjective(m) /\ Ids = 0 .. Cardinality(DOMAIN m) - 1
    BY <1>1 DEF NumbersInv
  <2>7. m' = m /\ st' \in Seq(SUBSET State)
    BY <1>3, <1>5
  <2>8. /\ m' \in [DOMAIN (m') -> Nat] /\ DOMAIN (m') \subseteq SUBSET State
        /\ IsInjective(m') /\ ToSet(st') \subseteq DOMAIN (m')
        /\ id' \in DOMAIN (radj') \cup {None}
    BY <2>4, <2>6, <2>7
  <2>9. Ids' = 0 .. Cardinality(DOMAIN (m')) - 1
    BY <2>5, <2>6, <2>7
  <2>10. /\ DOMAIN (radj') = {(m')[Y] : Y \in Handled'}
         /\ rfinals' = {(m')[Y] : Y \in {Y \in Handled' : Y \cap finals' # {}}}
    BY <1>3, <2>2, <2>3, <2>7
  <2>. QED BY <2>1, <2>7, <2>8, <2>9, <2>10 DEF NumbersInv
<1>13. GivenInv'
  BY <1>1, <1>3 DEF GivenInv
<1>14. StartsInv'
  <2>1. ~ (further < Len(starts))
    BY <1>1, <1>3 DEF GivenInv
  <2>2. \A S : LeastClosed(S)' = LeastClosed(S)
    BY <1>3 DEF LeastClosed, EpsilonClosed
  <2>3. LeastClosed({start})' = LeastClosed({start})
    BY <1>3 DEF LeastClosed, EpsilonClosed
  <2>4. \A j \in 1 .. further : LeastClosed({starts[j]})' = LeastClosed({starts[j]})
    BY <1>3 DEF LeastClosed, EpsilonClosed
  <2>. QED BY <1>1, <1>3, <2>1, <2>3, <2>4 DEF StartsInv
<1>15. SweepInv'
  <2>1. \A v \in State : Open(X, v)' = {}
    BY <1>3, EventProps, <1>1, <1>8, SMTT(30) DEF Open, EdgesOf, Opening, Closing, At, Events
  <2>2. EventsInv(X)'
    BY <1>3 DEF EventsInv, Events, EdgesOf, Opening, Closing, At
  <2>3. Sweep(X)'
    <3>1. \A v \in State : (live')[v] = Cardinality(Open(X, v)')
      BY <1>3, <2>1, FS_EmptySet
    <3>2. (radj')[id'] = <<>>
      BY <1>3, <1>11
    <3>3. \A j \in DOMAIN (radj')[id'] : FALSE
      BY <3>2
    <3>4. \A a \in 0 .. last' - 1 : FALSE
      BY <1>3
    <3>. QED BY <2>2, <3>1, <3>3, <3>4 DEF Sweep
  <2>4. last' \in 0 .. Limit /\ live' \in [State -> Nat]
    BY <1>3, DeterminizeAssumption
  <2>. QED BY <1>3, <1>9, <2>3, <2>4 DEF SweepInv, Sweep, EventsInv, Open, Followed
<1>16. EdgesInv'
  <2>1. NewEdge' = NewEdge
    BY <1>3 DEF NewEdge, EdgesInto, Ids, Range
  <2>2. <<>> \in Seq(NewEdge) /\ Canonical(<<>>)
    BY DEF Canonical
  <2>3. \A n \in DOMAIN radj : (radj')[n] \in Seq(NewEdge) /\ Canonical((radj')[n])
    BY <1>1, <1>11 DEF EdgesInv
  <2>4. (radj')[m[X]] \in Seq(NewEdge) /\ Canonical((radj')[m[X]])
    BY <1>11, <2>2
  <2>5. \A n \in DOMAIN (radj') : (radj')[n] \in Seq(NewEdge) /\ Canonical((radj')[n])
    BY <1>11, <2>3, <2>4
  <2>. QED BY <2>1, <2>5 DEF EdgesInv, Canonical
<1>17. FollowedInv'
  <2>1. ASSUME NEW Y \in Handled, NEW a \in 0 .. Limit - 1, NEW n, n = m[Y]
        PROVE  Followed(n, Y, a)'
    <3>1. n \in DOMAIN radj /\ n # id
      BY <1>1, <1>3, <2>1 DEF NumbersInv, Handled, None
    <3>2. Followed(n, Y, a)
      BY <1>1, <2>1, <3>1 DEF FollowedInv
    <3>3. Reads(radj[n], a)' = Reads(radj[n], a)
      BY <1>11, <3>1 DEF Reads, Has
    <3>. QED BY <1>3, <3>2, <3>3, FollowedStays
  <2>. QED BY <1>3, <1>7, <2>1 DEF FollowedInv, Followed
<1>. QED BY <1>12, <1>13, <1>14, <1>15, <1>16, <1>17 DEF IInv

(* The last event has been swept.                                          *)
LEMMA SweptStep ==
  ASSUME IInv, Swept
  PROVE  IInv'
<1>1. GivenInv /\ NumbersInv /\ StartsInv /\ SweepInv /\ EdgesInv /\ FollowedInv
  BY DEF IInv
<1>2. /\ id # None /\ events = {} /\ id' = None
      /\ UNCHANGED <<start, finals, adj, starts, further, m, st, radj, rfinals, events, last, live>>
  BY DEF Swept, given
<1>3. GivenInv' /\ NumbersInv' /\ EdgesInv' /\ Handled' = Handled
  <2>1. Handled' = Handled /\ Ids' = Ids
    BY <1>2 DEF Handled, Ids, Range
  <2>2. NewEdge' = NewEdge
    BY <2>1 DEF NewEdge, EdgesInto
  <2>3. NumbersInv'
    BY <1>1, <1>2, <2>1 DEF NumbersInv
  <2>4. EdgesInv'
    BY <1>1, <1>2, <2>2 DEF EdgesInv
  <2>5. GivenInv'
    BY <1>1, <1>2 DEF GivenInv
  <2>. QED BY <2>1, <2>3, <2>4, <2>5
<1>4. StartsInv'
  <2>1. LeastClosed({start})' = LeastClosed({start})
    BY <1>2 DEF LeastClosed, EpsilonClosed
  <2>2. \A j \in 1 .. further : LeastClosed({starts[j]})' = LeastClosed({starts[j]})
    BY <1>2 DEF LeastClosed, EpsilonClosed
  <2>. QED BY <1>1, <1>2, <2>1, <2>2 DEF StartsInv
<1>5. \A X \in DOMAIN m : m[X] # None
  BY <1>1 DEF NumbersInv, None
<1>6. SweepInv'
  BY <1>1, <1>2, <1>5 DEF SweepInv
<1>7. ASSUME NEW X \in Handled, NEW a \in 0 .. Limit - 1 PROVE Followed(m[X], X, a)
  <2>1. CASE m[X] # id
    BY <1>1, <1>7, <2>1 DEF FollowedInv
  <2>2. CASE m[X] = id
    <3>1. X \in DOMAIN m /\ Sweep(X) /\ X \in SUBSET State
      BY <1>1, <2>2 DEF SweepInv, Handled, NumbersInv
    <3>2. CASE a \in 0 .. last - 1
      BY <2>2, <3>1, <3>2 DEF Sweep
    <3>3. CASE a \notin 0 .. last - 1
      <4>1. last <= a /\ a \in Int /\ last \in Int
        BY <1>1, <3>3, DeterminizeAssumption DEF SweepInv
      <4>2. Move(X, a) = {}
        <5>1. SUFFICES ASSUME NEW p \in EdgesOf(X), Has(At(p), a) PROVE FALSE
          BY DEF Move
        <5>2. Closing(p) \in Events(X) \ events /\ Closing(p)[1] = At(p)[2] /\ At(p)[2] \in Int
          BY <1>1, <1>2, <3>1, EventProps, EdgesOfProps, EdgeProps
        <5>3. At(p)[2] <= last
          BY <3>1, <5>2 DEF Sweep, EventsInv
        <5>. QED BY <4>1, <5>1, <5>2, <5>3 DEF Has
      <4>3. Reads(radj[id], a) = {}
        <5>1. SUFFICES ASSUME NEW j \in DOMAIN radj[id], Has(radj[id][j], a) PROVE FALSE
          BY DEF Reads
        <5>2. id \in DOMAIN radj
          BY <1>1, <1>2 DEF NumbersInv
        <5>3. radj[id] \in Seq(NewEdge)
          BY <1>1, <5>2 DEF EdgesInv
        <5>4. radj[id][j] \in NewEdge
          BY <5>3
        <5>5. radj[id][j][2] \in Int
          BY <5>4, DeterminizeAssumption DEF NewEdge, EdgesInto
        <5>6. radj[id][j][2] <= last
          BY <3>1 DEF Sweep
        <5>. QED BY <4>1, <5>1, <5>5, <5>6 DEF Has
      <4>. QED BY <2>2, <4>2, <4>3 DEF Followed
    <3>. QED BY <3>2, <3>3
  <2>. QED BY <2>1, <2>2
<1>8. FollowedInv'
  <2>1. ASSUME NEW X \in Handled, NEW a \in 0 .. Limit - 1, NEW n, n = m[X]
        PROVE  Followed(n, X, a)'
    <3>1. Followed(n, X, a)
      BY <1>7, <2>1
    <3>2. Reads(radj[n], a)' = Reads(radj[n], a)
      BY <1>2 DEF Reads, Has
    <3>. QED BY <1>2, <3>1, <3>2, FollowedStays
  <2>. QED BY <1>2, <1>3, <2>1 DEF FollowedInv, Followed
<1>. QED BY <1>3, <1>4, <1>6, <1>8 DEF IInv

LEMMA StutterStep ==
  ASSUME IInv, UNCHANGED vars
  PROVE  IInv'
<1>1. GivenInv /\ NumbersInv /\ StartsInv /\ SweepInv /\ EdgesInv /\ FollowedInv
  BY DEF IInv
<1>2. UNCHANGED <<start, finals, adj, starts, further, m, st, radj, rfinals, id, events, last, live>>
  BY DEF vars, given
<1>3. GivenInv' /\ NumbersInv' /\ EdgesInv' /\ Handled' = Handled
  <2>1. Handled' = Handled /\ Ids' = Ids
    BY <1>2 DEF Handled, Ids, Range
  <2>2. NewEdge' = NewEdge
    BY <2>1 DEF NewEdge, EdgesInto
  <2>3. NumbersInv'
    BY <1>1, <1>2, <2>1 DEF NumbersInv
  <2>4. EdgesInv'
    BY <1>1, <1>2, <2>2 DEF EdgesInv
  <2>5. GivenInv'
    BY <1>1, <1>2 DEF GivenInv
  <2>. QED BY <2>1, <2>3, <2>4, <2>5
<1>4. StartsInv'
  <2>1. LeastClosed({start})' = LeastClosed({start})
    BY <1>2 DEF LeastClosed, EpsilonClosed
  <2>2. \A j \in 1 .. further : LeastClosed({starts[j]})' = LeastClosed({starts[j]})
    BY <1>2 DEF LeastClosed, EpsilonClosed
  <2>. QED BY <1>1, <1>2, <2>1, <2>2 DEF StartsInv
<1>5. \A n, X, a : Followed(n, X, a)' <=> Followed(n, X, a)
  BY <1>2 DEF Followed, Reads, Has, Move, EdgesOf, At, LeastClosed, EpsilonClosed
<1>6. FollowedInv'
  BY <1>1, <1>2, <1>3, <1>5 DEF FollowedInv
<1>7. \A X : EventsInv(X)' <=> EventsInv(X)
  BY <1>2 DEF EventsInv, Events, EdgesOf, Opening, Closing, At, Before
<1>8. \A X, v : Open(X, v)' = Open(X, v)
  BY <1>2 DEF Open, EdgesOf, Opening, Closing, At
<1>9. SweepInv'
  BY <1>1, <1>2, <1>5, <1>7, <1>8 DEF SweepInv, Sweep
<1>. QED BY <1>3, <1>4, <1>6, <1>9 DEF IInv

(* What an event does to the edges of subset X being processed.            *)
EdgesStep(X) ==
  /\ NumbersInv' /\ Handled' = Handled
  /\ DOMAIN m \subseteq DOMAIN (m') /\ \A Y \in DOMAIN m : (m')[Y] = m[Y]
  /\ DOMAIN (radj') = DOMAIN radj /\ Ids \subseteq Ids'
  /\ \A n \in DOMAIN radj : n # id => (radj')[n] = radj[n]
  /\ (radj')[id] \in Seq(NewEdge') /\ Canonical((radj')[id])
  /\ \A j \in DOMAIN (radj')[id] : (radj')[id][j][2] <= last'
  /\ \A a \in 0 .. last - 1 : Reads((radj')[id], a) = Reads(radj[id], a)
  /\ \A a \in last .. last' - 1 :
       LET to == Move(X, a)
       IN /\ to = {} => Reads((radj')[id], a) = {}
          /\ to # {} => /\ LeastClosed(to) \in DOMAIN (m')
                        /\ Reads((radj')[id], a) = {(m')[LeastClosed(to)]}

LEMMA ExtendStep ==
  ASSUME IInv, NEW e \in events, Event(e), NEW X \in Handled, m[X] = id,
         last < e[1], Targets # {}
  PROVE  EdgesStep(X)
<1>1. GivenInv /\ NumbersInv /\ StartsInv /\ SweepInv /\ EdgesInv /\ FollowedInv
  BY DEF IInv
<1>. DEFINE V == Closure(Targets)
<1>2. Targets \in SUBSET State
  BY DEF Targets
<1>3. V \in SUBSET State /\ V = LeastClosed(Targets)
  BY <1>1, <1>2, ClosureLeast
<1>4. /\ m' = Numbered(V) /\ st' = Pushed(V) /\ last' = e[1] /\ adj' = adj
      /\ radj' = [radj EXCEPT ![id] = Extended(@, e[1], (m')[V])]
      /\ UNCHANGED <<given, rfinals, id>>
      /\ \A f \in events : ~ Before(f, e)
  BY DEF Event, given
<1>. HIDE DEF V
<1>5. X \in DOMAIN m /\ X \in SUBSET State /\ Sweep(X) /\ id \in DOMAIN radj
  BY <1>1 DEF Handled, NumbersInv, SweepInv
<1>6. DOMAIN (radj') = DOMAIN radj
  BY <1>4
<1>7. /\ NumbersInv' /\ Handled' = Handled
      /\ V \in DOMAIN (m') /\ DOMAIN m \subseteq DOMAIN (m')
      /\ \A Y \in DOMAIN m : (m')[Y] = m[Y]
      /\ Ids \subseteq Ids' /\ (m')[V] \in Ids'
  BY <1>1, <1>3, <1>4, <1>6, NumberStep
<1>8. PICK w : w = (m')[V]
  OBVIOUS
<1>9. PICK es : es = radj[id]
  OBVIOUS
<1>10. PICK next : next = e[1]
  OBVIOUS
<1>11. (radj')[id] = Extended(es, next, w) /\ \A n \in DOMAIN radj : n # id => (radj')[n] = radj[n]
  BY <1>4, <1>5, <1>8, <1>9, <1>10
<1>12. PICK R : R = Ids'
  OBVIOUS
<1>13. es \in Seq(EdgesInto(R)) /\ Canonical(es) /\ w \in R
  <2>1. es \in Seq(NewEdge) /\ Canonical(es)
    BY <1>1, <1>5, <1>9 DEF EdgesInv
  <2>2. NewEdge \subseteq EdgesInto(R)
    BY <1>7, <1>12 DEF NewEdge, EdgesInto
  <2>. QED BY <1>7, <1>8, <1>12, <2>1, <2>2
<1>14. last \in 0 .. Limit /\ next \in 0 .. Limit /\ last < next
  <2>1. e \in Events(X)
    BY <1>5 DEF Sweep, EventsInv
  <2>2. e[1] \in Int /\ e[1] <= Limit
    BY <1>1, <1>5, <2>1, EventType
  <2>. QED BY <1>1, <1>10, <2>2, DeterminizeAssumption DEF SweepInv
<1>15. \A j \in DOMAIN es : es[j][2] <= last
  BY <1>5, <1>9 DEF Sweep
<1>16. PICK ext : ext = Extended(es, next, w)
  OBVIOUS
<1>17. /\ ext \in Seq(EdgesInto(R))
       /\ Canonical(ext)
       /\ \A j \in DOMAIN ext : ext[j][2] <= next
       /\ \A a \in 0 .. last - 1 : Reads(ext, a) = Reads(es, a)
       /\ \A a \in last .. next - 1 : Reads(ext, a) = {w}
  <2>1. /\ Extended(es, next, w) \in Seq(EdgesInto(R))
        /\ Canonical(Extended(es, next, w))
        /\ \A j \in DOMAIN Extended(es, next, w) : Extended(es, next, w)[j][2] <= next
        /\ \A a \in 0 .. last - 1 : Reads(Extended(es, next, w), a) = Reads(es, a)
        /\ \A a \in last .. next - 1 : Reads(Extended(es, next, w), a) = {w}
    BY <1>13, <1>14, <1>15, ExtendedProps
  <2>2. /\ ext \in Seq(EdgesInto(R)) /\ Canonical(ext)
        /\ \A j \in DOMAIN ext : ext[j][2] <= next
        /\ \A a \in 0 .. last - 1 : Reads(ext, a) = Reads(es, a)
        /\ \A a \in last .. next - 1 : Reads(ext, a) = {w}
    BY <1>16, <2>1
  <2>. QED BY <2>2
<1>18. (radj')[id] = ext /\ NewEdge' = EdgesInto(R) /\ last' = next
  BY <1>4, <1>10, <1>11, <1>12, <1>16 DEF NewEdge, EdgesInto
<1>19. ASSUME NEW a \in last .. last' - 1
       PROVE  Move(X, a) = Targets
  <2>1. a \in last .. e[1] - 1
    BY <1>4
  <2>. QED BY <1>1, <1>4, <1>5, <2>1, TargetsMoved
<1>. QED BY <1>3, <1>6, <1>7, <1>8, <1>9, <1>11, <1>17, <1>18, <1>19 DEF EdgesStep

LEMMA KeepStep ==
  ASSUME IInv, NEW e \in events, Event(e), NEW X \in Handled, m[X] = id,
         ~ (last < e[1] /\ Targets # {})
  PROVE  EdgesStep(X)
<1>1. GivenInv /\ NumbersInv /\ StartsInv /\ SweepInv /\ EdgesInv /\ FollowedInv
  BY DEF IInv
<1>2. /\ UNCHANGED <<m, st, radj, adj, finals, rfinals, id>>
      /\ last' = IF last < e[1] THEN e[1] ELSE last
      /\ \A f \in events : ~ Before(f, e)
  BY DEF Event, given
<1>3. X \in DOMAIN m /\ X \in SUBSET State /\ Sweep(X) /\ id \in DOMAIN radj
  BY <1>1 DEF Handled, NumbersInv, SweepInv
<1>4. Handled' = Handled /\ Ids' = Ids /\ NewEdge' = NewEdge
  BY <1>2 DEF Handled, Ids, Range, NewEdge, EdgesInto
<1>5. NumbersInv'
  BY <1>1, <1>2, <1>4 DEF NumbersInv
<1>6. e \in Events(X)
  BY <1>3 DEF Sweep, EventsInv
<1>7. e[1] \in Int /\ last \in Nat /\ last <= last' /\ last' \in Int
  BY <1>1, <1>2, <1>3, <1>6, EventType DEF SweepInv
<1>8. radj[id] \in Seq(NewEdge) /\ Canonical(radj[id]) /\ \A j \in DOMAIN radj[id] : radj[id][j] \in NewEdge
  <2>1. radj[id] \in Seq(NewEdge) /\ Canonical(radj[id])
    BY <1>1, <1>3 DEF EdgesInv
  <2>. QED BY <2>1
<1>9. \A j \in DOMAIN radj[id] : radj[id][j][2] \in Int /\ radj[id][j][2] <= last
  BY <1>3, <1>8, DeterminizeAssumption DEF Sweep, NewEdge, EdgesInto
<1>10. ASSUME NEW a \in last .. last' - 1
       PROVE  Move(X, a) = {} /\ Reads(radj[id], a) = {}
  <2>1. last < e[1] /\ last' = e[1] /\ Targets = {}
    BY <1>2, <1>7
  <2>2. a \in last .. e[1] - 1 /\ a \in Int /\ last <= a
    BY <1>7, <2>1
  <2>3. Move(X, a) = {}
    BY <1>1, <1>2, <1>3, <2>1, <2>2, TargetsMoved
  <2>4. \A j \in DOMAIN radj[id] : ~ Has(radj[id][j], a)
    BY <1>7, <1>9, <2>2 DEF Has
  <2>. QED BY <2>3, <2>4 DEF Reads
<1>11. \A j \in DOMAIN (radj')[id] : (radj')[id][j][2] <= last'
  BY <1>2, <1>7, <1>9
<1>. QED BY <1>2, <1>4, <1>5, <1>8, <1>10, <1>11 DEF EdgesStep

LEMMA EventStep ==
  ASSUME IInv, NEW e \in events, Event(e)
  PROVE  IInv'
<1>1. GivenInv /\ NumbersInv /\ StartsInv /\ SweepInv /\ EdgesInv /\ FollowedInv
  BY DEF IInv
<1>2. /\ UNCHANGED <<start, finals, adj, starts, further, rfinals, id>> /\ id # None
      /\ last' = IF last < e[1] THEN e[1] ELSE last
      /\ live' = IF e[2] >= 0 THEN [live EXCEPT ![e[2]] = @ + 1] ELSE Closed(-e[2] - 1)
      /\ events' = events \ {e}
      /\ \A f \in events : ~ Before(f, e)
  BY DEF Event, given
<1>3. PICK X \in Handled : m[X] = id
  BY <1>1, <1>2 DEF NumbersInv
<1>4. EdgesStep(X)
  BY <1>3, ExtendStep, KeepStep
<1>5. X \in DOMAIN m /\ X \in SUBSET State /\ Sweep(X) /\ id \in DOMAIN radj
  BY <1>1, <1>3 DEF Handled, NumbersInv, SweepInv
<1>6. EventsInv(X)' /\ last' \in 0 .. Limit /\ last <= last'
  BY <1>1, <1>2, <1>5, EventsStep
<1>7. live' \in [State -> Nat] /\ \A v \in State : (live')[v] = Cardinality(Open(X, v)')
  BY <1>1, <1>2, <1>5, LiveStep
<1>8. GivenInv'
  BY <1>1, <1>2 DEF GivenInv
<1>9. StartsInv'
  <2>1. ~ (further < Len(starts)) /\ DOMAIN m \subseteq DOMAIN (m') /\ \A Y \in DOMAIN m : (m')[Y] = m[Y]
    BY <1>1, <1>2, <1>4 DEF StartsInv, EdgesStep
  <2>2. LeastClosed({start})' = LeastClosed({start})
    BY <1>2 DEF LeastClosed, EpsilonClosed
  <2>3. \A j \in 1 .. further : LeastClosed({starts[j]})' = LeastClosed({starts[j]})
    BY <1>2 DEF LeastClosed, EpsilonClosed
  <2>. QED BY <1>1, <1>2, <2>1, <2>2, <2>3 DEF StartsInv
<1>10. EdgesInv'
  <2>1. ASSUME NEW n \in DOMAIN (radj')
        PROVE  (radj')[n] \in Seq(NewEdge') /\ Canonical((radj')[n])
    <3>1. CASE n = id
      BY <1>4, <3>1 DEF EdgesStep
    <3>2. CASE n # id
      <4>1. n \in DOMAIN radj /\ (radj')[n] = radj[n] /\ Ids \subseteq Ids'
        BY <1>4, <3>2 DEF EdgesStep
      <4>2. radj[n] \in Seq(NewEdge) /\ Canonical(radj[n])
        BY <1>1, <4>1 DEF EdgesInv
      <4>3. NewEdge \subseteq NewEdge'
        BY <4>1 DEF NewEdge, EdgesInto
      <4>. QED BY <4>1, <4>2, <4>3
    <3>. QED BY <3>1, <3>2
  <2>. QED BY <2>1 DEF EdgesInv, Canonical
<1>11. FollowedInv'
  <2>1. ASSUME NEW Y \in Handled, NEW a \in 0 .. Limit - 1, NEW n, n = m[Y], n # id
        PROVE  Followed(n, Y, a)'
    <3>1. n \in DOMAIN radj
      BY <1>1, <2>1 DEF NumbersInv
    <3>2. Followed(n, Y, a)
      BY <1>1, <2>1 DEF FollowedInv
    <3>3. Reads(radj[n], a)' = Reads(radj[n], a)
      BY <1>4, <2>1, <3>1 DEF EdgesStep, Reads, Has
    <3>4. DOMAIN m \subseteq DOMAIN (m') /\ \A Z \in DOMAIN m : (m')[Z] = m[Z]
      BY <1>4 DEF EdgesStep
    <3>. QED BY <1>2, <3>2, <3>3, <3>4, FollowedStays
  <2>2. Handled' = Handled /\ \A Y \in Handled : (m')[Y] = m[Y]
    BY <1>4 DEF EdgesStep, Handled
  <2>. QED BY <1>2, <2>1, <2>2 DEF FollowedInv, Followed
<1>12. SweepInv'
  <2>1. DOMAIN m \subseteq DOMAIN (m') /\ \A Z \in DOMAIN m : (m')[Z] = m[Z]
    BY <1>4 DEF EdgesStep
  <2>2. ASSUME NEW a \in 0 .. last' - 1, NEW n, n = id PROVE Followed(n, X, a)'
    <3>1. CASE a \in 0 .. last - 1
      <4>1. Followed(n, X, a)
        BY <1>5, <2>2, <3>1 DEF Sweep
      <4>2. Reads(radj[n], a)' = Reads(radj[n], a)
        <5>1. Reads((radj')[id], a) = Reads(radj[id], a)
          BY <1>4, <3>1 DEF EdgesStep
        <5>. QED BY <2>2, <5>1, ZenonT(40) DEF Reads, Has
      <4>. QED BY <1>2, <2>1, <4>1, <4>2, FollowedStays
    <3>2. CASE a \notin 0 .. last - 1
      <4>1. a \in last .. last' - 1
        <5>1. last \in Int /\ 0 <= last /\ last' \in Int
          BY <1>1, <1>6, DeterminizeAssumption DEF SweepInv
        <5>2. PICK i1, i2 \in Int : i1 = last /\ i2 = last'
          BY <5>1
        <5>3. a \in 0 .. i2 - 1 /\ a \notin 0 .. i1 - 1
          BY <3>2, <5>2
        <5>4. a \in i1 .. i2 - 1
          BY <5>3
        <5>. QED BY <5>2, <5>4
      <4>2. LET to == Move(X, a)
            IN /\ to = {} => Reads((radj')[id], a) = {}
               /\ to # {} => /\ LeastClosed(to) \in DOMAIN (m')
                             /\ Reads((radj')[id], a) = {(m')[LeastClosed(to)]}
        BY <1>4, <4>1 DEF EdgesStep
      <4>3. Move(X, a)' = Move(X, a)
        BY <1>2 DEF Move, EdgesOf, At
      <4>4. LeastClosed(Move(X, a))' = LeastClosed(Move(X, a))
        BY <1>2, <4>3 DEF LeastClosed, EpsilonClosed
      <4>5. Reads(radj[n], a)' = Reads((radj')[id], a)
        BY <2>2 DEF Reads, Has
      <4>. QED BY <4>2, <4>3, <4>4, <4>5 DEF Followed
    <3>. QED BY <3>1, <3>2
  <2>3. \A j \in DOMAIN (radj')[id] : (radj')[id][j][2] <= last'
    BY <1>4 DEF EdgesStep
  <2>4. Sweep(X)'
    BY <1>2, <1>6, <1>7, <2>2, <2>3 DEF Sweep, Followed
  <2>5. \A Y \in DOMAIN (m') : (m')[Y] = id => Y = X
    <3>1. IsInjective(m') /\ (m')[X] = id /\ X \in DOMAIN (m')
      BY <1>3, <1>4, <1>5, <2>1 DEF EdgesStep, NumbersInv
    <3>. QED BY <3>1 DEF IsInjective
  <2>6. \A Y \in DOMAIN (m') : (m')[Y] = id' => Sweep(Y)'
    BY <1>2, <2>4, <2>5 DEF Sweep, EventsInv, Open, Followed
  <2>. QED BY <1>6, <1>7, <2>6 DEF SweepInv
<1>13. NumbersInv'
  BY <1>4 DEF EdgesStep
<1>. QED BY <1>8, <1>9, <1>10, <1>11, <1>12, <1>13 DEF IInv

-----------------------------------------------------------------------------
(* Every state of determinize meets the invariant.                         *)
THEOREM Invariance == Spec => []IInv
<1>1. InitFrom(Automata) => IInv
  BY InitStep
<1>2. IInv /\ [Next]_vars => IInv'
  BY AddStartStep, PopStep, EventStep, SweptStep, StutterStep DEF Next, Step, Finished
<1>. QED BY <1>1, <1>2, PTL DEF Spec

(* Subsets are numbered from 0 without a gap, each is on the stack until   *)
(* it is processed, and no edge is closed that is not open: live.find at   *)
(* 449 finds one.                                                          *)
THEOREM TypeCorrect == Spec => []TypeOK
<1>1. IInv => TypeOK
  <2>. SUFFICES ASSUME IInv PROVE TypeOK
    OBVIOUS
  <2>1. NumbersInv /\ SweepInv /\ EdgesInv
    BY DEF IInv
  <2>2. rfinals \subseteq DOMAIN radj
    BY <2>1 DEF NumbersInv
  <2>. QED BY <2>1, <2>2 DEF TypeOK, NumbersInv, SweepInv, EdgesInv, NewEdge, EdgesInto, Handled
<1>. QED BY <1>1, Invariance, PTL

LEMMA SubsetOf ==
  ASSUME NumbersInv, NEW X \in DOMAIN m
  PROVE  Subset(m[X]) = X
<1>1. \A Y \in DOMAIN m : m[Y] = m[X] => Y = X
  BY DEF NumbersInv, IsInjective
<1>. QED BY <1>1 DEF Subset

(* The subset construction: of the automaton made, a label leads from a    *)
(* subset to the closure of all it leads to, and final are the subsets     *)
(* with a final member.                                                    *)
THEOREM FollowedAlways == Spec => []SubsetsFollowed
<1>1. IInv => SubsetsFollowed
  <2>. SUFFICES ASSUME IInv PROVE SubsetsFollowed
    OBVIOUS
  <2>1. NumbersInv /\ FollowedInv
    BY DEF IInv
  <2>2. \A n \in DOMAIN radj : \E X \in Handled : n = m[X] /\ Subset(n) = X
    BY <2>1, SubsetOf DEF NumbersInv, Handled
  <2>3. \A X \in Handled : m[X] \in DOMAIN radj /\ Subset(m[X]) = X
    BY <2>1, SubsetOf DEF NumbersInv, Handled
  <2>4. rfinals = {n \in DOMAIN radj : Subset(n) \cap finals # {}}
    <3>1. rfinals = {m[X] : X \in {X \in Handled : X \cap finals # {}}}
      BY <2>1 DEF NumbersInv
    <3>. QED BY <2>2, <2>3, <3>1
  <2>5. ASSUME NEW n \in DOMAIN radj \ {id}, NEW a \in 0 .. Limit - 1
        PROVE  LET js == {j \in DOMAIN radj[n] : Has(radj[n][j], a)}
                   to == Move(Subset(n), a)
               IN IF to = {} THEN js = {}
                  ELSE LeastClosed(to) \in DOMAIN m /\ {radj[n][j][3] : j \in js} = {m[LeastClosed(to)]}
    <3>1. Followed(n, Subset(n), a)
      BY <2>1, <2>2 DEF FollowedInv
    <3>. QED BY <3>1 DEF Followed, Reads
  <2>. QED BY <2>4, <2>5 DEF SubsetsFollowed
<1>. QED BY <1>1, Invariance, PTL

(* The edges of each new state are sorted and apart, as Fsa::check asserts *)
(* (fsa.cc 27-35), and no two neighbours could be one (435-441).           *)
THEOREM CanonicalAlways == Spec => []EdgesCanonical
<1>1. IInv => EdgesCanonical
  BY DEF IInv, EdgesInv, EdgesCanonical, Canonical
<1>. QED BY <1>1, Invariance, PTL

(* In the end the closures of the start and of all further starts are      *)
(* among the new states, that of the start as state 0.                     *)
THEOREM StartsAlways == Spec => []StartsBuilt
<1>1. IInv => StartsBuilt
  <2>. SUFFICES ASSUME IInv, Done PROVE StartsBuilt
    BY DEF StartsBuilt
  <2>1. StartsInv /\ Len(starts) \in Nat /\ DOMAIN starts = 1 .. Len(starts)
    BY DEF IInv, GivenInv
  <2>2. further = Len(starts)
    <3>1. further \in 0 .. Len(starts) /\ ~ (further < Len(starts))
      BY <2>1 DEF StartsInv, Done
    <3>2. PICK l \in Nat : l = Len(starts)
      BY <2>1
    <3>3. further \in 0 .. l /\ ~ (further < l)
      BY <3>1, <3>2
    <3>4. further = l
      BY <3>3
    <3>. QED BY <3>2, <3>4
  <2>. QED BY <2>1, <2>2 DEF StartsInv, StartsBuilt
<1>. QED BY <1>1, Invariance, PTL
=============================================================================
