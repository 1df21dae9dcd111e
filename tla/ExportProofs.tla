---------------------------- MODULE ExportProofs ----------------------------
(***************************************************************************)
(* For any automata of any number of statements: allocate lays out exactly *)
(* what is needed, each statement at its own place, and replaces collapse  *)
(* edges by epsilons; it loses no edge when a collapse starts wherever its *)
(* edges leave.  Before that, the helpers of src/common.hh: the intervals  *)
(* of a class in brackets, and sorted_emplace.                             *)
(***************************************************************************)
EXTENDS Export, LeastLemmas, SequenceTheorems

-----------------------------------------------------------------------------
(* The intervals of a class in brackets.                                   *)
Interval == {x \in Int \X Int : x[1] < x[2]}
Labels(I) == UNION {x[1] .. x[2] - 1 : x \in I}
Apart(I) == \A x, y \in I : x = y \/ x[2] < y[1] \/ y[2] < x[1]

(* The last of the intervals that begin no later than b.                   *)
LEMMA LastOfProps ==
  ASSUME NEW I \in SUBSET Interval, Apart(I), NEW b \in Int, \A x \in I : x[1] <= b
  PROVE  /\ I # {} => LastOf(I) # {}
         /\ \A x \in LastOf(I) : x \in I /\ \A y \in I : y = x \/ y[2] < x[1]
<1>1. ASSUME I # {} PROVE LastOf(I) # {}
  <2>. DEFINE D == {b - x[1] : x \in I}
  <2>1. D \in SUBSET Nat /\ D # {}
    BY <1>1 DEF Interval
  <2>2. PICK x \in I : b - x[1] = Min(D)
    BY <2>1, MinProps
  <2>3. \A d \in D : Min(D) <= d
    <3>. HIDE DEF D
    <3>. QED BY <2>1, MinProps
  <2>4. ASSUME NEW y \in I PROVE y[1] <= x[1]
    <3>1. b - y[1] \in D
      OBVIOUS
    <3>2. b - x[1] <= b - y[1]
      BY <2>2, <2>3, <3>1
    <3>3. x[1] \in Int /\ y[1] \in Int
      BY DEF Interval
    <3>. QED BY <3>2, <3>3
  <2>. QED BY <2>4 DEF LastOf
<1>2. ASSUME NEW x \in LastOf(I) PROVE x \in I /\ \A y \in I : y = x \/ y[2] < x[1]
  <2>1. x \in I /\ \A y \in I : y[1] <= x[1]
    BY <1>2 DEF LastOf
  <2>2. ASSUME NEW y \in I, y # x PROVE y[2] < x[1]
    <3>1. x[1] \in Int /\ x[2] \in Int /\ y[1] \in Int /\ y[2] \in Int /\ x[1] < x[2] /\ y[1] < y[2]
      BY <2>1 DEF Interval
    <3>2. x[2] < y[1] \/ y[2] < x[1]
      BY <2>1, <2>2 DEF Apart
    <3>3. y[1] <= x[1]
      BY <2>1
    <3>. QED BY <3>1, <3>2, <3>3
  <2>. QED BY <2>1, <2>2
<1>. QED BY <1>1, <1>2

(* DisjointIntervals::emplace (common.hh 96-112) keeps the intervals of a  *)
(* class apart, and adds the labels of the new one and no other, however   *)
(* it touches, covers or lies within those there are.                      *)
THEOREM AddedUnion ==
  ASSUME NEW I \in SUBSET Interval, Apart(I), NEW x \in Interval
  PROVE  /\ Added(I, x) \in SUBSET Interval /\ Apart(Added(I, x))
         /\ Labels(Added(I, x)) = Labels(I) \cup x[1] .. x[2] - 1
<1>. DEFINE S == {y \in I : y[1] < x[1]}
            T == {y \in I : y[1] <= x[2]}
            left == {y \in LastOf(S) : x[1] <= y[2]}
            right == {y \in LastOf(T) : x[2] < y[2]}
            from == IF left = {} THEN x[1] ELSE (CHOOSE y \in left : TRUE)[1]
            to == IF right = {} THEN x[2] ELSE (CHOOSE y \in right : TRUE)[2]
<1>0. /\ x[1] \in Int /\ x[2] \in Int /\ x[1] < x[2]
      /\ \A y \in I : y[1] \in Int /\ y[2] \in Int /\ y[1] < y[2] /\ y = <<y[1], y[2]>>
  BY DEF Interval
<1>1. /\ S # {} => LastOf(S) # {}
      /\ \A l \in LastOf(S) : l \in S /\ \A y \in S : y = l \/ y[2] < l[1]
  <2>1. S \in SUBSET Interval /\ Apart(S) /\ \A y \in S : y[1] <= x[1]
    BY <1>0 DEF Apart
  <2>. HIDE DEF S
  <2>. QED BY <1>0, <2>1, LastOfProps
<1>2. /\ T # {} => LastOf(T) # {}
      /\ \A r \in LastOf(T) : r \in T /\ \A y \in T : y = r \/ y[2] < r[1]
  <2>1. T \in SUBSET Interval /\ Apart(T) /\ \A y \in T : y[1] <= x[2]
    BY <1>0 DEF Apart
  <2>. HIDE DEF T
  <2>. QED BY <1>0, <2>1, LastOfProps
<1>3. /\ from \in Int /\ from <= x[1]
      /\ \A y \in I : y[1] < from => y[2] < from
      /\ \A p \in from .. x[1] - 1 : p \in Labels(I)
  <2>1. CASE left = {}
    <3>1. from = x[1]
      BY <2>1
    <3>2. ASSUME NEW y \in I, y[1] < x[1] PROVE y[2] < x[1]
      <4>1. PICK l \in LastOf(S) : TRUE
        BY <1>1, <3>2
      <4>2. l \in I /\ l[1] < x[1] /\ l[2] < x[1] /\ (y = l \/ y[2] < l[1])
        BY <1>0, <1>1, <2>1, <3>2, <4>1
      <4>. QED BY <1>0, <4>2
    <3>. HIDE DEF from
    <3>3. from .. x[1] - 1 = {}
      BY <1>0, <3>1
    <3>. QED BY <1>0, <3>1, <3>2, <3>3
  <2>2. CASE left # {}
    <3>1. PICK l : l \in left /\ from = l[1]
      BY <2>2
    <3>2. l \in I /\ l[1] < x[1] /\ x[1] <= l[2] /\ \A y \in S : y = l \/ y[2] < l[1]
      BY <1>1, <3>1
    <3>. HIDE DEF from, left
    <3>3. l[1] \in Int /\ l[2] \in Int
      BY <1>0, <3>2
    <3>4. ASSUME NEW y \in I, y[1] < from PROVE y[2] < from
      <4>1. y[1] < x[1] /\ y # l
        BY <1>0, <3>1, <3>2, <3>3, <3>4
      <4>. QED BY <3>1, <3>2, <4>1
    <3>5. ASSUME NEW p \in from .. x[1] - 1 PROVE p \in Labels(I)
      <4>1. p \in l[1] .. l[2] - 1
        BY <1>0, <3>1, <3>2, <3>3
      <4>. QED BY <3>2, <4>1 DEF Labels
    <3>. QED BY <1>0, <3>1, <3>2, <3>3, <3>4, <3>5
  <2>. QED BY <2>1, <2>2
<1>4. /\ to \in Int /\ x[2] <= to
      /\ \A y \in I : y[1] <= x[2] => y[2] <= to
      /\ \A y \in I : x[2] < y[1] => to < y[1]
      /\ \A p \in x[2] .. to - 1 : p \in Labels(I)
  <2>1. CASE right = {}
    <3>1. to = x[2]
      BY <2>1
    <3>2. ASSUME NEW y \in I, y[1] <= x[2] PROVE y[2] <= x[2]
      <4>1. PICK r \in LastOf(T) : TRUE
        BY <1>2, <3>2
      <4>2. r \in I /\ r[1] <= x[2] /\ r[2] <= x[2] /\ (y = r \/ y[2] < r[1])
        <5>1. r \in T /\ ~ (x[2] < r[2])
          BY <1>2, <2>1, <4>1
        <5>. QED BY <1>0, <1>2, <3>2, <4>1, <5>1
      <4>. QED BY <1>0, <4>2
    <3>. HIDE DEF to
    <3>3. x[2] .. to - 1 = {}
      BY <1>0, <3>1
    <3>. QED BY <1>0, <3>1, <3>2, <3>3
  <2>2. CASE right # {}
    <3>1. PICK r : r \in right /\ to = r[2]
      BY <2>2
    <3>2. r \in I /\ r[1] <= x[2] /\ x[2] < r[2] /\ \A y \in T : y = r \/ y[2] < r[1]
      BY <1>2, <3>1
    <3>. HIDE DEF to, right
    <3>3. r[1] \in Int /\ r[2] \in Int /\ r[1] < r[2]
      BY <1>0, <3>2
    <3>4. ASSUME NEW y \in I, y[1] <= x[2] PROVE y[2] <= to
      <4>1. y = r \/ y[2] < r[1]
        BY <3>2, <3>4
      <4>. QED BY <1>0, <3>1, <3>3, <4>1
    <3>5. ASSUME NEW y \in I, x[2] < y[1] PROVE to < y[1]
      <4>1. r[2] < y[1] \/ y[2] < r[1]
        <5>1. y # r
          BY <1>0, <3>2, <3>3, <3>5
        <5>. QED BY <3>2, <5>1 DEF Apart
      <4>2. y[1] \in Int /\ y[2] \in Int /\ y[1] < y[2]
        BY <1>0
      <4>. QED BY <1>0, <3>1, <3>2, <3>3, <3>5, <4>1, <4>2
    <3>6. ASSUME NEW p \in x[2] .. to - 1 PROVE p \in Labels(I)
      <4>1. p \in r[1] .. r[2] - 1
        BY <1>0, <3>1, <3>2, <3>3
      <4>. QED BY <3>2, <4>1 DEF Labels
    <3>. QED BY <1>0, <3>1, <3>2, <3>3, <3>4, <3>5, <3>6
  <2>. QED BY <2>1, <2>2
<1>5. Added(I, x) = {y \in I : y[1] < from \/ x[2] < y[1]} \cup {<<from, to>>}
  BY DEF Added
<1>. HIDE DEF from, to
<1>. DEFINE K == {y \in I : y[1] < from \/ x[2] < y[1]} \cup {<<from, to>>}
<1>6. from < to
  BY <1>0, <1>3, <1>4
<1>7. K \in SUBSET Interval
  BY <1>3, <1>4, <1>6 DEF Interval
<1>. DEFINE k == <<from, to>>
<1>8. k \in K /\ k[1] = from /\ k[2] = to
  OBVIOUS
<1>9. ASSUME NEW y \in I, y[1] < from \/ x[2] < y[1] PROVE y[2] < from \/ to < y[1]
  BY <1>3, <1>4, <1>9
<1>10. Apart(K)
  <2>1. ASSUME NEW y \in K, NEW z \in K, y # z PROVE y[2] < z[1] \/ z[2] < y[1]
    <3>1. CASE y \in I /\ z \in I
      BY <2>1, <3>1 DEF Apart
    <3>2. CASE y \in I /\ z = <<from, to>> /\ (y[1] < from \/ x[2] < y[1])
      BY <1>9, <3>2
    <3>3. CASE z \in I /\ y = <<from, to>> /\ (z[1] < from \/ x[2] < z[1])
      BY <1>9, <3>3
    <3>. QED BY <2>1, <3>1, <3>2, <3>3
  <2>. QED BY <2>1 DEF Apart
<1>11. ASSUME NEW p \in Int PROVE (p \in Labels(K)) = (p \in Labels(I) \/ p \in x[1] .. x[2] - 1)
  <2>1. ASSUME p \in Labels(K) PROVE p \in Labels(I) \/ p \in x[1] .. x[2] - 1
    <3>1. PICK y \in K : p \in y[1] .. y[2] - 1
      BY <2>1 DEF Labels
    <3>2. CASE y \in I
      BY <3>1, <3>2 DEF Labels
    <3>3. CASE y = <<from, to>>
      <4>1. p \in from .. to - 1
        BY <3>1, <3>3
      <4>2. p \in from .. x[1] - 1 \/ p \in x[1] .. x[2] - 1 \/ p \in x[2] .. to - 1
        BY <1>0, <1>3, <1>4, <4>1
      <4>. QED BY <1>3, <1>4, <4>2
    <3>. QED BY <3>1, <3>2, <3>3
  <2>2. ASSUME p \in x[1] .. x[2] - 1 PROVE p \in Labels(K)
    <3>1. p \in k[1] .. k[2] - 1
      BY <1>0, <1>3, <1>4, <1>8, <2>2
    <3>. HIDE DEF k, K
    <3>. QED BY <1>8, <3>1 DEF Labels
  <2>3. ASSUME p \in Labels(I) PROVE p \in Labels(K)
    <3>1. PICK y \in I : p \in y[1] .. y[2] - 1
      BY <2>3 DEF Labels
    <3>2. CASE y \in K
      BY <3>1, <3>2 DEF Labels
    <3>3. CASE y \notin K
      <4>1. from <= y[1] /\ y[1] <= x[2]
        BY <1>0, <1>3, <3>3
      <4>2. y[2] <= to
        BY <1>4, <4>1
      <4>3. p \in k[1] .. k[2] - 1
        BY <1>0, <1>3, <1>4, <1>8, <3>1, <4>1, <4>2
      <4>. HIDE DEF k, K
      <4>. QED BY <1>8, <4>3 DEF Labels
    <3>. QED BY <3>2, <3>3
  <2>. QED BY <2>1, <2>2, <2>3
<1>12. Labels(K) \subseteq Int /\ Labels(I) \subseteq Int
  BY DEF Labels
<1>13. Labels(K) = Labels(I) \cup x[1] .. x[2] - 1
  <2>. HIDE DEF K
  <2>. QED BY <1>11, <1>12
<1>. HIDE DEF K
<1>14. Added(I, x) = K
  BY <1>5 DEF K
<1>. QED BY <1>7, <1>10, <1>13, <1>14
(* Where the intervals before b end, and where all of them do.             *)
LEMMA EndProps ==
  ASSUME NEW I \in SUBSET Interval, Apart(I), NEW b \in Int
  PROVE  /\ LET e == EndBefore(I, b)
            IN /\ e \in Int /\ (e = 0 \/ \E y \in I : y[1] < b /\ e = y[2])
               /\ \A y \in I : y[1] < b => y[2] <= e
         /\ (\A y \in I : y[2] <= b) => LET e == EndOf(I)
                                        IN /\ e \in Int /\ (e = 0 \/ \E y \in I : e = y[2])
                                           /\ \A y \in I : y[2] <= e
<1>0. \A y \in I : y[1] \in Int /\ y[2] \in Int /\ y[1] < y[2]
  BY DEF Interval
<1>1. ASSUME NEW S \in SUBSET I, \A y \in S : y[1] <= b
      PROVE  \E e \in {0} \cup {y[2] : y \in S} : \A y \in S : y[2] <= e
  <2>1. CASE S = {}
    BY <2>1
  <2>2. CASE S # {}
    <3>1. S \in SUBSET Interval /\ Apart(S)
      BY DEF Apart
    <3>2. PICK l \in LastOf(S) : l \in S /\ \A y \in S : y = l \/ y[2] < l[1]
      BY <1>1, <2>2, <3>1, LastOfProps
    <3>3. ASSUME NEW y \in S PROVE y[2] <= l[2]
      BY <1>0, <3>2
    <3>4. l[2] \in {0} \cup {y[2] : y \in S}
      BY <3>2
    <3>. QED BY <3>3, <3>4
  <2>. QED BY <2>1, <2>2
<1>2. LET e == EndBefore(I, b)
      IN /\ e \in Int /\ (e = 0 \/ \E y \in I : y[1] < b /\ e = y[2])
         /\ \A y \in I : y[1] < b => y[2] <= e
  <2>. DEFINE S == {y \in I : y[1] < b}
              e == EndBefore(I, b)
  <2>1. \E c \in {0} \cup {y[2] : y \in S} : \A y \in S : y[2] <= c
    <3>1. S \in SUBSET I /\ \A y \in S : y[1] <= b
      BY <1>0
    <3>. HIDE DEF S
    <3>. QED BY <1>1, <3>1
  <2>2. e = CHOOSE c \in {0} \cup {y[2] : y \in S} : \A y \in I : y[1] < b => y[2] <= c
    BY DEF EndBefore
  <2>3. e \in {0} \cup {y[2] : y \in S} /\ \A y \in I : y[1] < b => y[2] <= e
    <3>. HIDE DEF e
    <3>1. \E c \in {0} \cup {y[2] : y \in S} : \A y \in I : y[1] < b => y[2] <= c
      BY <2>1
    <3>. QED BY <2>2, <3>1
  <2>. HIDE DEF e
  <2>4. e \in Int /\ (e = 0 \/ \E y \in I : y[1] < b /\ e = y[2])
    BY <1>0, <2>3
  <2>. QED BY <2>3, <2>4 DEF e
<1>3. ASSUME \A y \in I : y[2] <= b
      PROVE  LET e == EndOf(I)
             IN e \in Int /\ (e = 0 \/ \E y \in I : e = y[2]) /\ \A y \in I : y[2] <= e
  <2>. DEFINE e == EndOf(I)
  <2>1. \A y \in I : y[1] <= b
    BY <1>0, <1>3
  <2>2. \E c \in {0} \cup {y[2] : y \in I} : \A y \in I : y[2] <= c
    BY <1>1, <2>1
  <2>3. e \in {0} \cup {y[2] : y \in I} /\ \A y \in I : y[2] <= e
    BY <2>2 DEF EndOf
  <2>. HIDE DEF e
  <2>4. e \in Int /\ (e = 0 \/ \E y \in I : e = y[2])
    BY <1>0, <2>3
  <2>. QED BY <2>3, <2>4 DEF e
<1>. QED BY <1>2, <1>3

(* DisjointIntervals::flip (common.hh 113-126) gives the intervals, apart  *)
(* from each other, of the labels below AB that the class does not have.   *)
THEOREM FlippedComplement ==
  ASSUME NEW m \in Nat, NEW I \in SUBSET Interval, Apart(I), \A x \in I : 0 <= x[1] /\ x[2] <= m
  PROVE  /\ Flipped(I, m) \in SUBSET Interval /\ Apart(Flipped(I, m))
         /\ Labels(Flipped(I, m)) = (0 .. m - 1) \ Labels(I)
<1>. DEFINE J == Flipped(I, m)
            B(b) == EndBefore(I, b)
            e == EndOf(I)
<1>0. \A y \in I : y[1] \in Int /\ y[2] \in Int /\ y[1] < y[2]
  BY DEF Interval
<1>1. \A b \in Int : /\ B(b) \in Int /\ (B(b) = 0 \/ \E y \in I : y[1] < b /\ B(b) = y[2])
                     /\ \A y \in I : y[1] < b => y[2] <= B(b)
  BY EndProps
<1>2. e \in Int /\ (e = 0 \/ \E y \in I : e = y[2]) /\ \A y \in I : y[2] <= e
  <2>1. m \in Int
    OBVIOUS
  <2>. QED BY <2>1, EndProps
<1>3. \A x : x \in J <=> \/ x = <<e, m>> /\ e < m
                         \/ \E y \in I : x = <<B(y[1]), y[1]>> /\ B(y[1]) < y[1]
  BY DEF Flipped
<1>. HIDE DEF J, B, e
<1>4. ASSUME NEW x \in J
      PROVE  /\ x \in Int \X Int /\ 0 <= x[1] /\ x[1] < x[2] /\ x[2] <= m
             /\ \/ x[1] = e /\ x[2] = m
                \/ \E y \in I : x[1] = B(y[1]) /\ x[2] = y[1]
  <2>1. CASE x = <<e, m>> /\ e < m
    <3>1. 0 <= e
      BY <1>0, <1>2
    <3>. QED BY <1>2, <2>1, <3>1
  <2>2. ASSUME NEW y \in I, x = <<B(y[1]), y[1]>>, B(y[1]) < y[1]
        PROVE  /\ x \in Int \X Int /\ 0 <= x[1] /\ x[1] < x[2] /\ x[2] <= m
               /\ x[1] = B(y[1]) /\ x[2] = y[1]
    <3>1. y[1] \in Int /\ y[1] <= m
      BY <1>0
    <3>2. B(y[1]) \in Int /\ 0 <= B(y[1])
      BY <1>0, <1>1, <3>1
    <3>. QED BY <2>2, <3>1, <3>2
  <2>. QED BY <1>3, <2>1, <2>2
<1>5. J \in SUBSET Interval
  BY <1>4 DEF Interval
<1>6. Apart(J)
  <2>1. ASSUME NEW x \in J, NEW z \in J, x[2] < z[2] PROVE x[2] < z[1]
    <3>1. PICK y \in I : x[2] = y[1]
      BY <1>4, <2>1
    <3>2. y[1] < y[2] /\ y[1] \in Int /\ y[2] \in Int
      BY <1>0
    <3>3. y[2] <= z[1] /\ z[1] \in Int
      <4>1. CASE z[1] = e
        BY <1>2, <4>1
      <4>2. CASE z[1] # e
        <5>1. PICK w \in I : z[1] = B(w[1]) /\ z[2] = w[1]
          BY <1>4, <4>2
        <5>2. w[1] \in Int /\ y[1] < w[1]
          BY <1>0, <2>1, <3>1, <5>1
        <5>. QED BY <1>1, <5>1, <5>2
      <4>. QED BY <4>1, <4>2
    <3>. QED BY <3>1, <3>2, <3>3
  <2>2. ASSUME NEW x \in J, NEW z \in J, x[2] = z[2] PROVE x = z
    <3>1. x = <<x[1], x[2]>> /\ z = <<z[1], z[2]>>
      BY <1>4
    <3>2. CASE x[2] = m
      <4>1. ASSUME NEW y \in I PROVE y[1] # m
        BY <1>0
      <4>2. x[1] = e /\ z[1] = e
        BY <1>4, <2>2, <3>2, <4>1
      <4>. QED BY <2>2, <3>1, <4>2
    <3>3. CASE x[2] # m
      <4>1. x[1] = B(x[2]) /\ z[1] = B(z[2])
        BY <1>4, <2>2, <3>3
      <4>. QED BY <2>2, <3>1, <4>1
    <3>. QED BY <3>2, <3>3
  <2>3. ASSUME NEW x \in J, NEW z \in J PROVE x = z \/ x[2] < z[1] \/ z[2] < x[1]
    <3>1. x[2] \in Int /\ z[2] \in Int
      BY <1>4
    <3>2. x[2] < z[2] \/ x[2] = z[2] \/ z[2] < x[2]
      BY <3>1
    <3>. QED BY <2>1, <2>2, <3>2
  <2>. QED BY <2>3 DEF Apart
<1>7. ASSUME NEW x \in J, NEW p \in x[1] .. x[2] - 1 PROVE p \in (0 .. m - 1) \ Labels(I)
  <2>1. x[1] \in Int /\ x[2] \in Int /\ p \in Int /\ x[1] <= p /\ p < x[2] /\ p \in 0 .. m - 1
    BY <1>4
  <2>2. ASSUME NEW y \in I PROVE y[2] <= p \/ p < y[1]
    <3>0. y[1] \in Int /\ y[2] \in Int
      BY <1>0
    <3>1. CASE x[1] = e /\ x[2] = m
      BY <1>2, <2>1, <3>0, <3>1
    <3>2. ASSUME NEW w \in I, x[1] = B(w[1]), x[2] = w[1] PROVE y[2] <= p \/ p < y[1]
      <4>1. w[1] \in Int
        BY <1>0
      <4>2. CASE y[1] < w[1]
        <5>1. y[2] <= x[1]
          BY <1>1, <3>2, <4>1, <4>2
        <5>. QED BY <2>1, <3>0, <5>1
      <4>3. CASE ~ (y[1] < w[1])
        BY <2>1, <3>0, <3>2, <4>1, <4>3
      <4>. QED BY <4>2, <4>3
    <3>. QED BY <1>4, <3>1, <3>2
  <2>3. ASSUME NEW y \in I PROVE p \notin y[1] .. y[2] - 1
    BY <1>0, <2>1, <2>2
  <2>. QED BY <2>1, <2>3 DEF Labels
<1>8. ASSUME NEW p \in 0 .. m - 1, p \notin Labels(I) PROVE \E x \in J : p \in x[1] .. x[2] - 1
  <2>1. ASSUME NEW y \in I PROVE y[2] <= p \/ p < y[1]
    <3>1. p \notin y[1] .. y[2] - 1
      BY <1>8 DEF Labels
    <3>. QED BY <1>0, <3>1
  <2>2. CASE \A y \in I : y[2] <= p
    <3>1. e <= p /\ e < m
      BY <1>0, <1>2, <2>2
    <3>. DEFINE x == <<e, m>>
    <3>2. x \in J
      BY <1>3, <3>1
    <3>3. p \in x[1] .. x[2] - 1
      BY <1>2, <3>1
    <3>. QED BY <3>2, <3>3
  <2>3. CASE \E y \in I : ~ (y[2] <= p)
    <3>. DEFINE D == {y[1] : y \in {y \in I : p < y[1]}}
    <3>1. D \in SUBSET Nat /\ D # {}
      BY <1>0, <2>1, <2>3
    <3>2. PICK y \in I : p < y[1] /\ y[1] = Min(D)
      BY <3>1, MinProps
    <3>3. ASSUME NEW z \in I, z[1] < y[1] PROVE z[2] <= p
      <4>1. CASE p < z[1]
        <5>1. z[1] \in D
          BY <4>1
        <5>2. y[1] <= z[1]
          BY <3>1, <3>2, <5>1, MinProps
        <5>. QED BY <1>0, <3>3, <5>2
      <4>. QED BY <2>1, <4>1
    <3>. HIDE DEF D
    <3>4. y[1] \in Int /\ B(y[1]) \in Int /\ B(y[1]) <= p
      <4>1. y[1] \in Int
        BY <1>0
      <4>2. B(y[1]) \in Int /\ (B(y[1]) = 0 \/ \E z \in I : z[1] < y[1] /\ B(y[1]) = z[2])
        BY <1>1, <4>1
      <4>. QED BY <3>3, <4>1, <4>2
    <3>. DEFINE x == <<B(y[1]), y[1]>>
    <3>5. x \in J
      BY <1>3, <3>2, <3>4
    <3>6. p \in x[1] .. x[2] - 1
      BY <3>2, <3>4
    <3>. QED BY <3>5, <3>6
  <2>. QED BY <2>2, <2>3
<1>9. Labels(J) = (0 .. m - 1) \ Labels(I)
  <2>1. Labels(J) \subseteq (0 .. m - 1) \ Labels(I)
    BY <1>7 DEF Labels
  <2>2. ASSUME NEW p \in (0 .. m - 1) \ Labels(I) PROVE p \in Labels(J)
    BY <1>8 DEF Labels
  <2>. QED BY <2>1, <2>2
<1>10. Flipped(I, m) = J
  BY DEF J
<1>. QED BY <1>5, <1>6, <1>9, <1>10
-----------------------------------------------------------------------------
(* An edge laid out; epsilons are sorted by the state they lead to.        *)
AnyEdge == (Nat \X Nat \X Nat) \cup ({-1} \X {0} \X Nat)
SortedEdges(es) ==
  \A j \in DOMAIN es :
    /\ es[j][1] < es[j][2]
    /\ \A l \in DOMAIN es : j < l =>
         es[j][2] <= es[l][1] \/ (es[j][1] = -1 /\ es[l][1] = -1 /\ es[j][3] <= es[l][3])

(* sorted_emplace puts one epsilon among the others, and keeps the order.  *)
LEMMA EmplacedProps ==
  ASSUME NEW es \in Seq(AnyEdge), SortedEdges(es), NEW v \in Nat
  PROVE  /\ Emplaced(es, v) \in Seq(AnyEdge)
         /\ SortedEdges(Emplaced(es, v))
         /\ Len(Emplaced(es, v)) = Len(es) + 1
         /\ \E k \in 0 .. Len(es) :
              /\ k > 0 => es[k][1] = -1
              /\ Emplaced(es, v)[k + 1] = EpsilonTo(v)
              /\ \A h \in 1 .. k : Emplaced(es, v)[h] = es[h]
              /\ \A h \in k + 1 .. Len(es) : Emplaced(es, v)[h + 1] = es[h]
<1>. DEFINE Greater(j) == es[j][1] > -1 \/ es[j][3] > v
            Place(k) == /\ k > 0 => es[k][1] = -1 /\ es[k][3] <= v
                        /\ \A j \in k + 1 .. Len(es) : Greater(j)
            G == {j \in 1 .. Len(es) : Greater(j)}
<1>0. \A h \in 1 .. Len(es) : es[h] \in AnyEdge
  OBVIOUS
<1>1. \A h \in 1 .. Len(es) :
        /\ es[h][1] \in Nat \cup {-1} /\ es[h][2] \in Nat /\ es[h][3] \in Nat
        /\ es[h][1] = -1 => es[h][2] = 0
  BY <1>0 DEF AnyEdge
<1>2. \E k \in 0 .. Len(es) : Place(k)
  <2>1. CASE G = {}
    <3>1. \A j \in 1 .. Len(es) : ~ Greater(j)
      BY <2>1
    <3>2. Len(es) > 0 => ~ Greater(Len(es))
      BY <3>1
    <3>3. Place(Len(es))
      BY <1>1, <3>2
    <3>. QED BY <3>3
  <2>2. CASE G # {}
    <3>1. G \in SUBSET Nat
      OBVIOUS
    <3>2. Min(G) \in G /\ \A x \in G : Min(G) <= x
      BY <2>2, <3>1, MinProps
    <3>. DEFINE g == Min(G)
    <3>. HIDE DEF g
    <3>3. g \in 1 .. Len(es) /\ Greater(g) /\ \A j \in 1 .. Len(es) : j < g => ~ Greater(j)
      <4>. HIDE DEF Greater
      <4>1. g \in 1 .. Len(es) /\ Greater(g)
        BY <3>2 DEF g
      <4>2. ASSUME NEW j \in 1 .. Len(es), j < g, Greater(j) PROVE FALSE
        <5>1. j \in G
          BY <4>2
        <5>2. g <= j
          BY <3>2, <5>1 DEF g
        <5>. QED BY <4>1, <4>2, <5>2
      <4>. QED BY <4>1, <4>2
    <3>4. ASSUME NEW j \in g .. Len(es) PROVE Greater(j)
      <4>1. CASE j = g
        BY <3>3, <4>1
      <4>2. CASE g < j
        <5>1. j \in DOMAIN es /\ g \in DOMAIN es
          BY <3>3
        <5>2. es[g][2] <= es[j][1] \/ (es[g][1] = -1 /\ es[j][1] = -1 /\ es[g][3] <= es[j][3])
          BY <4>2, <5>1 DEF SortedEdges
        <5>. QED BY <1>1, <3>3, <5>1, <5>2
      <4>. QED BY <3>3, <4>1, <4>2
    <3>5. g - 1 > 0 => ~ Greater(g - 1)
      BY <3>3
    <3>6. Place(g - 1)
      BY <1>1, <3>3, <3>4, <3>5
    <3>. QED BY <3>3, <3>6
  <2>. QED BY <2>1, <2>2
<1>3. PICK k \in 0 .. Len(es) :
        Place(k) /\ Emplaced(es, v) = SubSeq(es, 1, k) \o <<EpsilonTo(v)>> \o SubSeq(es, k + 1, Len(es))
  BY <1>2 DEF Emplaced
<1>. DEFINE r == Emplaced(es, v)
<1>4. EpsilonTo(v) \in AnyEdge
  BY DEF EpsilonTo, AnyEdge
<1>5. /\ SubSeq(es, 1, k) \in Seq(AnyEdge) /\ Len(SubSeq(es, 1, k)) = k
      /\ \A h \in 1 .. k : SubSeq(es, 1, k)[h] = es[h]
  OBVIOUS
<1>6. /\ SubSeq(es, k + 1, Len(es)) \in Seq(AnyEdge)
      /\ Len(SubSeq(es, k + 1, Len(es))) = Len(es) - k
      /\ \A h \in 1 .. Len(es) - k : SubSeq(es, k + 1, Len(es))[h] = es[h + k]
  OBVIOUS
<1>7. /\ r \in Seq(AnyEdge) /\ Len(r) = Len(es) + 1
      /\ r[k + 1] = EpsilonTo(v)
      /\ \A h \in 1 .. k : r[h] = es[h]
      /\ \A h \in k + 2 .. Len(es) + 1 : r[h] = es[h - 1]
  <2>. DEFINE p == SubSeq(es, 1, k)
              q == SubSeq(es, k + 1, Len(es))
              e == EpsilonTo(v)
  <2>. HIDE DEF p, q, e
  <2>1. r = p \o <<e>> \o q
    BY <1>3 DEF p, q, e
  <2>2. p \in Seq(AnyEdge) /\ Len(p) = k /\ \A h \in 1 .. k : p[h] = es[h]
    BY <1>5 DEF p
  <2>3. q \in Seq(AnyEdge) /\ Len(q) = Len(es) - k /\ \A h \in 1 .. Len(es) - k : q[h] = es[h + k]
    BY <1>6 DEF q
  <2>4. <<e>> \in Seq(AnyEdge) /\ Len(<<e>>) = 1 /\ <<e>>[1] = e
    BY <1>4 DEF e
  <2>5. /\ p \o <<e>> \in Seq(AnyEdge) /\ Len(p \o <<e>>) = k + 1
        /\ \A h \in 1 .. k : (p \o <<e>>)[h] = es[h]
        /\ (p \o <<e>>)[k + 1] = e
    BY <2>2, <2>4
  <2>. DEFINE w == p \o <<e>>
  <2>. HIDE DEF r, w
  <2>6. /\ r \in Seq(AnyEdge) /\ Len(r) = Len(es) + 1
        /\ \A h \in 1 .. k + 1 : r[h] = w[h]
        /\ \A h \in k + 2 .. Len(es) + 1 : r[h] = q[h - (k + 1)]
    <3>1. w \in Seq(AnyEdge) /\ Len(w) = k + 1 /\ r = w \o q
      BY <2>1, <2>5 DEF w
    <3>2. Len(w) + Len(q) = Len(es) + 1
      BY <2>3, <3>1
    <3>. QED BY <2>3, <3>1, <3>2, ConcatProperties
  <2>7. \A h \in k + 2 .. Len(es) + 1 : r[h] = es[h - 1]
    <3>. TAKE h \in k + 2 .. Len(es) + 1
    <3>1. h - (k + 1) \in 1 .. Len(es) - k /\ h - (k + 1) + k = h - 1
      OBVIOUS
    <3>. QED BY <2>3, <2>6, <3>1
  <2>. QED BY <2>5, <2>6, <2>7 DEF e, w
<1>. HIDE DEF r
<1>8. SortedEdges(r)
  <2>1. \A h \in 1 .. Len(r) : r[h][1] < r[h][2]
    <3>1. EpsilonTo(v)[1] = -1 /\ EpsilonTo(v)[2] = 0
      BY DEF EpsilonTo
    <3>2. \A h \in 1 .. Len(es) : es[h][1] < es[h][2]
      BY DEF SortedEdges
    <3>. TAKE h \in 1 .. Len(r)
    <3>3. h = k + 1 \/ h \in 1 .. k \/ h \in k + 2 .. Len(es) + 1
      BY <1>7
    <3>4. CASE h = k + 1
      BY <1>7, <3>1, <3>4
    <3>5. CASE h \in 1 .. k
      BY <1>7, <3>2, <3>5
    <3>6. CASE h \in k + 2 .. Len(es) + 1
      <4>1. h - 1 \in 1 .. Len(es) /\ r[h] = es[h - 1]
        BY <1>7, <3>6
      <4>. QED BY <3>2, <4>1
    <3>. QED BY <3>3, <3>4, <3>5, <3>6
  <2>2. ASSUME NEW j \in 1 .. Len(r), NEW l \in 1 .. Len(r), j < l
        PROVE  r[j][2] <= r[l][1] \/ (r[j][1] = -1 /\ r[l][1] = -1 /\ r[j][3] <= r[l][3])
    <3>0. EpsilonTo(v)[1] = -1 /\ EpsilonTo(v)[2] = 0 /\ EpsilonTo(v)[3] = v
      BY DEF EpsilonTo
    <3>1. \A a, b \in 1 .. Len(es) : a < b =>
            es[a][2] <= es[b][1] \/ (es[a][1] = -1 /\ es[b][1] = -1 /\ es[a][3] <= es[b][3])
      BY DEF SortedEdges
    <3>2. CASE j # k + 1 /\ l # k + 1
      <4>1. j <= k => j \in 1 .. Len(es) /\ r[j] = es[j]
        BY <1>7
      <4>2. l <= k => l \in 1 .. Len(es) /\ r[l] = es[l]
        BY <1>7
      <4>3. j > k => j - 1 \in 1 .. Len(es) /\ r[j] = es[j - 1]
        BY <1>7, <3>2
      <4>4. l > k => l - 1 \in 1 .. Len(es) /\ r[l] = es[l - 1]
        BY <1>7, <3>2
      <4>5. CASE l <= k
        BY <2>2, <3>1, <4>1, <4>2, <4>5
      <4>6. CASE j > k
        <5>1. j - 1 < l - 1 /\ l > k
          BY <2>2, <4>6
        <5>. QED BY <3>1, <4>3, <4>4, <4>6, <5>1
      <4>7. CASE j <= k /\ l > k
        <5>1. j < l - 1
          BY <2>2, <3>2, <4>7
        <5>. QED BY <3>1, <4>1, <4>4, <4>7, <5>1
      <4>. QED BY <4>5, <4>6, <4>7
    <3>3. CASE j = k + 1
      <4>1. l - 1 \in k + 1 .. Len(es) /\ l - 1 \in 1 .. Len(es) /\ r[l] = es[l - 1]
        BY <1>7, <2>2, <3>3
      <4>2. Greater(l - 1)
        BY <1>3, <4>1
      <4>3. es[l - 1][1] \in Nat \cup {-1} /\ es[l - 1][3] \in Nat
        BY <1>1, <4>1
      <4>. QED BY <1>7, <3>0, <3>3, <4>1, <4>2, <4>3
    <3>4. CASE l = k + 1
      <4>1. j \in 1 .. k /\ r[j] = es[j] /\ r[l] = EpsilonTo(v)
        BY <1>7, <2>2, <3>4
      <4>2. es[k][1] = -1 /\ es[k][3] <= v
        BY <1>3, <4>1
      <4>3. j < k => es[j][2] <= es[k][1] \/ (es[j][1] = -1 /\ es[k][1] = -1 /\ es[j][3] <= es[k][3])
        BY <3>1, <4>1
      <4>. QED BY <1>1, <3>0, <4>1, <4>2, <4>3, SMTT(30)
    <3>. QED BY <3>2, <3>3, <3>4
  <2>. QED BY <1>7, <2>1, <2>2 DEF SortedEdges
<1>9. \A h \in k + 1 .. Len(es) : r[h + 1] = es[h]
  BY <1>7
<1>. QED BY <1>3, <1>7, <1>8, <1>9 DEF r

LEMMA InToSet ==
  ASSUME NEW T, NEW q \in Seq(T)
  PROVE  \A e : e \in ToSet(q) <=> \E h \in 1 .. Len(q) : q[h] = e
<1>1. DOMAIN q = 1 .. Len(q)
  OBVIOUS
<1>. QED BY <1>1 DEF ToSet

LEMMA EmplacedSet ==
  ASSUME NEW es \in Seq(AnyEdge), SortedEdges(es), NEW v \in Nat
  PROVE  ToSet(Emplaced(es, v)) = ToSet(es) \cup {EpsilonTo(v)}
<1>. DEFINE r == Emplaced(es, v)
            n == Len(es)
<1>1. PICK k \in 0 .. n :
        /\ r[k + 1] = EpsilonTo(v)
        /\ \A h \in 1 .. k : r[h] = es[h]
        /\ \A h \in k + 1 .. n : r[h + 1] = es[h]
  BY EmplacedProps
<1>2. r \in Seq(AnyEdge) /\ Len(r) = n + 1 /\ n \in Nat
  <2>1. r \in Seq(AnyEdge) /\ Len(r) = n + 1
    BY EmplacedProps
  <2>. QED BY <2>1
<1>3. DOMAIN r = 1 .. n + 1 /\ DOMAIN es = 1 .. n
  BY <1>2
<1>. HIDE DEF r, n
<1>4. ASSUME NEW h \in 1 .. n + 1 PROVE r[h] = EpsilonTo(v) \/ \E m \in 1 .. n : r[h] = es[m]
  <2>1. CASE h <= k
    BY <1>1, <1>2, <2>1
  <2>2. CASE h = k + 1
    BY <1>1, <2>2
  <2>3. CASE h > k + 1
    <3>1. h - 1 \in k + 1 .. n /\ h - 1 \in 1 .. n /\ h - 1 + 1 = h
      BY <1>2, <2>3
    <3>. QED BY <1>1, <3>1
  <2>. QED BY <1>2, <2>1, <2>2, <2>3
<1>5. ASSUME NEW m \in 1 .. n PROVE \E h \in 1 .. n + 1 : r[h] = es[m]
  <2>1. CASE m <= k
    BY <1>1, <1>2, <2>1
  <2>2. CASE m > k
    <3>1. m \in k + 1 .. n /\ m + 1 \in 1 .. n + 1
      BY <1>2, <2>2
    <3>. QED BY <1>1, <3>1
  <2>. QED BY <1>2, <2>1, <2>2
<1>6. k + 1 \in 1 .. n + 1
  BY <1>2
<1>7. ToSet(r) = ToSet(es) \cup {EpsilonTo(v)}
  <2>1. \A e : e \in ToSet(r) <=> \E h \in 1 .. n + 1 : r[h] = e
    BY <1>2, InToSet
  <2>2. \A e : e \in ToSet(es) <=> \E h \in 1 .. n : es[h] = e
    BY InToSet DEF n
  <2>. QED BY <1>1, <1>4, <1>5, <1>6, <2>1, <2>2
<1>. QED BY <1>7 DEF r

LEMMA ToSetAppend ==
  ASSUME NEW T, NEW q \in Seq(T), NEW x \in T
  PROVE  ToSet(Append(q, x)) = ToSet(q) \cup {x}
<1>. DEFINE r == Append(q, x)
            n == Len(q)
<1>1. /\ r \in Seq(T) /\ Len(r) = n + 1 /\ n \in Nat
      /\ \A h \in 1 .. n : r[h] = q[h] /\ h \in 1 .. n + 1
      /\ r[n + 1] = x /\ n + 1 \in 1 .. n + 1
      /\ \A h \in 1 .. n + 1 : h \in 1 .. n \/ h = n + 1
  OBVIOUS
<1>. HIDE DEF r
<1>2. \A e : e \in ToSet(r) <=> \E h \in 1 .. Len(r) : r[h] = e
  BY <1>1, InToSet
<1>3. \A e : e \in ToSet(q) <=> \E h \in 1 .. n : q[h] = e
  BY InToSet
<1>. HIDE DEF n
<1>4. ToSet(r) = ToSet(q) \cup {x}
  BY <1>1, <1>2, <1>3
<1>. QED BY <1>4 DEF r

-----------------------------------------------------------------------------
(* The inductive invariant.                                                *)
Call == [stmt : Stmt, k : Nat, phase : {"starts", "refs"}, j : Nat, v : Nat,
         todo : SUBSET Reference, at : Reference \cup {<<>>}]

TypeInv ==
  /\ compiled \in [Stmt -> FsaAnnos]
  /\ used_as_call \in SUBSET Stmt
  /\ exporting \in Stmt
  /\ offset \in [Stmt -> Nat \cup {None}]
  /\ allo \in Nat
  /\ adj \in [0 .. allo - 1 -> Seq(AnyEdge)]
  /\ starts \in Seq(Nat)
  /\ sub_final \in SUBSET Nat
  /\ frames \in Seq(Call)

(* Every statement laid out has its own states, below allo.                *)
LayoutInv ==
  /\ LayoutDisjoint
  /\ \A s \in Allocated : offset[s] + Size(s) <= allo
  /\ \A m \in DOMAIN frames : offset[frames[m].stmt] # None /\ frames[m].k < Size(frames[m].stmt)
  /\ frames # <<>> => offset[exporting] # None

CalledInv ==
  LET called == Allocated \cap used_as_call
  IN /\ ToSet(starts) = {offset[s] + compiled[s].start : s \in called}
     /\ Len(starts) = Cardinality(called)
     /\ sub_final = UNION {{offset[s] + f : f \in compiled[s].finals} : s \in called}

At(s, k) == adj[offset[s] + k]

(* State k of s has been dealt with; it has not been reached.              *)
Passed(s, k) == \A m \in DOMAIN frames : frames[m].stmt = s => k < frames[m].k
Ahead(s, k) ==
  \E m \in DOMAIN frames : /\ frames[m].stmt = s
                           /\ frames[m].k < k \/ (frames[m].k = k /\ frames[m].phase = "starts")

(* What a call still has to visit starts at its state, or ends where an    *)
(* edge leads that is being replaced; a caller waits for a reference.      *)
Visiting(f) == f.todo \cup ({f.at} \ {<<>>})
FrameInv(f) ==
  /\ f.at # <<>> => offset[Referred(f.at)] # None
  /\ f.phase = "starts" => Visiting(f) \subseteq StartingAt(f.stmt, f.k)
  /\ \A x \in StartingAt(f.stmt, f.k) :
       f.phase = "refs" \/ x \notin f.todo => offset[Referred(x)] # None
  /\ f.phase = "refs" =>
       /\ f.j <= Len(At(f.stmt, f.k))
       /\ \A x \in Visiting(f) : /\ f.v - offset[f.stmt] \in Local(f.stmt)
                                 /\ x \in EndingAt(f.stmt, f.v - offset[f.stmt])
FramesInv ==
  \A m \in DOMAIN frames : (m < Len(frames) => frames[m].at # <<>>) /\ FrameInv(frames[m])

(* Only what is needed is laid out, and nothing is missing behind a call.  *)
NeededInv ==
  /\ \A S \in SUBSET Stmt : exporting \in S /\ Closed(S) => Allocated \subseteq S
  /\ \A s \in Allocated : \A k \in Local(s) : Passed(s, k) =>
       \A x \in StartingAt(s, k) : offset[Referred(x)] # None

(* An edge of state k of s is one of its own, perhaps with the labels of   *)
(* collapses cut off, or an epsilon that stands for a collapse.            *)
Moved(s, c) == <<c[1], c[2], c[3] + offset[s]>>
Shortened(s, c) == <<c[1], collapse_label_base, c[3] + offset[s]>>
Owned(s, k, e) ==
  \E l \in DOMAIN compiled[s].adj[k] :
    LET c == compiled[s].adj[k][l]
    IN e = Moved(s, c) \/ (c[1] < collapse_label_base /\ collapse_label_base < c[2] /\ e = Shortened(s, c))
Linked(s, k, e) ==
  \/ \E x \in StartingAt(s, k) :
       /\ Kind(x) = "collapse" /\ offset[Referred(x)] # None
       /\ e = EpsilonTo(offset[Referred(x)] + compiled[Referred(x)].start)
  \/ /\ k \in compiled[s].finals
     /\ \E d \in Allocated : \E v \in Local(d) : \E x \in EndingAt(d, v) :
          Referred(x) = s /\ e = EpsilonTo(offset[d] + v)

StateInv(s, k) ==
  /\ SortedEdges(At(s, k))
  /\ \A e \in Edges(s, k) : Owned(s, k, e) \/ Linked(s, k, e)
  /\ Passed(s, k) => \A e \in Edges(s, k) : e[2] <= collapse_label_base
EdgesInv == \A s \in Allocated : \A k \in Local(s) : StateInv(s, k)

IInv == TypeInv /\ LayoutInv /\ CalledInv /\ FramesInv /\ NeededInv /\ EdgesInv

-----------------------------------------------------------------------------
(* The automata compiled, their edges and references.                      *)
LEMMA AnnoProps ==
  ASSUME compiled \in [Stmt -> FsaAnnos], NEW s \in Stmt
  PROVE  /\ Size(s) \in Nat \ {0} /\ Local(s) = 0 .. Size(s) - 1
         /\ compiled[s].start \in Local(s) /\ compiled[s].finals \in SUBSET Local(s)
         /\ \A k \in Local(s) : /\ compiled[s].adj[k] \in Seq(Edge(Size(s)))
                               /\ Deterministic(compiled[s].adj[k])
                               /\ StartingAt(s, k) \in SUBSET Reference
                               /\ EndingAt(s, k) \in SUBSET Reference
<1>1. PICK n \in Nat \ {0} : compiled[s] \in FsaAnno(n)
  BY DEF FsaAnnos
<1>2. Local(s) = 0 .. n - 1
  BY <1>1 DEF FsaAnno, Local
<1>3. Cardinality(0 .. n - 1) = n
  BY FS_Interval
<1>4. Size(s) = n
  BY <1>2, <1>3 DEF Size
<1>5. compiled[s].start \in 0 .. n - 1 /\ compiled[s].finals \in SUBSET (0 .. n - 1)
  BY <1>1 DEF FsaAnno
<1>6. ASSUME NEW k \in 0 .. n - 1
      PROVE  /\ compiled[s].adj[k] \in Seq(Edge(n)) /\ Deterministic(compiled[s].adj[k])
             /\ compiled[s].assoc[k] \in SUBSET (Reference \X {"start", "inner", "final"})
  BY <1>1 DEF FsaAnno
<1>7. \A k \in 0 .. n - 1 : StartingAt(s, k) \in SUBSET Reference /\ EndingAt(s, k) \in SUBSET Reference
  BY <1>6 DEF StartingAt, EndingAt
<1>. QED BY <1>2, <1>4, <1>5, <1>6, <1>7

LEMMA ReferenceProps ==
  ASSUME NEW x \in Reference
  PROVE  Referred(x) \in Stmt /\ x # <<>>
BY DEF Reference, Referred

(* The edges of a state as they are laid out first.                        *)
LEMMA EdgesOfProps ==
  ASSUME compiled \in [Stmt -> FsaAnnos], NEW s \in Stmt, NEW k \in Local(s), NEW base \in Nat
  PROVE  LET es == compiled[s].adj[k]
         IN /\ EdgesOf(s, k, base) \in Seq(AnyEdge) /\ SortedEdges(EdgesOf(s, k, base))
            /\ Len(EdgesOf(s, k, base)) = Len(es)
            /\ \A j \in 1 .. Len(es) :
                 /\ EdgesOf(s, k, base)[j] = <<es[j][1], es[j][2], es[j][3] + base>>
                 /\ es[j][1] \in Nat /\ es[j][2] \in Nat /\ es[j][3] \in Local(s)
                 /\ es[j][1] < es[j][2]
<1>. DEFINE es == compiled[s].adj[k]
            r == EdgesOf(s, k, base)
<1>1. /\ es \in Seq(Edge(Size(s))) /\ Deterministic(es)
      /\ Size(s) \in Nat \ {0} /\ Local(s) = 0 .. Size(s) - 1
  BY AnnoProps
<1>2. r = [j \in DOMAIN es |-> <<es[j][1], es[j][2], es[j][3] + base>>]
  BY DEF EdgesOf
<1>. HIDE DEF es, r
<1>3. ASSUME NEW j \in 1 .. Len(es)
      PROVE  es[j][1] \in Nat /\ es[j][2] \in Nat /\ es[j][3] \in Local(s)
  <2>1. es[j] \in Edge(Size(s))
    BY <1>1
  <2>. QED BY <1>1, <2>1 DEF Edge
<1>4. ASSUME NEW j \in 1 .. Len(es)
      PROVE  /\ r[j] = <<es[j][1], es[j][2], es[j][3] + base>>
             /\ r[j] \in AnyEdge
  <2>1. r[j] = <<es[j][1], es[j][2], es[j][3] + base>>
    BY <1>1, <1>2
  <2>2. es[j][3] + base \in Nat
    BY <1>1, <1>3
  <2>. QED BY <1>3, <2>1, <2>2 DEF AnyEdge
<1>5. r \in Seq(AnyEdge) /\ Len(r) = Len(es)
  <2>1. DOMAIN r = 1 .. Len(es) /\ r = [j \in 1 .. Len(es) |-> r[j]]
    BY <1>1, <1>2
  <2>2. Len(es) \in Nat
    BY <1>1
  <2>. QED BY <1>4, <2>1, <2>2, IsASeq
<1>6. \A j \in 1 .. Len(es) : es[j][1] < es[j][2] /\ \A l \in 1 .. Len(es) : j < l => es[j][2] <= es[l][1]
  BY <1>1 DEF Deterministic
<1>7. SortedEdges(r)
  BY <1>4, <1>5, <1>6 DEF SortedEdges
<1>. QED BY <1>3, <1>4, <1>5, <1>6, <1>7 DEF es, r

LEMMA CallFields ==
  ASSUME NEW f \in Call
  PROVE  /\ f.stmt \in Stmt /\ f.k \in Nat /\ f.phase \in {"starts", "refs"} /\ f.j \in Nat
         /\ f.v \in Nat /\ f.todo \in SUBSET Reference /\ f.at \in Reference \cup {<<>>}
BY DEF Call

(* The calls of allocate when the innermost one has become f.              *)
LEMMA ReplacedProps ==
  ASSUME frames \in Seq(Call), frames # <<>>, NEW f \in Call
  PROVE  /\ Replaced(f) \in Seq(Call) /\ Len(Replaced(f)) = Len(frames)
         /\ Len(frames) \in 1 .. Len(frames)
         /\ Replaced(f)[Len(frames)] = f
         /\ \A m \in 1 .. Len(frames) : m # Len(frames) => Replaced(f)[m] = frames[m]
BY DEF Replaced

(* Places of different statements and states are different.                *)
LEMMA PlaceProps ==
  ASSUME TypeInv, LayoutInv,
         NEW s \in Allocated, NEW k \in Local(s), NEW d \in Allocated, NEW n \in Local(d)
  PROVE  /\ offset[s] + k \in 0 .. allo - 1
         /\ offset[s] + k = offset[d] + n => s = d /\ k = n
<1>1. /\ offset[s] \in Nat /\ offset[d] \in Nat /\ allo \in Nat
      /\ s \in Stmt /\ d \in Stmt
  BY DEF TypeInv, Allocated, None
<1>2. /\ k \in 0 .. Size(s) - 1 /\ Size(s) \in Nat
      /\ n \in 0 .. Size(d) - 1 /\ Size(d) \in Nat
  BY <1>1, AnnoProps DEF TypeInv
<1>3. /\ offset[s] + Size(s) <= allo
      /\ s # d => offset[s] + Size(s) <= offset[d] \/ offset[d] + Size(d) <= offset[s]
  BY DEF LayoutInv, LayoutDisjoint
<1>. QED BY <1>1, <1>2, <1>3

(* What an edge stands for stays when more is laid out.                    *)
LEMMA LinkedKept ==
  ASSUME TypeInv, compiled' = compiled,
         \A d \in Stmt : offset[d] # None => offset'[d] = offset[d] /\ offset'[d] # None,
         NEW s \in Allocated, NEW k \in Local(s), NEW e
  PROVE  /\ Owned(s, k, e) => Owned(s, k, e)'
         /\ Linked(s, k, e) => Linked(s, k, e)'
<1>1. /\ s \in Stmt /\ offset'[s] = offset[s] /\ compiled \in [Stmt -> FsaAnnos]
      /\ StartingAt(s, k) \in SUBSET Reference
  BY AnnoProps DEF TypeInv, Allocated
<1>2. Owned(s, k, e) => Owned(s, k, e)'
  BY <1>1 DEF Owned, Moved, Shortened
<1>3. ASSUME NEW x \in StartingAt(s, k), Kind(x) = "collapse", offset[Referred(x)] # None,
             e = EpsilonTo(offset[Referred(x)] + compiled[Referred(x)].start)
      PROVE  Linked(s, k, e)'
  <2>1. Referred(x) \in Stmt
    BY <1>1, ReferenceProps
  <2>2. offset'[Referred(x)] # None /\ e = EpsilonTo(offset'[Referred(x)] + compiled'[Referred(x)].start)
    BY <1>3, <2>1
  <2>3. x \in StartingAt(s, k)'
    BY DEF StartingAt
  <2>. QED BY <1>3, <2>2, <2>3 DEF Linked
<1>4. ASSUME k \in compiled[s].finals, NEW d \in Allocated, NEW v \in Local(d), NEW x \in EndingAt(d, v),
             Referred(x) = s, e = EpsilonTo(offset[d] + v)
      PROVE  Linked(s, k, e)'
  <2>1. d \in Allocated' /\ v \in Local(d)' /\ x \in EndingAt(d, v)' /\ k \in compiled'[s].finals
    BY <1>4 DEF Allocated, Local, EndingAt
  <2>2. e = EpsilonTo(offset'[d] + v)
    BY <1>4 DEF Allocated
  <2>. QED BY <1>4, <2>1, <2>2 DEF Linked
<1>. QED BY <1>2, <1>3, <1>4 DEF Linked

LEMMA InitInv ==
  ASSUME NEW x \in Stmt, InitFrom([Stmt -> FsaAnnos], x)
  PROVE  IInv
<1>1. /\ compiled \in [Stmt -> FsaAnnos]
      /\ used_as_call \in SUBSET Stmt
      /\ exporting = x /\ offset = [s \in Stmt |-> None] /\ allo = 0
      /\ adj = <<>> /\ starts = <<>> /\ sub_final = {} /\ frames = <<>>
  BY DEF InitFrom
<1>2. Allocated = {}
  BY <1>1 DEF Allocated
<1>3. TypeInv
  <2>1. adj \in [0 .. allo - 1 -> Seq(AnyEdge)]
    BY <1>1
  <2>. QED BY <1>1, <2>1 DEF TypeInv, None
<1>4. LayoutInv
  BY <1>1, <1>2 DEF LayoutInv, LayoutDisjoint
<1>5. CalledInv
  <2>1. Cardinality({}) = 0
    BY FS_EmptySet
  <2>. QED BY <1>1, <1>2, <2>1 DEF CalledInv, ToSet
<1>6. FramesInv /\ NeededInv /\ EdgesInv
  BY <1>1, <1>2 DEF FramesInv, NeededInv, EdgesInv
<1>. QED BY <1>3, <1>4, <1>5, <1>6 DEF IInv

(* What a statement laid out for the first time adds.                      *)
LEMMA AllocateEdges ==
  ASSUME IInv, NEW s \in Stmt, offset[s] = None, NEW fs, Allocate(s, fs)
  PROVE  /\ compiled' = compiled /\ frames' = Append(fs, AtState(s, 0))
         /\ Allocated' = Allocated \cup {s} /\ s \notin Allocated
         /\ offset'[s] = allo /\ \A d \in Stmt : d # s => offset'[d] = offset[d]
         /\ DOMAIN adj' = 0 .. allo + Size(s) - 1
         /\ \A g \in 0 .. allo - 1 : adj'[g] = adj[g]
         /\ \A k \in Local(s) : adj'[allo + k] = EdgesOf(s, k, allo)
         /\ \A d \in Allocated : \A k \in Local(d) : At(d, k)' = At(d, k)
         /\ \A k \in Local(s) : At(s, k)' = EdgesOf(s, k, allo)
<1>0. TypeInv /\ LayoutInv
  BY DEF IInv
<1>1. /\ compiled' = compiled /\ offset' = [offset EXCEPT ![s] = allo]
      /\ adj' = [g \in 0 .. allo + Size(s) - 1 |-> IF g < allo THEN adj[g] ELSE EdgesOf(s, g - allo, allo)]
      /\ frames' = Append(fs, AtState(s, 0))
  BY DEF Allocate
<1>2. /\ compiled \in [Stmt -> FsaAnnos] /\ offset \in [Stmt -> Nat \cup {None}] /\ allo \in Nat
      /\ adj \in [0 .. allo - 1 -> Seq(AnyEdge)]
  BY <1>0 DEF TypeInv
<1>3. Size(s) \in Nat \ {0} /\ Local(s) = 0 .. Size(s) - 1
  BY <1>2, AnnoProps
<1>6. /\ Allocated' = Allocated \cup {s} /\ s \notin Allocated
      /\ offset'[s] = allo /\ \A d \in Stmt : d # s => offset'[d] = offset[d]
  BY <1>1, <1>2 DEF Allocated, None
<1>4. adj' = [g \in 0 .. allo + Size(s) - 1 |-> IF g < allo THEN adj[g] ELSE EdgesOf(s, g - allo, allo)]
  BY <1>1
<1>5. \A g \in 0 .. allo - 1 : adj'[g] = adj[g]
  <2>. TAKE g \in 0 .. allo - 1
  <2>1. g \in 0 .. allo + Size(s) - 1 /\ g < allo /\ allo \in Int /\ g \in Int /\ Size(s) \in Int
    BY <1>2, <1>3
  <2>. QED BY <1>4, <2>1
<1>7. \A d \in Allocated : \A k \in Local(d) : At(d, k)' = At(d, k)
  <2>. TAKE d \in Allocated
  <2>. TAKE k \in Local(d)
  <2>1. offset[d] + k \in 0 .. allo - 1
    BY <1>0, PlaceProps
  <2>. QED BY <1>5, <1>6, <2>1 DEF At, Allocated
<1>8. \A k \in Local(s) : adj'[allo + k] = EdgesOf(s, k, allo)
  <2>. TAKE k \in Local(s)
  <2>1. /\ allo + k \in 0 .. allo + Size(s) - 1 /\ ~ (allo + k < allo) /\ allo + k - allo = k
        /\ allo \in Int /\ k \in Int /\ Size(s) \in Int
    BY <1>2, <1>3
  <2>2. adj'[allo + k] = IF allo + k < allo THEN adj[allo + k] ELSE EdgesOf(s, allo + k - allo, allo)
    BY <1>4, <2>1
  <2>. QED BY <2>1, <2>2
<1>9. \A k \in Local(s) : At(s, k)' = EdgesOf(s, k, allo)
  BY <1>6, <1>8 DEF At
<1>10. DOMAIN adj' = 0 .. allo + Size(s) - 1
  BY <1>4
<1>. QED BY <1>1, <1>5, <1>6, <1>7, <1>8, <1>9, <1>10

(* A statement laid out for the first time: called by the callers fs.      *)
LEMMA AllocateInv ==
  ASSUME IInv, NEW s \in Stmt, offset[s] = None, NEW fs \in Seq(Call), Allocate(s, fs),
         Len(fs) = Len(frames),
         \A m \in 1 .. Len(fs) :
           /\ fs[m].stmt = frames[m].stmt /\ fs[m].k = frames[m].k /\ fs[m].phase = frames[m].phase
           /\ fs[m].j = frames[m].j /\ fs[m].v = frames[m].v
           /\ Visiting(fs[m]) \subseteq Visiting(frames[m]) /\ fs[m].at # <<>>
           /\ Referred(fs[m].at) = s \/ fs[m].at = frames[m].at
           /\ \A x \in frames[m].todo : x \in fs[m].todo \/ Referred(x) = s,
         \A S \in SUBSET Stmt : exporting \in S /\ Closed(S) => s \in S,
         frames = <<>> => s = exporting
  PROVE  IInv'
<1>0. TypeInv /\ LayoutInv /\ CalledInv /\ FramesInv /\ NeededInv /\ EdgesInv
  BY DEF IInv
<1>1. /\ compiled' = compiled /\ used_as_call' = used_as_call /\ exporting' = exporting
      /\ offset' = [offset EXCEPT ![s] = allo] /\ allo' = allo + Size(s)
      /\ adj' = [g \in 0 .. allo + Size(s) - 1 |-> IF g < allo THEN adj[g] ELSE EdgesOf(s, g - allo, allo)]
      /\ starts' = IF s \in used_as_call THEN Append(starts, allo + compiled[s].start) ELSE starts
      /\ sub_final' = sub_final \cup (IF s \in used_as_call THEN {allo + f : f \in compiled[s].finals} ELSE {})
      /\ frames' = Append(fs, AtState(s, 0))
  BY DEF Allocate, Reserved, SubFinals
<1>2. /\ compiled \in [Stmt -> FsaAnnos] /\ used_as_call \in SUBSET Stmt /\ exporting \in Stmt
      /\ offset \in [Stmt -> Nat \cup {None}] /\ allo \in Nat
      /\ adj \in [0 .. allo - 1 -> Seq(AnyEdge)] /\ starts \in Seq(Nat) /\ sub_final \in SUBSET Nat
      /\ frames \in Seq(Call)
  BY <1>0 DEF TypeInv
<1>3. /\ Size(s) \in Nat \ {0} /\ Local(s) = 0 .. Size(s) - 1
      /\ compiled[s].start \in Local(s) /\ compiled[s].finals \in SUBSET Local(s)
      /\ StartingAt(s, 0) \in SUBSET Reference
  <2>1. /\ Size(s) \in Nat \ {0} /\ Local(s) = 0 .. Size(s) - 1
        /\ compiled[s].start \in Local(s) /\ compiled[s].finals \in SUBSET Local(s)
        /\ \A k \in Local(s) : StartingAt(s, k) \in SUBSET Reference
    BY <1>2, AnnoProps
  <2>2. 0 \in Local(s)
    BY <2>1
  <2>. QED BY <2>1, <2>2
<1>4. PICK A \in Call : /\ A = AtState(s, 0) /\ A.stmt = s /\ A.k = 0 /\ A.phase = "starts"
                       /\ A.at = <<>> /\ A.todo = StartingAt(s, 0)
  <2>1. AtState(s, 0) \in Call
    BY <1>3 DEF AtState, Call
  <2>2. /\ AtState(s, 0).stmt = s /\ AtState(s, 0).k = 0 /\ AtState(s, 0).phase = "starts"
        /\ AtState(s, 0).at = <<>> /\ AtState(s, 0).todo = StartingAt(s, 0)
    BY DEF AtState
  <2>. QED BY <2>1, <2>2
<1>5. /\ frames' \in Seq(Call) /\ Len(frames') = Len(frames) + 1
      /\ \A m \in 1 .. Len(frames) : frames'[m] = fs[m]
      /\ frames'[Len(frames) + 1] = A
      /\ DOMAIN frames' = 1 .. Len(frames) + 1 /\ DOMAIN frames = 1 .. Len(frames)
      /\ Len(frames) \in Nat
  <2>1. frames' = Append(fs, A)
    BY <1>1, <1>4
  <2>. QED BY <1>2, <1>4, <2>1
<1>6. /\ Allocated' = Allocated \cup {s} /\ s \notin Allocated /\ Allocated \in SUBSET Stmt
      /\ offset'[s] = allo /\ \A d \in Stmt : d # s => offset'[d] = offset[d]
      /\ \A d \in Allocated : offset[d] \in Nat
  BY <1>1, <1>2 DEF Allocated, None
<1>7. \A d \in Stmt : /\ Size(d)' = Size(d) /\ Local(d)' = Local(d)
                      /\ \A k \in Local(d) : /\ StartingAt(d, k)' = StartingAt(d, k)
                                             /\ EndingAt(d, k)' = EndingAt(d, k)
  BY <1>1 DEF Size, Local, StartingAt, EndingAt
<1>8. /\ \A d \in Allocated : \A k \in Local(d) : At(d, k)' = At(d, k)
      /\ \A k \in Local(s) : At(s, k)' = EdgesOf(s, k, allo)
  BY AllocateEdges
<1>9. /\ \A g \in 0 .. allo - 1 : adj'[g] = adj[g]
      /\ \A k \in Local(s) : adj'[allo + k] = EdgesOf(s, k, allo)
      /\ DOMAIN adj' = 0 .. allo + Size(s) - 1
  BY AllocateEdges
<1>17. adj' = [g \in 0 .. allo + Size(s) - 1 |-> IF g < allo THEN adj[g] ELSE EdgesOf(s, g - allo, allo)]
  BY <1>1
<1>10. TypeInv'
  <2>1. adj' \in [0 .. allo' - 1 -> Seq(AnyEdge)]
    <3>1. ASSUME NEW g \in 0 .. allo' - 1 PROVE adj'[g] \in Seq(AnyEdge)
      <4>1. CASE g < allo
        <5>1. g \in 0 .. allo - 1
          BY <1>2, <3>1, <4>1
        <5>. QED BY <1>2, <1>9, <5>1
      <4>2. CASE ~ (g < allo)
        <5>1. g - allo \in Local(s) /\ allo + (g - allo) = g
          BY <1>1, <1>2, <1>3, <3>1, <4>2
        <5>2. EdgesOf(s, g - allo, allo) \in Seq(AnyEdge)
          BY <1>2, <5>1, EdgesOfProps
        <5>. QED BY <1>9, <5>1, <5>2
      <4>. QED BY <4>1, <4>2
    <3>. DEFINE F(g) == IF g < allo THEN adj[g] ELSE EdgesOf(s, g - allo, allo)
                D == 0 .. allo' - 1
    <3>0. allo' = allo + Size(s) /\ allo \in Int /\ Size(s) \in Int
      BY <1>1, <1>2, <1>3
    <3>2. adj' = [g \in D |-> F(g)]
      <4>2. D = 0 .. allo + Size(s) - 1
        BY <3>0
      <4>. HIDE DEF D
      <4>. QED BY <1>17, <4>2
    <3>3. \A g \in D : adj'[g] \in Seq(AnyEdge)
      BY <3>1
    <3>. HIDE DEF F, D
    <3>4. adj' \in [D -> Seq(AnyEdge)]
      BY <3>2, <3>3
    <3>. QED BY <3>4 DEF D
  <2>2. offset' \in [Stmt -> Nat \cup {None}] /\ allo' \in Nat
    BY <1>1, <1>2, <1>3, SMTT(30)
  <2>3. starts' \in Seq(Nat) /\ sub_final' \in SUBSET Nat
    <3>1. allo + compiled[s].start \in Nat /\ \A f \in compiled[s].finals : allo + f \in Nat
      BY <1>2, <1>3
    <3>2. starts' \in Seq(Nat)
      BY <1>1, <1>2, <3>1
    <3>3. sub_final' \in SUBSET Nat
      BY <1>1, <1>2, <3>1, ZenonT(40)
    <3>. QED BY <3>2, <3>3
  <2>. QED BY <1>1, <1>2, <1>5, <2>1, <2>2, <2>3 DEF TypeInv
<1>11. LayoutInv'
  <2>0. /\ \A d \in Allocated : d \in Stmt /\ d # s /\ offset'[d] = offset[d] /\ offset[d] \in Nat
        /\ \A d \in Stmt : Size(d) \in Nat
        /\ \A d \in Allocated : offset[d] + Size(d) <= allo
    BY <1>0, <1>2, <1>6, AnnoProps DEF LayoutInv
  <2>1. ASSUME NEW c \in Allocated', NEW d \in Allocated', c # d
        PROVE  offset'[c] + Size(c)' <= offset'[d] \/ offset'[d] + Size(d)' <= offset'[c]
    <3>1. CASE c = s
      BY <1>6, <1>7, <2>0, <2>1, <3>1
    <3>2. CASE d = s
      BY <1>6, <1>7, <2>0, <2>1, <3>2
    <3>3. CASE c # s /\ d # s
      BY <1>0, <1>6, <1>7, <2>0, <2>1, <3>3 DEF LayoutInv, LayoutDisjoint
    <3>. QED BY <3>1, <3>2, <3>3
  <2>2. ASSUME NEW g \in 0 .. allo' - 1
        PROVE  \E d \in Allocated' : g \in offset'[d] .. offset'[d] + Size(d)' - 1
    <3>1. CASE g < allo
      <4>1. g \in 0 .. allo - 1
        BY <1>2, <3>1
      <4>2. PICK d \in Allocated : g \in offset[d] .. offset[d] + Size(d) - 1
        BY <1>0, <4>1 DEF LayoutInv, LayoutDisjoint
      <4>. QED BY <1>6, <1>7, <2>0, <4>2
    <3>2. CASE ~ (g < allo)
      BY <1>1, <1>2, <1>3, <1>6, <1>7, <3>2
    <3>. QED BY <3>1, <3>2
  <2>3. ASSUME NEW m \in 1 .. Len(frames)
        PROVE  /\ frames'[m].stmt = frames[m].stmt /\ frames'[m].k = frames[m].k
               /\ frames[m].stmt \in Allocated /\ frames[m].k < Size(frames[m].stmt)
               /\ frames[m].stmt \in Stmt
    <3>1. frames[m].stmt \in Stmt
      BY <1>2, CallFields
    <3>. QED BY <1>0, <1>5, <3>1 DEF LayoutInv, Allocated
  <2>4. ASSUME NEW m \in DOMAIN frames', NEW o \in DOMAIN frames', frames'[m].stmt = frames'[o].stmt
        PROVE  m = o
    <3>1. \A n \in 1 .. Len(frames) : frames'[n].stmt # s
      BY <1>6, <2>3
    <3>2. m \in 1 .. Len(frames) /\ o \in 1 .. Len(frames) => m = o
      BY <1>0, <1>5, <2>3, <2>4 DEF LayoutInv, LayoutDisjoint
    <3>. QED BY <1>4, <1>5, <2>4, <3>1, <3>2
  <2>5. \A d \in Allocated' : offset'[d] + Size(d)' <= allo'
    BY <1>1, <1>2, <1>3, <1>6, <1>7, <2>0
  <2>6. \A m \in DOMAIN frames' :
          (offset[frames[m].stmt] # None /\ frames[m].k < Size(frames[m].stmt))'
    <3>. TAKE m \in DOMAIN frames'
    <3>1. CASE m \in 1 .. Len(frames)
      <4>. DEFINE d == frames[m].stmt
      <4>1. d \in Allocated /\ d \in Stmt /\ frames[m].k < Size(d) /\ frames'[m].stmt = d /\ frames'[m].k = frames[m].k
        BY <2>3, <3>1
      <4>. HIDE DEF d
      <4>2. offset'[d] # None
        BY <2>0, <4>1 DEF None
      <4>3. (Size(frames[m].stmt))' = Size(d)
        BY <1>7, <4>1
      <4>. QED BY <4>1, <4>2, <4>3
    <3>2. CASE m = Len(frames) + 1
      <4>1. frames'[m].stmt = s /\ frames'[m].k = 0
        BY <1>4, <1>5, <3>2
      <4>2. offset'[s] # None /\ 0 < Size(s)
        BY <1>2, <1>3, <1>6 DEF None
      <4>3. (Size(frames[m].stmt))' = Size(s)
        BY <1>7, <4>1
      <4>. QED BY <4>1, <4>2, <4>3
    <3>. QED BY <1>5, <3>1, <3>2
  <2>7. offset'[exporting'] # None
    <3>1. CASE exporting = s
      BY <1>1, <1>2, <1>6, <3>1 DEF None
    <3>2. CASE exporting # s
      BY <1>0, <1>1, <1>2, <1>6, <3>2 DEF LayoutInv
    <3>. QED BY <3>1, <3>2
  <2>8. LayoutDisjoint'
    <3>1. (\A c, d \in Allocated : c # d => offset[c] + Size(c) <= offset[d] \/ offset[d] + Size(d) <= offset[c])'
      BY <2>1
    <3>2. (\A g \in 0 .. allo - 1 : \E d \in Allocated : g \in offset[d] .. offset[d] + Size(d) - 1)'
      BY <2>2
    <3>3. (\A m, o \in DOMAIN frames : frames[m].stmt = frames[o].stmt => m = o)'
      BY <2>4
    <3>. QED BY <3>1, <3>2, <3>3 DEF LayoutDisjoint
  <2>. QED BY <2>5, <2>6, <2>7, <2>8 DEF LayoutInv
<1>12. CalledInv'
  <2>. DEFINE C == Allocated \cap used_as_call
              D == (Allocated \cap used_as_call)'
              start(d) == offset[d] + compiled[d].start
              ends(d) == {offset[d] + f : f \in compiled[d].finals}
  <2>1. D = (IF s \in used_as_call THEN C \cup {s} ELSE C) /\ s \notin C
    BY <1>1, <1>6
  <2>2. /\ ToSet(starts) = {start(d) : d \in C} /\ Len(starts) = Cardinality(C)
        /\ sub_final = UNION {ends(d) : d \in C}
    BY <1>0 DEF CalledInv
  <2>3. \A d \in C : start(d)' = start(d) /\ ends(d)' = ends(d)
    BY <1>1, <1>2, <1>6
  <2>4. start(s)' = allo + compiled[s].start /\ ends(s)' = {allo + f : f \in compiled[s].finals}
    BY <1>1, <1>6
  <2>5. IsFiniteSet(C)
    BY <1>2, ExportAssumption, FS_Subset
  <2>. HIDE DEF C, D, start, ends
  <2>6. /\ ToSet(starts') = {start(d)' : d \in D}
        /\ Len(starts') = Cardinality(D)
        /\ sub_final' = UNION {ends(d)' : d \in D}
    <3>1. CASE s \in used_as_call
      <4>1. D = C \cup {s} /\ starts' = Append(starts, start(s)') /\ sub_final' = sub_final \cup ends(s)'
        BY <1>1, <2>1, <2>4, <3>1
      <4>2. ToSet(Append(starts, start(s)')) = ToSet(starts) \cup {start(s)'}
        <5>1. start(s)' \in Nat
          BY <1>2, <1>3, <2>4
        <5>2. starts \in Seq(Nat)
          BY <1>2
        <5>. QED BY <5>1, <5>2, ToSetAppend
      <4>3. {start(d)' : d \in D} = {start(d) : d \in C} \cup {start(s)'}
        BY <2>3, <4>1
      <4>4. UNION {ends(d)' : d \in D} = (UNION {ends(d) : d \in C}) \cup ends(s)'
        BY <2>3, <4>1
      <4>5. Cardinality(D) = Cardinality(C) + 1
        BY <2>1, <2>5, <4>1, FS_AddElement
      <4>6. Len(starts') = Len(starts) + 1
        BY <1>2, <4>1
      <4>. QED BY <2>2, <4>1, <4>2, <4>3, <4>4, <4>5, <4>6
    <3>2. CASE s \notin used_as_call
      <4>1. D = C /\ starts' = starts /\ sub_final' = sub_final
        BY <1>1, <2>1, <3>2
      <4>2. {start(d)' : d \in D} = {start(d) : d \in C}
        BY <2>3, <4>1
      <4>3. UNION {ends(d)' : d \in D} = UNION {ends(d) : d \in C}
        BY <2>3, <4>1
      <4>. QED BY <2>2, <4>1, <4>2, <4>3
    <3>. QED BY <3>1, <3>2
  <2>. QED BY <2>6 DEF CalledInv, D, start, ends
<1>19. /\ \A d \in Stmt : offset[d] # None => d # s /\ offset'[d] = offset[d] /\ offset'[d] # None
       /\ offset'[s] # None
  BY <1>2, <1>6 DEF None
<1>20. ASSUME NEW m \in 1 .. Len(frames)
       PROVE  /\ fs[m] \in Call /\ frames[m] \in Call /\ fs[m].stmt = frames[m].stmt
              /\ fs[m].k = frames[m].k /\ fs[m].phase = frames[m].phase /\ fs[m].j = frames[m].j
              /\ fs[m].v = frames[m].v /\ Visiting(fs[m]) \subseteq Visiting(frames[m])
              /\ fs[m].at # <<>> /\ (Referred(fs[m].at) = s \/ fs[m].at = frames[m].at)
              /\ \A x \in frames[m].todo : x \in fs[m].todo \/ Referred(x) = s
              /\ frames[m].stmt \in Allocated /\ frames[m].stmt \in Stmt
              /\ frames[m].k \in Local(frames[m].stmt) /\ FrameInv(frames[m])
  <2>1. frames[m] \in Call /\ fs[m] \in Call
    BY <1>2
  <2>2. frames[m].stmt \in Stmt /\ frames[m].k \in Nat
    BY <2>1, CallFields
  <2>3. Local(frames[m].stmt) = 0 .. Size(frames[m].stmt) - 1 /\ Size(frames[m].stmt) \in Nat
    BY <1>2, <2>2, AnnoProps
  <2>4. offset[frames[m].stmt] # None /\ frames[m].k < Size(frames[m].stmt) /\ FrameInv(frames[m])
    BY <1>0, <1>5 DEF LayoutInv, FramesInv
  <2>5. frames[m].stmt \in Allocated /\ frames[m].k \in Local(frames[m].stmt)
    BY <2>2, <2>3, <2>4 DEF Allocated
  <2>. QED BY <2>1, <2>2, <2>4, <2>5
<1>13. FramesInv'
  <2>1. ASSUME NEW m \in 1 .. Len(frames) PROVE FrameInv(fs[m])'
    <3>0. PICK d \in Allocated : d = frames[m].stmt
      BY <1>20
    <3>17. PICK k \in Local(d) : k = frames[m].k
      BY <1>20, <3>0
    <3>1. PICK f \in Call : f = fs[m]
      BY <1>20
    <3>2. /\ d \in Allocated /\ d \in Stmt /\ k \in Local(d) /\ offset'[d] = offset[d] /\ d # s
          /\ f.stmt = d /\ f.k = k
      BY <1>6, <1>20, <3>0, <3>1, <3>17
    <3>3. /\ StartingAt(d, k)' = StartingAt(d, k) /\ At(d, k)' = At(d, k)
          /\ Local(d)' = Local(d)
          /\ StartingAt(d, k) \in SUBSET Reference
          /\ \A n \in Local(d) : EndingAt(d, n)' = EndingAt(d, n)
      <4>1. StartingAt(d, k) \in SUBSET Reference
        BY <1>2, <3>2, AnnoProps
      <4>2. At(d, k)' = At(d, k)
        BY <1>8, <3>2
      <4>. QED BY <1>7, <3>2, <4>1, <4>2
    <3>4. f.at # <<>> => offset'[Referred(f.at)] # None
      <4>1. f.at # <<>> => f.at \in Reference
        BY CallFields
      <4>2. f.at # <<>> => Referred(f.at) \in Stmt
        BY <4>1, ReferenceProps
      <4>. QED BY <1>19, <1>20, <3>1, <4>2 DEF FrameInv
    <3>5. f.phase = "starts" => Visiting(f) \subseteq StartingAt(d, k)
      BY <1>20, <3>0, <3>1, <3>17 DEF FrameInv
    <3>6. ASSUME NEW x \in StartingAt(d, k), f.phase = "refs" \/ x \notin f.todo
          PROVE  offset'[Referred(x)] # None
      <4>1. Referred(x) \in Stmt
        BY <3>3, ReferenceProps
      <4>2. Referred(x) = s \/ offset[Referred(x)] # None
        BY <1>20, <3>0, <3>1, <3>6, <3>17 DEF FrameInv
      <4>. QED BY <1>19, <4>1, <4>2
    <3>7. f.phase = "refs" =>
            /\ f.j <= Len(At(d, k))
            /\ \A x \in Visiting(f) : f.v - offset[d] \in Local(d) /\ x \in EndingAt(d, f.v - offset[d])
      BY <1>20, <3>0, <3>1, <3>17 DEF FrameInv
    <3>8. PICK n : n = f.v - offset[d]
      OBVIOUS
    <3>9. f.v - offset'[d] = n
      BY <3>2, <3>8
    <3>10. \A x \in Visiting(f) : f.phase = "refs" => n \in Local(d) /\ x \in EndingAt(d, n)
      BY <3>7, <3>8
    <3>11. \A x \in Visiting(f) : f.phase = "refs" => n \in Local(d)' /\ x \in EndingAt(d, n)'
      BY <3>3, <3>10
    <3>12. ASSUME f.phase = "refs"
           PROVE  (/\ f.j <= Len(At(f.stmt, f.k))
                   /\ \A x \in Visiting(f) : /\ f.v - offset[f.stmt] \in Local(f.stmt)
                                             /\ x \in EndingAt(f.stmt, f.v - offset[f.stmt]))'
      <4>1. (f.j <= Len(At(f.stmt, f.k)))'
        BY <3>2, <3>3, <3>7, <3>12
      <4>2. ASSUME NEW x \in Visiting(f)
            PROVE  (f.v - offset[f.stmt] \in Local(f.stmt) /\ x \in EndingAt(f.stmt, f.v - offset[f.stmt]))'
        BY <3>2, <3>9, <3>11, <3>12, <4>2
      <4>. QED BY <4>1, <4>2 DEF Visiting
    <3>13. (f.at # <<>> => offset[Referred(f.at)] # None)'
      BY <3>4
    <3>14. (f.phase = "starts" => Visiting(f) \subseteq StartingAt(f.stmt, f.k))'
      BY <3>2, <3>3, <3>5 DEF Visiting
    <3>15. (\A x \in StartingAt(f.stmt, f.k) :
              f.phase = "refs" \/ x \notin f.todo => offset[Referred(x)] # None)'
      BY <3>2, <3>3, <3>6
    <3>16. FrameInv(f)'
      BY <3>12, <3>13, <3>14, <3>15 DEF FrameInv
    <3>. QED BY <3>1, <3>16
  <2>2. FrameInv(A)'
    <3>1. StartingAt(s, 0)' = StartingAt(s, 0)
      BY <1>3, <1>7
    <3>2. Visiting(A) = StartingAt(s, 0)
      BY <1>4 DEF Visiting
    <3>. QED BY <1>4, <3>1, <3>2 DEF FrameInv, Visiting
  <2>3. ASSUME NEW m \in DOMAIN frames' PROVE (FrameInv(frames[m]))' /\ (m < Len(frames') => frames'[m].at # <<>>)
    <3>1. CASE m \in 1 .. Len(frames)
      BY <1>5, <1>20, <2>1, <3>1
    <3>2. CASE m = Len(frames) + 1
      BY <1>5, <2>2, <3>2
    <3>. QED BY <1>5, <3>1, <3>2
  <2>. QED BY <2>3 DEF FramesInv
<1>21. ASSUME NEW d \in Stmt, NEW k \in Nat
       PROVE  /\ Passed(d, k)' => d # s
              /\ Passed(d, k)' /\ d # s => Passed(d, k)
  <2>1. Len(frames) + 1 \in DOMAIN frames' /\ frames'[Len(frames) + 1].stmt = s /\ frames'[Len(frames) + 1].k = 0
    BY <1>4, <1>5
  <2>2. Passed(d, k)' => d # s
    BY <2>1 DEF Passed
  <2>3. ASSUME Passed(d, k)', NEW m \in DOMAIN frames, frames[m].stmt = d PROVE k < frames[m].k
    <3>1. m \in DOMAIN frames' /\ frames'[m] = fs[m] /\ m \in 1 .. Len(frames)
      BY <1>5
    <3>. QED BY <1>20, <2>3, <3>1 DEF Passed
  <2>. QED BY <2>2, <2>3 DEF Passed
<1>14. NeededInv'
  <2>1. ASSUME NEW S \in SUBSET Stmt, exporting \in S, Closed(S)' PROVE Allocated' \subseteq S
    <3>1. \A d \in Stmt : References(d)' = References(d)
      BY <1>1 DEF References, Local
    <3>2. Closed(S)
      BY <2>1, <3>1 DEF Closed
    <3>. QED BY <1>0, <1>6, <2>1, <3>2 DEF NeededInv
  <2>2. ASSUME NEW d \in Allocated', NEW k \in Local(d)', Passed(d, k)', NEW x \in StartingAt(d, k)'
        PROVE  offset'[Referred(x)] # None
    <3>1. d \in Stmt /\ k \in Local(d) /\ k \in Nat /\ x \in StartingAt(d, k) /\ x \in Reference
      BY <1>2, <1>6, <1>7, AnnoProps
    <3>2. d \in Allocated /\ Passed(d, k)
      BY <1>6, <1>21, <2>2, <3>1
    <3>3. offset[Referred(x)] # None
      BY <1>0, <3>1, <3>2 DEF NeededInv
    <3>. QED BY <1>19, <3>1, <3>3, ReferenceProps
  <2>3. (\A S \in SUBSET Stmt : exporting \in S /\ Closed(S) => Allocated \subseteq S)'
    BY <1>1, <2>1
  <2>4. (\A d \in Allocated : \A k \in Local(d) : Passed(d, k) =>
           \A x \in StartingAt(d, k) : offset[Referred(x)] # None)'
    BY <2>2
  <2>. QED BY <2>3, <2>4 DEF NeededInv
<1>15. EdgesInv'
  <2>1. ASSUME NEW d \in Allocated, NEW k \in Local(d) PROVE StateInv(d, k)'
    <3>1. /\ SortedEdges(At(d, k))
          /\ \A e \in Edges(d, k) : Owned(d, k, e) \/ Linked(d, k, e)
          /\ Passed(d, k) => \A e \in Edges(d, k) : e[2] <= collapse_label_base
      BY <1>0 DEF EdgesInv, StateInv
    <3>2. At(d, k)' = At(d, k) /\ Edges(d, k)' = Edges(d, k)
      BY <1>8 DEF At, Edges
    <3>3. Passed(d, k)' => Passed(d, k)
      <4>1. d \in Stmt /\ d # s /\ Local(d) = 0 .. Size(d) - 1 /\ Size(d) \in Nat
        BY <1>2, <1>6, AnnoProps
      <4>2. k \in Nat
        BY <4>1
      <4>. QED BY <1>21, <4>1, <4>2
    <3>4. \A e : (Owned(d, k, e) => Owned(d, k, e)') /\ (Linked(d, k, e) => Linked(d, k, e)')
      BY <1>0, <1>1, <1>19, LinkedKept
    <3>5. \A e \in Edges(d, k)' : Owned(d, k, e)' \/ Linked(d, k, e)'
      BY <3>1, <3>2, <3>4
    <3>6. (Passed(d, k) => \A e \in Edges(d, k) : e[2] <= collapse_label_base)'
      BY <3>1, <3>2, <3>3 DEF collapse_label_base
    <3>. QED BY <3>1, <3>2, <3>5, <3>6 DEF StateInv, SortedEdges
  <2>2. ASSUME NEW k \in Local(s) PROVE StateInv(s, k)'
    <3>. DEFINE es == compiled[s].adj[k]
    <3>1. /\ SortedEdges(EdgesOf(s, k, allo)) /\ EdgesOf(s, k, allo) \in Seq(AnyEdge)
          /\ Len(EdgesOf(s, k, allo)) = Len(es)
          /\ \A j \in 1 .. Len(es) : EdgesOf(s, k, allo)[j] = <<es[j][1], es[j][2], es[j][3] + allo>>
      BY <1>2, EdgesOfProps
    <3>2. es \in Seq(Edge(Size(s))) /\ k \in Nat
      BY <1>2, <1>3, AnnoProps
    <3>3. ~ Passed(s, k)'
      BY <1>21, <3>2
    <3>4. ASSUME NEW e \in Edges(s, k)' PROVE Owned(s, k, e)'
      <4>1. At(s, k)' = EdgesOf(s, k, allo) /\ Edges(s, k)' = ToSet(At(s, k)')
        BY <1>8 DEF Edges, At
      <4>2. PICK j \in 1 .. Len(es) : e = <<es[j][1], es[j][2], es[j][3] + allo>>
        <5>1. e \in ToSet(EdgesOf(s, k, allo))
          BY <4>1
        <5>2. PICK j \in 1 .. Len(EdgesOf(s, k, allo)) : EdgesOf(s, k, allo)[j] = e
          BY <3>1, <5>1, InToSet
        <5>. QED BY <3>1, <5>2
      <4>3. j \in DOMAIN compiled'[s].adj[k] /\ compiled'[s].adj[k][j] = es[j]
        BY <1>1, <3>2
      <4>. QED BY <1>6, <4>2, <4>3 DEF Owned, Moved
    <3>. HIDE DEF es
    <3>5. SortedEdges(At(s, k))'
      BY <1>8, <3>1 DEF SortedEdges
    <3>6. (\A e \in Edges(s, k) : Owned(s, k, e) \/ Linked(s, k, e))'
      BY <3>4
    <3>. QED BY <3>3, <3>5, <3>6 DEF StateInv
  <2>3. ASSUME NEW d \in Allocated', NEW k \in Local(d)' PROVE StateInv(d, k)'
    <3>1. k \in Local(d)
      BY <1>6, <1>7
    <3>2. CASE d = s
      BY <2>2, <3>1, <3>2
    <3>3. CASE d \in Allocated
      BY <2>1, <3>1, <3>3
    <3>. QED BY <1>6, <3>2, <3>3
  <2>. QED BY <2>3 DEF EdgesInv
<1>. QED BY <1>10, <1>11, <1>12, <1>13, <1>14, <1>15 DEF IInv

-----------------------------------------------------------------------------
(* The innermost call is at a state of a statement laid out, and no other  *)
(* call is for that statement.                                             *)
LEMMA TopProps ==
  ASSUME IInv, frames # <<>>
  PROVE  /\ Top \in Call /\ Top.stmt \in Allocated /\ Top.stmt \in Stmt /\ Top.k \in Local(Top.stmt)
         /\ Top.k \in Nat /\ Top.k < Size(Top.stmt) /\ Size(Top.stmt) \in Nat
         /\ Local(Top.stmt) = 0 .. Size(Top.stmt) - 1
         /\ FrameInv(Top) /\ StateInv(Top.stmt, Top.k)
         /\ i \in 0 .. allo - 1 /\ At(Top.stmt, Top.k) = adj[i] /\ adj[i] \in Seq(AnyEdge)
         /\ frames \in Seq(Call) /\ Len(frames) \in DOMAIN frames /\ DOMAIN frames = 1 .. Len(frames)
         /\ \A m \in DOMAIN frames : m # Len(frames) => frames[m].stmt # Top.stmt
<1>1. TypeInv /\ LayoutInv /\ FramesInv /\ EdgesInv
  BY DEF IInv
<1>2. frames \in Seq(Call) /\ compiled \in [Stmt -> FsaAnnos] /\ adj \in [0 .. allo - 1 -> Seq(AnyEdge)]
  BY <1>1 DEF TypeInv
<1>3. Len(frames) \in DOMAIN frames /\ DOMAIN frames = 1 .. Len(frames) /\ Top \in Call
  BY <1>2 DEF Top
<1>4. Top.stmt \in Stmt /\ Top.k \in Nat
  BY <1>3, CallFields
<1>5. offset[Top.stmt] # None /\ Top.k < Size(Top.stmt) /\ FrameInv(Top)
  BY <1>1, <1>3 DEF LayoutInv, FramesInv, Top
<1>6. Top.stmt \in Allocated /\ Size(Top.stmt) \in Nat /\ Local(Top.stmt) = 0 .. Size(Top.stmt) - 1
  BY <1>2, <1>4, <1>5, AnnoProps DEF Allocated
<1>7. Top.k \in Local(Top.stmt)
  BY <1>4, <1>5, <1>6
<1>8. i \in 0 .. allo - 1
  BY <1>1, <1>6, <1>7, PlaceProps DEF i
<1>9. At(Top.stmt, Top.k) = adj[i] /\ adj[i] \in Seq(AnyEdge) /\ StateInv(Top.stmt, Top.k)
  BY <1>1, <1>2, <1>6, <1>7, <1>8 DEF At, i, EdgesInv
<1>10. \A m \in DOMAIN frames : m # Len(frames) => frames[m].stmt # Top.stmt
  BY <1>1, <1>3 DEF LayoutInv, LayoutDisjoint, Top
<1>. QED BY <1>2, <1>3, <1>4, <1>5, <1>6, <1>7, <1>8, <1>9, <1>10

(* What holds of a call holds as long as its state keeps its edges.        *)
LEMMA FrameKept ==
  ASSUME compiled' = compiled, offset' = offset, NEW g \in Call, FrameInv(g),
         Len(At(g.stmt, g.k)) \in Nat, Len(At(g.stmt, g.k)') \in Nat,
         Len(At(g.stmt, g.k)) <= Len(At(g.stmt, g.k)')
  PROVE  FrameInv(g)'
<1>1. /\ StartingAt(g.stmt, g.k)' = StartingAt(g.stmt, g.k) /\ Local(g.stmt)' = Local(g.stmt)
      /\ \A n : EndingAt(g.stmt, n)' = EndingAt(g.stmt, n)
      /\ Visiting(g)' = Visiting(g) /\ g.j \in Nat
  BY CallFields DEF StartingAt, EndingAt, Local, Visiting
<1>2. (g.at # <<>> => offset[Referred(g.at)] # None)'
  BY DEF FrameInv
<1>3. (g.phase = "starts" => Visiting(g) \subseteq StartingAt(g.stmt, g.k))'
  BY <1>1 DEF FrameInv
<1>4. (\A x \in StartingAt(g.stmt, g.k) :
         g.phase = "refs" \/ x \notin g.todo => offset[Referred(x)] # None)'
  BY <1>1 DEF FrameInv
<1>5. ASSUME g.phase = "refs"
      PROVE  (/\ g.j <= Len(At(g.stmt, g.k))
              /\ \A x \in Visiting(g) : /\ g.v - offset[g.stmt] \in Local(g.stmt)
                                        /\ x \in EndingAt(g.stmt, g.v - offset[g.stmt]))'
  <2>1. g.j <= Len(At(g.stmt, g.k))
    BY <1>5 DEF FrameInv
  <2>2. \A x \in Visiting(g) : /\ g.v - offset[g.stmt] \in Local(g.stmt)
                               /\ x \in EndingAt(g.stmt, g.v - offset[g.stmt])
    BY <1>5 DEF FrameInv
  <2>3. (g.j <= Len(At(g.stmt, g.k)))'
    BY <1>1, <2>1
  <2>4. \A n : n = g.v - offset[g.stmt] => (n = g.v - offset[g.stmt])'
    OBVIOUS
  <2>5. PICK n : n = g.v - offset[g.stmt]
    OBVIOUS
  <2>6. (n = g.v - offset[g.stmt])'
    BY <2>5
  <2>7. \A x \in Visiting(g)' : n \in Local(g.stmt)' /\ x \in EndingAt(g.stmt, n)'
    BY <1>1, <2>2, <2>5
  <2>8. (\A x \in Visiting(g) : /\ g.v - offset[g.stmt] \in Local(g.stmt)
                                /\ x \in EndingAt(g.stmt, g.v - offset[g.stmt]))'
    BY <2>6, <2>7
  <2>. QED BY <2>3, <2>8
<1>. QED BY <1>2, <1>3, <1>4, <1>5 DEF FrameInv

(* A step of the innermost call that lays out nothing, but changes edges.  *)
LEMMA ReplacedInv ==
  ASSUME IInv, frames # <<>>,
         UNCHANGED <<compiled, used_as_call, exporting, offset, allo, starts, sub_final>>,
         adj' \in [0 .. allo - 1 -> Seq(AnyEdge)],
         \A s \in Allocated : \A k \in Local(s) :
           StateInv(s, k)' /\ (s # Top.stmt => Len(At(s, k)) <= Len(At(s, k)')),
         NEW f \in Call, frames' = Replaced(f), f.stmt = Top.stmt, f.k < Size(f.stmt),
         f.k = Top.k \/ (f.k = Top.k + 1 /\ Top.phase = "refs"), FrameInv(f)'
  PROVE  IInv'
<1>1. /\ TypeInv /\ LayoutInv /\ CalledInv /\ FramesInv /\ NeededInv /\ EdgesInv
      /\ compiled \in [Stmt -> FsaAnnos] /\ adj \in [0 .. allo - 1 -> Seq(AnyEdge)]
  BY DEF IInv, TypeInv
<1>2. Allocated' = Allocated /\ \A s \in Stmt : Local(s)' = Local(s) /\ Size(s)' = Size(s)
  BY DEF Allocated, Local, Size
<1>3. /\ Top \in Call /\ Top.stmt \in Allocated /\ Top.stmt \in Stmt /\ Top.k \in Local(Top.stmt)
      /\ Top.k \in Nat /\ FrameInv(Top) /\ frames \in Seq(Call) /\ Len(frames) \in DOMAIN frames
      /\ DOMAIN frames = 1 .. Len(frames)
      /\ \A m \in DOMAIN frames : m # Len(frames) => frames[m].stmt # Top.stmt
  BY TopProps
<1>4. /\ frames' \in Seq(Call) /\ DOMAIN frames' = DOMAIN frames /\ Len(frames') = Len(frames)
      /\ frames'[Len(frames)] = f
      /\ \A m \in DOMAIN frames : m # Len(frames) => frames'[m] = frames[m]
  <2>1. /\ Replaced(f) \in Seq(Call) /\ Len(Replaced(f)) = Len(frames)
        /\ Replaced(f)[Len(frames)] = f
        /\ \A m \in 1 .. Len(frames) : m # Len(frames) => Replaced(f)[m] = frames[m]
    BY <1>3, ReplacedProps
  <2>2. DOMAIN Replaced(f) = 1 .. Len(frames)
    BY <2>1
  <2>. HIDE DEF Replaced
  <2>. QED BY <1>3, <2>1, <2>2
<1>5. \A m \in DOMAIN frames : frames'[m].stmt = frames[m].stmt
  BY <1>4 DEF Top
<1>6. TypeInv'
  BY <1>1, <1>4 DEF TypeInv
<1>7. LayoutInv'
  <2>1. LayoutDisjoint'
    <3>1. (\A c, d \in Allocated : c # d => offset[c] + Size(c) <= offset[d] \/ offset[d] + Size(d) <= offset[c])'
      BY <1>1, <1>2 DEF LayoutInv, LayoutDisjoint, Allocated
    <3>2. (\A g \in 0 .. allo - 1 : \E d \in Allocated : g \in offset[d] .. offset[d] + Size(d) - 1)'
      BY <1>1, <1>2 DEF LayoutInv, LayoutDisjoint, Allocated
    <3>3. (\A m, o \in DOMAIN frames : frames[m].stmt = frames[o].stmt => m = o)'
      BY <1>1, <1>4, <1>5 DEF LayoutInv, LayoutDisjoint
    <3>. QED BY <3>1, <3>2, <3>3 DEF LayoutDisjoint
  <2>2. (\A s \in Allocated : offset[s] + Size(s) <= allo)'
    BY <1>1, <1>2 DEF LayoutInv, Allocated
  <2>3. ASSUME NEW m \in DOMAIN frames'
        PROVE  (offset[frames[m].stmt] # None /\ frames[m].k < Size(frames[m].stmt))'
    <3>1. PICK g \in Call : g = frames'[m]
      BY <1>4
    <3>2. g.stmt \in Stmt /\ offset[g.stmt] # None /\ g.k < Size(g.stmt)
      <4>1. CASE m = Len(frames)
        BY <1>3, <1>4, <3>1, <4>1 DEF Allocated
      <4>2. CASE m # Len(frames)
        <5>1. g = frames[m] /\ m \in DOMAIN frames
          BY <1>4, <3>1, <4>2
        <5>. QED BY <1>1, <5>1, CallFields DEF LayoutInv
      <4>. QED BY <4>1, <4>2
    <3>3. Size(g.stmt)' = Size(g.stmt)
      BY <1>2, <3>2
    <3>. QED BY <3>1, <3>2, <3>3
  <2>4. offset'[exporting'] # None
    BY <1>1 DEF LayoutInv
  <2>. QED BY <2>1, <2>2, <2>3, <2>4 DEF LayoutInv
<1>8. CalledInv'
  <2>1. /\ ToSet(starts) = {offset[s] + compiled[s].start : s \in Allocated \cap used_as_call}
        /\ Len(starts) = Cardinality(Allocated \cap used_as_call)
        /\ sub_final = UNION {{offset[s] + n : n \in compiled[s].finals} : s \in Allocated \cap used_as_call}
    BY <1>1 DEF CalledInv
  <2>. QED BY <1>2, <2>1 DEF CalledInv
<1>9. FramesInv'
  <2>1. ASSUME NEW m \in DOMAIN frames'
        PROVE  (FrameInv(frames[m]))' /\ (m < Len(frames') => frames'[m].at # <<>>)
    <3>1. CASE m = Len(frames)
      BY <1>4, <3>1
    <3>2. CASE m # Len(frames)
      <4>1. PICK g \in Call : g = frames[m]
        BY <1>3, <1>4
      <4>2. frames'[m] = g /\ FrameInv(g) /\ m \in DOMAIN frames /\ m < Len(frames) /\ g.at # <<>>
        BY <1>1, <1>3, <1>4, <3>2, <4>1 DEF FramesInv
      <4>3. g.stmt \in Allocated /\ g.k \in Local(g.stmt) /\ g.stmt # Top.stmt
        <5>1. /\ offset[g.stmt] # None /\ g.k < Size(g.stmt) /\ g.stmt # Top.stmt
              /\ g.stmt \in Stmt /\ g.k \in Nat
          BY <1>1, <1>3, <3>2, <4>1, <4>2, CallFields DEF LayoutInv
        <5>2. Local(g.stmt) = 0 .. Size(g.stmt) - 1 /\ Size(g.stmt) \in Nat
          BY <1>1, <5>1, AnnoProps
        <5>. QED BY <5>1, <5>2 DEF Allocated
      <4>4. offset[g.stmt] + g.k \in 0 .. allo - 1
        BY <1>1, <4>3, PlaceProps
      <4>5. Len(At(g.stmt, g.k)) \in Nat /\ Len(At(g.stmt, g.k)') \in Nat
        BY <1>1, <4>4 DEF At
      <4>6. FrameInv(g)'
        BY <4>2, <4>3, <4>5, FrameKept
      <4>. QED BY <4>2, <4>6
    <3>. QED BY <3>1, <3>2
  <2>. QED BY <2>1 DEF FramesInv
<1>10. NeededInv'
  <2>1. (\A S \in SUBSET Stmt : exporting \in S /\ Closed(S) => Allocated \subseteq S)'
    <3>1. \A S : Closed(S)' = Closed(S)
      BY DEF Closed, References, Local
    <3>. QED BY <1>1, <1>2, <3>1 DEF NeededInv
  <2>2. ASSUME NEW s \in Allocated, NEW k \in Local(s), Passed(s, k)', NEW x \in StartingAt(s, k)
        PROVE  offset[Referred(x)] # None
    <3>1. CASE Passed(s, k)
      BY <1>1, <3>1 DEF NeededInv
    <3>2. CASE ~ Passed(s, k)
      <4>0. s \in Stmt /\ k \in Nat
        <5>1. s \in Stmt
          BY DEF Allocated
        <5>2. Local(s) = 0 .. Size(s) - 1 /\ Size(s) \in Nat
          BY <1>1, <5>1, AnnoProps
        <5>. QED BY <5>1, <5>2
      <4>1. PICK m \in DOMAIN frames : frames[m].stmt = s /\ ~ (k < frames[m].k)
        BY <3>2 DEF Passed
      <4>2. frames'[m].stmt = s /\ k < frames'[m].k
        BY <1>4, <1>5, <2>2, <4>1 DEF Passed
      <4>3. m = Len(frames)
        BY <1>4, <4>1, <4>2
      <4>4. s = Top.stmt /\ Top.k <= k /\ k < f.k
        BY <1>3, <1>4, <4>0, <4>1, <4>2, <4>3 DEF Top
      <4>5. k = Top.k /\ Top.phase = "refs"
        BY <1>3, <4>0, <4>4
      <4>. QED BY <1>3, <4>4, <4>5 DEF FrameInv
    <3>. QED BY <3>1, <3>2
  <2>3. (\A s \in Allocated : \A k \in Local(s) : Passed(s, k) =>
           \A x \in StartingAt(s, k) : offset[Referred(x)] # None)'
    BY <1>2, <2>2 DEF StartingAt, Local
  <2>. QED BY <2>1, <2>3 DEF NeededInv
<1>11. EdgesInv'
  BY <1>2 DEF EdgesInv, Local
<1>. QED BY <1>6, <1>7, <1>8, <1>9, <1>10, <1>11 DEF IInv

(* The edges of the state at hand have become es.                          *)
LEMMA StatesInv ==
  ASSUME IInv, frames # <<>>, compiled' = compiled, offset' = offset, allo' = allo,
         NEW d, NEW n, d = Top.stmt, n = Top.k,
         NEW es \in Seq(AnyEdge), adj' = [adj EXCEPT ![i] = es], SortedEdges(es),
         \A e \in ToSet(es) : Owned(d, n, e) \/ Linked(d, n, e),
         Passed(d, n)' => \A e \in ToSet(es) : e[2] <= collapse_label_base,
         \A s \in Allocated : \A k \in Local(s) :
           (s # d \/ k # n) /\ Passed(s, k)' => Passed(s, k)
  PROVE  /\ adj' \in [0 .. allo - 1 -> Seq(AnyEdge)]
         /\ \A s \in Allocated : \A k \in Local(s) :
              StateInv(s, k)' /\ (s # d => Len(At(s, k)) <= Len(At(s, k)'))
         /\ At(d, n)' = es
<1>1. /\ TypeInv /\ LayoutInv /\ EdgesInv /\ adj \in [0 .. allo - 1 -> Seq(AnyEdge)]
  BY DEF IInv, TypeInv
<1>2. d \in Allocated /\ n \in Local(d) /\ i \in 0 .. allo - 1 /\ i = offset[d] + n
  BY TopProps DEF i
<1>3. adj' \in [0 .. allo - 1 -> Seq(AnyEdge)] /\ adj'[i] = es
  BY <1>1, <1>2
<1>4. At(d, n)' = es /\ Edges(d, n)' = ToSet(es)
  BY <1>2, <1>3 DEF At, Edges
<1>5. \A s, k, e : Owned(s, k, e)' = Owned(s, k, e) /\ Linked(s, k, e)' = Linked(s, k, e)
  BY SMTT(30) DEF Owned, Linked, Moved, Shortened, StartingAt, EndingAt, Local, Allocated
<1>6. StateInv(d, n)'
  <2>1. SortedEdges(At(d, n))'
    BY <1>4 DEF SortedEdges
  <2>2. (\A e \in Edges(d, n) : Owned(d, n, e) \/ Linked(d, n, e))'
    BY <1>4, <1>5
  <2>3. (Passed(d, n) => \A e \in Edges(d, n) : e[2] <= collapse_label_base)'
    BY <1>4 DEF collapse_label_base
  <2>. QED BY <2>1, <2>2, <2>3 DEF StateInv
<1>7. ASSUME NEW s \in Allocated, NEW k \in Local(s), s # d \/ k # n
      PROVE  StateInv(s, k)' /\ At(s, k)' = At(s, k)
  <2>1. offset[s] + k \in 0 .. allo - 1 /\ offset[s] + k # i
    BY <1>1, <1>2, <1>7, PlaceProps
  <2>2. At(s, k)' = At(s, k) /\ Edges(s, k)' = Edges(s, k)
    BY <1>1, <2>1 DEF At, Edges
  <2>3. StateInv(s, k) /\ (Passed(s, k)' => Passed(s, k))
    BY <1>1, <1>7 DEF EdgesInv
  <2>4. SortedEdges(At(s, k))'
    BY <2>2, <2>3 DEF SortedEdges, StateInv
  <2>5. (\A e \in Edges(s, k) : Owned(s, k, e) \/ Linked(s, k, e))'
    BY <1>5, <2>2, <2>3 DEF StateInv
  <2>6. (Passed(s, k) => \A e \in Edges(s, k) : e[2] <= collapse_label_base)'
    BY <2>2, <2>3 DEF collapse_label_base, StateInv
  <2>. QED BY <2>2, <2>4, <2>5, <2>6 DEF StateInv
<1>8. ASSUME NEW s \in Allocated, NEW k \in Local(s), s # d
      PROVE  Len(At(s, k)) <= Len(At(s, k)')
  <2>1. At(s, k)' = At(s, k) /\ offset[s] + k \in 0 .. allo - 1
    BY <1>1, <1>2, <1>7, <1>8, PlaceProps
  <2>2. Len(At(s, k)) \in Nat
    BY <1>1, <2>1 DEF At
  <2>. QED BY <2>1, <2>2
<1>9. \A s \in Allocated : \A k \in Local(s) : StateInv(s, k)'
  BY <1>6, <1>7
<1>. QED BY <1>3, <1>4, <1>8, <1>9

LEMMA PassedKept ==
  ASSUME IInv, frames # <<>>, NEW f \in Call, frames' = Replaced(f), f.stmt = Top.stmt,
         NEW s \in Stmt, NEW k, Passed(s, k)'
  PROVE  Passed(s, k) \/ (s = Top.stmt /\ k < f.k)
<1>1. /\ frames \in Seq(Call) /\ Len(frames) \in DOMAIN frames
      /\ \A m \in DOMAIN frames : m # Len(frames) => frames[m].stmt # Top.stmt
  BY TopProps
<1>2. /\ DOMAIN frames' = DOMAIN frames /\ frames'[Len(frames)] = f
      /\ \A m \in DOMAIN frames : m # Len(frames) => frames'[m] = frames[m]
  <2>1. /\ Replaced(f) \in Seq(Call) /\ Len(Replaced(f)) = Len(frames)
        /\ Replaced(f)[Len(frames)] = f
        /\ \A m \in 1 .. Len(frames) : m # Len(frames) => Replaced(f)[m] = frames[m]
    BY <1>1, ReplacedProps
  <2>2. DOMAIN Replaced(f) = DOMAIN frames /\ DOMAIN frames = 1 .. Len(frames)
    BY <1>1, <2>1
  <2>. QED BY <2>1, <2>2
<1>3. CASE s = Top.stmt
  <2>1. k < f.k
    BY <1>1, <1>2, <1>3 DEF Passed
  <2>. QED BY <1>3, <2>1
<1>4. CASE s # Top.stmt
  <2>1. \A m \in DOMAIN frames : frames[m].stmt = s => frames'[m] = frames[m] /\ m \in DOMAIN frames'
    BY <1>2, <1>4 DEF Top
  <2>. QED BY <2>1 DEF Passed
<1>. QED BY <1>3, <1>4

(* A step of the innermost call at its state, or on to the next one.       *)
LEMMA TopInv ==
  ASSUME IInv, frames # <<>>,
         UNCHANGED <<compiled, used_as_call, exporting, offset, allo, starts, sub_final>>,
         NEW d, NEW n, d = Top.stmt, n = Top.k,
         NEW es \in Seq(AnyEdge), adj' = [adj EXCEPT ![i] = es], SortedEdges(es),
         \A e \in ToSet(es) : Owned(d, n, e) \/ Linked(d, n, e),
         NEW f \in Call, frames' = Replaced(f), f.stmt = d, f.k < Size(d),
         \/ f.k = n
         \/ /\ f.k = n + 1 /\ Top.phase = "refs"
            /\ \A e \in ToSet(es) : e[2] <= collapse_label_base,
         At(d, n)' = es => FrameInv(f)'
  PROVE  IInv'
<1>1. d \in Stmt /\ n \in Nat /\ compiled \in [Stmt -> FsaAnnos]
  BY TopProps DEF IInv, TypeInv
<1>2. ~ Passed(d, n)
  <2>1. Len(frames) \in DOMAIN frames
    BY TopProps
  <2>. QED BY <1>1, <2>1 DEF Passed, Top
<1>3. Passed(d, n)' => \A e \in ToSet(es) : e[2] <= collapse_label_base
  BY <1>1, <1>2, PassedKept
<1>4. ASSUME NEW s \in Allocated, NEW k \in Local(s), s # d \/ k # n, Passed(s, k)'
      PROVE  Passed(s, k)
  <2>1. s \in Stmt
    BY DEF Allocated
  <2>2. Local(s) = 0 .. Size(s) - 1 /\ Size(s) \in Nat
    BY <1>1, <2>1, AnnoProps
  <2>3. k \in Nat
    BY <2>2
  <2>4. CASE s = d /\ k < f.k
    <3>1. k < n
      BY <1>1, <1>4, <2>3, <2>4
    <3>2. \A m \in DOMAIN frames : frames[m].stmt = d => m = Len(frames)
      BY TopProps
    <3>3. \A m \in DOMAIN frames : frames[m].stmt = d => frames[m].k = n
      BY <3>2 DEF Top
    <3>. QED BY <2>4, <3>1, <3>3 DEF Passed
  <2>. QED BY <1>4, <2>1, <2>4, PassedKept
<1>5. /\ adj' \in [0 .. allo - 1 -> Seq(AnyEdge)] /\ At(d, n)' = es
      /\ \A s \in Allocated : \A k \in Local(s) :
              StateInv(s, k)' /\ (s # Top.stmt => Len(At(s, k)) <= Len(At(s, k)'))
  BY <1>3, <1>4, StatesInv
<1>6. FrameInv(f)'
  BY <1>5
<1>. QED BY <1>5, <1>6, ReplacedInv

(* The innermost call once it visits a reference of its state.             *)
LEMMA VisitFrame ==
  ASSUME IInv, frames # <<>>, Top.at = <<>>, NEW x \in Top.todo,
         NEW f, f = [Top EXCEPT !.todo = @ \ {x}, !.at = x]
  PROVE  /\ f \in Call /\ f.stmt = Top.stmt /\ f.k = Top.k /\ f.phase = Top.phase /\ f.j = Top.j
         /\ f.v = Top.v /\ f.at = x /\ f.at # <<>> /\ f.todo = Top.todo \ {x}
         /\ Visiting(f) \subseteq Visiting(Top)
         /\ x \in Reference /\ Referred(x) \in Stmt
<1>1. Top \in Call /\ Top.todo \in SUBSET Reference
  BY TopProps, CallFields
<1>2. x \in Reference /\ x # <<>> /\ Referred(x) \in Stmt
  BY <1>1, ReferenceProps
<1>3. /\ f \in Call /\ f.stmt = Top.stmt /\ f.k = Top.k /\ f.phase = Top.phase /\ f.j = Top.j
      /\ f.v = Top.v /\ f.at = x /\ f.todo = Top.todo \ {x}
  BY <1>1, <1>2 DEF Call
<1>4. Visiting(f) \subseteq Visiting(Top)
  BY <1>2, <1>3 DEF Visiting
<1>. QED BY <1>2, <1>3, <1>4

LEMMA VisitOldInv ==
  ASSUME IInv, frames # <<>>, NEW x \in Top.todo, Visit(x), offset[Referred(x)] # None
  PROVE  IInv'
<1>1. /\ Top.at = <<>>
      /\ UNCHANGED <<compiled, used_as_call, exporting, offset, allo, adj, starts, sub_final>>
      /\ frames' = Replaced([Top EXCEPT !.todo = @ \ {x}, !.at = x])
  BY DEF Visit, Allocate
<1>2. PICK f : f = [Top EXCEPT !.todo = @ \ {x}, !.at = x]
  OBVIOUS
<1>3. /\ f \in Call /\ f.stmt = Top.stmt /\ f.k = Top.k /\ f.phase = Top.phase /\ f.j = Top.j
      /\ f.v = Top.v /\ f.at = x /\ f.todo = Top.todo \ {x} /\ Visiting(f) \subseteq Visiting(Top)
  BY <1>1, <1>2, VisitFrame
<1>4. /\ FrameInv(Top) /\ StateInv(Top.stmt, Top.k) /\ Top.k < Size(Top.stmt)
      /\ At(Top.stmt, Top.k) = adj[i] /\ adj[i] \in Seq(AnyEdge) /\ i \in 0 .. allo - 1
  BY TopProps
<1>5. PICK d, n, es : d = Top.stmt /\ n = Top.k /\ es = adj[i]
  OBVIOUS
<1>6. FrameInv(f)
  <2>1. f.at # <<>> => offset[Referred(f.at)] # None
    BY <1>3
  <2>2. f.phase = "starts" => Visiting(f) \subseteq StartingAt(f.stmt, f.k)
    BY <1>3, <1>4 DEF FrameInv
  <2>3. ASSUME NEW y \in StartingAt(f.stmt, f.k), f.phase = "refs" \/ y \notin f.todo
        PROVE  offset[Referred(y)] # None
    BY <1>3, <1>4, <2>3 DEF FrameInv
  <2>4. f.phase = "refs" =>
          /\ f.j <= Len(At(f.stmt, f.k))
          /\ \A y \in Visiting(f) : /\ f.v - offset[f.stmt] \in Local(f.stmt)
                                    /\ y \in EndingAt(f.stmt, f.v - offset[f.stmt])
    BY <1>3, <1>4 DEF FrameInv
  <2>. QED BY <2>1, <2>2, <2>3, <2>4 DEF FrameInv
<1>7. At(d, n)' = es => FrameInv(f)'
  <2>1. At(f.stmt, f.k) = es /\ Len(es) \in Nat /\ f.stmt = d /\ f.k = n
    BY <1>3, <1>4, <1>5
  <2>. QED BY <1>1, <1>3, <1>6, <2>1, FrameKept
<1>8. adj' = [adj EXCEPT ![i] = es]
  <2>1. adj \in [0 .. allo - 1 -> Seq(AnyEdge)]
    BY DEF IInv, TypeInv
  <2>. QED BY <1>1, <1>4, <1>5, <2>1
<1>9. SortedEdges(es) /\ \A e \in ToSet(es) : Owned(d, n, e) \/ Linked(d, n, e)
  BY <1>4, <1>5 DEF StateInv, Edges, At
<1>10. /\ f \in Call /\ frames' = Replaced(f) /\ f.stmt = d /\ f.k = n /\ f.k < Size(d)
       /\ es \in Seq(AnyEdge) /\ d = Top.stmt /\ n = Top.k
       /\ UNCHANGED <<compiled, used_as_call, exporting, offset, allo, starts, sub_final>>
  BY <1>1, <1>2, <1>3, <1>4, <1>5
<1>. QED BY <1>7, <1>8, <1>9, <1>10, TopInv

LEMMA VisitNewInv ==
  ASSUME IInv, frames # <<>>, NEW x \in Top.todo, Visit(x), offset[Referred(x)] = None
  PROVE  IInv'
<1>1. Top.at = <<>> /\ Allocate(Referred(x), Replaced([Top EXCEPT !.todo = @ \ {x}, !.at = x]))
  BY DEF Visit
<1>2. PICK f : f = [Top EXCEPT !.todo = @ \ {x}, !.at = x]
  OBVIOUS
<1>3. /\ f \in Call /\ f.stmt = Top.stmt /\ f.k = Top.k /\ f.phase = Top.phase /\ f.j = Top.j
      /\ f.v = Top.v /\ f.at = x /\ f.at # <<>> /\ f.todo = Top.todo \ {x}
      /\ Visiting(f) \subseteq Visiting(Top) /\ Referred(x) \in Stmt
  BY <1>1, <1>2, VisitFrame
<1>4. /\ FrameInv(Top) /\ Top.stmt \in Allocated /\ Top.stmt \in Stmt /\ Top.k \in Local(Top.stmt)
      /\ frames \in Seq(Call) /\ Len(frames) \in DOMAIN frames /\ DOMAIN frames = 1 .. Len(frames)
  BY TopProps
<1>5. PICK s \in Stmt : s = Referred(x)
  BY <1>3
<1>6. PICK fs : fs = Replaced(f)
  OBVIOUS
<1>7. /\ fs \in Seq(Call) /\ Len(fs) = Len(frames) /\ fs[Len(frames)] = f
      /\ \A m \in 1 .. Len(frames) : m # Len(frames) => fs[m] = frames[m]
  BY <1>3, <1>4, <1>6, ReplacedProps
<1>8. ASSUME NEW m \in 1 .. Len(fs)
      PROVE  /\ fs[m].stmt = frames[m].stmt /\ fs[m].k = frames[m].k /\ fs[m].phase = frames[m].phase
             /\ fs[m].j = frames[m].j /\ fs[m].v = frames[m].v
             /\ Visiting(fs[m]) \subseteq Visiting(frames[m]) /\ fs[m].at # <<>>
             /\ Referred(fs[m].at) = s \/ fs[m].at = frames[m].at
             /\ \A y \in frames[m].todo : y \in fs[m].todo \/ Referred(y) = s
  <2>1. CASE m = Len(frames)
    BY <1>3, <1>5, <1>7, <2>1 DEF Top
  <2>2. CASE m # Len(frames)
    <3>1. fs[m] = frames[m] /\ m < Len(frames) /\ m \in DOMAIN frames
      <4>1. Len(frames) \in Nat
        BY <1>4
      <4>2. m \in 1 .. Len(frames)
        BY <1>7
      <4>3. fs[m] = frames[m]
        BY <1>7, <2>2, <4>2
      <4>4. m < Len(frames)
        BY <2>2, <4>1, <4>2
      <4>. QED BY <1>4, <4>2, <4>3, <4>4
    <3>2. frames[m].at # <<>>
      BY <3>1 DEF IInv, FramesInv
    <3>. QED BY <3>1, <3>2
  <2>. QED BY <2>1, <2>2
<1>9. ASSUME NEW S \in SUBSET Stmt, exporting \in S, Closed(S) PROVE s \in S
  <2>1. Top.stmt \in S
    BY <1>4, <1>9 DEF IInv, NeededInv
  <2>2. x \in References(Top.stmt)
    <3>1. PICK n \in Local(Top.stmt) : \E t \in compiled[Top.stmt].assoc[n] : x = t[1]
      <4>1. x \in Visiting(Top) /\ Top.phase \in {"starts", "refs"}
        BY <1>4, TopProps, CallFields DEF Visiting
      <4>2. CASE Top.phase = "starts"
        <5>1. x \in StartingAt(Top.stmt, Top.k)
          BY <1>4, <4>1, <4>2 DEF FrameInv
        <5>. QED BY <1>4, <5>1 DEF StartingAt
      <4>3. CASE Top.phase = "refs"
        <5>1. PICK n \in Local(Top.stmt) : x \in EndingAt(Top.stmt, n)
          BY <1>4, <4>1, <4>3 DEF FrameInv
        <5>. QED BY <5>1 DEF EndingAt
      <4>. QED BY <4>1, <4>2, <4>3
    <3>. QED BY <3>1 DEF References
  <2>. QED BY <1>5, <1>9, <2>1, <2>2 DEF Closed
<1>10. Allocate(s, fs) /\ offset[s] = None
  BY <1>1, <1>2, <1>5, <1>6
<1>. QED BY <1>7, <1>8, <1>9, <1>10, AllocateInv

LEMMA BeginInv ==
  ASSUME IInv, Begin
  PROVE  IInv'
<1>1. frames = <<>> /\ offset[exporting] = None /\ Allocate(exporting, <<>>)
  BY DEF Begin
<1>2. exporting \in Stmt
  BY DEF IInv, TypeInv
<1>3. PICK s \in Stmt : s = exporting
  BY <1>2
<1>4. <<>> \in Seq(Call) /\ Len(<<>>) = Len(frames) /\ 1 .. Len(<<>>) = {}
  BY <1>1
<1>. QED BY <1>1, <1>3, <1>4, AllocateInv

LEMMA LinkStartInv ==
  ASSUME IInv, LinkStart
  PROVE  IInv'
<1>1. /\ frames # <<>> /\ Top.at # <<>> /\ Top.phase = "starts"
      /\ UNCHANGED <<compiled, used_as_call, exporting, offset, allo, starts, sub_final>>
      /\ frames' = Replaced([Top EXCEPT !.at = <<>>])
      /\ adj' = IF Kind(Top.at) = "collapse"
                  THEN [adj EXCEPT ![i] = Emplaced(@, offset[Referred(Top.at)] + compiled[Referred(Top.at)].start)]
                  ELSE adj
  BY DEF LinkStart
<1>2. PICK f : f = [Top EXCEPT !.at = <<>>]
  OBVIOUS
<1>3. /\ Top \in Call /\ Top.stmt \in Stmt /\ FrameInv(Top) /\ StateInv(Top.stmt, Top.k) /\ Top.k < Size(Top.stmt)
      /\ At(Top.stmt, Top.k) = adj[i] /\ adj[i] \in Seq(AnyEdge) /\ i \in 0 .. allo - 1
      /\ compiled \in [Stmt -> FsaAnnos] /\ adj \in [0 .. allo - 1 -> Seq(AnyEdge)]
      /\ offset \in [Stmt -> Nat \cup {None}]
  BY <1>1, TopProps DEF IInv, TypeInv
<1>4. /\ f \in Call /\ f.stmt = Top.stmt /\ f.k = Top.k /\ f.phase = "starts" /\ f.at = <<>>
      /\ f.todo = Top.todo /\ Visiting(f) \subseteq Visiting(Top)
  <2>1. /\ f \in Call /\ f.stmt = Top.stmt /\ f.k = Top.k /\ f.phase = "starts" /\ f.at = <<>>
        /\ f.todo = Top.todo
    BY <1>1, <1>2, <1>3 DEF Call
  <2>. QED BY <2>1 DEF Visiting
<1>5. PICK d, n : d = Top.stmt /\ n = Top.k
  OBVIOUS
<1>6. PICK x : x = Top.at
  OBVIOUS
<1>7. x \in Reference /\ Referred(x) \in Stmt /\ x \in StartingAt(d, n) /\ offset[Referred(x)] # None
  <2>1. x \in Reference
    BY <1>1, <1>3, <1>6, CallFields
  <2>2. x \in Visiting(Top)
    BY <1>1, <1>6 DEF Visiting
  <2>. QED BY <1>1, <1>3, <1>5, <1>6, <2>1, <2>2, ReferenceProps DEF FrameInv
<1>8. PICK p \in Nat : p = offset[Referred(x)] + compiled[Referred(x)].start
  <2>1. offset[Referred(x)] \in Nat
    BY <1>3, <1>7
  <2>2. compiled[Referred(x)].start \in Nat
    BY <1>3, <1>7, AnnoProps
  <2>. QED BY <2>1, <2>2
<1>9. /\ SortedEdges(adj[i]) /\ \A e \in ToSet(adj[i]) : Owned(d, n, e) \/ Linked(d, n, e)
  BY <1>3, <1>5 DEF StateInv, Edges, At
<1>10. PICK es \in Seq(AnyEdge) :
         /\ adj' = [adj EXCEPT ![i] = es] /\ SortedEdges(es)
         /\ \A e \in ToSet(es) : Owned(d, n, e) \/ Linked(d, n, e)
         /\ Len(adj[i]) <= Len(es)
  <2>1. CASE Kind(x) = "collapse"
    <3>1. /\ Emplaced(adj[i], p) \in Seq(AnyEdge) /\ SortedEdges(Emplaced(adj[i], p))
          /\ Len(Emplaced(adj[i], p)) = Len(adj[i]) + 1
          /\ ToSet(Emplaced(adj[i], p)) = ToSet(adj[i]) \cup {EpsilonTo(p)}
      BY <1>3, <1>9, EmplacedProps, EmplacedSet
    <3>2. adj' = [adj EXCEPT ![i] = Emplaced(adj[i], p)]
      BY <1>1, <1>3, <1>6, <1>8, <2>1
    <3>3. Linked(d, n, EpsilonTo(p))
      BY <1>7, <1>8, <2>1 DEF Linked
    <3>4. \A e \in ToSet(Emplaced(adj[i], p)) : Owned(d, n, e) \/ Linked(d, n, e)
      BY <1>9, <3>1, <3>3
    <3>5. Len(adj[i]) <= Len(Emplaced(adj[i], p))
      BY <1>3, <3>1
    <3>. HIDE DEF ToSet
    <3>. QED BY <3>1, <3>2, <3>4, <3>5
  <2>2. CASE Kind(x) # "collapse"
    <3>1. adj' = [adj EXCEPT ![i] = adj[i]]
      BY <1>1, <1>3, <1>6, <2>2
    <3>2. Len(adj[i]) <= Len(adj[i])
      BY <1>3
    <3>. QED BY <1>3, <1>9, <3>1, <3>2
  <2>. QED BY <2>1, <2>2
<1>11. FrameInv(f)
  <2>1. f.phase = "starts" => Visiting(f) \subseteq StartingAt(f.stmt, f.k)
    BY <1>1, <1>3, <1>4 DEF FrameInv
  <2>2. ASSUME NEW y \in StartingAt(f.stmt, f.k), y \notin f.todo
        PROVE  offset[Referred(y)] # None
    BY <1>3, <1>4, <2>2 DEF FrameInv
  <2>. QED BY <1>4, <2>1, <2>2 DEF FrameInv
<1>12. At(d, n)' = es => FrameInv(f)'
  <2>1. /\ At(f.stmt, f.k) = adj[i] /\ Len(adj[i]) \in Nat /\ Len(es) \in Nat
        /\ f.stmt = d /\ f.k = n
    BY <1>3, <1>4, <1>5
  <2>. QED BY <1>1, <1>4, <1>10, <1>11, <2>1, FrameKept
<1>13. /\ f \in Call /\ frames' = Replaced(f) /\ f.stmt = d /\ f.k = n /\ f.k < Size(d)
       /\ d = Top.stmt /\ n = Top.k
       /\ UNCHANGED <<compiled, used_as_call, exporting, offset, allo, starts, sub_final>>
  BY <1>1, <1>2, <1>3, <1>4, <1>5
<1>. QED BY <1>1, <1>10, <1>12, <1>13, TopInv

LEMMA BeginRefsInv ==
  ASSUME IInv, BeginRefs
  PROVE  IInv'
<1>1. /\ frames # <<>> /\ Top.at = <<>> /\ Top.todo = {} /\ Top.phase = "starts"
      /\ UNCHANGED <<compiled, used_as_call, exporting, offset, allo, starts, sub_final>>
      /\ adj' = adj
      /\ frames' = Replaced([Top EXCEPT !.phase = "refs", !.j = Len(adj[i])])
  BY DEF BeginRefs
<1>2. PICK f : f = [Top EXCEPT !.phase = "refs", !.j = Len(adj[i])]
  OBVIOUS
<1>3. /\ Top \in Call /\ Top.stmt \in Stmt /\ FrameInv(Top) /\ StateInv(Top.stmt, Top.k) /\ Top.k < Size(Top.stmt)
      /\ At(Top.stmt, Top.k) = adj[i] /\ adj[i] \in Seq(AnyEdge) /\ i \in 0 .. allo - 1
      /\ adj \in [0 .. allo - 1 -> Seq(AnyEdge)]
  BY <1>1, TopProps DEF IInv, TypeInv
<1>4. /\ f \in Call /\ f.stmt = Top.stmt /\ f.k = Top.k /\ f.phase = "refs" /\ f.at = <<>>
      /\ f.todo = {} /\ f.j = Len(adj[i]) /\ Visiting(f) = {}
  <2>1. /\ f \in Call /\ f.stmt = Top.stmt /\ f.k = Top.k /\ f.phase = "refs" /\ f.at = <<>>
        /\ f.todo = {} /\ f.j = Len(adj[i])
    <3>1. Len(adj[i]) \in Nat
      BY <1>3
    <3>. QED BY <1>1, <1>2, <1>3, <3>1 DEF Call
  <2>. QED BY <2>1 DEF Visiting
<1>5. PICK d, n, es : d = Top.stmt /\ n = Top.k /\ es = adj[i]
  OBVIOUS
<1>6. SortedEdges(es) /\ \A e \in ToSet(es) : Owned(d, n, e) \/ Linked(d, n, e)
  BY <1>3, <1>5 DEF StateInv, Edges, At
<1>7. FrameInv(f)
  <2>1. \A y \in StartingAt(f.stmt, f.k) : offset[Referred(y)] # None
    BY <1>1, <1>3, <1>4 DEF FrameInv
  <2>2. f.j <= Len(At(f.stmt, f.k))
    BY <1>3, <1>4
  <2>. QED BY <1>4, <2>1, <2>2 DEF FrameInv
<1>8. At(d, n)' = es => FrameInv(f)'
  <2>1. At(f.stmt, f.k) = es /\ Len(es) \in Nat /\ f.stmt = d /\ f.k = n
    BY <1>3, <1>4, <1>5
  <2>. QED BY <1>1, <1>4, <1>7, <2>1, FrameKept
<1>9. adj' = [adj EXCEPT ![i] = es]
  BY <1>1, <1>3, <1>5
<1>10. /\ f \in Call /\ frames' = Replaced(f) /\ f.stmt = d /\ f.k = n /\ f.k < Size(d)
       /\ d = Top.stmt /\ n = Top.k /\ es \in Seq(AnyEdge)
       /\ UNCHANGED <<compiled, used_as_call, exporting, offset, allo, starts, sub_final>>
  BY <1>1, <1>2, <1>3, <1>4, <1>5
<1>. QED BY <1>1, <1>6, <1>8, <1>9, <1>10, TopInv

(* The edge that the loop over the edges of a state is at.                 *)
LEMMA RefProps ==
  ASSUME IInv, InRefs, AtRef
  PROVE  LET e == adj[i][Top.j]
         IN /\ Top.j \in 1 .. Len(adj[i]) /\ e \in AnyEdge /\ collapse_label_base < e[2]
            /\ \E l \in DOMAIN compiled[Top.stmt].adj[Top.k] :
                 e = Moved(Top.stmt, compiled[Top.stmt].adj[Top.k][l])
            /\ e[1] \in Nat /\ e[2] \in Nat /\ e[3] \in Nat
            /\ e[3] - offset[Top.stmt] \in Local(Top.stmt)
<1>. DEFINE e == adj[i][Top.j]
<1>1. frames # <<>> /\ Top.phase = "refs" /\ Top.j > 0 /\ collapse_label_base < e[2]
  BY DEF InRefs, AtRef
<1>2. /\ Top \in Call /\ FrameInv(Top) /\ StateInv(Top.stmt, Top.k)
      /\ At(Top.stmt, Top.k) = adj[i] /\ adj[i] \in Seq(AnyEdge)
      /\ Top.k \in Local(Top.stmt) /\ Top.stmt \in Stmt /\ Top.stmt \in Allocated
  BY <1>1, TopProps
<1>3. Top.j \in 1 .. Len(adj[i])
  BY <1>1, <1>2, CallFields DEF FrameInv
<1>4. e \in AnyEdge /\ e \in ToSet(adj[i])
  <2>1. e \in AnyEdge
    BY <1>2, <1>3
  <2>. QED BY <1>2, <1>3, <2>1, InToSet
<1>. HIDE DEF e
<1>5. collapse_label_base \in Nat
  BY ExportAssumption DEF collapse_label_base
<1>6. Owned(Top.stmt, Top.k, e) \/ Linked(Top.stmt, Top.k, e)
  BY <1>2, <1>4 DEF StateInv, Edges, At
<1>7. ~ Linked(Top.stmt, Top.k, e)
  <2>1. \A v : EpsilonTo(v)[2] = 0
    BY DEF EpsilonTo
  <2>. QED BY <1>1, <1>5, <2>1 DEF Linked
<1>8. PICK l \in DOMAIN compiled[Top.stmt].adj[Top.k] :
        LET c == compiled[Top.stmt].adj[Top.k][l]
        IN e = Moved(Top.stmt, c) \/ e = Shortened(Top.stmt, c)
  BY <1>6, <1>7 DEF Owned
<1>9. e = Moved(Top.stmt, compiled[Top.stmt].adj[Top.k][l])
  BY <1>1, <1>5, <1>8 DEF Shortened
<1>10. /\ compiled[Top.stmt].adj[Top.k] \in Seq(Edge(Size(Top.stmt))) /\ offset[Top.stmt] \in Nat
       /\ Local(Top.stmt) = 0 .. Size(Top.stmt) - 1 /\ Size(Top.stmt) \in Nat
  BY <1>2, AnnoProps DEF IInv, TypeInv, Allocated
<1>11. compiled[Top.stmt].adj[Top.k][l] \in Nat \X Nat \X (0 .. Size(Top.stmt) - 1)
  BY <1>10 DEF Edge
<1>12. /\ e[1] \in Nat /\ e[2] \in Nat /\ e[3] \in Nat
       /\ e[3] - offset[Top.stmt] \in Local(Top.stmt)
  <2>1. PICK c : c = compiled[Top.stmt].adj[Top.k][l]
    OBVIOUS
  <2>2. c[1] \in Nat /\ c[2] \in Nat /\ c[3] \in 0 .. Size(Top.stmt) - 1
    BY <1>11, <2>1
  <2>3. e[1] = c[1] /\ e[2] = c[2] /\ e[3] = c[3] + offset[Top.stmt]
    BY <1>9, <2>1 DEF Moved
  <2>4. e[3] - offset[Top.stmt] = c[3]
    BY <1>10, <2>2, <2>3
  <2>. QED BY <1>10, <2>2, <2>3, <2>4
<1>. QED BY <1>1, <1>3, <1>4, <1>9, <1>12 DEF e

(* An edge shortened to the labels below collapse_label_base.              *)
LEMMA ShortenedProps ==
  ASSUME NEW es \in Seq(AnyEdge), SortedEdges(es), NEW j \in 1 .. Len(es),
         es[j][1] < collapse_label_base, collapse_label_base < es[j][2],
         NEW c, c = collapse_label_base
  PROVE  LET r == [es EXCEPT ![j][2] = c]
         IN /\ r \in Seq(AnyEdge) /\ Len(r) = Len(es) /\ SortedEdges(r)
            /\ r[j] = <<es[j][1], c, es[j][3]>>
            /\ \A h \in 1 .. Len(es) : h # j => r[h] = es[h]
<1>. DEFINE r == [es EXCEPT ![j][2] = c]
<1>1. c \in Nat
  BY ExportAssumption DEF collapse_label_base
<1>2. \A h \in 1 .. Len(es) : /\ es[h] \in AnyEdge /\ es[h][1] \in Nat \cup {-1} /\ es[h][2] \in Nat
                              /\ es[h][3] \in Nat /\ (es[h][1] = -1 => es[h][2] = 0)
  <2>. TAKE h \in 1 .. Len(es)
  <2>1. es[h] \in AnyEdge
    OBVIOUS
  <2>. QED BY <2>1 DEF AnyEdge
<1>3. es[j][1] \in Nat /\ es[j][3] \in Nat /\ es[j] = <<es[j][1], es[j][2], es[j][3]>>
  <2>1. es[j][1] # -1
    BY <1>1, <1>2
  <2>2. es[j] \in Nat \X Nat \X Nat
    BY <1>2, <2>1 DEF AnyEdge
  <2>. QED BY <2>2
<1>4. [es[j] EXCEPT ![2] = c] = <<es[j][1], c, es[j][3]>>
  BY <1>3
<1>5. r = [es EXCEPT ![j] = <<es[j][1], c, es[j][3]>>]
  BY <1>4
<1>6. <<es[j][1], c, es[j][3]>> \in AnyEdge
  BY <1>1, <1>3 DEF AnyEdge
<1>. HIDE DEF r
<1>7. /\ r \in Seq(AnyEdge) /\ Len(r) = Len(es)
      /\ r[j] = <<es[j][1], c, es[j][3]>>
      /\ \A h \in 1 .. Len(es) : h # j => r[h] = es[h]
  <2>. DEFINE w == <<es[j][1], c, es[j][3]>>
  <2>1. w \in AnyEdge /\ r = [es EXCEPT ![j] = w]
    BY <1>5, <1>6
  <2>. HIDE DEF w
  <2>2. r \in Seq(AnyEdge) /\ Len(r) = Len(es) /\ r[j] = w /\ \A h \in 1 .. Len(es) : h # j => r[h] = es[h]
    BY <2>1
  <2>. QED BY <2>2 DEF w
<1>8. SortedEdges(r)
  <2>1. \A h \in 1 .. Len(es) : es[h][1] < es[h][2]
    BY DEF SortedEdges
  <2>2. \A a, b \in 1 .. Len(es) : a < b =>
          es[a][2] <= es[b][1] \/ (es[a][1] = -1 /\ es[b][1] = -1 /\ es[a][3] <= es[b][3])
    BY DEF SortedEdges
  <2>3. r[j][1] = es[j][1] /\ r[j][2] = c /\ r[j][3] = es[j][3]
    BY <1>7
  <2>4. \A h \in 1 .. Len(es) : r[h][1] < r[h][2]
    BY <1>7, <2>1, <2>3
  <2>5. ASSUME NEW a \in 1 .. Len(es), NEW b \in 1 .. Len(es), a < b
        PROVE  r[a][2] <= r[b][1] \/ (r[a][1] = -1 /\ r[b][1] = -1 /\ r[a][3] <= r[b][3])
    <3>1. CASE a = j
      <4>1. r[b] = es[b] /\ es[j][2] <= es[b][1] /\ es[b][1] \in Nat \cup {-1} /\ es[j][2] \in Nat
        BY <1>2, <1>3, <1>7, <2>2, <2>5, <3>1
      <4>. QED BY <1>1, <2>3, <3>1, <4>1
    <3>2. CASE b = j
      <4>1. r[a] = es[a] /\ es[a][2] <= es[j][1]
        BY <1>2, <1>3, <1>7, <2>2, <2>5, <3>2
      <4>. QED BY <2>3, <3>2, <4>1
    <3>3. CASE a # j /\ b # j
      BY <1>7, <2>2, <2>5, <3>3
    <3>. QED BY <3>1, <3>2, <3>3
  <2>. QED BY <1>7, <2>4, <2>5 DEF SortedEdges
<1>. QED BY <1>7, <1>8 DEF r

LEMMA TakeRefInv ==
  ASSUME IInv, TakeRef
  PROVE  IInv'
<1>. DEFINE e0 == adj[i][Top.j]
<1>1. /\ InRefs /\ AtRef /\ frames # <<>> /\ Top.at = <<>> /\ Top.todo = {} /\ Top.phase = "refs"
      /\ UNCHANGED <<compiled, used_as_call, exporting, offset, allo, starts, sub_final>>
      /\ adj' = IF e0[1] < collapse_label_base THEN [adj EXCEPT ![i][Top.j][2] = collapse_label_base] ELSE adj
      /\ frames' = Replaced([Top EXCEPT !.j = IF e0[1] < collapse_label_base THEN @ ELSE @ - 1, !.v = e0[3],
                                 !.todo = EndingAt(Top.stmt, e0[3] - offset[Top.stmt])])
  BY DEF TakeRef, InRefs
<1>2. /\ Top \in Call /\ Top.stmt \in Stmt /\ FrameInv(Top) /\ StateInv(Top.stmt, Top.k) /\ Top.k < Size(Top.stmt)
      /\ At(Top.stmt, Top.k) = adj[i] /\ adj[i] \in Seq(AnyEdge) /\ i \in 0 .. allo - 1
      /\ adj \in [0 .. allo - 1 -> Seq(AnyEdge)] /\ compiled \in [Stmt -> FsaAnnos]
  BY <1>1, TopProps DEF IInv, TypeInv
<1>3. PICK d, n, j, old, e : d = Top.stmt /\ n = Top.k /\ j = Top.j /\ old = adj[i] /\ e = e0
  OBVIOUS
<1>. HIDE DEF e0
<1>4. /\ j \in 1 .. Len(old) /\ e = old[j] /\ e[3] \in Nat /\ e[3] - offset[d] \in Local(d)
      /\ collapse_label_base < e[2] /\ j \in Nat
  <2>1. /\ Top.j \in 1 .. Len(adj[i]) /\ e0[3] \in Nat /\ e0[3] - offset[Top.stmt] \in Local(Top.stmt)
        /\ collapse_label_base < e0[2]
    BY <1>1, RefProps DEF e0
  <2>. QED BY <1>3, <2>1 DEF e0
<1>5. PICK l \in DOMAIN compiled[d].adj[n] : e = Moved(d, compiled[d].adj[n][l])
  <2>1. \E l \in DOMAIN compiled[Top.stmt].adj[Top.k] : e0 = Moved(Top.stmt, compiled[Top.stmt].adj[Top.k][l])
    BY <1>1, RefProps DEF e0
  <2>. QED BY <1>3, <2>1
<1>6. PICK f : f = [Top EXCEPT !.j = IF e[1] < collapse_label_base THEN @ ELSE @ - 1, !.v = e[3],
                               !.todo = EndingAt(d, e[3] - offset[d])]
  OBVIOUS
<1>7. /\ f \in Call /\ f.stmt = d /\ f.k = n /\ f.phase = "refs" /\ f.at = <<>> /\ f.v = e[3]
      /\ f.todo = EndingAt(d, e[3] - offset[d]) /\ f.j <= j
      /\ Visiting(f) = EndingAt(d, e[3] - offset[d])
  <2>1. EndingAt(d, e[3] - offset[d]) \in SUBSET Reference
    BY <1>2, <1>3, <1>4, AnnoProps
  <2>2. j - 1 \in Nat /\ (IF e[1] < collapse_label_base THEN j ELSE j - 1) \in Nat
        /\ (IF e[1] < collapse_label_base THEN j ELSE j - 1) <= j
    BY <1>4
  <2>3. f = [Top EXCEPT !.j = IF e[1] < collapse_label_base THEN j ELSE j - 1, !.v = e[3],
                        !.todo = EndingAt(d, e[3] - offset[d])]
    BY <1>2, <1>3, <1>6 DEF Call
  <2>4. /\ f \in Call /\ f.stmt = d /\ f.k = n /\ f.phase = "refs" /\ f.at = <<>> /\ f.v = e[3]
        /\ f.todo = EndingAt(d, e[3] - offset[d])
        /\ f.j = IF e[1] < collapse_label_base THEN j ELSE j - 1
    BY <1>1, <1>2, <1>3, <1>4, <2>1, <2>2, <2>3 DEF Call
  <2>. QED BY <2>2, <2>4 DEF Visiting
<1>8. SortedEdges(old) /\ \A c \in ToSet(old) : Owned(d, n, c) \/ Linked(d, n, c)
  BY <1>2, <1>3 DEF StateInv, Edges, At
<1>9. PICK es \in Seq(AnyEdge) :
         /\ adj' = [adj EXCEPT ![i] = es] /\ SortedEdges(es)
         /\ \A c \in ToSet(es) : Owned(d, n, c) \/ Linked(d, n, c)
         /\ Len(es) = Len(old)
  <2>1. CASE e[1] < collapse_label_base
    <3>0. PICK q : q = collapse_label_base
      OBVIOUS
    <3>1. PICK r : r = [old EXCEPT ![j][2] = q]
      OBVIOUS
    <3>2. /\ r \in Seq(AnyEdge) /\ Len(r) = Len(old) /\ SortedEdges(r)
          /\ r[j] = <<old[j][1], q, old[j][3]>>
          /\ \A h \in 1 .. Len(old) : h # j => r[h] = old[h]
      <4>1. /\ old \in Seq(AnyEdge) /\ SortedEdges(old) /\ j \in 1 .. Len(old)
            /\ old[j][1] < collapse_label_base /\ collapse_label_base < old[j][2]
        BY <1>2, <1>3, <1>4, <1>8, <2>1
      <4>2. LET w == [old EXCEPT ![j][2] = q]
            IN /\ w \in Seq(AnyEdge) /\ Len(w) = Len(old) /\ SortedEdges(w)
               /\ w[j] = <<old[j][1], q, old[j][3]>>
               /\ \A h \in 1 .. Len(old) : h # j => w[h] = old[h]
        BY <3>0, <4>1, ShortenedProps
      <4>. QED BY <3>1, <4>2
    <3>3. adj' = [adj EXCEPT ![i] = r]
      BY <1>1, <1>2, <1>3, <2>1, <3>0, <3>1
    <3>4. Owned(d, n, r[j])
      <4>1. PICK c : c = compiled[d].adj[n][l]
        OBVIOUS
      <4>2. e[1] = c[1] /\ e[2] = c[2] /\ e[3] = c[3] + offset[d]
        BY <1>5, <4>1 DEF Moved
      <4>3. r[j] = Shortened(d, c)
        BY <1>4, <3>0, <3>2, <4>2 DEF Shortened
      <4>. QED BY <1>4, <2>1, <4>1, <4>2, <4>3 DEF Owned
    <3>5. ASSUME NEW c \in ToSet(r) PROVE Owned(d, n, c) \/ Linked(d, n, c)
      <4>1. PICK h \in 1 .. Len(r) : c = r[h]
        BY <3>2, InToSet
      <4>2. h # j => c \in ToSet(old)
        BY <1>2, <1>3, <3>2, <4>1, InToSet
      <4>. QED BY <1>8, <3>4, <4>1, <4>2
    <3>. QED BY <3>2, <3>3, <3>5
  <2>2. CASE ~ (e[1] < collapse_label_base)
    <3>1. adj' = [adj EXCEPT ![i] = old]
      BY <1>1, <1>2, <1>3, <2>2
    <3>. QED BY <1>2, <1>3, <1>8, <3>1
  <2>. QED BY <2>1, <2>2
<1>10. FrameInv(f)
  <2>1. \A y \in StartingAt(f.stmt, f.k) : offset[Referred(y)] # None
    BY <1>1, <1>2, <1>3, <1>7 DEF FrameInv
  <2>2. f.j <= Len(At(f.stmt, f.k))
    <3>1. f.j \in Nat /\ Len(old) \in Nat /\ At(f.stmt, f.k) = old
      BY <1>2, <1>3, <1>7, CallFields
    <3>. QED BY <1>4, <1>7, <3>1
  <2>. QED BY <1>4, <1>7, <2>1, <2>2 DEF FrameInv
<1>11. At(d, n)' = es => FrameInv(f)'
  <2>1. At(f.stmt, f.k) = old /\ Len(es) \in Nat /\ Len(old) \in Nat /\ f.stmt = d /\ f.k = n
    BY <1>2, <1>3, <1>7
  <2>. QED BY <1>1, <1>7, <1>9, <1>10, <2>1, FrameKept
<1>12. /\ f \in Call /\ frames' = Replaced(f) /\ f.stmt = d /\ f.k = n /\ f.k < Size(d)
       /\ d = Top.stmt /\ n = Top.k
       /\ UNCHANGED <<compiled, used_as_call, exporting, offset, allo, starts, sub_final>>
  BY <1>1, <1>2, <1>3, <1>6, <1>7
<1>. QED BY <1>1, <1>9, <1>11, <1>12, TopInv

(* Which edges LinkEnd changes, and how.                                   *)
LEMMA LinkEndEdges ==
  ASSUME IInv, LinkEnd, NEW w \in Stmt, w = Referred(Top.at), NEW v \in Nat, v = Top.v,
         NEW s \in Allocated, NEW k \in Local(s)
  PROVE  /\ At(s, k) \in Seq(AnyEdge) /\ SortedEdges(At(s, k)) /\ StateInv(s, k)
         /\ s = w /\ k \in compiled[w].finals =>
              /\ At(s, k)' = Emplaced(At(s, k), v) /\ At(s, k)' \in Seq(AnyEdge)
              /\ SortedEdges(At(s, k)') /\ Len(At(s, k)') = Len(At(s, k)) + 1
              /\ Edges(s, k)' = Edges(s, k) \cup {EpsilonTo(v)}
         /\ ~ (s = w /\ k \in compiled[w].finals) =>
              At(s, k)' = At(s, k) /\ Edges(s, k)' = Edges(s, k)
<1>1. PICK G :
        /\ G = {offset[w] + q : q \in compiled[w].finals}
        /\ frames # <<>> /\ Top.at # <<>> /\ Top.phase = "refs"
        /\ UNCHANGED <<compiled, offset, allo>>
        /\ adj' = [g \in DOMAIN adj |-> IF g \in G THEN Emplaced(adj[g], v) ELSE adj[g]]
  BY DEF LinkEnd
<1>2. /\ Top \in Call /\ FrameInv(Top) /\ adj \in [0 .. allo - 1 -> Seq(AnyEdge)]
      /\ compiled \in [Stmt -> FsaAnnos] /\ TypeInv /\ LayoutInv /\ EdgesInv
  BY <1>1, TopProps DEF IInv, TypeInv
<1>3. w \in Allocated /\ compiled[w].finals \in SUBSET Local(w)
  BY <1>1, <1>2, AnnoProps DEF FrameInv, Allocated
<1>4. offset[s] + k \in 0 .. allo - 1 /\ StateInv(s, k)
  BY <1>2, PlaceProps DEF EdgesInv
<1>5. \A q \in Local(w) : offset[s] + k = offset[w] + q => s = w /\ k = q
  BY <1>2, <1>3, PlaceProps
<1>6. offset[s] + k \in G <=> s = w /\ k \in compiled[w].finals
  BY <1>1, <1>3, <1>5
<1>7. At(s, k) \in Seq(AnyEdge) /\ SortedEdges(At(s, k))
  BY <1>2, <1>4 DEF At, StateInv
<1>8. At(s, k)' = IF offset[s] + k \in G THEN Emplaced(At(s, k), v) ELSE At(s, k)
  BY <1>1, <1>2, <1>4 DEF At
<1>9. Edges(s, k)' = ToSet(At(s, k)') /\ Edges(s, k) = ToSet(At(s, k))
  BY DEF Edges, At
<1>10. /\ Emplaced(At(s, k), v) \in Seq(AnyEdge) /\ SortedEdges(Emplaced(At(s, k), v))
       /\ Len(Emplaced(At(s, k), v)) = Len(At(s, k)) + 1
       /\ ToSet(Emplaced(At(s, k), v)) = ToSet(At(s, k)) \cup {EpsilonTo(v)}
  BY <1>7, EmplacedProps, EmplacedSet
<1>. HIDE DEF ToSet
<1>. QED BY <1>4, <1>6, <1>7, <1>8, <1>9, <1>10

LEMMA LinkEndInv ==
  ASSUME IInv, LinkEnd
  PROVE  IInv'
<1>1. PICK x, w, G :
        /\ x = Top.at /\ w = Referred(x) /\ G = {offset[w] + q : q \in compiled[w].finals}
        /\ frames # <<>> /\ Top.at # <<>> /\ Top.phase = "refs"
        /\ UNCHANGED <<compiled, used_as_call, exporting, offset, allo, starts, sub_final>>
        /\ adj' = [g \in DOMAIN adj |-> IF g \in G THEN Emplaced(adj[g], Top.v) ELSE adj[g]]
        /\ frames' = Replaced([Top EXCEPT !.at = <<>>, !.j = Followed(@, G)])
  BY DEF LinkEnd
<1>2. /\ Top \in Call /\ Top.stmt \in Stmt /\ FrameInv(Top) /\ Top.k < Size(Top.stmt)
      /\ At(Top.stmt, Top.k) = adj[i] /\ adj[i] \in Seq(AnyEdge) /\ i \in 0 .. allo - 1
      /\ adj \in [0 .. allo - 1 -> Seq(AnyEdge)] /\ compiled \in [Stmt -> FsaAnnos]
      /\ offset \in [Stmt -> Nat \cup {None}] /\ TypeInv /\ LayoutInv /\ EdgesInv
      /\ Top.stmt \in Allocated /\ Top.k \in Local(Top.stmt) /\ Top.k \in Nat
      /\ \A m \in DOMAIN frames : m # Len(frames) => frames[m].stmt # Top.stmt
  BY <1>1, TopProps DEF IInv, TypeInv
<1>3. PICK d, n, j, v : d = Top.stmt /\ n = Top.k /\ j = Top.j /\ v = Top.v
  OBVIOUS
<1>4. j \in Nat /\ v \in Nat /\ x \in Reference /\ w \in Stmt /\ offset[w] # None /\ w \in Allocated
  <2>1. x \in Reference /\ Top.j \in Nat /\ Top.v \in Nat
    BY <1>1, <1>2, CallFields
  <2>. QED BY <1>1, <1>2, <1>3, <2>1, ReferenceProps DEF FrameInv, Allocated
<1>5. /\ v - offset[d] \in Local(d) /\ x \in EndingAt(d, v - offset[d]) /\ j <= Len(adj[i])
      /\ \A y \in Visiting(Top) : y \in EndingAt(d, v - offset[d])
  <2>1. x \in Visiting(Top)
    BY <1>1 DEF Visiting
  <2>. QED BY <1>1, <1>2, <1>3, <2>1 DEF FrameInv
<1>6. compiled[w].finals \in SUBSET Local(w)
  BY <1>2, <1>4, AnnoProps
<1>7. PICK f : f = [Top EXCEPT !.at = <<>>, !.j = Followed(@, G)]
  OBVIOUS
<1>8. /\ f \in Call /\ f.stmt = d /\ f.k = n /\ f.phase = "refs" /\ f.at = <<>> /\ f.v = v
      /\ f.todo = Top.todo /\ f.j = (IF i \in G THEN j + 1 ELSE j)
      /\ Visiting(f) \subseteq Visiting(Top)
  <2>1. (IF i \in G THEN j + 1 ELSE j) \in Nat /\ f = [Top EXCEPT !.at = <<>>, !.j = IF i \in G THEN j + 1 ELSE j]
    BY <1>2, <1>3, <1>4, <1>7 DEF Followed, Call
  <2>2. /\ f \in Call /\ f.stmt = d /\ f.k = n /\ f.phase = "refs" /\ f.at = <<>> /\ f.v = v
        /\ f.todo = Top.todo /\ f.j = (IF i \in G THEN j + 1 ELSE j)
    BY <1>1, <1>2, <1>3, <2>1 DEF Call
  <2>. QED BY <2>2 DEF Visiting
<1>9. ASSUME NEW g \in 0 .. allo - 1
      PROVE  adj'[g] = IF g \in G THEN Emplaced(adj[g], v) ELSE adj[g]
  BY <1>1, <1>2, <1>3
<1>10. ASSUME NEW s \in Allocated, NEW k \in Local(s)
       PROVE  /\ offset[s] + k \in 0 .. allo - 1
              /\ offset[s] + k \in G <=> s = w /\ k \in compiled[w].finals
              /\ At(s, k) \in Seq(AnyEdge) /\ SortedEdges(At(s, k)) /\ StateInv(s, k)
  <2>1. offset[s] + k \in 0 .. allo - 1 /\ StateInv(s, k)
    BY <1>2, PlaceProps DEF EdgesInv
  <2>2. \A q \in Local(w) : offset[s] + k = offset[w] + q => s = w /\ k = q
    BY <1>2, <1>4, PlaceProps
  <2>. QED BY <1>1, <1>2, <1>6, <2>1, <2>2 DEF At, StateInv
<1>11. ASSUME NEW s \in Allocated, NEW k \in Local(s), offset[s] + k \in G
       PROVE  /\ At(s, k)' = Emplaced(At(s, k), v) /\ At(s, k)' \in Seq(AnyEdge)
              /\ SortedEdges(At(s, k)') /\ Len(At(s, k)') = Len(At(s, k)) + 1
              /\ Edges(s, k)' = Edges(s, k) \cup {EpsilonTo(v)}
  <2>1. s = w /\ k \in compiled[w].finals
    BY <1>10, <1>11
  <2>. QED BY <1>1, <1>3, <1>4, <2>1, LinkEndEdges
<1>12. ASSUME NEW s \in Allocated, NEW k \in Local(s), offset[s] + k \notin G
       PROVE  At(s, k)' = At(s, k) /\ Edges(s, k)' = Edges(s, k)
  <2>1. ~ (s = w /\ k \in compiled[w].finals)
    BY <1>10, <1>12
  <2>. QED BY <1>1, <1>3, <1>4, <2>1, LinkEndEdges
<1>13. adj' \in [0 .. allo - 1 -> Seq(AnyEdge)]
  <2>1. ASSUME NEW g \in 0 .. allo - 1 PROVE adj'[g] \in Seq(AnyEdge)
    <3>1. CASE g \in G
      <4>1. PICK q \in Local(w) : g = offset[w] + q
        BY <1>1, <1>6, <3>1
      <4>2. At(w, q)' \in Seq(AnyEdge)
        BY <1>4, <1>11, <3>1, <4>1
      <4>. QED BY <1>1, <4>1, <4>2 DEF At
    <3>2. CASE g \notin G
      BY <1>2, <1>9, <3>2
    <3>. QED BY <3>1, <3>2
  <2>2. DOMAIN adj' = 0 .. allo - 1 /\ adj' = [g \in 0 .. allo - 1 |-> adj'[g]]
    BY <1>1, <1>2
  <2>. QED BY <2>1, <2>2
<1>14. \A s, k, e : Owned(s, k, e)' = Owned(s, k, e) /\ Linked(s, k, e)' = Linked(s, k, e)
  BY <1>1 DEF Owned, Linked, Moved, Shortened, StartingAt, EndingAt, Local, Allocated
<1>15. ASSUME NEW s \in Allocated, NEW k \in Local(s)
       PROVE  StateInv(s, k)' /\ (s # d => Len(At(s, k)) <= Len(At(s, k)'))
  <2>1. Passed(s, k)' => Passed(s, k)
    <3>1. s \in Stmt
      BY DEF Allocated
    <3>2. s = d /\ k < n => Passed(s, k)
      <4>1. \A m \in DOMAIN frames : frames[m].stmt = d => frames[m].k = n
        BY <1>2, <1>3 DEF Top
      <4>. QED BY <4>1 DEF Passed
    <3>. QED BY <1>1, <1>3, <1>7, <1>8, <3>1, <3>2, PassedKept
  <2>2. CASE offset[s] + k \in G
    <3>1. s = w /\ k \in compiled[w].finals
      BY <1>10, <2>2
    <3>2. Linked(s, k, EpsilonTo(v))
      <4>1. PICK p \in Local(d) : p = v - offset[d] /\ x \in EndingAt(d, p)
        BY <1>5
      <4>2. offset[d] \in Nat /\ v = offset[d] + p
        <5>1. offset[d] \in Nat
          BY <1>2, <1>3 DEF Allocated, None
        <5>2. p \in Nat
          BY <1>2, <1>3, AnnoProps
        <5>. QED BY <1>4, <4>1, <5>1, <5>2
      <4>. QED BY <1>1, <1>2, <1>3, <3>1, <4>1, <4>2 DEF Linked
    <3>3. \A e \in Edges(s, k)' : Owned(s, k, e) \/ Linked(s, k, e)
      BY <1>10, <1>11, <2>2, <3>2 DEF StateInv
    <3>4. EpsilonTo(v)[2] <= collapse_label_base
      BY ExportAssumption DEF EpsilonTo, collapse_label_base
    <3>5. Passed(s, k)' => \A e \in Edges(s, k)' : e[2] <= collapse_label_base
      BY <1>10, <1>11, <2>1, <2>2, <3>4 DEF StateInv
    <3>6. (Passed(s, k) => \A e \in Edges(s, k) : e[2] <= collapse_label_base)'
      BY <3>5 DEF collapse_label_base
    <3>7. (\A e \in Edges(s, k) : Owned(s, k, e) \/ Linked(s, k, e))'
      BY <1>14, <3>3
    <3>8. SortedEdges(At(s, k))'
      BY <1>11, <2>2 DEF SortedEdges
    <3>9. Len(At(s, k)) <= Len(At(s, k)')
      <4>1. Len(At(s, k)) \in Nat
        BY <1>10
      <4>. QED BY <1>11, <2>2, <4>1
    <3>. QED BY <3>6, <3>7, <3>8, <3>9 DEF StateInv
  <2>3. CASE offset[s] + k \notin G
    <3>1. (\A e \in Edges(s, k) : Owned(s, k, e) \/ Linked(s, k, e))'
      BY <1>10, <1>12, <1>14, <2>3 DEF StateInv
    <3>2. (Passed(s, k) => \A e \in Edges(s, k) : e[2] <= collapse_label_base)'
      BY <1>10, <1>12, <2>1, <2>3 DEF StateInv, collapse_label_base
    <3>3. SortedEdges(At(s, k))'
      BY <1>10, <1>12, <2>3 DEF SortedEdges
    <3>4. Len(At(s, k)) <= Len(At(s, k)')
      BY <1>10, <1>12, <2>3
    <3>. QED BY <3>1, <3>2, <3>3, <3>4 DEF StateInv
  <2>. QED BY <2>2, <2>3
<1>16. FrameInv(f)'
  <2>1. (\A y \in StartingAt(f.stmt, f.k) : offset[Referred(y)] # None)'
    BY <1>1, <1>2, <1>3, <1>8 DEF FrameInv, StartingAt
  <2>2. f.j <= Len(At(d, n)')
    <3>1. d \in Allocated /\ n \in Local(d) /\ i = offset[d] + n /\ At(d, n) = adj[i] /\ Len(adj[i]) \in Nat
      BY <1>2, <1>3 DEF i
    <3>2. CASE i \in G
      BY <1>4, <1>5, <1>8, <1>11, <3>1, <3>2
    <3>3. CASE i \notin G
      BY <1>4, <1>5, <1>8, <1>12, <3>1, <3>3
    <3>. QED BY <3>2, <3>3
  <2>3. (f.j <= Len(At(f.stmt, f.k)))'
    BY <1>8, <2>2
  <2>4. (\A y \in Visiting(f) : /\ f.v - offset[f.stmt] \in Local(f.stmt)
                                /\ y \in EndingAt(f.stmt, f.v - offset[f.stmt]))'
    <3>1. PICK p : p = v - offset[d]
      OBVIOUS
    <3>2. (p = f.v - offset[f.stmt])'
      BY <1>1, <1>8, <3>1
    <3>3. \A y \in Visiting(f)' : p \in Local(d)' /\ y \in EndingAt(d, p)'
      BY <1>1, <1>5, <1>8, <3>1 DEF Visiting, Local, EndingAt
    <3>. QED BY <1>8, <3>2, <3>3
  <2>. QED BY <1>8, <2>1, <2>3, <2>4 DEF FrameInv
<1>17. /\ f \in Call /\ frames' = Replaced(f) /\ f.stmt = Top.stmt /\ f.k = Top.k /\ f.k < Size(f.stmt)
  BY <1>1, <1>2, <1>3, <1>7, <1>8
<1>18. \A s \in Allocated : \A k \in Local(s) :
         StateInv(s, k)' /\ (s # Top.stmt => Len(At(s, k)) <= Len(At(s, k)'))
  BY <1>3, <1>15
<1>. QED BY <1>1, <1>13, <1>16, <1>17, <1>18, ReplacedInv

(* The edges up to the first that is replaced, once no collapse edge is    *)
(* left among them.                                                        *)
LEMMA CutProps ==
  ASSUME IInv, InRefs, ~ AtRef, NEW es, es = Cut(adj[i], Top.j)
  PROVE  /\ es \in Seq(AnyEdge) /\ SortedEdges(es) /\ Len(es) = Top.j
         /\ Top.j <= Len(adj[i]) /\ \A h \in 1 .. Top.j : es[h] = adj[i][h]
         /\ ToSet(es) \subseteq Edges(Top.stmt, Top.k)
         /\ \A e \in ToSet(es) :
              /\ Owned(Top.stmt, Top.k, e) \/ Linked(Top.stmt, Top.k, e)
              /\ e[2] <= collapse_label_base
<1>1. PICK old, j : old = adj[i] /\ j = Top.j
  OBVIOUS
<1>2. /\ frames # <<>> /\ Top.phase = "refs" /\ Top \in Call /\ FrameInv(Top)
      /\ StateInv(Top.stmt, Top.k) /\ At(Top.stmt, Top.k) = old /\ old \in Seq(AnyEdge)
  BY <1>1, TopProps DEF InRefs
<1>3. j \in Nat /\ Len(old) \in Nat /\ j <= Len(old)
  BY <1>1, <1>2, CallFields DEF FrameInv
<1>4. j > 0 => ~ (collapse_label_base < old[j][2])
  BY <1>1 DEF AtRef
<1>5. /\ es \in Seq(AnyEdge) /\ Len(es) = j /\ \A h \in 1 .. j : es[h] = old[h]
  BY <1>1, <1>2, <1>3 DEF Cut
<1>6. /\ SortedEdges(old) /\ \A e \in ToSet(old) : Owned(Top.stmt, Top.k, e) \/ Linked(Top.stmt, Top.k, e)
      /\ Edges(Top.stmt, Top.k) = ToSet(old)
  BY <1>2 DEF StateInv, Edges, At
<1>7. SortedEdges(es)
  BY <1>3, <1>5, <1>6 DEF SortedEdges
<1>8. collapse_label_base \in Nat
  BY ExportAssumption DEF collapse_label_base
<1>9. ASSUME NEW h \in 1 .. j PROVE es[h] \in ToSet(old) /\ es[h][2] <= collapse_label_base
  <2>1. h \in 1 .. Len(old) /\ j \in 1 .. Len(old) /\ h \in DOMAIN old /\ j \in DOMAIN old
    BY <1>2, <1>3
  <2>2. old[h] \in AnyEdge /\ old[j] \in AnyEdge
    BY <1>2, <2>1
  <2>3. /\ old[h][1] \in Nat \cup {-1} /\ old[h][2] \in Nat /\ (old[h][1] = -1 => old[h][2] = 0)
        /\ old[j][1] \in Nat \cup {-1} /\ old[j][2] \in Nat
    BY <2>2 DEF AnyEdge
  <2>4. old[j][2] <= collapse_label_base
    BY <1>4, <1>8, <2>1, <2>3
  <2>5. h < j => old[h][2] <= old[j][1] \/ old[h][1] = -1
    BY <1>6, <2>1 DEF SortedEdges
  <2>6. old[j][1] < old[j][2]
    BY <1>6, <2>1 DEF SortedEdges
  <2>7. old[h][2] <= collapse_label_base
    BY <1>8, <2>1, <2>3, <2>4, <2>5, <2>6
  <2>8. old[h] \in ToSet(old)
    BY <1>2, <2>1, InToSet
  <2>. QED BY <1>5, <2>7, <2>8
<1>10. \A e \in ToSet(es) : \E h \in 1 .. j : e = es[h]
  BY <1>5, InToSet
<1>. QED BY <1>1, <1>2, <1>3, <1>5, <1>6, <1>7, <1>9, <1>10

(* The innermost call returns.                                             *)
LEMMA ReturnInv ==
  ASSUME IInv, NextState, ~ (Top.k + 1 < Size(Top.stmt))
  PROVE  IInv'
<1>1. PICK d, n, es :
        /\ d = Top.stmt /\ n = Top.k /\ es = Cut(adj[i], Top.j)
        /\ InRefs /\ ~ AtRef /\ frames # <<>> /\ Top.phase = "refs"
        /\ UNCHANGED <<compiled, used_as_call, exporting, offset, allo, starts, sub_final>>
        /\ adj' = [adj EXCEPT ![i] = Cut(@, Top.j)]
        /\ frames' = Front(frames)
  BY DEF NextState, InRefs
<1>2. /\ d \in Stmt /\ d \in Allocated /\ FrameInv(Top) /\ n \in Nat /\ n < Size(d) /\ Size(d) \in Nat
      /\ Local(d) = 0 .. Size(d) - 1 /\ n = Size(d) - 1
      /\ i \in 0 .. allo - 1 /\ frames \in Seq(Call) /\ Len(frames) \in DOMAIN frames
      /\ DOMAIN frames = 1 .. Len(frames)
      /\ \A m \in DOMAIN frames : m # Len(frames) => frames[m].stmt # d
      /\ TypeInv /\ LayoutInv /\ CalledInv /\ FramesInv /\ NeededInv /\ EdgesInv
      /\ compiled \in [Stmt -> FsaAnnos] /\ adj \in [0 .. allo - 1 -> Seq(AnyEdge)]
  <2>1. Top.k \in Nat /\ Top.k < Size(Top.stmt) /\ Size(Top.stmt) \in Nat
    BY <1>1, TopProps
  <2>2. Top.k = Size(Top.stmt) - 1
    BY <2>1
  <2>. QED BY <1>1, <2>2, TopProps DEF IInv, TypeInv
<1>3. /\ frames' \in Seq(Call) /\ DOMAIN frames' = 1 .. Len(frames) - 1 /\ Len(frames') = Len(frames) - 1
      /\ \A m \in DOMAIN frames' : m \in DOMAIN frames /\ m < Len(frames) /\ frames'[m] = frames[m]
  <2>1. Len(frames) \in Nat /\ Len(frames) > 0
    BY <1>2
  <2>2. Front(frames) = SubSeq(frames, 1, Len(frames) - 1)
    BY DEF Front
  <2>. QED BY <1>1, <1>2, <2>1, <2>2
<1>4. Allocated' = Allocated /\ \A s \in Stmt : Local(s)' = Local(s) /\ Size(s)' = Size(s)
  BY <1>1 DEF Allocated, Local, Size
<1>5. /\ es \in Seq(AnyEdge) /\ SortedEdges(es)
      /\ \A e \in ToSet(es) : (Owned(d, n, e) \/ Linked(d, n, e)) /\ e[2] <= collapse_label_base
  BY <1>1, CutProps
<1>6. adj' = [adj EXCEPT ![i] = es]
  BY <1>1
<1>7. ASSUME NEW s \in Allocated, NEW k \in Local(s), Passed(s, k)'
      PROVE  Passed(s, k) \/ (s = d /\ k = n)
  <2>1. CASE s # d
    <3>1. \A m \in DOMAIN frames : frames[m].stmt = s => m \in DOMAIN frames' /\ frames'[m] = frames[m]
      <4>. TAKE m \in DOMAIN frames
      <4>. HAVE frames[m].stmt = s
      <4>1. m # Len(frames)
        BY <1>1, <2>1 DEF Top
      <4>. QED BY <1>2, <1>3, <4>1
    <3>. QED BY <1>7, <3>1 DEF Passed
  <2>2. CASE s = d /\ k # n
    <3>1. k < n
      BY <1>2, <2>2
    <3>2. \A m \in DOMAIN frames : frames[m].stmt = d => frames[m].k = n
      BY <1>1, <1>2 DEF Top
    <3>. QED BY <2>2, <3>1, <3>2 DEF Passed
  <2>. QED BY <2>1, <2>2
<1>8. /\ adj' \in [0 .. allo - 1 -> Seq(AnyEdge)]
      /\ \A s \in Allocated : \A k \in Local(s) :
           StateInv(s, k)' /\ (s # d => Len(At(s, k)) <= Len(At(s, k)'))
  <2>1. Passed(d, n)' => \A e \in ToSet(es) : e[2] <= collapse_label_base
    BY <1>5
  <2>2. \A s \in Allocated : \A k \in Local(s) : (s # d \/ k # n) /\ Passed(s, k)' => Passed(s, k)
    BY <1>7
  <2>. QED BY <1>1, <1>5, <1>6, <2>1, <2>2, StatesInv
<1>9. TypeInv'
  BY <1>1, <1>2, <1>3, <1>8 DEF TypeInv
<1>10. LayoutInv'
  <2>1. LayoutDisjoint'
    <3>1. (\A a, b \in Allocated : a # b => offset[a] + Size(a) <= offset[b] \/ offset[b] + Size(b) <= offset[a])'
      BY <1>1, <1>2, <1>4 DEF LayoutInv, LayoutDisjoint, Allocated
    <3>2. (\A g \in 0 .. allo - 1 : \E a \in Allocated : g \in offset[a] .. offset[a] + Size(a) - 1)'
      BY <1>1, <1>2, <1>4 DEF LayoutInv, LayoutDisjoint, Allocated
    <3>3. (\A m, o \in DOMAIN frames : frames[m].stmt = frames[o].stmt => m = o)'
      BY <1>2, <1>3 DEF LayoutInv, LayoutDisjoint
    <3>. QED BY <3>1, <3>2, <3>3 DEF LayoutDisjoint
  <2>2. (\A s \in Allocated : offset[s] + Size(s) <= allo)'
    BY <1>1, <1>2, <1>4 DEF LayoutInv, Allocated
  <2>3. ASSUME NEW m \in DOMAIN frames'
        PROVE  (offset[frames[m].stmt] # None /\ frames[m].k < Size(frames[m].stmt))'
    <3>1. PICK g \in Call : g = frames'[m]
      BY <1>3
    <3>2. g = frames[m] /\ g.stmt \in Stmt /\ offset[g.stmt] # None /\ g.k < Size(g.stmt)
      BY <1>2, <1>3, <3>1, CallFields DEF LayoutInv
    <3>. QED BY <1>1, <1>4, <3>1, <3>2
  <2>4. offset'[exporting'] # None
    BY <1>1, <1>2 DEF LayoutInv
  <2>. QED BY <2>1, <2>2, <2>3, <2>4 DEF LayoutInv
<1>11. CalledInv'
  <2>1. /\ ToSet(starts) = {offset[s] + compiled[s].start : s \in Allocated \cap used_as_call}
        /\ Len(starts) = Cardinality(Allocated \cap used_as_call)
        /\ sub_final = UNION {{offset[s] + f : f \in compiled[s].finals} : s \in Allocated \cap used_as_call}
    BY <1>2 DEF CalledInv
  <2>. QED BY <1>1, <1>4, <2>1 DEF CalledInv
<1>12. FramesInv'
  <2>1. ASSUME NEW m \in DOMAIN frames'
        PROVE  (FrameInv(frames[m]))' /\ (m < Len(frames') => frames'[m].at # <<>>)
    <3>1. PICK g \in Call : g = frames'[m]
      BY <1>3
    <3>2. /\ g = frames[m] /\ FrameInv(g) /\ g.at # <<>> /\ g.stmt # d /\ g.stmt \in Stmt /\ g.k \in Nat
          /\ offset[g.stmt] # None /\ g.k < Size(g.stmt)
      <4>1. m \in DOMAIN frames /\ m < Len(frames) /\ g = frames[m] /\ Len(frames) \in Nat
        BY <1>2, <1>3, <3>1
      <4>. QED BY <1>2, <4>1, CallFields DEF FramesInv, LayoutInv
    <3>3. Local(g.stmt) = 0 .. Size(g.stmt) - 1 /\ Size(g.stmt) \in Nat
      BY <1>2, <3>2, AnnoProps
    <3>4. g.stmt \in Allocated /\ g.k \in Local(g.stmt)
      BY <3>2, <3>3 DEF Allocated
    <3>5. offset[g.stmt] + g.k \in 0 .. allo - 1
      BY <1>2, <3>4, PlaceProps
    <3>6. Len(At(g.stmt, g.k)) \in Nat /\ Len(At(g.stmt, g.k)') \in Nat
      BY <1>1, <1>2, <1>8, <3>5 DEF At
    <3>7. FrameInv(g)'
      BY <1>1, <1>8, <3>2, <3>4, <3>6, FrameKept
    <3>. QED BY <3>1, <3>2, <3>7
  <2>. QED BY <2>1 DEF FramesInv
<1>13. NeededInv'
  <2>1. (\A S \in SUBSET Stmt : exporting \in S /\ Closed(S) => Allocated \subseteq S)'
    <3>1. \A S : Closed(S)' = Closed(S)
      BY <1>1 DEF Closed, References, Local
    <3>. QED BY <1>1, <1>2, <1>4, <3>1 DEF NeededInv
  <2>2. ASSUME NEW s \in Allocated, NEW k \in Local(s), Passed(s, k)', NEW x \in StartingAt(s, k)
        PROVE  offset[Referred(x)] # None
    <3>1. CASE Passed(s, k)
      BY <1>2, <3>1 DEF NeededInv
    <3>2. CASE s = d /\ k = n
      BY <1>1, <1>2, <3>2 DEF FrameInv
    <3>. QED BY <1>7, <2>2, <3>1, <3>2
  <2>3. (\A s \in Allocated : \A k \in Local(s) : Passed(s, k) =>
           \A x \in StartingAt(s, k) : offset[Referred(x)] # None)'
    BY <1>1, <1>4, <2>2 DEF StartingAt, Local
  <2>. QED BY <2>1, <2>3 DEF NeededInv
<1>14. EdgesInv'
  BY <1>1, <1>4, <1>8 DEF EdgesInv, Local
<1>. QED BY <1>9, <1>10, <1>11, <1>12, <1>13, <1>14 DEF IInv

(* The innermost call goes on to the next state.                           *)
LEMMA GoOnInv ==
  ASSUME IInv, NextState, Top.k + 1 < Size(Top.stmt)
  PROVE  IInv'
<1>1. PICK d, n, es :
        /\ d = Top.stmt /\ n = Top.k /\ es = Cut(adj[i], Top.j)
        /\ InRefs /\ ~ AtRef /\ frames # <<>> /\ Top.phase = "refs"
        /\ UNCHANGED <<compiled, used_as_call, exporting, offset, allo, starts, sub_final>>
        /\ adj' = [adj EXCEPT ![i] = Cut(@, Top.j)]
        /\ frames' = Replaced(AtState(d, n + 1))
  BY DEF NextState, InRefs
<1>2. /\ d \in Stmt /\ n \in Nat /\ n + 1 < Size(d) /\ Size(d) \in Nat /\ Local(d) = 0 .. Size(d) - 1
      /\ compiled \in [Stmt -> FsaAnnos]
  BY <1>1, TopProps DEF IInv, TypeInv
<1>3. StartingAt(d, n + 1) \in SUBSET Reference
  <2>1. n + 1 \in Local(d)
    BY <1>2
  <2>. QED BY <1>2, <2>1, AnnoProps
<1>4. PICK f : f = AtState(d, n + 1)
  OBVIOUS
<1>5. /\ f \in Call /\ f.stmt = d /\ f.k = n + 1 /\ f.phase = "starts" /\ f.at = <<>>
      /\ f.todo = StartingAt(d, n + 1)
  <2>1. n + 1 \in Nat
    BY <1>2
  <2>. QED BY <1>2, <1>3, <1>4, <2>1 DEF AtState, Call
<1>6. FrameInv(f)'
  <2>1. StartingAt(d, n + 1)' = StartingAt(d, n + 1)
    BY <1>1 DEF StartingAt
  <2>. QED BY <1>5, <2>1 DEF FrameInv, Visiting
<1>7. /\ es \in Seq(AnyEdge) /\ SortedEdges(es)
      /\ \A e \in ToSet(es) : (Owned(d, n, e) \/ Linked(d, n, e)) /\ e[2] <= collapse_label_base
  BY <1>1, CutProps
<1>8. adj' = [adj EXCEPT ![i] = es]
  BY <1>1
<1>9. /\ f \in Call /\ frames' = Replaced(f) /\ f.stmt = d /\ f.k < Size(d)
      /\ f.k = n + 1 /\ Top.phase = "refs" /\ \A e \in ToSet(es) : e[2] <= collapse_label_base
      /\ d = Top.stmt /\ n = Top.k
      /\ UNCHANGED <<compiled, used_as_call, exporting, offset, allo, starts, sub_final>>
  BY <1>1, <1>2, <1>4, <1>5, <1>7
<1>10. \A e \in ToSet(es) : Owned(d, n, e) \/ Linked(d, n, e)
  BY <1>7
<1>11. \/ f.k = n
       \/ /\ f.k = n + 1 /\ Top.phase = "refs"
          /\ \A e \in ToSet(es) : e[2] <= collapse_label_base
  BY <1>9
<1>12. frames # <<>> /\ es \in Seq(AnyEdge) /\ SortedEdges(es) /\ (At(d, n)' = es => FrameInv(f)')
  BY <1>1, <1>6, <1>7
<1>. QED BY <1>8, <1>9, <1>10, <1>11, <1>12, TopInv

-----------------------------------------------------------------------------
(* The inductive invariant, whatever automata compile leaves.              *)
THEOREM Invariance == Spec => []IInv
<1>1. (\E x \in Stmt : InitFrom([Stmt -> FsaAnnos], x)) => IInv
  BY InitInv
<1>2. ASSUME IInv, [Next]_vars PROVE IInv'
  <2>1. CASE Begin
    BY <1>2, <2>1, BeginInv
  <2>2. ASSUME frames # <<>>, NEW x \in Top.todo, Visit(x) PROVE IInv'
    BY <1>2, <2>2, VisitOldInv, VisitNewInv
  <2>3. CASE LinkStart
    BY <1>2, <2>3, LinkStartInv
  <2>4. CASE BeginRefs
    BY <1>2, <2>4, BeginRefsInv
  <2>5. CASE TakeRef
    BY <1>2, <2>5, TakeRefInv
  <2>6. CASE LinkEnd
    BY <1>2, <2>6, LinkEndInv
  <2>7. CASE NextState
    BY <1>2, <2>7, ReturnInv, GoOnInv
  <2>8. CASE UNCHANGED vars
    <3>. USE <2>8 DEF vars
    <3>1. /\ TypeInv /\ LayoutInv /\ CalledInv /\ FramesInv /\ NeededInv /\ EdgesInv
      BY <1>2 DEF IInv
    <3>2. TypeInv' /\ CalledInv'
      BY <3>1 DEF TypeInv, CalledInv, Allocated
    <3>3. LayoutInv'
      BY <3>1 DEF LayoutInv, LayoutDisjoint, Allocated, Size, Local
    <3>4. FramesInv'
      BY <3>1 DEF FramesInv, FrameInv, StartingAt, EndingAt, Local, At, Visiting
    <3>5. NeededInv'
      BY <3>1 DEF NeededInv, Closed, References, Passed, Allocated, StartingAt, Local
    <3>6. EdgesInv'
      <4>1. \A s, k, e : Owned(s, k, e)' = Owned(s, k, e) /\ Linked(s, k, e)' = Linked(s, k, e)
        BY DEF Owned, Linked, Moved, Shortened, StartingAt, EndingAt, Local, Allocated
      <4>2. \A s, k : StateInv(s, k)' = StateInv(s, k)
        BY <4>1 DEF StateInv, SortedEdges, Passed, At, Edges, collapse_label_base
      <4>. QED BY <3>1, <4>2 DEF EdgesInv, Allocated, Local
    <3>. QED BY <3>2, <3>3, <3>4, <3>5, <3>6 DEF IInv
  <2>. QED BY <1>2, <2>1, <2>2, <2>3, <2>4, <2>5, <2>6, <2>7, <2>8 DEF Next, Laying, Finished
<1>. QED BY <1>1, <1>2, PTL DEF Spec

(* The states of the statements laid out do not overlap, and fill what is  *)
(* laid out; no call of allocate is nested in one for the same statement.  *)
THEOREM LayoutDisjointAlways == Spec => []LayoutDisjoint
<1>1. IInv => LayoutDisjoint
  BY DEF IInv, LayoutInv
<1>. QED BY <1>1, Invariance, PTL

(* determinize is given the starts and final states of the called          *)
(* statements, at their place, and no others.                              *)
THEOREM CalledKeptAlways == Spec => []CalledKept
<1>1. IInv => CalledKept
  BY DEF IInv, CalledInv, CalledKept
<1>. QED BY <1>1, Invariance, PTL

(* In the end exactly what is needed has been laid out.                    *)
THEOREM AllocatedNeededAlways == Spec => []AllocatedNeeded
<1>1. ASSUME IInv, Done PROVE AllocatedNeeded
  <2>1. frames = <<>> /\ NeededInv /\ TypeInv
    BY <1>1 DEF IInv, Done
  <2>2. ASSUME NEW s \in Allocated, NEW k \in Local(s), NEW t \in compiled[s].assoc[k], t[2] = "start"
        PROVE  Referred(t[1]) \in Allocated
    <3>1. Passed(s, k)
      BY <2>1 DEF Passed
    <3>2. t[1] \in StartingAt(s, k)
      BY <2>2 DEF StartingAt
    <3>3. t[1] \in Reference
      BY <2>1, <3>2, AnnoProps DEF TypeInv, Allocated
    <3>. QED BY <2>1, <3>1, <3>2, <3>3, ReferenceProps DEF NeededInv, Allocated
  <2>. QED BY <2>1, <2>2 DEF NeededInv, AllocatedNeeded
<1>2. IInv => AllocatedNeeded
  BY <1>1 DEF AllocatedNeeded
<1>. QED BY <1>2, Invariance, PTL

(* In the end no collapse edge is left, and an epsilon is there only for a *)
(* reference.                                                              *)
THEOREM RefsReplacedAlways == Spec => []RefsReplaced
<1>1. ASSUME IInv, Done, NEW s \in Allocated, NEW k \in Local(s), NEW e \in Edges(s, k)
      PROVE  e \in OwnEdges(s, k) \cup Epsilons(s, k)
  <2>1. /\ frames = <<>> /\ TypeInv /\ EdgesInv /\ s \in Stmt /\ offset[s] \in Nat
        /\ compiled \in [Stmt -> FsaAnnos]
    BY <1>1 DEF IInv, Done, TypeInv, Allocated, None
  <2>2. Passed(s, k)
    BY <2>1 DEF Passed
  <2>3. StateInv(s, k)
    BY <2>1 DEF EdgesInv
  <2>4. e[2] <= collapse_label_base /\ (Owned(s, k, e) \/ Linked(s, k, e))
    BY <2>2, <2>3 DEF StateInv
  <2>5. CASE Linked(s, k, e)
    <3>1. CASE \E x \in StartingAt(s, k) :
                 /\ Kind(x) = "collapse" /\ offset[Referred(x)] # None
                 /\ e = EpsilonTo(offset[Referred(x)] + compiled[Referred(x)].start)
      BY <3>1 DEF Epsilons
    <3>2. CASE /\ k \in compiled[s].finals
               /\ \E d \in Allocated : \E v \in Local(d) : \E x \in EndingAt(d, v) :
                    Referred(x) = s /\ e = EpsilonTo(offset[d] + v)
      BY <3>2 DEF Epsilons
    <3>. QED BY <2>5, <3>1, <3>2 DEF Linked
  <2>6. CASE Owned(s, k, e)
    <3>1. PICK l \in DOMAIN compiled[s].adj[k] :
            LET c == compiled[s].adj[k][l]
            IN e = Moved(s, c) \/ (c[1] < collapse_label_base /\ collapse_label_base < c[2] /\ e = Shortened(s, c))
      BY <2>6 DEF Owned
    <3>2. PICK c : c = compiled[s].adj[k][l]
      OBVIOUS
    <3>3. c[1] \in Nat /\ c[2] \in Nat /\ c[1] < c[2]
      <4>1. l \in 1 .. Len(compiled[s].adj[k])
        BY <2>1, AnnoProps
      <4>. QED BY <2>1, <3>2, <4>1, EdgesOfProps
    <3>4. PICK m : m = <<c[1], c[2], c[3] + offset[s]>>
      OBVIOUS
    <3>5. m \in ToSet(EdgesOf(s, k, offset[s]))
      <4>1. /\ EdgesOf(s, k, offset[s]) \in Seq(AnyEdge) /\ compiled[s].adj[k] \in Seq(Edge(Size(s)))
            /\ Len(EdgesOf(s, k, offset[s])) = Len(compiled[s].adj[k])
        BY <2>1, EdgesOfProps, AnnoProps
      <4>2. l \in 1 .. Len(EdgesOf(s, k, offset[s])) /\ EdgesOf(s, k, offset[s])[l] = m
        BY <2>1, <3>2, <3>4, <4>1, EdgesOfProps
      <4>. QED BY <4>1, <4>2, InToSet
    <3>6. m[1] = c[1] /\ m[2] = c[2] /\ m[3] = c[3] + offset[s]
      BY <3>4
    <3>7. collapse_label_base \in Nat
      BY ExportAssumption DEF collapse_label_base
    <3>8. CASE e = Moved(s, c)
      <4>1. c[1] < collapse_label_base /\ e = m /\ c[2] <= collapse_label_base
        BY <2>4, <3>3, <3>4, <3>6, <3>7, <3>8 DEF Moved
      <4>2. e = <<m[1], IF m[2] < collapse_label_base THEN m[2] ELSE collapse_label_base, m[3]>>
        <5>1. (IF m[2] < collapse_label_base THEN m[2] ELSE collapse_label_base) = m[2]
          BY <3>3, <3>6, <3>7, <4>1
        <5>. QED BY <3>4, <3>6, <4>1, <5>1
      <4>. QED BY <3>5, <3>6, <4>1, <4>2 DEF OwnEdges
    <3>9. CASE c[1] < collapse_label_base /\ collapse_label_base < c[2] /\ e = Shortened(s, c)
      <4>1. e = <<m[1], IF m[2] < collapse_label_base THEN m[2] ELSE collapse_label_base, m[3]>>
        <5>1. (IF m[2] < collapse_label_base THEN m[2] ELSE collapse_label_base) = collapse_label_base
          BY <3>3, <3>6, <3>7, <3>9
        <5>. QED BY <3>6, <3>9, <5>1 DEF Shortened
      <4>. QED BY <3>5, <3>6, <3>9, <4>1 DEF OwnEdges
    <3>. QED BY <3>1, <3>2, <3>8, <3>9
  <2>. QED BY <2>4, <2>5, <2>6
<1>2. IInv => RefsReplaced
  BY <1>1 DEF RefsReplaced
<1>. QED BY <1>2, Invariance, PTL

-----------------------------------------------------------------------------
(* When a collapse starts wherever its edges leave, allocate loses no      *)
(* edge, and adds all epsilons.                                            *)

(* The epsilons that x, which ends in state v of d, calls for.             *)
Ended(d, v, x) ==
  /\ offset[Referred(x)] # None
  /\ \A f \in compiled[Referred(x)].finals : EpsilonTo(offset[d] + v) \in Edges(Referred(x), f)

(* Edge c of state k of s is there, perhaps shortened; moved as a whole as *)
(* long as no collapse edge of the state has been replaced.                *)
Owning(s, k, c) ==
  /\ c[1] < collapse_label_base =>
       Moved(s, c) \in Edges(s, k) \/ (collapse_label_base < c[2] /\ Shortened(s, c) \in Edges(s, k))
  /\ Ahead(s, k) => Moved(s, c) \in Edges(s, k)
OwnInv == \A s \in Allocated : \A k \in Local(s) : \A c \in ToSet(compiled[s].adj[k]) : Owning(s, k, c)

(* A collapse that starts at a state dealt with, or already visited, has   *)
(* its epsilon.                                                            *)
Behind(f, k, x) == k < f.k \/ (k = f.k /\ (f.phase = "refs" \/ x \notin Visiting(f)))
StartDone(s, k, x) == \A m \in DOMAIN frames : frames[m].stmt = s => Behind(frames[m], k, x)
StartEps(x) == EpsilonTo(offset[Referred(x)] + compiled[Referred(x)].start)
StartInv ==
  \A s \in Allocated : \A k \in Local(s) : \A x \in StartingAt(s, k) :
    Kind(x) = "collapse" /\ StartDone(s, k, x) => StartEps(x) \in Edges(s, k)

(* So have the collapses that end where an edge of such a state leads.     *)
EndInv ==
  \A s \in Allocated : \A k \in Local(s) : \A c \in ToSet(compiled[s].adj[k]) :
    collapse_label_base < c[2] /\ Passed(s, k) => \A x \in EndingAt(s, c[3]) : Ended(s, c[3], x)

(* While the collapse edges of a state are replaced, from the last one on, *)
(* an edge still has to be, or its epsilons are there or being added.  No  *)
(* other call is at it, then.                                              *)
Replacing(f, c) ==
  collapse_label_base < c[2] =>
    \/ \E h \in 1 .. f.j : At(f.stmt, f.k)[h] = Moved(f.stmt, c)
    \/ \A x \in EndingAt(f.stmt, c[3]) :
         Ended(f.stmt, c[3], x) \/ (f.v = offset[f.stmt] + c[3] /\ x \in Visiting(f))
RefInv(f) ==
  f.phase = "refs" =>
    /\ \A x \in f.todo : offset[Referred(x)] # None
    /\ \A h \in f.j + 1 .. Len(At(f.stmt, f.k)) : collapse_label_base <= At(f.stmt, f.k)[h][1]
    /\ \A c \in ToSet(compiled[f.stmt].adj[f.k]) : Replacing(f, c)
RefsInv ==
  \A m \in DOMAIN frames : (frames[m].phase = "refs" => m = Len(frames)) /\ RefInv(frames[m])

CompleteInv == AllWellTagged(compiled) => OwnInv /\ StartInv /\ EndInv /\ RefsInv

-----------------------------------------------------------------------------
LEMMA CompiledEdges ==
  ASSUME compiled \in [Stmt -> FsaAnnos], NEW s \in Stmt, NEW k \in Local(s),
         NEW c \in ToSet(compiled[s].adj[k])
  PROVE  c[1] \in Nat /\ c[2] \in Nat /\ c[1] < c[2] /\ c[3] \in Local(s)
<1>1. compiled[s].adj[k] \in Seq(Edge(Size(s)))
  BY AnnoProps
<1>2. PICK l \in 1 .. Len(compiled[s].adj[k]) : c = compiled[s].adj[k][l]
  BY <1>1, InToSet
<1>. QED BY <1>2, EdgesOfProps

(* Where automata are well tagged, what ends where a collapse edge of the  *)
(* state at hand leads has started here, and is laid out.                  *)
LEMMA TaggedLaidOut ==
  ASSUME IInv, AllWellTagged(compiled), frames # <<>>, Top.phase = "refs",
         NEW c \in ToSet(compiled[Top.stmt].adj[Top.k]), collapse_label_base < c[2],
         NEW x \in EndingAt(Top.stmt, c[3])
  PROVE  offset[Referred(x)] # None
<1>1. PICK d, n : d = Top.stmt /\ n = Top.k
  OBVIOUS
<1>2. d \in Stmt /\ n \in Local(d) /\ FrameInv(Top) /\ compiled \in [Stmt -> FsaAnnos]
  BY <1>1, TopProps DEF IInv, TypeInv
<1>3. WellTagged(compiled[d]) /\ c[3] \in Local(d)
  BY <1>1, <1>2, CompiledEdges DEF AllWellTagged
<1>4. PICK t \in compiled[d].assoc[c[3]] : t[2] = "final" /\ Kind(t[1]) = "collapse" /\ x = t[1]
  BY <1>1 DEF EndingAt
<1>5. n \in CollapsesInto(compiled[d], c[3])
  BY <1>1, <1>2 DEF CollapsesInto, Local
<1>6. <<x, "start">> \in compiled[d].assoc[n]
  BY <1>3, <1>4, <1>5 DEF WellTagged, Local
<1>7. x \in StartingAt(d, n)
  BY <1>6 DEF StartingAt
<1>. QED BY <1>1, <1>2, <1>7 DEF FrameInv

LEMMA EndedKept ==
  ASSUME IInv, compiled' = compiled,
         \A s \in Stmt : offset[s] # None => offset'[s] = offset[s] /\ offset'[s] # None,
         \A s \in Allocated : \A k \in Local(s) : \A e \in Edges(s, k) : e[1] = -1 => e \in Edges(s, k)',
         NEW d \in Allocated, NEW v, NEW x \in Reference, Ended(d, v, x)
  PROVE  Ended(d, v, x)'
<1>1. Referred(x) \in Stmt /\ offset[Referred(x)] # None /\ d \in Stmt /\ compiled \in [Stmt -> FsaAnnos]
  BY ReferenceProps DEF Ended, Allocated, IInv, TypeInv
<1>2. offset'[Referred(x)] # None /\ offset'[d] = offset[d] /\ Referred(x) \in Allocated
  BY <1>1 DEF Allocated
<1>3. ASSUME NEW f \in compiled[Referred(x)].finals
      PROVE  EpsilonTo(offset[d] + v) \in Edges(Referred(x), f)'
  <2>1. f \in Local(Referred(x))
    BY <1>1, AnnoProps
  <2>2. EpsilonTo(offset[d] + v)[1] = -1
    BY DEF EpsilonTo
  <2>. QED BY <1>2, <2>1, <2>2 DEF Ended
<1>. QED BY <1>2, <1>3 DEF Ended

LEMMA FramesOf ==
  ASSUME IInv, frames # <<>>, NEW f \in Call, frames' = Replaced(f), f.stmt = Top.stmt
  PROVE  /\ DOMAIN frames' = DOMAIN frames /\ frames'[Len(frames)] = f /\ Len(frames') = Len(frames)
         /\ Len(frames) \in DOMAIN frames
         /\ \A m \in DOMAIN frames : m # Len(frames) =>
              frames'[m] = frames[m] /\ frames[m].stmt # Top.stmt
<1>1. /\ frames \in Seq(Call) /\ Len(frames) \in DOMAIN frames
      /\ \A m \in DOMAIN frames : m # Len(frames) => frames[m].stmt # Top.stmt
  BY TopProps
<1>2. /\ Replaced(f) \in Seq(Call) /\ Len(Replaced(f)) = Len(frames)
      /\ Replaced(f)[Len(frames)] = f
      /\ \A m \in 1 .. Len(frames) : m # Len(frames) => Replaced(f)[m] = frames[m]
  BY <1>1, ReplacedProps
<1>3. DOMAIN Replaced(f) = DOMAIN frames /\ DOMAIN frames = 1 .. Len(frames)
  BY <1>1, <1>2
<1>. QED BY <1>1, <1>2, <1>3

(* Only the innermost call changes, and no edge is lost.                   *)
LEMMA GrowInv ==
  ASSUME IInv, OwnInv, StartInv, EndInv, frames # <<>>, compiled' = compiled, offset' = offset,
         \A s \in Allocated : \A k \in Local(s) : Edges(s, k) \subseteq Edges(s, k)',
         NEW d, NEW n, d = Top.stmt, n = Top.k,
         NEW f \in Call, frames' = Replaced(f), f.stmt = d, f.k = n,
         Top.phase = "starts" \/ f.phase = "refs",
         \A x \in StartingAt(d, n) :
           Kind(x) = "collapse" /\ (f.phase = "refs" \/ x \notin Visiting(f)) => StartEps(x) \in Edges(d, n)'
  PROVE  /\ OwnInv' /\ StartInv' /\ EndInv'
         /\ \A s \in Allocated : \A v : \A x \in Reference : Ended(s, v, x) => Ended(s, v, x)'
<1>1. /\ Allocated' = Allocated /\ \A s : Local(s)' = Local(s)
      /\ \A s, k : StartingAt(s, k)' = StartingAt(s, k) /\ EndingAt(s, k)' = EndingAt(s, k)
      /\ \A s, c : Moved(s, c)' = Moved(s, c) /\ Shortened(s, c)' = Shortened(s, c)
      /\ \A x : StartEps(x)' = StartEps(x)
  BY DEF Allocated, Local, StartingAt, EndingAt, Moved, Shortened, StartEps, collapse_label_base
<1>2. /\ DOMAIN frames' = DOMAIN frames /\ frames'[Len(frames)] = f /\ Len(frames) \in DOMAIN frames
      /\ \A m \in DOMAIN frames : m # Len(frames) => frames'[m] = frames[m] /\ frames[m].stmt # d
      /\ frames[Len(frames)] = Top
  BY FramesOf DEF Top
<1>3. \A s, k : /\ Ahead(s, k)' => Ahead(s, k)
                /\ Passed(s, k)' => Passed(s, k)
  <2>. TAKE s, k
  <2>1. \A m \in DOMAIN frames : /\ frames'[m].stmt = frames[m].stmt /\ frames'[m].k = frames[m].k
                                 /\ frames'[m].phase = "starts" => frames[m].phase = "starts"
    <3>. TAKE m \in DOMAIN frames
    <3>1. CASE m = Len(frames)
      BY <1>2, <3>1
    <3>2. CASE m # Len(frames)
      BY <1>2, <3>2
    <3>. QED BY <3>1, <3>2
  <2>2. Ahead(s, k)' => Ahead(s, k)
    BY <1>2, <2>1 DEF Ahead
  <2>3. Passed(s, k)' => Passed(s, k)
    BY <1>2, <2>1 DEF Passed
  <2>. QED BY <2>2, <2>3
<1>4. OwnInv'
  <2>1. ASSUME NEW s \in Allocated, NEW k \in Local(s), NEW c \in ToSet(compiled[s].adj[k])
        PROVE  Owning(s, k, c)'
    <3>1. Owning(s, k, c) /\ Edges(s, k) \subseteq Edges(s, k)'
      BY DEF OwnInv
    <3>2. (c[1] < collapse_label_base =>
             Moved(s, c) \in Edges(s, k) \/ (collapse_label_base < c[2] /\ Shortened(s, c) \in Edges(s, k)))'
      BY <1>1, <3>1 DEF Owning, collapse_label_base
    <3>3. (Ahead(s, k) => Moved(s, c) \in Edges(s, k))'
      BY <1>1, <1>3, <3>1 DEF Owning
    <3>. QED BY <3>2, <3>3 DEF Owning
  <2>. QED BY <1>1, <2>1 DEF OwnInv
<1>5. StartInv'
  <2>1. ASSUME NEW s \in Allocated, NEW k \in Local(s), NEW x \in StartingAt(s, k),
               Kind(x) = "collapse", StartDone(s, k, x)'
        PROVE  StartEps(x) \in Edges(s, k)'
    <3>1. CASE s = d /\ k = n
      <4>1. n \in Nat
        BY TopProps
      <4>2. f.phase = "refs" \/ x \notin Visiting(f)
        BY <1>2, <2>1, <3>1, <4>1 DEF StartDone, Behind, Visiting
      <4>. QED BY <2>1, <3>1, <4>2
    <3>2. CASE s # d \/ k # n
      <4>1. StartDone(s, k, x)
        <5>1. ASSUME NEW m \in DOMAIN frames, frames[m].stmt = s PROVE Behind(frames[m], k, x)
          <6>1. CASE m = Len(frames)
            <7>1. /\ frames'[m].stmt = s /\ frames'[m].k = n /\ frames[m].k = n /\ s = d /\ m \in DOMAIN frames'
              BY <1>2, <5>1, <6>1
            <7>. QED BY <2>1, <3>2, <7>1 DEF StartDone, Behind
          <6>2. CASE m # Len(frames)
            <7>1. frames'[m] = frames[m] /\ m \in DOMAIN frames'
              BY <1>2, <6>2
            <7>. QED BY <2>1, <5>1, <7>1 DEF StartDone, Behind, Visiting
          <6>. QED BY <6>1, <6>2
        <5>. QED BY <5>1 DEF StartDone
      <4>. QED BY <2>1, <4>1 DEF StartInv
    <3>. QED BY <3>1, <3>2
  <2>. QED BY <1>1, <2>1 DEF StartInv
<1>6. ASSUME NEW s \in Allocated, NEW v, NEW x \in Reference, Ended(s, v, x)
      PROVE  Ended(s, v, x)'
  BY <1>6, EndedKept
<1>7. EndInv'
  <2>1. ASSUME NEW s \in Allocated, NEW k \in Local(s), NEW c \in ToSet(compiled[s].adj[k]),
               collapse_label_base < c[2], Passed(s, k)', NEW x \in EndingAt(s, c[3])
        PROVE  Ended(s, c[3], x)'
    <3>1. Ended(s, c[3], x)
      BY <1>3, <2>1 DEF EndInv
    <3>2. x \in Reference
      <4>1. s \in Stmt /\ compiled \in [Stmt -> FsaAnnos]
        BY DEF Allocated, IInv, TypeInv
      <4>. QED BY <4>1, CompiledEdges, AnnoProps
    <3>. QED BY <1>6, <3>1, <3>2
  <2>. QED BY <1>1, <2>1 DEF EndInv, collapse_label_base
<1>. QED BY <1>4, <1>5, <1>6, <1>7

LEMMA StartDoneLaidOut ==
  ASSUME IInv, NEW s \in Allocated, NEW k \in Local(s), NEW x \in StartingAt(s, k), StartDone(s, k, x)
  PROVE  Referred(x) \in Stmt /\ offset[Referred(x)] # None
<1>1. x \in Reference
  BY AnnoProps DEF IInv, TypeInv, Allocated
<1>2. CASE Passed(s, k)
  <2>1. NeededInv
    BY DEF IInv
  <2>2. offset[Referred(x)] # None
    BY <1>2, <2>1 DEF NeededInv
  <2>. QED BY <1>1, <2>2, ReferenceProps
<1>3. CASE ~ Passed(s, k)
  <2>1. PICK m \in DOMAIN frames : frames[m].stmt = s /\ ~ (k < frames[m].k)
    BY <1>3 DEF Passed
  <2>2. k = frames[m].k /\ (frames[m].phase = "refs" \/ x \notin Visiting(frames[m]))
    BY <2>1 DEF StartDone, Behind
  <2>3. FramesInv
    BY DEF IInv
  <2>4. FrameInv(frames[m])
    BY <2>3 DEF FramesInv
  <2>5. x \in StartingAt(frames[m].stmt, frames[m].k)
    BY <2>1, <2>2
  <2>6. frames[m].phase = "refs" \/ x \notin frames[m].todo
    BY <2>2 DEF Visiting
  <2>7. offset[Referred(x)] # None
    BY <2>4, <2>5, <2>6 DEF FrameInv
  <2>. QED BY <1>1, <2>7, ReferenceProps
<1>. QED BY <1>2, <1>3

(* A statement is laid out for the first time, when every call is at the   *)
(* starts of its state.                                                    *)
LEMMA AllocateComplete ==
  ASSUME IInv, OwnInv, StartInv, EndInv, NEW s \in Stmt, offset[s] = None,
         NEW fs \in Seq(Call), Allocate(s, fs), frames \in Seq(Call), Len(fs) = Len(frames),
         \A m \in 1 .. Len(frames) :
           /\ fs[m].stmt = frames[m].stmt /\ fs[m].k = frames[m].k
           /\ fs[m].phase = "starts" /\ frames[m].phase = "starts"
           /\ Visiting(fs[m]) = Visiting(frames[m])
  PROVE  OwnInv' /\ StartInv' /\ EndInv' /\ RefsInv'
<1>1. /\ compiled' = compiled /\ compiled \in [Stmt -> FsaAnnos] /\ allo \in Nat
      /\ Allocated' = Allocated \cup {s} /\ s \notin Allocated /\ Allocated \in SUBSET Stmt
      /\ offset'[s] = allo /\ (\A d \in Stmt : d # s => offset'[d] = offset[d])
      /\ \A d \in Allocated : \A k \in Local(d) : At(d, k)' = At(d, k)
      /\ \A k \in Local(s) : At(s, k)' = EdgesOf(s, k, allo)
  BY AllocateEdges DEF Allocated, IInv, TypeInv
<1>2. PICK A : A = AtState(s, 0)
  OBVIOUS
<1>3. A \in Call /\ A.stmt = s /\ A.k = 0 /\ A.phase = "starts" /\ A.at = <<>> /\ A.todo = StartingAt(s, 0)
  <2>1. 0 \in Local(s)
    BY <1>1, AnnoProps
  <2>2. StartingAt(s, 0) \in SUBSET Reference
    BY <1>1, <2>1, AnnoProps
  <2>. QED BY <1>2, <2>2 DEF AtState, Call
<1>4. /\ DOMAIN frames' = 1 .. Len(frames) + 1 /\ frames'[Len(frames) + 1] = A
      /\ \A m \in 1 .. Len(frames) : frames'[m] = fs[m]
      /\ DOMAIN frames = 1 .. Len(frames) /\ Len(frames) \in Nat
  <2>1. frames' = Append(fs, A)
    BY <1>2, AllocateEdges
  <2>. QED BY <1>3, <2>1
<1>5. /\ \A d : Local(d)' = Local(d)
      /\ \A d, k : StartingAt(d, k)' = StartingAt(d, k) /\ EndingAt(d, k)' = EndingAt(d, k)
      /\ \A d \in Allocated : offset'[d] = offset[d] /\ d # s
      /\ \A d \in Stmt : offset[d] # None => offset'[d] = offset[d] /\ offset'[d] # None
  BY <1>1 DEF Local, StartingAt, EndingAt, Allocated
<1>6. \A d \in Allocated : \A k \in Local(d) : Edges(d, k)' = Edges(d, k)
  BY <1>1 DEF Edges, At
<1>7. ASSUME NEW d \in Allocated, NEW k
      PROVE  /\ Ahead(d, k)' => Ahead(d, k)
             /\ Passed(d, k)' => Passed(d, k)
             /\ \A x : StartDone(d, k, x)' => StartDone(d, k, x)
  <2>1. \A m \in DOMAIN frames' : frames'[m].stmt = d => m \in DOMAIN frames /\ frames'[m] = fs[m]
    BY <1>3, <1>4, <1>5
  <2>2. \A m \in DOMAIN frames : frames[m].stmt = d => m \in DOMAIN frames' /\ frames'[m] = fs[m]
    BY <1>4
  <2>3. Ahead(d, k)' => Ahead(d, k)
    BY <1>4, <2>1 DEF Ahead
  <2>4. Passed(d, k)' => Passed(d, k)
    BY <1>4, <2>2 DEF Passed
  <2>5. ASSUME NEW x, StartDone(d, k, x)', NEW m \in DOMAIN frames, frames[m].stmt = d
        PROVE  Behind(frames[m], k, x)
    <3>1. (frames[m].stmt = d /\ m \in DOMAIN frames)'
      BY <1>4, <2>2, <2>5
    <3>2. (Behind(frames[m], k, x))'
      BY <2>5, <3>1 DEF StartDone
    <3>. QED BY <1>4, <3>2 DEF Behind
  <2>. QED BY <2>3, <2>4, <2>5 DEF StartDone
<1>8. ASSUME NEW k \in Local(s)
      PROVE  /\ ~ Passed(s, k)'
             /\ \A x \in StartingAt(s, k) : ~ StartDone(s, k, x)'
  <2>1. k \in Nat
    BY <1>1, AnnoProps
  <2>2. (Len(frames) + 1 \in DOMAIN frames' /\ frames'[Len(frames) + 1].stmt = s /\ frames'[Len(frames) + 1] = A)
    BY <1>3, <1>4
  <2>3. ~ Passed(s, k)'
    BY <1>3, <2>1, <2>2 DEF Passed
  <2>4. ASSUME NEW x \in StartingAt(s, k), StartDone(s, k, x)' PROVE FALSE
    <3>1. Behind(A, k, x)
      BY <2>2, <2>4 DEF StartDone, Behind
    <3>2. k = 0 /\ x \notin Visiting(A)
      BY <1>3, <2>1, <3>1 DEF Behind
    <3>. QED BY <1>3, <3>2 DEF Visiting
  <2>. QED BY <2>3, <2>4
<1>9. ASSUME NEW d \in Allocated, NEW v, NEW x \in Reference, Ended(d, v, x)
      PROVE  Ended(d, v, x)'
  BY <1>1, <1>5, <1>6, <1>9, EndedKept
<1>10. OwnInv'
  <2>1. ASSUME NEW d \in Allocated, NEW k \in Local(d), NEW c \in ToSet(compiled[d].adj[k])
        PROVE  Owning(d, k, c)'
    <3>1. Owning(d, k, c)
      BY DEF OwnInv
    <3>2. Moved(d, c)' = Moved(d, c) /\ Shortened(d, c)' = Shortened(d, c)
      BY <1>5 DEF Moved, Shortened, collapse_label_base
    <3>3. (c[1] < collapse_label_base =>
             Moved(d, c) \in Edges(d, k) \/ (collapse_label_base < c[2] /\ Shortened(d, c) \in Edges(d, k)))'
      BY <1>6, <3>1, <3>2 DEF Owning, collapse_label_base
    <3>4. (Ahead(d, k) => Moved(d, c) \in Edges(d, k))'
      BY <1>6, <1>7, <3>1, <3>2 DEF Owning
    <3>. QED BY <3>3, <3>4 DEF Owning
  <2>2. ASSUME NEW k \in Local(s), NEW c \in ToSet(compiled[s].adj[k])
        PROVE  Owning(s, k, c)'
    <3>1. /\ compiled[s].adj[k] \in Seq(Edge(Size(s))) /\ EdgesOf(s, k, allo) \in Seq(AnyEdge)
          /\ Len(EdgesOf(s, k, allo)) = Len(compiled[s].adj[k])
      BY <1>1, AnnoProps, EdgesOfProps
    <3>2. PICK l \in 1 .. Len(compiled[s].adj[k]) : c = compiled[s].adj[k][l]
      BY <3>1, InToSet
    <3>3. EdgesOf(s, k, allo)[l] = <<c[1], c[2], c[3] + allo>>
      BY <1>1, <3>2, EdgesOfProps
    <3>4. EdgesOf(s, k, allo)[l] \in ToSet(EdgesOf(s, k, allo))
      BY <3>1, <3>2, InToSet
    <3>5. Edges(s, k)' = ToSet(EdgesOf(s, k, allo))
      BY <1>1 DEF Edges, At
    <3>6. Moved(s, c)' = <<c[1], c[2], c[3] + allo>>
      BY <1>1 DEF Moved
    <3>7. Moved(s, c)' \in Edges(s, k)'
      BY <3>3, <3>4, <3>5, <3>6
    <3>. QED BY <3>7 DEF Owning
  <2>3. ASSUME NEW d \in Allocated', NEW k \in Local(d)', NEW c \in ToSet(compiled'[d].adj[k])
        PROVE  Owning(d, k, c)'
    <3>1. k \in Local(d) /\ c \in ToSet(compiled[d].adj[k]) /\ (d \in Allocated \/ d = s)
      BY <1>1, <1>5
    <3>. QED BY <2>1, <2>2, <3>1
  <2>. QED BY <2>3 DEF OwnInv
<1>11. StartInv'
  <2>1. ASSUME NEW d \in Allocated', NEW k \in Local(d)', NEW x \in StartingAt(d, k)',
               Kind(x) = "collapse", StartDone(d, k, x)'
        PROVE  StartEps(x)' \in Edges(d, k)'
    <3>1. k \in Local(d) /\ x \in StartingAt(d, k) /\ d \in Allocated
      BY <1>1, <1>5, <1>8, <2>1
    <3>2. StartDone(d, k, x)
      BY <1>7, <2>1, <3>1
    <3>3. StartEps(x) \in Edges(d, k)
      BY <2>1, <3>1, <3>2 DEF StartInv
    <3>4. Referred(x) \in Stmt /\ offset[Referred(x)] # None
      BY <3>1, <3>2, StartDoneLaidOut
    <3>5. StartEps(x)' = StartEps(x)
      BY <1>1, <1>5, <3>4 DEF StartEps
    <3>. QED BY <1>6, <3>1, <3>3, <3>5
  <2>. QED BY <2>1 DEF StartInv
<1>12. EndInv'
  <2>1. ASSUME NEW d \in Allocated', NEW k \in Local(d)', NEW c \in ToSet(compiled'[d].adj[k]),
               collapse_label_base < c[2], Passed(d, k)', NEW x \in EndingAt(d, c[3])'
        PROVE  Ended(d, c[3], x)'
    <3>1. k \in Local(d) /\ c \in ToSet(compiled[d].adj[k]) /\ x \in EndingAt(d, c[3]) /\ d \in Allocated
      BY <1>1, <1>5, <1>8, <2>1
    <3>2. Ended(d, c[3], x)
      BY <1>7, <2>1, <3>1 DEF EndInv
    <3>3. x \in Reference
      BY <1>1, <3>1, CompiledEdges, AnnoProps
    <3>. QED BY <1>9, <3>1, <3>2, <3>3
  <2>. QED BY <2>1 DEF EndInv, collapse_label_base
<1>13. RefsInv'
  <2>1. ASSUME NEW m \in DOMAIN frames' PROVE frames'[m].phase = "starts"
    <3>1. m \in 1 .. Len(frames) \/ m = Len(frames) + 1
      BY <1>4
    <3>. QED BY <1>3, <1>4, <3>1
  <2>. QED BY <2>1 DEF RefsInv, RefInv
<1>. QED BY <1>10, <1>11, <1>12, <1>13

LEMMA BeginComplete ==
  ASSUME IInv, OwnInv, StartInv, EndInv, Begin
  PROVE  OwnInv' /\ StartInv' /\ EndInv' /\ RefsInv'
<1>1. exporting \in Stmt /\ frames \in Seq(Call)
  BY DEF IInv, TypeInv
<1>2. frames = <<>> /\ offset[exporting] = None /\ Allocate(exporting, <<>>)
  BY DEF Begin
<1>3. <<>> \in Seq(Call) /\ Len(<<>>) = Len(frames) /\ 1 .. Len(frames) = {}
  BY <1>2
<1>. QED BY <1>1, <1>2, <1>3, AllocateComplete

(* A collapse already visited from the state at hand has its epsilon.      *)
LEMMA TopStart ==
  ASSUME IInv, StartInv, frames # <<>>, NEW x \in StartingAt(Top.stmt, Top.k), Kind(x) = "collapse",
         Top.phase = "refs" \/ x \notin Visiting(Top)
  PROVE  StartEps(x) \in Edges(Top.stmt, Top.k)
<1>1. /\ Top.stmt \in Allocated /\ Top.k \in Local(Top.stmt)
      /\ \A m \in DOMAIN frames : m # Len(frames) => frames[m].stmt # Top.stmt
  BY TopProps
<1>2. \A m \in DOMAIN frames : frames[m].stmt = Top.stmt => frames[m] = Top
  BY <1>1 DEF Top
<1>3. StartDone(Top.stmt, Top.k, x)
  BY <1>2 DEF StartDone, Behind
<1>. QED BY <1>1, <1>3 DEF StartInv

(* The calls that wait are at the starts of their states.                  *)
LEMMA RefsStep ==
  ASSUME IInv, RefsInv, frames # <<>>, NEW f \in Call, frames' = Replaced(f), f.stmt = Top.stmt,
         RefInv(f)'
  PROVE  RefsInv'
<1>1. /\ DOMAIN frames' = DOMAIN frames /\ frames'[Len(frames)] = f /\ Len(frames') = Len(frames)
      /\ \A m \in DOMAIN frames : m # Len(frames) => frames'[m] = frames[m]
  BY FramesOf
<1>2. ASSUME NEW m \in DOMAIN frames'
      PROVE  (frames'[m].phase = "refs" => m = Len(frames')) /\ (RefInv(frames[m]))'
  <2>1. CASE m = Len(frames)
    BY <1>1, <2>1
  <2>2. CASE m # Len(frames)
    <3>1. frames'[m] = frames[m] /\ frames[m].phase # "refs"
      BY <1>1, <2>2 DEF RefsInv
    <3>. QED BY <3>1 DEF RefInv
  <2>. QED BY <2>1, <2>2
<1>. QED BY <1>2 DEF RefsInv

LEMMA VisitNewComplete ==
  ASSUME IInv, OwnInv, StartInv, EndInv, RefsInv, frames # <<>>, NEW x \in Top.todo, Visit(x),
         offset[Referred(x)] = None
  PROVE  OwnInv' /\ StartInv' /\ EndInv' /\ RefsInv'
<1>1. PICK f : f = [Top EXCEPT !.todo = @ \ {x}, !.at = x]
  OBVIOUS
<1>2. Top.at = <<>> /\ Allocate(Referred(x), Replaced(f))
  BY <1>1 DEF Visit
<1>3. /\ f \in Call /\ f.stmt = Top.stmt /\ f.k = Top.k /\ f.phase = Top.phase
      /\ f.at = x /\ f.at # <<>> /\ f.todo = Top.todo \ {x}
      /\ x \in Reference /\ Referred(x) \in Stmt
  BY <1>1, <1>2, VisitFrame
<1>4. Visiting(f) = Visiting(Top)
  BY <1>2, <1>3 DEF Visiting
<1>5. /\ frames \in Seq(Call) /\ Len(frames) \in DOMAIN frames /\ DOMAIN frames = 1 .. Len(frames)
  BY TopProps
<1>6. /\ Replaced(f) \in Seq(Call) /\ Len(Replaced(f)) = Len(frames)
      /\ Replaced(f)[Len(frames)] = f
      /\ \A m \in 1 .. Len(frames) : m # Len(frames) => Replaced(f)[m] = frames[m]
  BY <1>3, <1>5, ReplacedProps
<1>7. Top.phase = "starts"
  <2>1. RefInv(Top)
    BY <1>5 DEF RefsInv, Top
  <2>2. Top.phase # "refs"
    BY <2>1 DEF RefInv
  <2>3. Top \in Call
    BY TopProps
  <2>. QED BY <2>2, <2>3, CallFields
<1>8. \A m \in 1 .. Len(frames) : m # Len(frames) => frames[m].phase = "starts"
  <2>. TAKE m \in 1 .. Len(frames)
  <2>1. frames[m] \in Call
    BY <1>5
  <2>2. m # Len(frames) => frames[m].phase # "refs"
    BY <1>5 DEF RefsInv
  <2>. QED BY <2>1, <2>2, CallFields
<1>9. ASSUME NEW m \in 1 .. Len(frames)
      PROVE  /\ Replaced(f)[m].stmt = frames[m].stmt /\ Replaced(f)[m].k = frames[m].k
             /\ Replaced(f)[m].phase = "starts" /\ frames[m].phase = "starts"
             /\ Visiting(Replaced(f)[m]) = Visiting(frames[m])
  <2>1. CASE m = Len(frames)
    <3>1. Replaced(f)[m] = f /\ frames[m] = Top
      BY <1>6, <2>1 DEF Top
    <3>. QED BY <1>3, <1>4, <1>7, <3>1
  <2>2. CASE m # Len(frames)
    <3>1. Replaced(f)[m] = frames[m]
      BY <1>6, <2>2
    <3>. QED BY <1>8, <2>2, <3>1
  <2>. QED BY <2>1, <2>2
<1>10. PICK s, fs : s = Referred(x) /\ fs = Replaced(f)
  OBVIOUS
<1>11. /\ s \in Stmt /\ offset[s] = None /\ fs \in Seq(Call) /\ Allocate(s, fs) /\ Len(fs) = Len(frames)
  BY <1>2, <1>3, <1>6, <1>10
<1>12. \A m \in 1 .. Len(frames) :
         /\ fs[m].stmt = frames[m].stmt /\ fs[m].k = frames[m].k
         /\ fs[m].phase = "starts" /\ frames[m].phase = "starts"
         /\ Visiting(fs[m]) = Visiting(frames[m])
  BY <1>9, <1>10
<1>. QED BY <1>5, <1>11, <1>12, AllocateComplete

LEMMA VisitOldComplete ==
  ASSUME IInv, OwnInv, StartInv, EndInv, RefsInv, frames # <<>>, NEW x \in Top.todo, Visit(x),
         offset[Referred(x)] # None
  PROVE  OwnInv' /\ StartInv' /\ EndInv' /\ RefsInv'
<1>1. PICK f : f = [Top EXCEPT !.todo = @ \ {x}, !.at = x]
  OBVIOUS
<1>2. /\ Top.at = <<>> /\ frames' = Replaced(f)
      /\ UNCHANGED <<compiled, used_as_call, exporting, offset, allo, adj, starts, sub_final>>
  BY <1>1 DEF Visit, Allocate
<1>3. /\ f \in Call /\ f.stmt = Top.stmt /\ f.k = Top.k /\ f.phase = Top.phase /\ f.j = Top.j
      /\ f.v = Top.v /\ f.at = x /\ f.at # <<>> /\ f.todo = Top.todo \ {x}
  BY <1>1, <1>2, VisitFrame
<1>4. Visiting(f) = Visiting(Top)
  BY <1>2, <1>3 DEF Visiting
<1>5. \A s, k : Edges(s, k)' = Edges(s, k) /\ At(s, k)' = At(s, k)
  BY <1>2 DEF Edges, At
<1>6. PICK d, n : d = Top.stmt /\ n = Top.k
  OBVIOUS
<1>7. \A y \in StartingAt(d, n) :
        Kind(y) = "collapse" /\ (f.phase = "refs" \/ y \notin Visiting(f)) => StartEps(y) \in Edges(d, n)'
  BY <1>3, <1>4, <1>5, <1>6, TopStart
<1>8. Top.phase = "starts" \/ f.phase = "refs"
  BY <1>3, TopProps, CallFields
<1>9. /\ OwnInv' /\ StartInv' /\ EndInv'
      /\ \A s \in Allocated : \A v : \A y \in Reference : Ended(s, v, y) => Ended(s, v, y)'
  <2>1. /\ compiled' = compiled /\ offset' = offset /\ f.stmt = d /\ f.k = n
        /\ \A s \in Allocated : \A k \in Local(s) : Edges(s, k) \subseteq Edges(s, k)'
    BY <1>2, <1>3, <1>5, <1>6
  <2>. QED BY <1>2, <1>3, <1>6, <1>7, <1>8, <2>1, GrowInv
<1>10. RefInv(f)'
  <2>1. ASSUME f.phase = "refs" PROVE RefInv(f)'
    <3>1. RefInv(Top) /\ Top.phase = "refs"
      BY <1>3, <2>1, TopProps DEF RefsInv, Top
    <3>2. /\ \A y \in Top.todo : offset[Referred(y)] # None
          /\ \A h \in f.j + 1 .. Len(At(d, n)) : collapse_label_base <= At(d, n)[h][1]
          /\ \A c \in ToSet(compiled[d].adj[n]) : Replacing(Top, c)
      BY <1>3, <1>6, <3>1 DEF RefInv
    <3>3. \A c : Replacing(Top, c) => Replacing(f, c)'
      <4>. TAKE c
      <4>1. \A y \in EndingAt(d, c[3]) : Ended(d, c[3], y) => Ended(d, c[3], y)'
        BY <1>2, <1>5 DEF Ended, EpsilonTo
      <4>2. /\ EndingAt(d, c[3])' = EndingAt(d, c[3]) /\ Moved(d, c)' = Moved(d, c)
            /\ offset' = offset /\ At(d, n)' = At(d, n)
        BY <1>2, <1>5 DEF EndingAt, Moved
      <4>. QED BY <1>3, <1>4, <1>6, <4>1, <4>2 DEF Replacing, collapse_label_base
    <3>4. /\ (\A y \in f.todo : offset[Referred(y)] # None)'
          /\ (\A h \in f.j + 1 .. Len(At(f.stmt, f.k)) : collapse_label_base <= At(f.stmt, f.k)[h][1])'
          /\ (\A c \in ToSet(compiled[f.stmt].adj[f.k]) : Replacing(f, c))'
      BY <1>2, <1>3, <1>5, <1>6, <3>2, <3>3 DEF collapse_label_base
    <3>. QED BY <3>4 DEF RefInv
  <2>. QED BY <2>1 DEF RefInv
<1>. QED BY <1>2, <1>3, <1>9, <1>10, RefsStep

(* Only the edges of the state at hand change.                             *)
LEMMA EdgesStep ==
  ASSUME IInv, frames # <<>>, offset' = offset, NEW es, adj' = [adj EXCEPT ![i] = es],
         NEW d \in Stmt, NEW n \in Nat, d = Top.stmt, n = Top.k
  PROVE  /\ At(d, n)' = es /\ Edges(d, n)' = ToSet(es)
         /\ At(d, n) = adj[i] /\ Edges(d, n) = ToSet(adj[i])
         /\ \A s \in Allocated : \A k \in Local(s) : s # d \/ k # n =>
              At(s, k)' = At(s, k) /\ Edges(s, k)' = Edges(s, k)
<1>1. /\ d \in Allocated /\ n \in Local(d) /\ i = offset[d] + n /\ i \in 0 .. allo - 1
      /\ At(d, n) = adj[i] /\ DOMAIN adj = 0 .. allo - 1
  BY TopProps DEF i, IInv, TypeInv
<1>2. At(d, n)' = es
  BY <1>1 DEF At
<1>3. ASSUME NEW s \in Allocated, NEW k \in Local(s), s # d \/ k # n
      PROVE  At(s, k)' = At(s, k)
  <2>1. offset[s] + k # i /\ offset[s] + k \in 0 .. allo - 1
    <3>1. TypeInv /\ LayoutInv
      BY DEF IInv
    <3>2. ASSUME NEW t \in Allocated, NEW l \in Local(t)
          PROVE  /\ offset[s] + k \in 0 .. allo - 1
                 /\ offset[s] + k = offset[t] + l => s = t /\ k = l
      BY <1>3, <3>1, <3>2, PlaceProps
    <3>. QED BY <1>1, <1>3, <3>2
  <2>. QED BY <1>1, <2>1 DEF At
<1>. QED BY <1>1, <1>2, <1>3 DEF At, Edges

LEMMA LinkStartComplete ==
  ASSUME IInv, OwnInv, StartInv, EndInv, RefsInv, LinkStart
  PROVE  OwnInv' /\ StartInv' /\ EndInv' /\ RefsInv'
<1>1. PICK f, x, p :
      /\ f = [Top EXCEPT !.at = <<>>] /\ x = Top.at
      /\ p = offset[Referred(x)] + compiled[Referred(x)].start
      /\ frames # <<>> /\ x # <<>> /\ Top.phase = "starts"
      /\ UNCHANGED <<compiled, used_as_call, exporting, offset, allo, starts, sub_final>>
      /\ frames' = Replaced(f)
      /\ adj' = IF Kind(x) = "collapse" THEN [adj EXCEPT ![i] = Emplaced(@, p)] ELSE adj
  BY DEF LinkStart
<1>2. /\ Top \in Call /\ Top.stmt \in Stmt /\ FrameInv(Top) /\ StateInv(Top.stmt, Top.k)
      /\ At(Top.stmt, Top.k) = adj[i] /\ adj[i] \in Seq(AnyEdge) /\ i \in 0 .. allo - 1
      /\ compiled \in [Stmt -> FsaAnnos] /\ adj \in [0 .. allo - 1 -> Seq(AnyEdge)]
      /\ offset \in [Stmt -> Nat \cup {None}]
  BY <1>1, TopProps DEF IInv, TypeInv
<1>3. /\ f \in Call /\ f.stmt = Top.stmt /\ f.k = Top.k /\ f.phase = "starts" /\ Visiting(f) = Top.todo
  <2>1. /\ f \in Call /\ f.stmt = Top.stmt /\ f.k = Top.k /\ f.phase = "starts" /\ f.at = <<>>
        /\ f.todo = Top.todo
    BY <1>1, <1>2 DEF Call
  <2>. QED BY <2>1 DEF Visiting
<1>4. PICK d, n : d = Top.stmt /\ n = Top.k
  OBVIOUS
<1>5. p \in Nat
  <2>1. x \in Reference
    BY <1>1, <1>2, CallFields
  <2>2. Referred(x) \in Stmt /\ offset[Referred(x)] \in Nat
    BY <1>1, <1>2, <2>1, ReferenceProps DEF FrameInv, None
  <2>. QED BY <1>1, <1>2, <2>2, AnnoProps
<1>6. /\ \A s \in Allocated : \A k \in Local(s) : Edges(s, k) \subseteq Edges(s, k)'
      /\ Kind(x) = "collapse" => EpsilonTo(p) \in Edges(d, n)'
  <2>1. CASE Kind(x) = "collapse"
    <3>1. adj' = [adj EXCEPT ![i] = Emplaced(adj[i], p)]
      BY <1>1, <1>2, <2>1
    <3>2. SortedEdges(adj[i])
      BY <1>2 DEF StateInv
    <3>3. ToSet(Emplaced(adj[i], p)) = ToSet(adj[i]) \cup {EpsilonTo(p)}
      BY <1>2, <1>5, <3>2, EmplacedSet
    <3>4. PICK es : es = Emplaced(adj[i], p)
      OBVIOUS
    <3>5. adj' = [adj EXCEPT ![i] = es]
      BY <3>1, <3>4
    <3>. HIDE DEF ToSet
    <3>6. /\ Edges(d, n)' = ToSet(es) /\ Edges(d, n) = ToSet(adj[i])
          /\ \A s \in Allocated : \A k \in Local(s) : s # d \/ k # n => Edges(s, k)' = Edges(s, k)
      <4>1. frames # <<>>
        BY <1>1
      <4>2. offset' = offset
        BY <1>1
      <4>3. d = Top.stmt
        BY <1>4
      <4>4. n = Top.k
        BY <1>4
      <4>5. d \in Stmt
        BY <1>2, <1>4
      <4>6. n \in Nat
        BY <1>2, <1>4, CallFields
      <4>7. /\ At(d, n)' = es /\ Edges(d, n)' = ToSet(es)
            /\ At(d, n) = adj[i] /\ Edges(d, n) = ToSet(adj[i])
            /\ \A s \in Allocated : \A k \in Local(s) : s # d \/ k # n =>
                  At(s, k)' = At(s, k) /\ Edges(s, k)' = Edges(s, k)
        BY <3>5, <4>1, <4>2, <4>3, <4>4, <4>5, <4>6, EdgesStep, ZenonT(40)
      <4>. QED BY <4>7
    <3>. QED BY <3>3, <3>4, <3>6
  <2>2. CASE Kind(x) # "collapse"
    BY <1>1, <2>2 DEF Edges
  <2>. QED BY <2>1, <2>2
<1>7. ASSUME NEW y \in StartingAt(d, n), Kind(y) = "collapse", f.phase = "refs" \/ y \notin Visiting(f)
      PROVE  StartEps(y) \in Edges(d, n)'
  <2>1. CASE y = x
    BY <1>1, <1>6, <1>7, <2>1 DEF StartEps
  <2>2. CASE y # x
    <3>1. y \notin Visiting(Top)
      BY <1>1, <1>3, <1>7, <2>2 DEF Visiting
    <3>2. StartEps(y) \in Edges(d, n)
      BY <1>1, <1>4, <1>7, <3>1, TopStart
    <3>3. d \in Allocated /\ n \in Local(d)
      BY <1>1, <1>4, TopProps
    <3>. QED BY <1>6, <3>2, <3>3
  <2>. QED BY <2>1, <2>2
<1>8. OwnInv' /\ StartInv' /\ EndInv'
  <2>1. /\ compiled' = compiled /\ offset' = offset /\ f.stmt = d /\ f.k = n
    BY <1>1, <1>3, <1>4
  <2>. QED BY <1>1, <1>3, <1>4, <1>6, <1>7, <2>1, GrowInv
<1>9. RefInv(f)'
  BY <1>3 DEF RefInv
<1>. QED BY <1>1, <1>3, <1>8, <1>9, RefsStep

LEMMA BeginRefsComplete ==
  ASSUME IInv, OwnInv, StartInv, EndInv, RefsInv, BeginRefs
  PROVE  OwnInv' /\ StartInv' /\ EndInv' /\ RefsInv'
<1>1. PICK f :
      /\ f = [Top EXCEPT !.phase = "refs", !.j = Len(adj[i])]
      /\ frames # <<>> /\ Top.at = <<>> /\ Top.todo = {} /\ Top.phase = "starts"
      /\ UNCHANGED <<compiled, used_as_call, exporting, offset, allo, starts, sub_final>>
      /\ adj' = adj /\ frames' = Replaced(f)
  BY DEF BeginRefs
<1>2. /\ Top \in Call /\ Top.stmt \in Allocated /\ Top.k \in Local(Top.stmt)
      /\ At(Top.stmt, Top.k) = adj[i] /\ adj[i] \in Seq(AnyEdge) /\ Len(frames) \in DOMAIN frames
  BY <1>1, TopProps
<1>3. /\ f \in Call /\ f.stmt = Top.stmt /\ f.k = Top.k /\ f.phase = "refs"
      /\ f.todo = {} /\ f.j = Len(adj[i])
  <2>1. Len(adj[i]) \in Nat
    BY <1>2
  <2>. QED BY <1>1, <1>2, <2>1 DEF Call
<1>4. PICK d, n, es : d = Top.stmt /\ n = Top.k /\ es = adj[i]
  OBVIOUS
<1>5. \A s, k : Edges(s, k)' = Edges(s, k) /\ At(s, k)' = At(s, k)
  BY <1>1 DEF Edges, At
<1>6. Visiting(Top) = {}
  BY <1>1 DEF Visiting
<1>7. \A y \in StartingAt(d, n) : Kind(y) = "collapse" => StartEps(y) \in Edges(d, n)'
  BY <1>1, <1>4, <1>5, <1>6, TopStart
<1>8. OwnInv' /\ StartInv' /\ EndInv'
  <2>1. /\ compiled' = compiled /\ offset' = offset /\ f.stmt = d /\ f.k = n
        /\ \A s \in Allocated : \A k \in Local(s) : Edges(s, k) \subseteq Edges(s, k)'
    BY <1>1, <1>3, <1>4, <1>5
  <2>. QED BY <1>1, <1>3, <1>4, <1>7, <2>1, GrowInv
<1>9. ASSUME NEW c \in ToSet(compiled[d].adj[n]) PROVE \E h \in 1 .. Len(es) : es[h] = Moved(d, c)
  <2>1. Ahead(d, n)
    BY <1>1, <1>2, <1>4 DEF Ahead, Top
  <2>2. Moved(d, c) \in ToSet(es)
    BY <1>2, <1>4, <2>1 DEF OwnInv, Owning, Edges, At
  <2>. QED BY <1>2, <1>4, <2>2, InToSet
<1>10. RefInv(f)'
  <2>1. (\A y \in f.todo : offset[Referred(y)] # None)'
    BY <1>3
  <2>2. (At(f.stmt, f.k))' = es /\ f.j = Len(es) /\ Len(es) \in Nat
    BY <1>2, <1>3, <1>4, <1>5
  <2>3. (\A h \in f.j + 1 .. Len(At(f.stmt, f.k)) : collapse_label_base <= At(f.stmt, f.k)[h][1])'
    BY <2>2
  <2>4. ASSUME NEW c \in ToSet(compiled[d].adj[n]) PROVE Replacing(f, c)'
    <3>1. Moved(d, c)' = Moved(d, c)
      BY <1>1 DEF Moved
    <3>2. (\E h \in 1 .. f.j : At(f.stmt, f.k)[h] = Moved(f.stmt, c))'
      BY <1>3, <1>4, <1>9, <2>2, <3>1
    <3>. QED BY <3>2 DEF Replacing
  <2>5. (\A c \in ToSet(compiled[f.stmt].adj[f.k]) : Replacing(f, c))'
    BY <1>1, <1>3, <1>4, <2>4
  <2>. QED BY <2>1, <2>3, <2>5 DEF RefInv
<1>. QED BY <1>1, <1>3, <1>8, <1>10, RefsStep

(* While the collapse edges of the state at hand are replaced, epsilons    *)
(* are not lost, and no edge of another state is.                          *)
LEMMA RefsKept ==
  ASSUME IInv, OwnInv, StartInv, EndInv, compiled' = compiled, offset' = offset,
         NEW d \in Allocated, NEW n \in Local(d),
         \A s \in Allocated : \A k \in Local(s) :
           /\ \A e \in Edges(s, k) : e[1] = -1 \/ s # d \/ k # n => e \in Edges(s, k)'
           /\ Ahead(s, k)' => Ahead(s, k) /\ (s # d \/ k # n)
           /\ Passed(s, k)' => Passed(s, k) \/ (s = d /\ k = n)
           /\ \A x \in StartingAt(s, k) : StartDone(s, k, x)' => StartDone(s, k, x),
         \A c \in ToSet(compiled[d].adj[n]) : c[1] < collapse_label_base =>
           \/ Moved(d, c) \in Edges(d, n)'
           \/ collapse_label_base < c[2] /\ Shortened(d, c) \in Edges(d, n)',
         Passed(d, n)' => \A c \in ToSet(compiled[d].adj[n]) : collapse_label_base < c[2] =>
                            \A x \in EndingAt(d, c[3]) : Ended(d, c[3], x)
  PROVE  /\ OwnInv' /\ StartInv' /\ EndInv'
         /\ \A s \in Allocated : \A v : \A x \in Reference : Ended(s, v, x) => Ended(s, v, x)'
<1>1. /\ Allocated' = Allocated /\ \A s : Local(s)' = Local(s)
      /\ \A s, k : StartingAt(s, k)' = StartingAt(s, k) /\ EndingAt(s, k)' = EndingAt(s, k)
      /\ \A s, c : Moved(s, c)' = Moved(s, c) /\ Shortened(s, c)' = Shortened(s, c)
      /\ \A x : StartEps(x)' = StartEps(x)
  BY DEF Allocated, Local, StartingAt, EndingAt, Moved, Shortened, StartEps, collapse_label_base
<1>2. \A p : EpsilonTo(p)[1] = -1
  BY DEF EpsilonTo
<1>3. ASSUME NEW s \in Allocated, NEW k \in Local(s), NEW c \in ToSet(compiled[s].adj[k])
      PROVE  Owning(s, k, c)'
  <2>1. Owning(s, k, c)
    BY DEF OwnInv
  <2>2. CASE s # d \/ k # n
    <3>1. \A e \in Edges(s, k) : e \in Edges(s, k)'
      BY <2>2
    <3>2. Ahead(s, k)' => Ahead(s, k)
      OBVIOUS
    <3>3. (c[1] < collapse_label_base =>
             Moved(s, c) \in Edges(s, k) \/ (collapse_label_base < c[2] /\ Shortened(s, c) \in Edges(s, k)))'
      BY <1>1, <2>1, <3>1 DEF Owning, collapse_label_base
    <3>4. (Ahead(s, k) => Moved(s, c) \in Edges(s, k))'
      BY <1>1, <2>1, <3>1, <3>2 DEF Owning
    <3>. QED BY <3>3, <3>4 DEF Owning
  <2>3. CASE s = d /\ k = n
    <3>1. ~ Ahead(s, k)'
      BY <2>3
    <3>2. (c[1] < collapse_label_base =>
             Moved(s, c) \in Edges(s, k) \/ (collapse_label_base < c[2] /\ Shortened(s, c) \in Edges(s, k)))'
      BY <1>1, <2>3 DEF collapse_label_base
    <3>. QED BY <3>1, <3>2 DEF Owning
  <2>. QED BY <2>2, <2>3
<1>4. OwnInv'
  BY <1>1, <1>3 DEF OwnInv
<1>5. StartInv'
  <2>1. ASSUME NEW s \in Allocated, NEW k \in Local(s), NEW x \in StartingAt(s, k),
               Kind(x) = "collapse", StartDone(s, k, x)'
        PROVE  StartEps(x) \in Edges(s, k)'
    <3>1. StartDone(s, k, x)
      BY <2>1
    <3>2. StartEps(x) \in Edges(s, k)
      BY <2>1, <3>1 DEF StartInv
    <3>3. StartEps(x)[1] = -1
      BY <1>2 DEF StartEps
    <3>. QED BY <3>2, <3>3
  <2>. QED BY <1>1, <2>1 DEF StartInv
<1>6. ASSUME NEW s \in Allocated, NEW v, NEW x \in Reference, Ended(s, v, x)
      PROVE  Ended(s, v, x)'
  <2>1. /\ \A a \in Stmt : offset[a] # None => offset'[a] = offset[a] /\ offset'[a] # None
        /\ \A a \in Allocated : \A k \in Local(a) : \A e \in Edges(a, k) : e[1] = -1 => e \in Edges(a, k)'
    OBVIOUS
  <2>. QED BY <1>6, <2>1, EndedKept
<1>7. ASSUME NEW s \in Allocated, NEW k \in Local(s), NEW c \in ToSet(compiled[s].adj[k]),
             collapse_label_base < c[2], Passed(s, k)', NEW x \in EndingAt(s, c[3])
      PROVE  Ended(s, c[3], x)'
  <2>1. Ended(s, c[3], x)
    <3>1. CASE Passed(s, k)
      BY <1>7, <3>1 DEF EndInv
    <3>2. CASE s = d /\ k = n
      BY <1>7, <3>2
    <3>. QED BY <1>7, <3>1, <3>2
  <2>2. x \in Reference
    <3>1. s \in Stmt /\ compiled \in [Stmt -> FsaAnnos]
      BY DEF Allocated, IInv, TypeInv
    <3>. QED BY <3>1, CompiledEdges, AnnoProps
  <2>. QED BY <1>6, <2>1, <2>2
<1>8. EndInv'
  BY <1>1, <1>7 DEF EndInv, collapse_label_base
<1>. QED BY <1>4, <1>5, <1>6, <1>8

LEMMA TakeRefComplete ==
  ASSUME IInv, AllWellTagged(compiled), OwnInv, StartInv, EndInv, RefsInv, TakeRef
  PROVE  OwnInv' /\ StartInv' /\ EndInv' /\ RefsInv'
<1>. DEFINE e0 == adj[i][Top.j]
<1>1. /\ InRefs /\ AtRef /\ frames # <<>> /\ Top.at = <<>> /\ Top.todo = {} /\ Top.phase = "refs"
      /\ UNCHANGED <<compiled, used_as_call, exporting, offset, allo, starts, sub_final>>
      /\ adj' = IF e0[1] < collapse_label_base THEN [adj EXCEPT ![i][Top.j][2] = collapse_label_base] ELSE adj
      /\ frames' = Replaced([Top EXCEPT !.j = IF e0[1] < collapse_label_base THEN @ ELSE @ - 1, !.v = e0[3],
                                 !.todo = EndingAt(Top.stmt, e0[3] - offset[Top.stmt])])
  BY DEF TakeRef, InRefs
<1>2. /\ Top \in Call /\ StateInv(Top.stmt, Top.k) /\ Top.stmt \in Allocated /\ Top.k \in Local(Top.stmt)
      /\ At(Top.stmt, Top.k) = adj[i] /\ adj[i] \in Seq(AnyEdge) /\ i \in 0 .. allo - 1
      /\ Top.k \in Nat /\ Top.stmt \in Stmt /\ Len(frames) \in DOMAIN frames
      /\ adj \in [0 .. allo - 1 -> Seq(AnyEdge)] /\ compiled \in [Stmt -> FsaAnnos]
      /\ offset \in [Stmt -> Nat \cup {None}]
  BY <1>1, TopProps DEF IInv, TypeInv
<1>0. PICK d, n, j, old, e, base :
        /\ d = Top.stmt /\ n = Top.k /\ j = Top.j /\ old = adj[i] /\ e = e0
        /\ base = collapse_label_base
  OBVIOUS
<1>3. /\ d = Top.stmt /\ n = Top.k /\ j = Top.j /\ old = adj[i] /\ e = e0
      /\ base = collapse_label_base /\ d \in Stmt /\ d \in Allocated /\ n \in Nat /\ n \in Local(d)
      /\ old \in Seq(AnyEdge) /\ Local(d) \subseteq Nat /\ offset[d] \in Nat
  <2>1. /\ d \in Stmt /\ d \in Allocated /\ n \in Nat /\ n \in Local(d) /\ old \in Seq(AnyEdge)
    BY <1>0, <1>2
  <2>2. Local(d) \subseteq Nat
    BY <1>2, <2>1, AnnoProps
  <2>3. offset[d] \in Nat
    BY <1>2, <2>1 DEF Allocated, None
  <2>. QED BY <1>0, <2>1, <2>2, <2>3
<1>. HIDE DEF e0
<1>4. /\ j \in 1 .. Len(old) /\ j \in Nat /\ e = old[j] /\ e[1] \in Nat /\ e[2] \in Nat /\ base < e[2]
      /\ base \in Nat
  <2>1. /\ Top.j \in 1 .. Len(adj[i]) /\ e0[1] \in Nat /\ e0[2] \in Nat /\ collapse_label_base < e0[2]
    BY <1>1, RefProps DEF e0
  <2>. QED BY <1>3, <2>1, ExportAssumption DEF e0, collapse_label_base
<1>5. PICK c0 : c0 \in ToSet(compiled[d].adj[n]) /\ e = Moved(d, c0)
  <2>1. PICK l \in DOMAIN compiled[d].adj[n] : e = Moved(d, compiled[d].adj[n][l])
    <3>1. \E l \in DOMAIN compiled[Top.stmt].adj[Top.k] : e0 = Moved(Top.stmt, compiled[Top.stmt].adj[Top.k][l])
      BY <1>1, RefProps DEF e0
    <3>. QED BY <1>3, <3>1
  <2>2. compiled[d].adj[n] \in Seq(Edge(Size(d)))
    BY <1>2, <1>3, AnnoProps
  <2>. QED BY <2>1, <2>2, InToSet
<1>6. PICK p \in Nat : /\ p = c0[3] /\ e[3] - offset[d] = p /\ e[3] = offset[d] + p /\ e[3] = p + offset[d]
                       /\ e[1] = c0[1] /\ e[2] = c0[2] /\ p \in Local(d)
  <2>1. c0[3] \in Local(d)
    BY <1>2, <1>3, <1>5, CompiledEdges
  <2>2. e[1] = c0[1] /\ e[2] = c0[2] /\ e[3] = c0[3] + offset[d]
    BY <1>5 DEF Moved
  <2>. QED BY <1>3, <2>1, <2>2
<1>7. PICK f : f = [Top EXCEPT !.j = IF e[1] < base THEN @ ELSE @ - 1, !.v = e[3], !.todo = EndingAt(d, p)]
  OBVIOUS
<1>8. /\ f \in Call /\ f.stmt = d /\ f.k = n /\ f.phase = "refs" /\ f.v = e[3]
      /\ f.todo = EndingAt(d, p) /\ f.j = (IF e[1] < base THEN j ELSE j - 1)
      /\ Visiting(f) = EndingAt(d, p) /\ frames' = Replaced(f)
  <2>1. EndingAt(d, p) \in SUBSET Reference /\ e[3] \in Nat
    <3>1. e[3] \in Nat
      BY <1>2, <1>3, <1>6 DEF Allocated, None
    <3>. QED BY <1>2, <1>3, <1>6, <3>1, AnnoProps
  <2>2. j - 1 \in Nat /\ (IF e[1] < base THEN j ELSE j - 1) \in Nat
    BY <1>4
  <2>3. f = [Top EXCEPT !.j = IF e[1] < base THEN j ELSE j - 1, !.v = e[3], !.todo = EndingAt(d, p)]
    BY <1>2, <1>3, <1>7 DEF Call
  <2>4. /\ f \in Call /\ f.stmt = d /\ f.k = n /\ f.phase = "refs" /\ f.at = <<>> /\ f.v = e[3]
        /\ f.todo = EndingAt(d, p) /\ f.j = (IF e[1] < base THEN j ELSE j - 1)
    BY <1>1, <1>2, <1>3, <2>1, <2>2, <2>3, ZenonT(40) DEF Call
  <2>5. frames' = Replaced(f)
    BY <1>1, <1>3, <1>6, <1>7
  <2>. QED BY <2>4, <2>5 DEF Visiting
<1>9. PICK es \in Seq(AnyEdge) :
        /\ adj' = [adj EXCEPT ![i] = es] /\ Len(es) = Len(old)
        /\ \A h \in 1 .. Len(old) : h # j => es[h] = old[h]
        /\ es[j] = IF e[1] < base THEN <<e[1], base, e[3]>> ELSE e
  <2>0. SortedEdges(old)
    BY <1>2, <1>3 DEF StateInv
  <2>1. CASE e[1] < base
    <3>1. PICK r : r = [old EXCEPT ![j][2] = base]
      OBVIOUS
    <3>2. /\ old \in Seq(AnyEdge) /\ SortedEdges(old) /\ j \in 1 .. Len(old)
          /\ old[j][1] < collapse_label_base /\ collapse_label_base < old[j][2]
          /\ base = collapse_label_base
      BY <1>3, <1>4, <2>0, <2>1
    <3>3. /\ r \in Seq(AnyEdge) /\ Len(r) = Len(old) /\ r[j] = <<old[j][1], base, old[j][3]>>
          /\ \A h \in 1 .. Len(old) : h # j => r[h] = old[h]
      <4>1. old[j] \in AnyEdge /\ old[j] \in Nat \X Nat \X Nat
        BY <1>4, <3>2 DEF AnyEdge
      <4>2. [old[j] EXCEPT ![2] = base] = <<old[j][1], base, old[j][3]>>
        BY <4>1
      <4>3. PICK w : w = <<old[j][1], base, old[j][3]>>
        OBVIOUS
      <4>4. w \in AnyEdge /\ r = [old EXCEPT ![j] = w]
        BY <1>4, <3>1, <4>1, <4>2, <4>3 DEF AnyEdge
      <4>5. /\ r \in Seq(AnyEdge) /\ Len(r) = Len(old) /\ r[j] = w
            /\ \A h \in 1 .. Len(old) : h # j => r[h] = old[h]
        BY <3>2, <4>4
      <4>. QED BY <4>3, <4>5
    <3>4. r[j] = <<e[1], base, e[3]>>
      BY <1>4, <3>3
    <3>5. adj' = [adj EXCEPT ![i] = r]
      BY <1>1, <1>2, <1>3, <2>1, <3>1
    <3>. QED BY <2>1, <3>3, <3>4, <3>5
  <2>2. CASE ~ (e[1] < base)
    <3>1. adj' = [adj EXCEPT ![i] = old]
      BY <1>1, <1>2, <1>3, <2>2
    <3>. QED BY <1>3, <1>4, <2>2, <3>1
  <2>. QED BY <2>1, <2>2
<1>10. /\ At(d, n)' = es /\ Edges(d, n)' = ToSet(es)
       /\ At(d, n) = adj[i] /\ Edges(d, n) = ToSet(adj[i])
       /\ \A s \in Allocated : \A k \in Local(s) : s # d \/ k # n =>
            At(s, k)' = At(s, k) /\ Edges(s, k)' = Edges(s, k)
  <2>1. frames # <<>>
    BY <1>1
  <2>2. offset' = offset
    BY <1>1
  <2>3. d = Top.stmt
    BY <1>3
  <2>4. n = Top.k
    BY <1>3
  <2>5. adj' = [adj EXCEPT ![i] = es]
    BY <1>9
  <2>. QED BY <1>3, <2>1, <2>2, <2>3, <2>4, <2>5, EdgesStep
<1>11. /\ \A b : b \in Edges(d, n) <=> \E h \in 1 .. Len(old) : old[h] = b
       /\ \A b : b \in Edges(d, n)' <=> \E h \in 1 .. Len(old) : es[h] = b
  <2>1. \A b : b \in ToSet(old) <=> \E h \in 1 .. Len(old) : old[h] = b
    BY <1>3, InToSet
  <2>2. \A b : b \in ToSet(es) <=> \E h \in 1 .. Len(es) : es[h] = b
    BY <1>9, InToSet
  <2>. HIDE DEF ToSet
  <2>. QED BY <1>3, <1>9, <1>10, <2>1, <2>2
<1>. HIDE DEF ToSet
<1>12. /\ DOMAIN frames' = DOMAIN frames /\ frames'[Len(frames)] = f /\ frames[Len(frames)] = Top
       /\ \A m \in DOMAIN frames : m # Len(frames) => frames'[m] = frames[m] /\ frames[m].stmt # d
  BY <1>1, <1>3, <1>8, FramesOf DEF Top
<1>13. ASSUME NEW s \in Allocated, NEW k \in Local(s)
       PROVE  /\ \A b \in Edges(s, k) : b[1] = -1 \/ s # d \/ k # n => b \in Edges(s, k)'
              /\ Ahead(s, k)' => Ahead(s, k) /\ (s # d \/ k # n)
              /\ Passed(s, k)' => Passed(s, k)
              /\ \A x \in StartingAt(s, k) : StartDone(s, k, x)' => StartDone(s, k, x)
  <2>1. ASSUME NEW b \in Edges(s, k), b[1] = -1 \/ s # d \/ k # n PROVE b \in Edges(s, k)'
    <3>1. CASE s # d \/ k # n
      BY <1>10, <3>1
    <3>2. CASE s = d /\ k = n
      <4>1. PICK h \in 1 .. Len(old) : old[h] = b
        BY <1>11, <3>2
      <4>2. h # j
        BY <1>4, <2>1, <3>2, <4>1
      <4>. QED BY <1>9, <1>11, <3>2, <4>1, <4>2
    <3>. QED BY <3>1, <3>2
  <2>2. \A m \in DOMAIN frames :
          /\ frames'[m].stmt = frames[m].stmt /\ frames'[m].k = frames[m].k
          /\ frames'[m].phase = frames[m].phase
          /\ frames[m].phase # "refs" => frames'[m] = frames[m]
    BY <1>1, <1>3, <1>8, <1>12
  <2>3. Ahead(s, k)' => Ahead(s, k)
    BY <1>12, <2>2 DEF Ahead
  <2>4. s = d /\ k = n => ~ Ahead(s, k)'
    <3>1. ASSUME NEW m \in DOMAIN frames', frames'[m].stmt = d
          PROVE  ~ (frames'[m].k < n \/ (frames'[m].k = n /\ frames'[m].phase = "starts"))
      BY <1>3, <1>8, <1>12, <3>1
    <3>. QED BY <3>1 DEF Ahead
  <2>5. Passed(s, k)' => Passed(s, k)
    BY <1>12, <2>2 DEF Passed
  <2>6. ASSUME NEW x \in StartingAt(s, k), StartDone(s, k, x)' PROVE StartDone(s, k, x)
    <3>1. ASSUME NEW m \in DOMAIN frames, frames[m].stmt = s PROVE Behind(frames[m], k, x)
      <4>1. (frames[m].stmt = s /\ m \in DOMAIN frames)'
        BY <1>12, <2>2, <3>1
      <4>2. (Behind(frames[m], k, x))'
        BY <2>6, <4>1 DEF StartDone
      <4>3. CASE frames[m].phase = "refs"
        BY <2>2, <4>2, <4>3 DEF Behind
      <4>4. CASE frames[m].phase # "refs"
        <5>1. frames'[m] = frames[m]
          BY <2>2, <4>4
        <5>. QED BY <4>2, <5>1 DEF Behind, Visiting
      <4>. QED BY <4>3, <4>4
    <3>. QED BY <3>1 DEF StartDone
  <2>. QED BY <2>1, <2>3, <2>4, <2>5, <2>6
<1>14. ASSUME NEW c \in ToSet(compiled[d].adj[n]), c[1] < base
       PROVE  Moved(d, c) \in Edges(d, n)' \/ (base < c[2] /\ Shortened(d, c) \in Edges(d, n)')
  <2>1. Moved(d, c) \in Edges(d, n) \/ (base < c[2] /\ Shortened(d, c) \in Edges(d, n))
    BY <1>3, <1>14 DEF OwnInv, Owning
  <2>2. ASSUME NEW b, b \in Edges(d, n), b # e PROVE b \in Edges(d, n)'
    <3>1. PICK h \in 1 .. Len(old) : old[h] = b
      BY <1>11, <2>2
    <3>2. h # j
      BY <1>4, <2>2, <3>1
    <3>. QED BY <1>9, <1>11, <3>1, <3>2
  <2>3. Shortened(d, c) # e
    BY <1>3, <1>4 DEF Shortened
  <2>4. CASE Moved(d, c) = e
    <3>1. e[1] = c[1] /\ e[2] = c[2] /\ e[3] = c[3] + offset[d]
      BY <2>4 DEF Moved
    <3>2. Shortened(d, c) = es[j]
      BY <1>3, <1>9, <1>14, <3>1 DEF Shortened
    <3>. QED BY <1>4, <1>11, <3>1, <3>2
  <2>. QED BY <2>1, <2>2, <2>3, <2>4
<1>15. Passed(d, n)' => FALSE
  BY <1>2, <1>3, <1>8, <1>12 DEF Passed
<1>16. /\ OwnInv' /\ StartInv' /\ EndInv'
       /\ \A s \in Allocated : \A v : \A x \in Reference : Ended(s, v, x) => Ended(s, v, x)'
  <2>1. compiled' = compiled /\ offset' = offset
    BY <1>1
  <2>2. \A s \in Allocated : \A k \in Local(s) :
          /\ \A b \in Edges(s, k) : b[1] = -1 \/ s # d \/ k # n => b \in Edges(s, k)'
          /\ Ahead(s, k)' => Ahead(s, k) /\ (s # d \/ k # n)
          /\ Passed(s, k)' => Passed(s, k) \/ (s = d /\ k = n)
          /\ \A x \in StartingAt(s, k) : StartDone(s, k, x)' => StartDone(s, k, x)
    BY <1>13
  <2>3. \A c \in ToSet(compiled[d].adj[n]) : c[1] < collapse_label_base =>
          \/ Moved(d, c) \in Edges(d, n)'
          \/ collapse_label_base < c[2] /\ Shortened(d, c) \in Edges(d, n)'
    BY <1>3, <1>14
  <2>4. Passed(d, n)' => \A c \in ToSet(compiled[d].adj[n]) : collapse_label_base < c[2] =>
                            \A x \in EndingAt(d, c[3]) : Ended(d, c[3], x)
    BY <1>15
  <2>5. d \in Allocated
    BY <1>3
  <2>6. n \in Local(d)
    BY <1>3
  <2>. QED BY <2>1, <2>2, <2>3, <2>4, <2>5, <2>6, RefsKept
<1>17. RefInv(Top) /\ Visiting(Top) = {}
  BY <1>1, <1>2 DEF RefsInv, Visiting, Top
<1>18. \A x \in f.todo : offset[Referred(x)] # None
  <2>1. collapse_label_base < c0[2]
    BY <1>3, <1>4, <1>6
  <2>2. \A x \in EndingAt(d, c0[3]) : offset[Referred(x)] # None
    BY <1>1, <1>3, <1>5, <2>1, TaggedLaidOut
  <2>. QED BY <1>6, <1>8, <2>2
<1>19. \A h \in f.j + 1 .. Len(es) : base <= es[h][1]
  <2>. TAKE h \in f.j + 1 .. Len(es)
  <2>1. Len(old) \in Nat /\ h \in Int /\ h <= Len(old) /\ j <= h
    BY <1>4, <1>8, <1>9
  <2>2. CASE h = j
    BY <1>4, <1>8, <1>9, <2>2
  <2>3. CASE h # j
    <3>1. h \in j + 1 .. Len(old) /\ h \in 1 .. Len(old)
      BY <1>4, <2>1, <2>3
    <3>2. base <= old[h][1]
      BY <1>1, <1>2, <1>3, <1>17, <3>1 DEF RefInv
    <3>. QED BY <1>9, <2>3, <3>1, <3>2
  <2>. QED BY <2>2, <2>3
<1>20. ASSUME NEW c \in ToSet(compiled[d].adj[n])
       PROVE  Replacing(f, c)'
  <2>1. Replacing(Top, c)
    BY <1>1, <1>3, <1>17 DEF RefInv
  <2>2. Moved(d, c)' = Moved(d, c) /\ EndingAt(d, c[3])' = EndingAt(d, c[3])
    BY <1>1 DEF Moved, EndingAt
  <2>3. ASSUME base < c[2]
        PROVE  \/ \E h \in 1 .. f.j : es[h] = Moved(d, c)
               \/ \A x \in EndingAt(d, c[3]) : Ended(d, c[3], x)' \/ (f.v = offset[d] + c[3] /\ x \in Visiting(f))
    <3>1. CASE \E h \in 1 .. j : old[h] = Moved(d, c)
      <4>1. PICK h \in 1 .. j : old[h] = Moved(d, c)
        BY <3>1
      <4>2. CASE h = j
        <5>1. Moved(d, c)[3] = c[3] + offset[d] /\ c[3] \in Nat /\ offset[d] \in Nat
          <6>1. c[3] \in Local(d)
            BY <1>2, <1>3, CompiledEdges
          <6>. QED BY <1>3, <6>1 DEF Moved
        <5>2. c[3] = p
          BY <1>4, <1>6, <4>1, <4>2, <5>1
        <5>. QED BY <1>6, <1>8, <5>2
      <4>3. CASE h # j
        <5>1. h \in 1 .. f.j /\ h \in 1 .. Len(old)
          BY <1>4, <1>8, <4>3
        <5>. QED BY <1>9, <4>1, <4>3, <5>1
      <4>. QED BY <4>2, <4>3
    <3>2. CASE \A x \in EndingAt(d, c[3]) : Ended(d, c[3], x)
      <4>1. ASSUME NEW x \in EndingAt(d, c[3]) PROVE Ended(d, c[3], x)'
        <5>1. x \in Reference
          BY <1>2, <1>3, CompiledEdges, AnnoProps
        <5>. QED BY <1>3, <1>16, <3>2, <5>1
      <4>. QED BY <4>1
    <3>. QED BY <1>2, <1>3, <1>17, <2>1, <2>3, <3>1, <3>2 DEF Replacing
  <2>4. base < c[2] =>
          (\/ \E h \in 1 .. f.j : At(f.stmt, f.k)[h] = Moved(f.stmt, c)
           \/ \A x \in EndingAt(f.stmt, c[3]) :
                Ended(f.stmt, c[3], x) \/ (f.v = offset[f.stmt] + c[3] /\ x \in Visiting(f)))'
    BY <1>1, <1>8, <1>10, <2>2, <2>3 DEF Visiting
  <2>. QED BY <1>3, <2>4 DEF Replacing, collapse_label_base
<1>21. RefInv(f)'
  <2>1. (\A x \in f.todo : offset[Referred(x)] # None)'
    BY <1>1, <1>18
  <2>2. (\A h \in f.j + 1 .. Len(At(f.stmt, f.k)) : collapse_label_base <= At(f.stmt, f.k)[h][1])'
    BY <1>3, <1>8, <1>10, <1>19 DEF collapse_label_base
  <2>3. (\A c \in ToSet(compiled[f.stmt].adj[f.k]) : Replacing(f, c))'
    BY <1>1, <1>8, <1>20
  <2>. QED BY <2>1, <2>2, <2>3 DEF RefInv
<1>. QED BY <1>1, <1>3, <1>8, <1>16, <1>21, RefsStep

LEMMA LinkEndComplete ==
  ASSUME IInv, OwnInv, StartInv, EndInv, RefsInv, LinkEnd
  PROVE  OwnInv' /\ StartInv' /\ EndInv' /\ RefsInv'
<1>1. PICK x, w, G :
        /\ x = Top.at /\ w = Referred(x) /\ G = {offset[w] + q : q \in compiled[w].finals}
        /\ frames # <<>> /\ Top.at # <<>> /\ Top.phase = "refs"
        /\ UNCHANGED <<compiled, used_as_call, exporting, offset, allo, starts, sub_final>>
        /\ adj' = [g \in DOMAIN adj |-> IF g \in G THEN Emplaced(adj[g], Top.v) ELSE adj[g]]
        /\ frames' = Replaced([Top EXCEPT !.at = <<>>, !.j = Followed(@, G)])
  BY DEF LinkEnd
<1>2. /\ Top \in Call /\ FrameInv(Top) /\ Top.stmt \in Stmt /\ Len(frames) \in DOMAIN frames
      /\ At(Top.stmt, Top.k) = adj[i] /\ adj[i] \in Seq(AnyEdge)
      /\ compiled \in [Stmt -> FsaAnnos] /\ offset \in [Stmt -> Nat \cup {None}] /\ TypeInv /\ LayoutInv
      /\ Top.stmt \in Allocated /\ Top.k \in Local(Top.stmt) /\ Top.k \in Nat
  BY <1>1, TopProps DEF IInv, TypeInv
<1>3. PICK d, n, j, v, old, base :
        /\ d = Top.stmt /\ n = Top.k /\ j = Top.j /\ v = Top.v /\ old = adj[i]
        /\ base = collapse_label_base
  OBVIOUS
<1>4. /\ d \in Allocated /\ d \in Stmt /\ n \in Local(d) /\ n \in Nat /\ old = At(d, n)
      /\ base \in Nat /\ old \in Seq(AnyEdge) /\ offset[d] \in Nat /\ Local(d) \subseteq Nat
  <2>1. base \in Nat
    BY <1>3, ExportAssumption DEF collapse_label_base
  <2>2. offset[d] \in Nat
    BY <1>2, <1>3 DEF Allocated, None
  <2>3. Local(d) \subseteq Nat
    BY <1>2, <1>3, AnnoProps
  <2>. QED BY <1>2, <1>3, <2>1, <2>2, <2>3
<1>5. /\ x \in Reference /\ w \in Stmt /\ w \in Allocated /\ j \in Nat /\ v \in Nat
      /\ compiled[w].finals \in SUBSET Local(w) /\ j <= Len(old) /\ x \in Visiting(Top)
  <2>1. x \in Reference /\ Top.j \in Nat /\ Top.v \in Nat
    BY <1>1, <1>2, CallFields
  <2>2. w \in Stmt /\ w \in Allocated
    BY <1>1, <1>2, <2>1, ReferenceProps DEF FrameInv, Allocated
  <2>3. compiled[w].finals \in SUBSET Local(w)
    BY <1>2, <2>2, AnnoProps
  <2>4. j <= Len(old)
    BY <1>1, <1>2, <1>3 DEF FrameInv
  <2>. QED BY <1>1, <1>3, <2>1, <2>2, <2>3, <2>4 DEF Visiting
<1>6. ASSUME NEW s \in Allocated, NEW k \in Local(s)
      PROVE  /\ At(s, k) \in Seq(AnyEdge) /\ SortedEdges(At(s, k))
             /\ s = w /\ k \in compiled[w].finals =>
                  At(s, k)' = Emplaced(At(s, k), v) /\ Edges(s, k)' = Edges(s, k) \cup {EpsilonTo(v)}
             /\ ~ (s = w /\ k \in compiled[w].finals) =>
                  At(s, k)' = At(s, k) /\ Edges(s, k)' = Edges(s, k)
  <2>1. w = Referred(Top.at) /\ v = Top.v
    BY <1>1, <1>3
  <2>. QED BY <1>5, <2>1, LinkEndEdges
<1>7. i \in G <=> d = w /\ n \in compiled[w].finals
  <2>1. i = offset[d] + n
    BY <1>3 DEF i
  <2>2. \A q \in Local(w) : offset[d] + n = offset[w] + q => d = w /\ n = q
    BY <1>2, <1>4, <1>5, PlaceProps
  <2>. QED BY <1>1, <1>5, <2>1, <2>2
<1>8. PICK f : f = [Top EXCEPT !.at = <<>>, !.j = Followed(@, G)]
  OBVIOUS
<1>9. /\ f \in Call /\ f.stmt = d /\ f.k = n /\ f.phase = "refs" /\ f.v = v
      /\ f.todo = Top.todo /\ f.j = (IF i \in G THEN j + 1 ELSE j)
      /\ Visiting(f) = Top.todo /\ frames' = Replaced(f)
  <2>1. (IF i \in G THEN j + 1 ELSE j) \in Nat /\ f = [Top EXCEPT !.at = <<>>, !.j = IF i \in G THEN j + 1 ELSE j]
    BY <1>2, <1>3, <1>5, <1>8 DEF Followed, Call
  <2>2. /\ f \in Call /\ f.stmt = d /\ f.k = n /\ f.phase = "refs" /\ f.at = <<>> /\ f.v = v
        /\ f.todo = Top.todo /\ f.j = (IF i \in G THEN j + 1 ELSE j)
    BY <1>1, <1>2, <1>3, <2>1 DEF Call
  <2>. QED BY <1>1, <1>8, <2>2 DEF Visiting
<1>10. \A s \in Allocated : \A k \in Local(s) : Edges(s, k) \subseteq Edges(s, k)'
  BY <1>6
<1>11. \A y \in StartingAt(d, n) :
         Kind(y) = "collapse" /\ (f.phase = "refs" \/ y \notin Visiting(f)) => StartEps(y) \in Edges(d, n)'
  BY <1>1, <1>3, <1>4, <1>10, TopStart
<1>12. /\ OwnInv' /\ StartInv' /\ EndInv'
       /\ \A s \in Allocated : \A p : \A y \in Reference : Ended(s, p, y) => Ended(s, p, y)'
  <2>1. compiled' = compiled /\ offset' = offset
    BY <1>1
  <2>. QED BY <1>1, <1>3, <1>9, <1>10, <1>11, <2>1, GrowInv
<1>13. RefInv(Top)
  BY <1>2 DEF RefsInv, Top
<1>14. \A h \in j + 1 .. Len(old) : base <= old[h][1]
  BY <1>1, <1>3, <1>4, <1>13 DEF RefInv
<1>15. PICK es : es = At(d, n)'
  OBVIOUS
<1>16. /\ \A h \in f.j + 1 .. Len(es) : base <= es[h][1]
       /\ \A h \in 1 .. j : \E m \in 1 .. f.j : es[m] = old[h]
  <2>1. CASE i \notin G
    <3>1. es = old /\ f.j = j
      BY <1>4, <1>6, <1>7, <1>9, <1>15, <2>1
    <3>. QED BY <1>14, <3>1
  <2>2. CASE i \in G
    <3>1. es = Emplaced(old, v) /\ SortedEdges(old)
      BY <1>4, <1>6, <1>7, <1>15, <2>2
    <3>2. /\ Len(Emplaced(old, v)) = Len(old) + 1
          /\ \E k \in 0 .. Len(old) :
               /\ k > 0 => old[k][1] = -1
               /\ Emplaced(old, v)[k + 1] = EpsilonTo(v)
               /\ \A h \in 1 .. k : Emplaced(old, v)[h] = old[h]
               /\ \A h \in k + 1 .. Len(old) : Emplaced(old, v)[h + 1] = old[h]
      BY <1>4, <1>5, <3>1, EmplacedProps
    <3>3. PICK k \in 0 .. Len(old) :
            /\ k > 0 => old[k][1] = -1
            /\ \A h \in 1 .. k : es[h] = old[h]
            /\ \A h \in k + 1 .. Len(old) : es[h + 1] = old[h]
      BY <3>1, <3>2
    <3>4. Len(es) = Len(old) + 1 /\ Len(old) \in Nat /\ f.j = j + 1
      BY <1>4, <1>9, <2>2, <3>1, <3>2
    <3>5. k <= j
      <4>1. ASSUME k > j PROVE FALSE
        <5>1. k \in j + 1 .. Len(old) /\ k > 0
          BY <1>5, <3>4, <4>1
        <5>. QED BY <1>4, <1>14, <3>3, <5>1
      <4>. QED BY <1>5, <3>4, <4>1
    <3>6. ASSUME NEW h \in f.j + 1 .. Len(es) PROVE base <= es[h][1]
      <4>1. h - 1 \in k + 1 .. Len(old) /\ h - 1 \in j + 1 .. Len(old) /\ h = (h - 1) + 1
        BY <1>5, <3>4, <3>5
      <4>2. PICK m : m = h - 1
        OBVIOUS
      <4>3. es[h] = old[m] /\ m \in j + 1 .. Len(old)
        BY <3>3, <4>1, <4>2
      <4>. QED BY <1>14, <4>3
    <3>7. ASSUME NEW h \in 1 .. j PROVE \E m \in 1 .. f.j : es[m] = old[h]
      <4>1. CASE h <= k
        <5>1. h \in 1 .. k /\ h \in 1 .. f.j
          BY <1>5, <3>4, <4>1
        <5>. QED BY <3>3, <5>1
      <4>2. CASE h > k
        <5>1. h \in k + 1 .. Len(old) /\ h + 1 \in 1 .. f.j
          BY <1>5, <3>4, <4>2
        <5>. QED BY <3>3, <5>1
      <4>. QED BY <1>5, <4>1, <4>2
    <3>. QED BY <3>6, <3>7
  <2>. QED BY <2>1, <2>2
<1>17. ASSUME NEW p \in Nat, x \in EndingAt(d, p), v = offset[d] + p
       PROVE  Ended(d, p, x)'
  <2>1. ASSUME NEW q \in compiled[w].finals PROVE EpsilonTo(offset[d] + p) \in Edges(w, q)'
    BY <1>5, <1>6, <1>17, <2>1
  <2>. QED BY <1>1, <1>5, <2>1 DEF Ended, Allocated
<1>18. ASSUME NEW c \in ToSet(compiled[d].adj[n]) PROVE Replacing(f, c)'
  <2>1. Replacing(Top, c)
    BY <1>1, <1>3, <1>13 DEF RefInv
  <2>2. Moved(d, c)' = Moved(d, c) /\ EndingAt(d, c[3])' = EndingAt(d, c[3])
    BY <1>1 DEF Moved, EndingAt
  <2>3. c[3] \in Nat
    BY <1>2, <1>4, CompiledEdges
  <2>4. ASSUME base < c[2]
        PROVE  \/ \E h \in 1 .. f.j : es[h] = Moved(d, c)
               \/ \A y \in EndingAt(d, c[3]) : Ended(d, c[3], y)' \/ (v = offset[d] + c[3] /\ y \in Visiting(f))
    <3>1. CASE \E h \in 1 .. j : old[h] = Moved(d, c)
      BY <1>16, <3>1
    <3>2. CASE \A y \in EndingAt(d, c[3]) : Ended(d, c[3], y) \/ (v = offset[d] + c[3] /\ y \in Visiting(Top))
      <4>1. ASSUME NEW y \in EndingAt(d, c[3])
            PROVE  Ended(d, c[3], y)' \/ (v = offset[d] + c[3] /\ y \in Visiting(f))
        <5>1. CASE Ended(d, c[3], y)
          <6>1. y \in Reference
            BY <1>2, <1>4, CompiledEdges, AnnoProps
          <6>. QED BY <1>4, <1>12, <5>1, <6>1
        <5>2. CASE v = offset[d] + c[3] /\ y \in Visiting(Top)
          <6>1. y = x \/ y \in Visiting(f)
            BY <1>1, <1>9, <5>2 DEF Visiting
          <6>. QED BY <1>17, <2>3, <4>1, <5>2, <6>1
        <5>. QED BY <3>2, <5>1, <5>2
      <4>. QED BY <4>1
    <3>. QED BY <1>3, <1>4, <2>1, <2>4, <3>1, <3>2 DEF Replacing
  <2>5. base < c[2] =>
          (\/ \E h \in 1 .. f.j : At(f.stmt, f.k)[h] = Moved(f.stmt, c)
           \/ \A y \in EndingAt(f.stmt, c[3]) :
                Ended(f.stmt, c[3], y) \/ (f.v = offset[f.stmt] + c[3] /\ y \in Visiting(f)))'
    BY <1>1, <1>9, <1>15, <2>2, <2>4 DEF Visiting
  <2>. QED BY <1>3, <2>5 DEF Replacing, collapse_label_base
<1>19. RefInv(f)'
  <2>1. (\A y \in f.todo : offset[Referred(y)] # None)'
    BY <1>1, <1>9, <1>13 DEF RefInv
  <2>2. (\A h \in f.j + 1 .. Len(At(f.stmt, f.k)) : collapse_label_base <= At(f.stmt, f.k)[h][1])'
    BY <1>3, <1>9, <1>15, <1>16 DEF collapse_label_base
  <2>3. (\A c \in ToSet(compiled[f.stmt].adj[f.k]) : Replacing(f, c))'
    BY <1>1, <1>9, <1>18
  <2>. QED BY <2>1, <2>2, <2>3 DEF RefInv
<1>. QED BY <1>1, <1>3, <1>9, <1>12, <1>19, RefsStep

(* When the state at hand is dealt with, its edges are cut where the first *)
(* replaced one begins: nothing below collapse_label_base is lost.         *)
LEMMA CutComplete ==
  ASSUME IInv, OwnInv, StartInv, EndInv, RefsInv, NextState,
         NEW d \in Allocated, NEW n \in Local(d), d = Top.stmt, n = Top.k,
         \A s \in Allocated : \A k \in Local(s) :
           /\ Ahead(s, k)' => Ahead(s, k) /\ (s # d \/ k # n)
           /\ Passed(s, k)' => Passed(s, k) \/ (s = d /\ k = n)
           /\ \A x \in StartingAt(s, k) : StartDone(s, k, x)' => StartDone(s, k, x)
  PROVE  OwnInv' /\ StartInv' /\ EndInv'
<1>1. PICK es, j, old, base :
        /\ es = Cut(adj[i], Top.j) /\ j = Top.j /\ old = adj[i] /\ base = collapse_label_base
        /\ InRefs /\ ~ AtRef /\ frames # <<>> /\ Top.phase = "refs" /\ Top.at = <<>> /\ Top.todo = {}
        /\ UNCHANGED <<compiled, used_as_call, exporting, offset, allo, starts, sub_final>>
        /\ adj' = [adj EXCEPT ![i] = Cut(@, Top.j)]
  BY DEF NextState, InRefs
<1>2. /\ d \in Stmt /\ n \in Nat /\ old \in Seq(AnyEdge) /\ At(d, n) = old /\ base \in Nat
      /\ Len(frames) \in DOMAIN frames /\ compiled \in [Stmt -> FsaAnnos] /\ i \in 0 .. allo - 1
      /\ j \in Nat
  <2>1. /\ Top.stmt \in Stmt /\ Top.k \in Nat /\ adj[i] \in Seq(AnyEdge) /\ At(Top.stmt, Top.k) = adj[i]
        /\ Len(frames) \in DOMAIN frames /\ compiled \in [Stmt -> FsaAnnos] /\ i \in 0 .. allo - 1
        /\ Top \in Call
    BY <1>1, TopProps DEF IInv, TypeInv
  <2>. QED BY <1>1, <2>1, CallFields, ExportAssumption DEF collapse_label_base
<1>3. /\ es \in Seq(AnyEdge) /\ Len(es) = j /\ j <= Len(old) /\ \A h \in 1 .. j : es[h] = old[h]
      /\ \A e \in ToSet(es) : e[2] <= base
  BY <1>1, CutProps
<1>4. /\ At(d, n)' = es /\ Edges(d, n)' = ToSet(es)
      /\ At(d, n) = adj[i] /\ Edges(d, n) = ToSet(adj[i])
      /\ \A s \in Allocated : \A k \in Local(s) : s # d \/ k # n =>
           At(s, k)' = At(s, k) /\ Edges(s, k)' = Edges(s, k)
  <2>1. frames # <<>>
    BY <1>1
  <2>2. offset' = offset
    BY <1>1
  <2>3. adj' = [adj EXCEPT ![i] = es]
    BY <1>1, <1>2
  <2>4. d \in Stmt
    BY <1>2
  <2>5. n \in Nat
    BY <1>2
  <2>6. d = Top.stmt
    OBVIOUS
  <2>7. n = Top.k
    OBVIOUS
  <2>. QED BY <2>1, <2>2, <2>3, <2>4, <2>5, <2>6, <2>7, EdgesStep
<1>5. /\ \A b : b \in Edges(d, n) <=> \E h \in 1 .. Len(old) : old[h] = b
      /\ \A b : b \in Edges(d, n)' <=> \E h \in 1 .. j : es[h] = b
  <2>1. \A b : b \in ToSet(old) <=> \E h \in 1 .. Len(old) : old[h] = b
    BY <1>2, InToSet
  <2>2. \A b : b \in ToSet(es) <=> \E h \in 1 .. Len(es) : es[h] = b
    BY <1>3, InToSet
  <2>. HIDE DEF ToSet
  <2>. QED BY <1>1, <1>3, <1>4, <2>1, <2>2
<1>6. RefInv(Top) /\ Visiting(Top) = {}
  BY <1>1, <1>2 DEF RefsInv, Visiting, Top
<1>7. ASSUME NEW b \in Edges(d, n), b[1] < base PROVE b \in Edges(d, n)'
  <2>1. PICK h \in 1 .. Len(old) : old[h] = b
    BY <1>5
  <2>2. old[h] \in AnyEdge
    BY <1>2
  <2>3. b[1] \in Nat \cup {-1}
    BY <2>1, <2>2 DEF AnyEdge
  <2>4. h <= j
    <3>1. ASSUME j < h PROVE FALSE
      <4>1. h \in j + 1 .. Len(At(d, n))
        BY <1>2, <3>1
      <4>2. base <= old[h][1]
        BY <1>1, <1>2, <1>6, <4>1 DEF RefInv
      <4>. QED BY <1>2, <1>7, <2>1, <2>3, <4>2
    <3>. QED BY <1>2, <3>1
  <2>5. h \in 1 .. j
    BY <2>4
  <2>. QED BY <1>3, <1>5, <2>1, <2>5
<1>8. ASSUME NEW c \in ToSet(compiled[d].adj[n]), base < c[2], NEW x \in EndingAt(d, c[3])
      PROVE  Ended(d, c[3], x)
  <2>1. Replacing(Top, c)
    BY <1>6, <1>1 DEF RefInv
  <2>2. ASSUME NEW h \in 1 .. j, old[h] = Moved(d, c) PROVE FALSE
    <3>1. es[h] \in ToSet(es)
      BY <1>3, InToSet
    <3>2. old[h][2] <= base
      BY <1>3, <3>1
    <3>3. old[h][2] = c[2] /\ c[2] \in Nat
      BY <1>2, <2>2, CompiledEdges DEF Moved
    <3>. QED BY <1>2, <1>8, <3>2, <3>3
  <2>. QED BY <1>1, <1>2, <1>6, <1>8, <2>1, <2>2 DEF Replacing
<1>9. ASSUME NEW c \in ToSet(compiled[d].adj[n]), c[1] < base
      PROVE  Moved(d, c) \in Edges(d, n)' \/ (base < c[2] /\ Shortened(d, c) \in Edges(d, n)')
  <2>1. Moved(d, c) \in Edges(d, n) \/ (base < c[2] /\ Shortened(d, c) \in Edges(d, n))
    BY <1>1, <1>9 DEF OwnInv, Owning
  <2>2. Moved(d, c)[1] = c[1] /\ Shortened(d, c)[1] = c[1]
    BY DEF Moved, Shortened
  <2>. QED BY <1>7, <1>9, <2>1, <2>2
<1>10. \A s \in Allocated : \A k \in Local(s) : \A e \in Edges(s, k) : e[1] = -1 \/ s # d \/ k # n => e \in Edges(s, k)'
  BY <1>2, <1>4, <1>7
<1>11. compiled' = compiled /\ offset' = offset
  BY <1>1
<1>12. \A c \in ToSet(compiled[d].adj[n]) : c[1] < collapse_label_base =>
         \/ Moved(d, c) \in Edges(d, n)'
         \/ collapse_label_base < c[2] /\ Shortened(d, c) \in Edges(d, n)'
  BY <1>1, <1>9
<1>13. \A c \in ToSet(compiled[d].adj[n]) : collapse_label_base < c[2] =>
         \A x \in EndingAt(d, c[3]) : Ended(d, c[3], x)
  BY <1>1, <1>8
<1>14. \A s \in Allocated : \A k \in Local(s) :
         /\ \A b \in Edges(s, k) : b[1] = -1 \/ s # d \/ k # n => b \in Edges(s, k)'
         /\ Ahead(s, k)' => Ahead(s, k) /\ (s # d \/ k # n)
         /\ Passed(s, k)' => Passed(s, k) \/ (s = d /\ k = n)
         /\ \A x \in StartingAt(s, k) : StartDone(s, k, x)' => StartDone(s, k, x)
  BY <1>10
<1>15. Passed(d, n)' => \A c \in ToSet(compiled[d].adj[n]) : collapse_label_base < c[2] =>
                           \A x \in EndingAt(d, c[3]) : Ended(d, c[3], x)
  BY <1>13
<1>. QED BY <1>11, <1>12, <1>14, <1>15, RefsKept

LEMMA ReturnComplete ==
  ASSUME IInv, OwnInv, StartInv, EndInv, RefsInv, NextState, ~ (Top.k + 1 < Size(Top.stmt))
  PROVE  OwnInv' /\ StartInv' /\ EndInv' /\ RefsInv'
<1>1. PICK d, n :
        /\ d = Top.stmt /\ n = Top.k /\ frames # <<>> /\ Top.phase = "refs" /\ compiled' = compiled
        /\ frames' = Front(frames)
  BY DEF NextState, InRefs
<1>2. /\ d \in Stmt /\ d \in Allocated /\ n \in Nat /\ n \in Local(d) /\ n < Size(d) /\ Size(d) \in Nat
      /\ Local(d) = 0 .. Size(d) - 1 /\ n = Size(d) - 1
      /\ frames \in Seq(Call) /\ Len(frames) \in DOMAIN frames /\ DOMAIN frames = 1 .. Len(frames)
      /\ \A m \in DOMAIN frames : m # Len(frames) => frames[m].stmt # d
  <2>1. Top.k \in Nat /\ Top.k < Size(Top.stmt) /\ Size(Top.stmt) \in Nat
    BY <1>1, TopProps
  <2>2. Top.k = Size(Top.stmt) - 1
    BY <2>1
  <2>. QED BY <1>1, <2>2, TopProps
<1>3. /\ DOMAIN frames' = 1 .. Len(frames) - 1 /\ Len(frames') = Len(frames) - 1
      /\ \A m \in DOMAIN frames' : m \in DOMAIN frames /\ m # Len(frames) /\ frames'[m] = frames[m]
      /\ \A m \in DOMAIN frames : m # Len(frames) => m \in DOMAIN frames'
  <2>1. Len(frames) \in Nat /\ Len(frames) > 0
    BY <1>2
  <2>2. Front(frames) = SubSeq(frames, 1, Len(frames) - 1)
    BY DEF Front
  <2>. QED BY <1>1, <1>2, <2>1, <2>2
<1>4. \A m \in DOMAIN frames : frames[m].stmt = d => m = Len(frames) /\ frames[m].k = n /\ frames[m].phase = "refs"
  BY <1>1, <1>2 DEF Top
<1>5. ASSUME NEW s \in Allocated, NEW k \in Local(s)
      PROVE  /\ Ahead(s, k)' => Ahead(s, k) /\ (s # d \/ k # n)
             /\ Passed(s, k)' => Passed(s, k) \/ (s = d /\ k = n)
             /\ \A x \in StartingAt(s, k) : StartDone(s, k, x)' => StartDone(s, k, x)
  <2>1. CASE s = d
    <3>1. ~ Ahead(s, k)'
      BY <1>2, <1>3, <2>1 DEF Ahead
    <3>2. k \in Nat /\ k <= n
      BY <1>2, <2>1
    <3>3. k # n => Passed(s, k)
      BY <1>2, <1>4, <2>1, <3>2 DEF Passed
    <3>4. ASSUME NEW x PROVE StartDone(s, k, x)
      BY <1>2, <1>4, <2>1, <3>2 DEF StartDone, Behind
    <3>. QED BY <2>1, <3>1, <3>3, <3>4
  <2>2. CASE s # d
    <3>1. \A m \in DOMAIN frames : frames[m].stmt = s => m \in DOMAIN frames' /\ frames'[m] = frames[m]
      BY <1>1, <1>3, <2>2 DEF Top
    <3>2. \A m \in DOMAIN frames' : m \in DOMAIN frames /\ frames'[m] = frames[m]
      BY <1>3
    <3>3. Ahead(s, k)' => Ahead(s, k)
      BY <3>2 DEF Ahead
    <3>4. Passed(s, k)' => Passed(s, k)
      BY <3>1 DEF Passed
    <3>5. ASSUME NEW x, StartDone(s, k, x)' PROVE StartDone(s, k, x)
      BY <3>1, <3>5 DEF StartDone, Behind, Visiting
    <3>. QED BY <2>2, <3>3, <3>4, <3>5
  <2>. QED BY <2>1, <2>2
<1>6. OwnInv' /\ StartInv' /\ EndInv'
  BY <1>1, <1>2, <1>5, CutComplete
<1>7. \A m \in DOMAIN frames' : frames'[m].phase # "refs"
  BY <1>3 DEF RefsInv
<1>8. RefsInv'
  BY <1>7 DEF RefsInv, RefInv
<1>. QED BY <1>6, <1>8

LEMMA GoOnComplete ==
  ASSUME IInv, OwnInv, StartInv, EndInv, RefsInv, NextState, Top.k + 1 < Size(Top.stmt)
  PROVE  OwnInv' /\ StartInv' /\ EndInv' /\ RefsInv'
<1>1. PICK d, n, f :
        /\ d = Top.stmt /\ n = Top.k /\ frames # <<>> /\ Top.phase = "refs"
        /\ compiled' = compiled /\ offset' = offset
        /\ f = AtState(d, n + 1) /\ frames' = Replaced(f)
  BY DEF NextState, InRefs
<1>2. /\ d \in Stmt /\ d \in Allocated /\ n \in Nat /\ n \in Local(d) /\ n + 1 < Size(d) /\ Size(d) \in Nat
      /\ Local(d) = 0 .. Size(d) - 1 /\ compiled \in [Stmt -> FsaAnnos] /\ n + 1 \in Local(d)
  <2>1. /\ d \in Stmt /\ d \in Allocated /\ n \in Nat /\ n \in Local(d) /\ n + 1 < Size(d) /\ Size(d) \in Nat
        /\ Local(d) = 0 .. Size(d) - 1 /\ compiled \in [Stmt -> FsaAnnos]
    BY <1>1, TopProps DEF IInv, TypeInv
  <2>. QED BY <2>1
<1>3. StartingAt(d, n + 1) \in SUBSET Reference
  BY <1>2, AnnoProps
<1>4. /\ f \in Call /\ f.stmt = d /\ f.k = n + 1 /\ f.phase = "starts" /\ Visiting(f) = StartingAt(d, n + 1)
  <2>1. /\ f \in Call /\ f.stmt = d /\ f.k = n + 1 /\ f.phase = "starts" /\ f.at = <<>>
        /\ f.todo = StartingAt(d, n + 1)
    <3>1. n + 1 \in Nat
      BY <1>2
    <3>. QED BY <1>1, <1>2, <1>3, <3>1 DEF AtState, Call
  <2>. QED BY <2>1 DEF Visiting
<1>5. /\ DOMAIN frames' = DOMAIN frames /\ frames'[Len(frames)] = f /\ Len(frames) \in DOMAIN frames
      /\ \A m \in DOMAIN frames : m # Len(frames) => frames'[m] = frames[m] /\ frames[m].stmt # d
      /\ frames[Len(frames)] = Top
  BY <1>1, <1>4, FramesOf DEF Top
<1>6. \A m \in DOMAIN frames : frames[m].stmt = d => m = Len(frames) /\ frames[m].k = n /\ frames[m].phase = "refs"
  BY <1>1, <1>5
<1>7. \A m \in DOMAIN frames : frames'[m].stmt = d => m = Len(frames) /\ frames'[m] = f
  BY <1>5
<1>8. ASSUME NEW s \in Allocated, NEW k \in Local(s)
      PROVE  /\ Ahead(s, k)' => Ahead(s, k) /\ (s # d \/ k # n)
             /\ Passed(s, k)' => Passed(s, k) \/ (s = d /\ k = n)
             /\ \A x \in StartingAt(s, k) : StartDone(s, k, x)' => StartDone(s, k, x)
  <2>1. CASE s = d
    <3>1. k \in Nat
      BY <1>2, <2>1
    <3>2. Ahead(s, k)' => n < k
      BY <1>2, <1>4, <1>5, <1>7, <2>1, <3>1 DEF Ahead
    <3>3. n < k => Ahead(s, k)
      BY <1>1, <1>5, <2>1 DEF Ahead
    <3>4. Passed(s, k)' => k < n + 1
      BY <1>1, <1>4, <1>5, <2>1 DEF Passed
    <3>5. k < n => Passed(s, k)
      BY <1>6, <2>1 DEF Passed
    <3>6. ASSUME NEW x \in StartingAt(s, k), StartDone(s, k, x)' PROVE StartDone(s, k, x)
      <4>1. (Behind(f, k, x))'
        BY <1>4, <1>5, <2>1, <3>6 DEF StartDone
      <4>2. k <= n
        <5>1. k < n + 1 \/ (k = n + 1 /\ x \notin Visiting(f))
          BY <1>4, <4>1 DEF Behind, Visiting
        <5>. QED BY <1>2, <1>4, <2>1, <3>1, <3>6, <5>1
      <4>. QED BY <1>2, <1>6, <2>1, <3>1, <4>2 DEF StartDone, Behind
    <3>. QED BY <1>2, <2>1, <3>1, <3>2, <3>3, <3>4, <3>5, <3>6
  <2>2. CASE s # d
    <3>1. \A m \in DOMAIN frames : frames[m].stmt = s => m \in DOMAIN frames' /\ frames'[m] = frames[m]
      BY <1>1, <1>5, <2>2
    <3>2. \A m \in DOMAIN frames' : frames'[m].stmt = s => m \in DOMAIN frames /\ frames'[m] = frames[m]
      BY <1>4, <1>5, <2>2
    <3>3. Ahead(s, k)' => Ahead(s, k)
      BY <3>2 DEF Ahead
    <3>4. Passed(s, k)' => Passed(s, k)
      BY <3>1 DEF Passed
    <3>5. ASSUME NEW x, StartDone(s, k, x)' PROVE StartDone(s, k, x)
      BY <3>1, <3>5 DEF StartDone, Behind, Visiting
    <3>. QED BY <2>2, <3>3, <3>4, <3>5
  <2>. QED BY <2>1, <2>2
<1>9. OwnInv' /\ StartInv' /\ EndInv'
  BY <1>1, <1>2, <1>8, CutComplete
<1>10. RefInv(f)'
  BY <1>4 DEF RefInv
<1>. QED BY <1>1, <1>4, <1>9, <1>10, RefsStep

-----------------------------------------------------------------------------
(* What has been done so far is complete, in every reachable state.        *)
THEOREM Complete == Spec => []CompleteInv
<1>1. (\E x \in Stmt : InitFrom([Stmt -> FsaAnnos], x)) => CompleteInv
  <2>1. ASSUME NEW x \in Stmt, InitFrom([Stmt -> FsaAnnos], x) PROVE CompleteInv
    <3>1. Allocated = {} /\ DOMAIN frames = {}
      BY <2>1 DEF InitFrom, Allocated
    <3>. QED BY <3>1 DEF CompleteInv, OwnInv, StartInv, EndInv, RefsInv
  <2>. QED BY <2>1
<1>2. IInv /\ CompleteInv /\ [Next]_vars => CompleteInv'
  <2>1. compiled' = compiled \/ ~ [Next]_vars
    BY DEF Next, Laying, Finished, Begin, Visit, LinkStart, BeginRefs, TakeRef, LinkEnd, NextState, Allocate, vars
  <2>2. SUFFICES ASSUME IInv, [Next]_vars, AllWellTagged(compiled), OwnInv, StartInv, EndInv, RefsInv
                 PROVE  OwnInv' /\ StartInv' /\ EndInv' /\ RefsInv'
    <3>1. CompleteInv' = (AllWellTagged(compiled') => OwnInv' /\ StartInv' /\ EndInv' /\ RefsInv')
      BY DEF CompleteInv, AllWellTagged, WellTagged, CollapsesInto, collapse_label_base
    <3>. QED BY <2>1, <3>1 DEF CompleteInv
  <2>3. CASE Begin
    BY <2>2, <2>3, BeginComplete
  <2>4. CASE frames # <<>> /\ \E x \in Top.todo : Visit(x)
    <3>1. PICK x \in Top.todo : Visit(x)
      BY <2>4
    <3>2. CASE offset[Referred(x)] = None
      BY <2>2, <2>4, <3>1, <3>2, VisitNewComplete
    <3>3. CASE offset[Referred(x)] # None
      BY <2>2, <2>4, <3>1, <3>3, VisitOldComplete
    <3>. QED BY <3>2, <3>3
  <2>5. CASE LinkStart
    BY <2>2, <2>5, LinkStartComplete
  <2>6. CASE BeginRefs
    BY <2>2, <2>6, BeginRefsComplete
  <2>7. CASE TakeRef
    BY <2>2, <2>7, TakeRefComplete
  <2>8. CASE LinkEnd
    BY <2>2, <2>8, LinkEndComplete
  <2>9. CASE NextState
    <3>1. CASE Top.k + 1 < Size(Top.stmt)
      BY <2>2, <2>9, <3>1, GoOnComplete
    <3>2. CASE ~ (Top.k + 1 < Size(Top.stmt))
      BY <2>2, <2>9, <3>2, ReturnComplete
    <3>. QED BY <3>1, <3>2
  <2>10. CASE UNCHANGED vars
    <3>1. /\ compiled' = compiled /\ offset' = offset /\ frames' = frames /\ adj' = adj
      BY <2>10 DEF vars
    <3>2. OwnInv'
      BY <2>2, <3>1 DEF OwnInv, Owning, Allocated, Local, Moved, Shortened, Edges, Ahead, collapse_label_base
    <3>3. StartInv'
      BY <2>2, <3>1 DEF StartInv, Allocated, Local, StartingAt, StartDone, Behind, Visiting, StartEps, Edges
    <3>4. EndInv'
      BY <2>2, <3>1 DEF EndInv, Allocated, Local, EndingAt, Passed, Ended, Edges, collapse_label_base
    <3>5. RefsInv'
      <4>1. \A f, c : Replacing(f, c)' = Replacing(f, c)
        BY <3>1 DEF Replacing, EndingAt, Ended, Edges, At, Moved, Visiting, collapse_label_base
      <4>2. \A f : RefInv(f)' = RefInv(f)
        BY <3>1, <4>1 DEF RefInv, At, collapse_label_base
      <4>. QED BY <2>2, <3>1, <4>2 DEF RefsInv
    <3>. QED BY <3>2, <3>3, <3>4, <3>5
  <2>. QED BY <2>2, <2>3, <2>4, <2>5, <2>6, <2>7, <2>8, <2>9, <2>10 DEF Next, Laying, Finished
<1>. QED BY <1>1, <1>2, Invariance, PTL DEF Spec

(* No edge is lost and every epsilon is there, when a collapse that ends   *)
(* in a state starts wherever its edges lead there from                    *)
(* (compiler.cc 586-637).                                                  *)
THEOREM EdgesCompleteAlways == Spec => []EdgesComplete
<1>1. IInv /\ CompleteInv => EdgesComplete
  <2>. SUFFICES ASSUME IInv, CompleteInv, Done, AllWellTagged(compiled),
                       NEW s \in Allocated, NEW k \in Local(s)
                PROVE  OwnEdges(s, k) \cup Epsilons(s, k) \subseteq Edges(s, k)
    BY DEF EdgesComplete
  <2>1. /\ OwnInv /\ StartInv /\ EndInv /\ DOMAIN frames = {} /\ EdgesInv
        /\ compiled \in [Stmt -> FsaAnnos] /\ offset \in [Stmt -> Nat \cup {None}]
        /\ \A d \in Allocated : d \in Stmt
    BY DEF CompleteInv, Done, IInv, TypeInv, Allocated
  <2>2. \A d, n : Passed(d, n) /\ \A x : StartDone(d, n, x)
    BY <2>1 DEF Passed, StartDone
  <2>3. \A e \in Edges(s, k) : e[2] <= collapse_label_base
    BY <2>1, <2>2 DEF EdgesInv, StateInv
  <2>4. ASSUME NEW e \in OwnEdges(s, k) PROVE e \in Edges(s, k)
    <3>1. PICK r \in ToSet(EdgesOf(s, k, offset[s])) :
            /\ r[1] < collapse_label_base
            /\ e = <<r[1], IF r[2] < collapse_label_base THEN r[2] ELSE collapse_label_base, r[3]>>
      BY <2>4 DEF OwnEdges
    <3>2. offset[s] \in Nat
      BY <2>1 DEF Allocated, None
    <3>3. PICK c : c \in ToSet(compiled[s].adj[k]) /\ r = Moved(s, c)
      <4>1. PICK es : es = compiled[s].adj[k]
        OBVIOUS
      <4>2. /\ EdgesOf(s, k, offset[s]) \in Seq(AnyEdge) /\ Len(EdgesOf(s, k, offset[s])) = Len(es)
            /\ \A j \in 1 .. Len(es) : EdgesOf(s, k, offset[s])[j] = <<es[j][1], es[j][2], es[j][3] + offset[s]>>
        BY <2>1, <3>2, <4>1, EdgesOfProps
      <4>3. PICK j \in 1 .. Len(es) : EdgesOf(s, k, offset[s])[j] = r
        BY <3>1, <4>2, InToSet
      <4>4. es \in Seq(Edge(Size(s)))
        BY <2>1, <4>1, AnnoProps
      <4>5. es[j] \in ToSet(es)
        BY <4>4, InToSet
      <4>. QED BY <4>1, <4>2, <4>3, <4>5 DEF Moved
    <3>4. c[1] \in Nat /\ c[2] \in Nat
      BY <2>1, <3>3, CompiledEdges
    <3>5. PICK b \in Nat : b = collapse_label_base
      BY ExportAssumption DEF collapse_label_base
    <3>6. r = <<c[1], c[2], c[3] + offset[s]>> /\ Shortened(s, c) = <<c[1], b, c[3] + offset[s]>>
      BY <3>3, <3>5 DEF Moved, Shortened
    <3>7. r \in Edges(s, k) \/ (b < c[2] /\ Shortened(s, c) \in Edges(s, k))
      <4>1. Owning(s, k, c)
        BY <2>1, <3>3 DEF OwnInv
      <4>2. c[1] < collapse_label_base
        BY <3>1, <3>6
      <4>. QED BY <3>3, <3>5, <4>1, <4>2 DEF Owning
    <3>8. e = IF c[2] <= b THEN r ELSE Shortened(s, c)
      BY <3>1, <3>4, <3>5, <3>6
    <3>. QED BY <2>3, <3>4, <3>5, <3>6, <3>7, <3>8
  <2>5. ASSUME NEW x \in StartingAt(s, k), Kind(x) = "collapse"
        PROVE  EpsilonTo(offset[Referred(x)] + compiled[Referred(x)].start) \in Edges(s, k)
    BY <2>1, <2>2, <2>5 DEF StartInv, StartEps
  <2>6. ASSUME k \in compiled[s].finals, NEW d \in Allocated, NEW v \in Local(d), NEW x \in EndingAt(d, v),
               Referred(x) = s
        PROVE  EpsilonTo(offset[d] + v) \in Edges(s, k)
    <3>1. PICK t \in compiled[d].assoc[v] : t[2] = "final" /\ Kind(t[1]) = "collapse"
      BY DEF EndingAt
    <3>2. CollapsesInto(compiled[d], v) # {}
      BY <2>1, <3>1 DEF AllWellTagged, WellTagged, Local
    <3>3. PICK n \in Local(d) : \E c \in ToSet(compiled[d].adj[n]) : collapse_label_base < c[2] /\ c[3] = v
      BY <3>2 DEF CollapsesInto, Local
    <3>4. PICK c \in ToSet(compiled[d].adj[n]) : collapse_label_base < c[2] /\ c[3] = v
      BY <3>3
    <3>5. Ended(d, c[3], x)
      BY <2>1, <2>2, <3>4 DEF EndInv
    <3>. QED BY <2>6, <3>4, <3>5 DEF Ended
  <2>7. ASSUME NEW e \in Epsilons(s, k) PROVE e \in Edges(s, k)
    <3>1. \/ \E x \in StartingAt(s, k) :
               Kind(x) = "collapse" /\ e = EpsilonTo(offset[Referred(x)] + compiled[Referred(x)].start)
          \/ /\ k \in compiled[s].finals
             /\ \E d \in Allocated : \E v \in Local(d) :
                  (\E x \in EndingAt(d, v) : Referred(x) = s) /\ e = EpsilonTo(offset[d] + v)
      BY <2>7 DEF Epsilons
    <3>. QED BY <2>5, <2>6, <3>1
  <2>. QED BY <2>4, <2>7
<1>. QED BY <1>1, Invariance, Complete, PTL
=============================================================================
