---------------------------- MODULE WithinProofs ----------------------------
(***************************************************************************)
(* For any number of expressions: find_lca is the lowest common ancestor,  *)
(* find_within gives what is around the expressions of a state, and an     *)
(* edge runs the actions of what it leaves, enters or stays in.            *)
(***************************************************************************)
EXTENDS Within, LeastLemmas, SequenceTheorems

-----------------------------------------------------------------------------
(* Induction, over the numbers in a set.                                   *)
LEMMA InductionUp ==
  ASSUME NEW n \in Nat, NEW S, 0 \in S, \A i \in 0 .. n : i < n /\ i \in S => i + 1 \in S
  PROVE  \A i \in 0 .. n : i \in S
<1>. DEFINE B == {i \in 0 .. n : i \notin S}
<1>. SUFFICES ASSUME B # {} PROVE FALSE
  OBVIOUS
<1>1. B \in SUBSET Nat
  OBVIOUS
<1>. HIDE DEF B
<1>2. Min(B) \in B /\ \A x \in B : Min(B) <= x
  BY <1>1, MinProps
<1>3. PICK m \in B : \A x \in B : m <= x
  BY <1>2
<1>4. m \in 0 .. n /\ m \notin S
  BY DEF B
<1>5. m - 1 \in 0 .. n /\ m - 1 < n /\ m - 1 \in S
  BY <1>3, <1>4 DEF B
<1>. QED BY <1>4, <1>5

LEMMA InductionDown ==
  ASSUME NEW n \in Nat, NEW S, n \in S, \A i \in 0 .. n : i < n /\ i + 1 \in S => i \in S
  PROVE  \A i \in 0 .. n : i \in S
<1>. DEFINE T == {i \in 0 .. n : n - i \in S}
<1>1. 0 \in T
  OBVIOUS
<1>2. \A i \in 0 .. n : i < n /\ i \in T => i + 1 \in T
  <2>. SUFFICES ASSUME NEW i \in 0 .. n, i < n, i \in T PROVE i + 1 \in T
    OBVIOUS
  <2>1. n - i = (n - (i + 1)) + 1 /\ n - (i + 1) \in 0 .. n /\ n - (i + 1) < n
    OBVIOUS
  <2>. QED BY <2>1
<1>. HIDE DEF T
<1>3. \A i \in 0 .. n : i \in T
  BY <1>1, <1>2, InductionUp
<1>4. ASSUME NEW i \in 0 .. n PROVE i \in S
  <2>1. n - i \in 0 .. n /\ n - (n - i) = i
    OBVIOUS
  <2>. QED BY <1>3, <2>1 DEF T
<1>. QED BY <1>4

LEMMA InductionStrong ==
  ASSUME NEW S, \A i \in Nat : (\A j \in Nat : j < i => j \in S) => i \in S
  PROVE  \A i \in Nat : i \in S
<1>. DEFINE B == {i \in Nat : i \notin S}
<1>. SUFFICES ASSUME B # {} PROVE FALSE
  OBVIOUS
<1>1. B \in SUBSET Nat
  OBVIOUS
<1>. HIDE DEF B
<1>2. Min(B) \in B /\ \A x \in B : Min(B) <= x
  BY <1>1, MinProps
<1>3. PICK m \in B : \A x \in B : m <= x
  BY <1>2
<1>. QED BY <1>3 DEF B

(* A recursive function exists when each step stays where the next one can *)
(* be taken: W[i] holds what the value for i may be.                       *)
RecUp(n, v, g, f) == f = [i \in 0 .. n |-> IF i = 0 THEN v ELSE g[<<i, f[i - 1]>>]]
RecDown(n, v, g, f) == f = [i \in 0 .. n |-> IF i = n THEN v ELSE g[<<i, f[i + 1]>>]]
Stays(n, W, f) == \A i \in 0 .. n : f[i] \in W[i]

LEMMA RecursionUp ==
  ASSUME NEW n \in Nat, NEW W, NEW g, NEW v, v \in W[0],
         \A i \in 1 .. n : \A x \in W[i - 1] : g[<<i, x>>] \in W[i]
  PROVE  \E f : RecUp(n, v, g, f) /\ Stays(n, W, f)
<1>. DEFINE S == {m \in 0 .. n : \E f : RecUp(m, v, g, f) /\ Stays(m, W, f)}
<1>1. 0 \in S
  <2>. DEFINE f == [i \in 0 .. 0 |-> v]
  <2>1. f = [i \in 0 .. 0 |-> IF i = 0 THEN v ELSE g[<<i, f[i - 1]>>]]
    OBVIOUS
  <2>2. \A i \in 0 .. 0 : f[i] \in W[i]
    OBVIOUS
  <2>3. RecUp(0, v, g, f) /\ Stays(0, W, f)
    BY <2>1, <2>2 DEF RecUp, Stays
  <2>. HIDE DEF f
  <2>. QED BY <2>3
<1>2. ASSUME NEW m \in 0 .. n, m < n, m \in S PROVE m + 1 \in S
  <2>1. PICK f : RecUp(m, v, g, f) /\ Stays(m, W, f)
    BY <1>2
  <2>2. /\ f = [i \in 0 .. m |-> IF i = 0 THEN v ELSE g[<<i, f[i - 1]>>]]
        /\ \A i \in 0 .. m : f[i] \in W[i]
    BY <2>1 DEF RecUp, Stays
  <2>. DEFINE h == [i \in 0 .. m + 1 |-> IF i = m + 1 THEN g[<<i, f[m]>>] ELSE f[i]]
  <2>3. h[m + 1] = g[<<m + 1, f[m]>>]
    OBVIOUS
  <2>4. \A i \in 0 .. m : h[i] = f[i]
    OBVIOUS
  <2>5. h = [i \in 0 .. m + 1 |-> h[i]]
    OBVIOUS
  <2>. HIDE DEF h
  <2>6. h[m + 1] \in W[m + 1]
    <3>1. m + 1 \in 1 .. n /\ (m + 1) - 1 = m /\ f[m] \in W[m]
      BY <1>2, <2>2
    <3>. QED BY <2>3, <3>1
  <2>7. ASSUME NEW i \in 0 .. m + 1
        PROVE  h[i] = (IF i = 0 THEN v ELSE g[<<i, h[i - 1]>>]) /\ h[i] \in W[i]
    <3>1. CASE i = m + 1
      <4>1. (m + 1) - 1 = m /\ m \in 0 .. m /\ i # 0
        BY <3>1
      <4>. QED BY <2>3, <2>4, <2>6, <3>1, <4>1
    <3>2. CASE i = 0
      <4>1. 0 \in 0 .. m
        OBVIOUS
      <4>2. f[0] = v
        BY <2>2, <4>1
      <4>. QED BY <2>2, <2>4, <3>2, <4>1, <4>2
    <3>3. CASE i # m + 1 /\ i # 0
      <4>1. i \in 0 .. m /\ i - 1 \in 0 .. m
        BY <3>3
      <4>. QED BY <2>2, <2>4, <3>3, <4>1
    <3>. QED BY <3>1, <3>2, <3>3
  <2>8. RecUp(m + 1, v, g, h) /\ Stays(m + 1, W, h)
    BY <2>5, <2>7 DEF RecUp, Stays
  <2>9. m + 1 \in 0 .. n
    BY <1>2
  <2>. QED BY <2>8, <2>9
<1>. HIDE DEF S
<1>3. n \in S
  BY <1>1, <1>2, InductionUp
<1>. QED BY <1>3 DEF S

LEMMA RecursionDown ==
  ASSUME NEW n \in Nat, NEW W, NEW g, NEW v, v \in W[n],
         \A i \in 0 .. n - 1 : \A x \in W[i + 1] : g[<<i, x>>] \in W[i]
  PROVE  \E f : RecDown(n, v, g, f) /\ Stays(n, W, f)
<1>. DEFINE U == [i \in 0 .. n |-> W[n - i]]
            Around == UNION {U[i] : i \in 0 .. n}
            r == [p \in (1 .. n) \X Around |-> g[<<n - p[1], p[2]>>]]
<1>0. \A i \in 0 .. n : U[i] = W[n - i] /\ U[i] \subseteq Around
  OBVIOUS
<1>. HIDE DEF U, Around
<1>1. v \in U[0]
  BY <1>0
<1>2. ASSUME NEW i \in 1 .. n, NEW x \in U[i - 1] PROVE r[<<i, x>>] = g[<<n - i, x>>] /\ r[<<i, x>>] \in U[i]
  <2>0. i - 1 \in 0 .. n /\ i \in 0 .. n
    OBVIOUS
  <2>1. <<i, x>> \in (1 .. n) \X Around
    BY <1>0, <2>0
  <2>2. r[<<i, x>>] = g[<<n - i, x>>]
    BY <2>1
  <2>3. n - i \in 0 .. n - 1 /\ (n - i) + 1 = n - (i - 1)
    OBVIOUS
  <2>4. x \in W[(n - i) + 1]
    BY <1>0, <2>0, <2>3
  <2>5. g[<<n - i, x>>] \in W[n - i]
    BY <2>3, <2>4
  <2>. QED BY <1>0, <2>0, <2>2, <2>5
<1>. HIDE DEF r
<1>3. PICK f : RecUp(n, v, r, f) /\ Stays(n, U, f)
  BY <1>1, <1>2, RecursionUp
<1>4. /\ f = [i \in 0 .. n |-> IF i = 0 THEN v ELSE r[<<i, f[i - 1]>>]]
      /\ \A i \in 0 .. n : f[i] \in U[i]
  BY <1>3 DEF RecUp, Stays
<1>. DEFINE h == [i \in 0 .. n |-> f[n - i]]
<1>5. ASSUME NEW i \in 0 .. n PROVE h[i] = (IF i = n THEN v ELSE g[<<i, h[i + 1]>>]) /\ h[i] \in W[i]
  <2>1. n - i \in 0 .. n /\ n - (n - i) = i /\ h[i] = f[n - i]
    OBVIOUS
  <2>2. h[i] \in W[i]
    BY <1>0, <1>4, <2>1
  <2>3. CASE i = n
    BY <1>4, <2>1, <2>3
  <2>4. CASE i # n
    <3>1. h[i + 1] = f[(n - i) - 1] /\ n - i \in 1 .. n
      <4>1. i + 1 \in 0 .. n /\ n - (i + 1) = (n - i) - 1
        BY <2>4
      <4>. QED BY <4>1, <2>4
    <3>. DEFINE m == n - i
    <3>2. m \in 1 .. n /\ m - 1 \in 0 .. n /\ m \in 0 .. n /\ m # 0
      BY <3>1
    <3>. HIDE DEF m
    <3>3. f[m] = r[<<m, f[m - 1]>>] /\ f[m - 1] \in U[m - 1]
      BY <1>4, <3>2
    <3>4. f[m] = g[<<n - m, f[m - 1]>>]
      BY <1>2, <3>2, <3>3
    <3>. QED BY <2>1, <2>2, <2>4, <3>1, <3>4 DEF m
  <2>. QED BY <2>2, <2>3, <2>4
<1>6. h = [i \in 0 .. n |-> IF i = n THEN v ELSE g[<<i, h[i + 1]>>]]
  BY <1>5
<1>. QED BY <1>5, <1>6 DEF RecDown, Stays

-----------------------------------------------------------------------------
(* Powers of two.                                                          *)
LEMMA BitDefined == Bit = [k \in Nat |-> IF k = 0 THEN 1 ELSE 2 * Bit[k - 1]]
<1>. DEFINE Is(n, f) == f = [k \in 0 .. n |-> IF k = 0 THEN 1 ELSE 2 * f[k - 1]]
<1>1. ASSUME NEW n \in Nat PROVE \E f : Is(n, f)
  <2>. DEFINE g == [p \in Nat \X Nat |-> 2 * p[2]]
              W == [i \in 0 .. n |-> Nat]
  <2>0. \A i \in 0 .. n : W[i] = Nat
    OBVIOUS
  <2>1. \A i \in 1 .. n : \A x \in W[i - 1] : g[<<i, x>>] = 2 * x /\ g[<<i, x>>] \in W[i]
    OBVIOUS
  <2>2. 1 \in W[0]
    OBVIOUS
  <2>. HIDE DEF g, W
  <2>3. PICK f : RecUp(n, 1, g, f) /\ Stays(n, W, f)
    BY <2>1, <2>2, RecursionUp
  <2>4. /\ f = [i \in 0 .. n |-> IF i = 0 THEN 1 ELSE g[<<i, f[i - 1]>>]]
        /\ \A i \in 0 .. n : f[i] \in W[i]
    BY <2>3 DEF RecUp, Stays
  <2>5. ASSUME NEW i \in 0 .. n PROVE f[i] = IF i = 0 THEN 1 ELSE 2 * f[i - 1]
    <3>1. CASE i = 0
      BY <2>4, <3>1
    <3>2. CASE i # 0
      <4>1. i \in 1 .. n /\ i - 1 \in 0 .. n
        BY <3>2
      <4>. QED BY <2>0, <2>1, <2>4, <3>2, <4>1
    <3>. QED BY <3>1, <3>2
  <2>6. Is(n, f)
    BY <2>4, <2>5
  <2>. QED BY <2>6
<1>2. ASSUME NEW n \in Nat, NEW f, Is(n, f), NEW h, Is(n + 1, h) PROVE f[n] = h[n]
  <2>. DEFINE S == {k \in 0 .. n : f[k] = h[k]}
  <2>1. 0 \in S
    BY <1>2
  <2>2. \A k \in 0 .. n : k < n /\ k \in S => k + 1 \in S
    <3>. SUFFICES ASSUME NEW k \in 0 .. n, k < n, k \in S PROVE k + 1 \in S
      OBVIOUS
    <3>1. f[k + 1] = 2 * f[(k + 1) - 1] /\ h[k + 1] = 2 * h[(k + 1) - 1] /\ (k + 1) - 1 = k
      BY <1>2
    <3>. QED BY <3>1
  <2>. HIDE DEF S
  <2>3. n \in S
    BY <2>1, <2>2, InductionUp
  <2>. QED BY <2>3 DEF S
<1>. DEFINE F(n) == CHOOSE f : Is(n, f)
            b == [n \in Nat |-> F(n)[n]]
<1>3. \A n \in Nat : Is(n, F(n))
  BY <1>1
<1>4. ASSUME NEW n \in Nat PROVE b[n] = IF n = 0 THEN 1 ELSE 2 * b[n - 1]
  <2>1. CASE n = 0
    <3>1. F(0)[0] = 1
      <4>1. Is(0, F(0))
        BY <1>3
      <4>. HIDE DEF F
      <4>. QED BY <4>1
    <3>. QED BY <2>1, <3>1
  <2>2. CASE n # 0
    <3>1. n - 1 \in Nat /\ (n - 1) + 1 = n
      BY <2>2
    <3>2. Is(n - 1, F(n - 1)) /\ Is(n, F(n))
      BY <1>3, <3>1
    <3>3. F(n)[n - 1] = F(n - 1)[n - 1]
      <4>. HIDE DEF F, Is
      <4>. QED BY <1>2, <3>1, <3>2
    <3>4. F(n)[n] = 2 * F(n)[n - 1]
      <4>. HIDE DEF F
      <4>. QED BY <2>2, <3>2
    <3>. HIDE DEF F
    <3>. QED BY <2>2, <3>1, <3>3, <3>4
  <2>. QED BY <2>1, <2>2
<1>5. b = [k \in Nat |-> IF k = 0 THEN 1 ELSE 2 * b[k - 1]]
  <2>. HIDE DEF F
  <2>1. \A n \in Nat : b[n] = IF n = 0 THEN 1 ELSE 2 * b[n - 1]
    BY <1>4
  <2>2. b = [n \in Nat |-> b[n]]
    OBVIOUS
  <2>. HIDE DEF b
  <2>. QED BY <2>1, <2>2
<1>. HIDE DEF b
<1>. QED BY <1>5 DEF Bit

LEMMA BitStep == Bit[0] = 1 /\ \A k \in Nat : Bit[k + 1] = 2 * Bit[k]
<1>1. Bit[0] = 1
  BY BitDefined
<1>2. ASSUME NEW k \in Nat PROVE Bit[k + 1] = 2 * Bit[k]
  <2>1. k + 1 \in Nat /\ k + 1 # 0 /\ (k + 1) - 1 = k
    OBVIOUS
  <2>. QED BY <2>1, BitDefined
<1>. QED BY <1>1, <1>2

LEMMA BitNat == \A k \in Nat : Bit[k] \in Nat /\ k < Bit[k]
<1>. SUFFICES ASSUME NEW n \in Nat PROVE Bit[n] \in Nat /\ n < Bit[n]
  OBVIOUS
<1>. DEFINE S == {k \in Nat : Bit[k] \in Nat /\ k < Bit[k]}
<1>1. 0 \in S
  BY BitStep
<1>2. \A k \in 0 .. n : k < n /\ k \in S => k + 1 \in S
  BY BitStep
<1>. HIDE DEF S
<1>3. n \in S
  BY <1>1, <1>2, InductionUp
<1>. QED BY <1>3 DEF S

LEMMA BitMonotone == \A k, l \in Nat : k <= l => Bit[k] <= Bit[l]
<1>. SUFFICES ASSUME NEW k \in Nat, NEW l \in Nat, k <= l PROVE Bit[k] <= Bit[l]
  OBVIOUS
<1>. DEFINE S == {i \in Nat : Bit[k] <= Bit[k + i]}
<1>1. 0 \in S
  BY BitNat
<1>2. ASSUME NEW i \in 0 .. l - k, i < l - k, i \in S PROVE i + 1 \in S
  <2>1. Bit[k + i] \in Nat /\ Bit[(k + i) + 1] = 2 * Bit[k + i] /\ Bit[k] \in Nat
    BY BitStep, BitNat
  <2>2. Bit[k] <= Bit[(k + i) + 1]
    BY <1>2, <2>1
  <2>. QED BY <2>2
<1>. HIDE DEF S
<1>3. l - k \in S
  BY <1>1, <1>2, InductionUp
<1>4. k + (l - k) = l
  OBVIOUS
<1>. QED BY <1>3, <1>4 DEF S

LEMMA TopProps ==
  ASSUME NEW d \in Nat, d > 0
  PROVE  /\ Top(d) \in 0 .. d
         /\ Bit[Top(d)] <= d /\ d < Bit[Top(d) + 1]
         /\ \A k \in Nat : k <= Top(d) <=> Bit[k] <= d
<1>. DEFINE B == {k \in Nat : d < Bit[k + 1]}
<1>1. d \in B
  <2>1. d + 1 < Bit[d + 1] /\ Bit[d + 1] \in Nat
    BY BitNat
  <2>. QED BY <2>1
<1>2. B \in SUBSET Nat
  OBVIOUS
<1>. HIDE DEF B
<1>3. Min(B) \in B /\ \A x \in B : Min(B) <= x
  BY <1>1, <1>2, MinProps
<1>4. PICK m \in B : \A x \in B : m <= x
  BY <1>3
<1>5. m \in 0 .. d /\ d < Bit[m + 1]
  BY <1>1, <1>2, <1>4 DEF B
<1>6. Bit[m] <= d
  <2>1. CASE m = 0
    BY <2>1, BitStep
  <2>2. CASE m # 0
    <3>1. m - 1 \in Nat /\ m - 1 \notin B
      BY <1>4, <1>5, <2>2
    <3>2. (m - 1) + 1 = m /\ Bit[m] \in Nat
      BY <1>5, BitNat
    <3>. QED BY <3>1, <3>2 DEF B
  <2>. QED BY <2>1, <2>2
<1>7. Top(d) \in 0 .. d /\ Bit[Top(d)] <= d /\ d < Bit[Top(d) + 1]
  BY <1>5, <1>6 DEF Top
<1>8. ASSUME NEW k \in Nat PROVE k <= Top(d) <=> Bit[k] <= d
  <2>. DEFINE t == Top(d)
  <2>1. t \in Nat /\ Bit[t] \in Nat /\ Bit[t + 1] \in Nat /\ Bit[k] \in Nat /\ Bit[t] <= d /\ d < Bit[t + 1]
    BY <1>7, BitNat
  <2>. HIDE DEF t
  <2>2. k <= t => Bit[k] <= Bit[t]
    BY <2>1, BitMonotone
  <2>3. t + 1 <= k => Bit[t + 1] <= Bit[k]
    BY <2>1, BitMonotone
  <2>4. k <= t <=> Bit[k] <= d
    BY <2>1, <2>2, <2>3
  <2>. QED BY <2>4 DEF t
<1>. QED BY <1>7, <1>8
-----------------------------------------------------------------------------
(* The ancestors in a table a of the expressions, of which each but the    *)
(* roots has a parent numbered before it.                                  *)
Parents(a) == \A x \in DOMAIN a : a[x][1] \in 0 .. x - 1

Above(a, x, stop, C) == C = {x} \cup ({a[y][1] : y \in C} \ {stop})

Line(a, x) ==
  IF x = Null THEN {} ELSE CHOOSE C \in SUBSET DOMAIN a : Above(a, x, Null, C)

(* No expression is above x but those in C.                                *)
LEMMA AboveLeast ==
  ASSUME NEW a, NEW N \in Nat, DOMAIN a = 1 .. N, Parents(a),
         NEW x \in DOMAIN a, NEW stop, NEW C \in SUBSET DOMAIN a, NEW D \in SUBSET DOMAIN a,
         Above(a, x, stop, C), Above(a, x, stop, D)
  PROVE  C \subseteq D
<1>. DEFINE S == {i \in Nat : N - i \in C => N - i \in D}
<1>1. ASSUME NEW i \in Nat, \A j \in Nat : j < i => j \in S PROVE i \in S
  <2>. SUFFICES ASSUME N - i \in C PROVE N - i \in D
    OBVIOUS
  <2>. DEFINE y == N - i
  <2>1. y \in 1 .. N /\ y = N - i
    OBVIOUS
  <2>. HIDE DEF y
  <2>2. CASE y = x
    BY <2>1, <2>2 DEF Above
  <2>3. CASE y # x
    <3>1. PICK z \in C : y = a[z][1] /\ y # stop
      BY <2>1, <2>3 DEF Above
    <3>2. z \in 1 .. N /\ y < z
      BY <2>1, <3>1 DEF Parents
    <3>3. N - z \in Nat /\ N - z < i /\ N - (N - z) = z
      BY <2>1, <3>2
    <3>4. z \in D
      BY <1>1, <3>1, <3>3
    <3>. QED BY <2>1, <3>1, <3>4 DEF Above
  <2>. QED BY <2>2, <2>3
<1>. HIDE DEF S
<1>2. \A i \in Nat : i \in S
  BY <1>1, InductionStrong
<1>3. ASSUME NEW y \in C PROVE y \in D
  <2>1. N - y \in Nat /\ N - (N - y) = y
    OBVIOUS
  <2>. QED BY <1>2, <2>1 DEF S
<1>. QED BY <1>3

LEMMA LinesExist ==
  ASSUME NEW a, NEW N \in Nat, DOMAIN a = 1 .. N, Parents(a)
  PROVE  \E f \in [0 .. N -> SUBSET DOMAIN a] :
           f[0] = {} /\ \A x \in 1 .. N : f[x] = {x} \cup f[a[x][1]]
<1>. DEFINE Is(n, f) == /\ f \in [0 .. n -> SUBSET DOMAIN a] /\ f[0] = {}
                        /\ \A x \in 1 .. n : f[x] = {x} \cup f[a[x][1]]
            S == {n \in 0 .. N : \E f : Is(n, f)}
<1>1. 0 \in S
  <2>. DEFINE f == [x \in 0 .. 0 |-> {}]
  <2>1. Is(0, f)
    OBVIOUS
  <2>. HIDE DEF f, Is
  <2>. QED BY <2>1
<1>2. ASSUME NEW n \in 0 .. N, n < N, n \in S PROVE n + 1 \in S
  <2>1. PICK f : Is(n, f)
    BY <1>2
  <2>. DEFINE h == [x \in 0 .. n + 1 |-> IF x = n + 1 THEN {x} \cup f[a[x][1]] ELSE f[x]]
  <2>2. n + 1 \in DOMAIN a /\ a[n + 1][1] \in 0 .. n
    BY <1>2 DEF Parents
  <2>3. \A x \in 0 .. n : h[x] = f[x] /\ h[x] \in SUBSET DOMAIN a
    BY <2>1
  <2>4. h[n + 1] = {n + 1} \cup f[a[n + 1][1]] /\ h[n + 1] \in SUBSET DOMAIN a
    BY <2>1, <2>2
  <2>5. h = [x \in 0 .. n + 1 |-> h[x]]
    OBVIOUS
  <2>. HIDE DEF h
  <2>6. h \in [0 .. n + 1 -> SUBSET DOMAIN a]
    BY <2>3, <2>4, <2>5
  <2>7. h[0] = {}
    BY <2>1, <2>3
  <2>8. ASSUME NEW x \in 1 .. n + 1 PROVE h[x] = {x} \cup h[a[x][1]]
    <3>1. CASE x = n + 1
      BY <2>2, <2>3, <2>4, <3>1
    <3>2. CASE x # n + 1
      <4>1. x \in 1 .. n /\ x \in DOMAIN a
        BY <3>2
      <4>2. a[x][1] \in 0 .. n
        BY <4>1 DEF Parents
      <4>. QED BY <2>1, <2>3, <4>1, <4>2
    <3>. QED BY <3>1, <3>2
  <2>9. Is(n + 1, h)
    BY <2>6, <2>7, <2>8
  <2>10. n + 1 \in 0 .. N
    BY <1>2
  <2>. HIDE DEF Is
  <2>. QED BY <2>9, <2>10
<1>. HIDE DEF S
<1>3. \A i \in 0 .. N : i \in S
  BY <1>1, <1>2, InductionUp
<1>4. N \in S
  BY <1>3
<1>. QED BY <1>4 DEF S

LEMMA LineStep ==
  ASSUME NEW a, NEW N \in Nat, DOMAIN a = 1 .. N, Parents(a)
  PROVE  /\ Line(a, Null) = {}
         /\ \A x \in DOMAIN a : Line(a, x) = {x} \cup Line(a, a[x][1])
         /\ \A x \in DOMAIN a : Line(a, x) \in SUBSET DOMAIN a
<1>1. PICK f \in [0 .. N -> SUBSET DOMAIN a] :
        f[0] = {} /\ \A x \in 1 .. N : f[x] = {x} \cup f[a[x][1]]
  BY LinesExist
<1>2. ASSUME NEW x \in DOMAIN a PROVE Above(a, x, Null, f[x])
  <2>. DEFINE S == {i \in Nat : i \in DOMAIN a => Above(a, i, Null, f[i])}
  <2>1. ASSUME NEW i \in Nat, \A j \in Nat : j < i => j \in S PROVE i \in S
    <3>. SUFFICES ASSUME i \in DOMAIN a PROVE Above(a, i, Null, f[i])
      OBVIOUS
    <3>. DEFINE p == a[i][1]
    <3>1. p \in 0 .. i - 1 /\ p \in 0 .. N /\ f[i] = {i} \cup f[p]
      BY <1>1 DEF Parents
    <3>2. p = a[i][1]
      OBVIOUS
    <3>. HIDE DEF p
    <3>3. CASE p = Null
      <4>1. f[i] = {i}
        BY <1>1, <3>1, <3>3 DEF Null
      <4>. QED BY <3>2, <3>3, <4>1 DEF Above
    <3>4. CASE p # Null
      <4>1. p \in DOMAIN a /\ p \in Nat /\ p < i
        BY <3>1, <3>4 DEF Null
      <4>2. Above(a, p, Null, f[p])
        BY <2>1, <4>1
      <4>. QED BY <3>1, <3>2, <3>4, <4>2 DEF Above
    <3>. QED BY <3>3, <3>4
  <2>. HIDE DEF S
  <2>2. x \in S
    BY <2>1, InductionStrong
  <2>. QED BY <2>2 DEF S
<1>3. ASSUME NEW x \in DOMAIN a PROVE Line(a, x) = f[x]
  <2>1. f[x] \in SUBSET DOMAIN a /\ x # Null
    BY <1>1 DEF Null
  <2>. DEFINE C == CHOOSE C \in SUBSET DOMAIN a : Above(a, x, Null, C)
  <2>2. C \in SUBSET DOMAIN a /\ Above(a, x, Null, C)
    BY <1>2, <2>1
  <2>3. Line(a, x) = C
    BY <2>1 DEF Line
  <2>. HIDE DEF C
  <2>4. C \subseteq f[x] /\ f[x] \subseteq C
    BY <1>2, <2>1, <2>2, AboveLeast
  <2>. QED BY <2>3, <2>4
<1>4. Line(a, Null) = {}
  BY DEF Line
<1>5. ASSUME NEW x \in DOMAIN a PROVE Line(a, x) = {x} \cup Line(a, a[x][1]) /\ Line(a, x) \in SUBSET DOMAIN a
  <2>1. a[x][1] = Null \/ a[x][1] \in DOMAIN a
    BY DEF Parents, Null
  <2>2. Line(a, a[x][1]) = f[a[x][1]]
    BY <1>1, <1>3, <1>4, <2>1 DEF Null
  <2>. QED BY <1>1, <1>3, <2>2
<1>. QED BY <1>4, <1>5

(* What is above x up to an expression above x.                            *)
LEMMA ChainLine ==
  ASSUME NEW a, NEW N \in Nat, DOMAIN a = 1 .. N, Parents(a),
         NEW x \in DOMAIN a, NEW stop \in DOMAIN a, stop \in Line(a, x), x # stop
  PROVE  (CHOOSE C \in SUBSET DOMAIN a : Above(a, x, stop, C)) = Line(a, x) \ Line(a, stop)
<1>. DEFINE S == {i \in Nat : i \in DOMAIN a /\ i # stop /\ stop \in Line(a, i)
                                => Above(a, i, stop, Line(a, i) \ Line(a, stop))}
<1>0. ASSUME NEW i \in DOMAIN a, NEW y \in Line(a, i) PROVE y <= i
  <2>. DEFINE T == {j \in Nat : j \in DOMAIN a => \A w \in Line(a, j) : w <= j}
  <2>1. ASSUME NEW j \in Nat, \A m \in Nat : m < j => m \in T PROVE j \in T
    <3>. SUFFICES ASSUME j \in DOMAIN a, NEW w \in Line(a, j) PROVE w <= j
      OBVIOUS
    <3>. DEFINE p == a[j][1]
    <3>1. p \in 0 .. j - 1 /\ Line(a, j) = {j} \cup Line(a, p) /\ Line(a, j) \in SUBSET DOMAIN a
      BY LineStep DEF Parents
    <3>. HIDE DEF p
    <3>2. CASE p = Null \/ w = j
      BY <3>1, <3>2, LineStep
    <3>3. CASE p # Null /\ w # j
      <4>1. p \in DOMAIN a /\ w \in Line(a, p) /\ w \in Nat
        BY <3>1, <3>3 DEF Null
      <4>2. w <= p
        BY <2>1, <3>1, <4>1
      <4>. QED BY <3>1, <4>1, <4>2
    <3>. QED BY <3>2, <3>3
  <2>. HIDE DEF T
  <2>2. i \in T
    BY <2>1, InductionStrong
  <2>. QED BY <2>2 DEF T
<1>1. ASSUME NEW i \in Nat, \A j \in Nat : j < i => j \in S PROVE i \in S
  <2>. SUFFICES ASSUME i \in DOMAIN a, i # stop, stop \in Line(a, i)
                PROVE  Above(a, i, stop, Line(a, i) \ Line(a, stop))
    OBVIOUS
  <2>. DEFINE p == a[i][1]
  <2>1. p \in 0 .. i - 1 /\ Line(a, i) = {i} \cup Line(a, p)
    BY LineStep DEF Parents
  <2>2. p = a[i][1]
    OBVIOUS
  <2>. HIDE DEF p
  <2>3. stop \in Line(a, p)
    BY <2>1
  <2>4. p \in DOMAIN a /\ p \in Nat /\ p < i
    BY <2>1, <2>3, LineStep DEF Null
  <2>5. i \notin Line(a, stop)
    <3>1. i \in Line(a, stop) => i <= stop
      BY <1>0
    <3>2. stop <= p
      BY <1>0, <2>3, <2>4
    <3>. QED BY <2>4, <3>1, <3>2
  <2>6. Line(a, i) \ Line(a, stop) = {i} \cup (Line(a, p) \ Line(a, stop))
    BY <2>1, <2>5
  <2>7. CASE p = stop
    <3>1. Line(a, i) \ Line(a, stop) = {i}
      BY <2>6, <2>7
    <3>. QED BY <2>2, <2>7, <3>1 DEF Above
  <2>8. CASE p # stop
    <3>1. Above(a, p, stop, Line(a, p) \ Line(a, stop))
      BY <1>1, <2>3, <2>4, <2>8
    <3>. DEFINE E == Line(a, p) \ Line(a, stop)
    <3>2. E = {p} \cup ({a[y][1] : y \in E} \ {stop}) /\ Line(a, i) \ Line(a, stop) = {i} \cup E
      BY <2>6, <3>1 DEF Above
    <3>. HIDE DEF E
    <3>3. {i} \cup E = {i} \cup ({a[y][1] : y \in {i} \cup E} \ {stop})
      BY <2>2, <2>8, <3>2
    <3>. QED BY <3>2, <3>3 DEF Above
  <2>. QED BY <2>7, <2>8
<1>. HIDE DEF S
<1>2. x \in S
  BY <1>1, InductionStrong
<1>. DEFINE D == Line(a, x) \ Line(a, stop)
            C == CHOOSE C \in SUBSET DOMAIN a : Above(a, x, stop, C)
<1>3. D \in SUBSET DOMAIN a /\ Above(a, x, stop, D)
  BY <1>2, LineStep DEF S
<1>4. C \in SUBSET DOMAIN a /\ Above(a, x, stop, C)
  BY <1>3
<1>. HIDE DEF C, D
<1>5. C \subseteq D /\ D \subseteq C
  BY <1>3, <1>4, AboveLeast
<1>. QED BY <1>5 DEF C, D
-----------------------------------------------------------------------------
(* The inductive invariant.  The table of an expression has its ancestors  *)
(* at distances that are powers of two.                                    *)
End == UNION {[X -> SUBSET {1, Inner, Final}] : X \in SUBSET Expr}

TypeInv ==
  /\ anc \in Seq(Seq(Nat)) /\ depth \in Seq(Nat) /\ pre \in Seq(Nat) /\ tick \in Nat
  /\ Len(depth) = Len(anc) /\ Len(pre) = Len(anc)
  /\ path \in Seq(Expr)
  /\ assoc \in Seq(End) /\ withins \in Seq(End) /\ todo \subseteq Expr

Parent(x) == anc[x][1]

TreeInv ==
  /\ Parents(anc)
  /\ \A x \in Expr : /\ (Parent(x) = Null) = (depth[x] = 0)
                     /\ Parent(x) # Null => depth[x] = depth[Parent(x)] + 1

TableInv ==
  \A x \in Expr :
    IF depth[x] = 0 THEN Len(anc[x]) = 1
    ELSE /\ Len(anc[x]) = Top(depth[x]) + 1
         /\ \A k \in 0 .. Top(depth[x]) :
              anc[x][k + 1] \in Upward(x) /\ depth[anc[x][k + 1]] = depth[x] - Bit[k]

(* The expressions open are a line from a root.                            *)
PathInv ==
  \A i \in 1 .. Len(path) : depth[path[i]] = i - 1 /\ Upward(path[i]) = {path[j] : j \in 1 .. i}

(* The numbers are in the order the expressions are entered in: between x  *)
(* and one below x, or the end while x is open, all are below x.  pre is   *)
(* counted from the root.                                                  *)
OrderInv ==
  /\ \A y \in Expr : \A x \in Upward(y) : \A l \in x .. y : x \in Upward(l)
  /\ \A i \in 1 .. Len(path) : \A l \in path[i] .. Len(anc) : path[i] \in Upward(l)
  /\ \A x \in Expr : \E r \in Upward(x) : depth[r] = 0 /\ pre[x] = x - r
  /\ path # <<>> => tick = Len(anc) + 1 - path[1]

(* find_within: what is visited comes before the rest.                     *)
Visited(k) == DOMAIN assoc[k] \ (IF k = Len(withins) THEN todo ELSE {})

FindInv ==
  /\ assoc = <<>> => withins = <<>> /\ todo = {}
  /\ assoc # <<>> =>
       /\ path = <<>>
       /\ Len(assoc) = 2
       /\ Len(withins) \in 1 .. 2
       /\ todo \subseteq DOMAIN assoc[Len(withins)]
       /\ (last = Null) = (Visited(Len(withins)) = {})
       /\ last # Null => /\ last \in Visited(Len(withins))
                         /\ \A x \in Visited(Len(withins)) : pre[x] <= pre[last]
                         /\ \A x \in todo : pre[last] <= pre[x]
       /\ \A k \in 1 .. Len(withins) :
            /\ DOMAIN withins[k] = UNION {Upward(x) : x \in Visited(k)}
            /\ \A x \in Visited(k) : Interleaved(assoc[k], x) \/ withins[k][x] = assoc[k][x]

IInv == TypeInv /\ TreeInv /\ TableInv /\ PathInv /\ OrderInv /\ FindInv
-----------------------------------------------------------------------------
(* The ancestors of an expression.                                         *)
LEMMA UpwardLine == \A x : Upward(x) = Line(anc, x)
  BY DEF Upward, Chain, Line, Above, Expr

LEMMA Dom == ASSUME TypeInv PROVE /\ Len(anc) \in Nat /\ DOMAIN anc = 1 .. Len(anc) /\ Expr = 1 .. Len(anc)
                                  /\ \A x \in Expr : depth[x] \in Nat /\ pre[x] \in Nat /\ anc[x] \in Seq(Nat)
<1>1. anc \in Seq(Seq(Nat)) /\ depth \in Seq(Nat) /\ pre \in Seq(Nat) /\ Len(depth) = Len(anc) /\ Len(pre) = Len(anc)
  BY DEF TypeInv
<1>. QED BY <1>1 DEF Expr

LEMMA UpStep ==
  ASSUME TypeInv, TreeInv
  PROVE  /\ Upward(Null) = {}
         /\ \A x \in Expr : /\ Upward(x) = {x} \cup Upward(Parent(x)) /\ Upward(x) \subseteq Expr
                            /\ Parent(x) \in 0 .. x - 1
                            /\ Parent(x) = Null \/ Parent(x) \in Expr
<1>1. Len(anc) \in Nat /\ DOMAIN anc = 1 .. Len(anc) /\ Parents(anc)
  BY Dom DEF TreeInv
<1>2. /\ Line(anc, Null) = {}
      /\ \A x \in DOMAIN anc : Line(anc, x) = {x} \cup Line(anc, anc[x][1])
      /\ \A x \in DOMAIN anc : Line(anc, x) \in SUBSET DOMAIN anc
  BY <1>1, LineStep
<1>3. ASSUME NEW x \in Expr PROVE Parent(x) \in 0 .. x - 1 /\ (Parent(x) = Null \/ Parent(x) \in Expr)
  BY <1>1 DEF Parents, Parent, Expr, Null
<1>4. \A x \in Expr : Upward(x) = {x} \cup Upward(Parent(x)) /\ Upward(x) \subseteq Expr
  BY <1>2, UpwardLine DEF Parent, Expr
<1>. QED BY <1>2, <1>3, <1>4, UpwardLine

LEMMA UpBelow ==
  ASSUME TypeInv, TreeInv, NEW x \in Expr
  PROVE  /\ x \in Upward(x)
         /\ \A y \in Upward(x) : /\ y <= x /\ y \in Expr /\ Upward(y) \subseteq Upward(x)
                                 /\ depth[y] <= depth[x] /\ (y # x => depth[y] < depth[x])
<1>. DEFINE Good(w) == \A y \in Upward(w) : /\ y <= w /\ Upward(y) \subseteq Upward(w)
                                            /\ depth[y] <= depth[w] /\ (y # w => depth[y] < depth[w])
            S == {i \in Nat : i \in Expr => Good(i)}
<1>. x \in Nat
  BY Dom
<1>0. Upward(x) \subseteq Expr
  BY UpStep
<1>1. ASSUME NEW i \in Nat, \A j \in Nat : j < i => j \in S PROVE i \in S
  <2>. SUFFICES ASSUME i \in Expr, NEW y \in Upward(i)
                PROVE  /\ y <= i /\ Upward(y) \subseteq Upward(i)
                       /\ depth[y] <= depth[i] /\ (y # i => depth[y] < depth[i])
    OBVIOUS
  <2>1. /\ Upward(i) = {i} \cup Upward(Parent(i)) /\ Parent(i) \in 0 .. i - 1
        /\ Parent(i) = Null \/ Parent(i) \in Expr
    BY UpStep
  <2>2. depth[i] \in Nat
    BY Dom
  <2>3. CASE y = i
    BY <2>2, <2>3
  <2>4. CASE y # i
    <3>. DEFINE p == Parent(i)
    <3>1. y \in Upward(p)
      BY <2>1, <2>4
    <3>2. p # Null
      BY <3>1, UpStep
    <3>3. p \in Expr /\ p \in Nat /\ p < i
      BY <2>1, <3>2
    <3>4. Good(p)
      BY <1>1, <3>3
    <3>5. depth[i] = depth[p] + 1
      BY <3>2 DEF TreeInv
    <3>6. y \in Expr
      BY <3>1, <3>3, UpStep
    <3>7. y \in Nat /\ depth[y] \in Nat /\ depth[p] \in Nat
      BY <3>3, <3>6, Dom
    <3>8. y <= p /\ Upward(y) \subseteq Upward(p) /\ depth[y] <= depth[p]
      BY <3>1, <3>4
    <3>. HIDE DEF p
    <3>9. Upward(y) \subseteq Upward(i)
      BY <2>1, <3>8 DEF p
    <3>. QED BY <3>3, <3>5, <3>7, <3>8, <3>9
  <2>. QED BY <2>3, <2>4
<1>. HIDE DEF S
<1>2. x \in S
  BY <1>0, <1>1, InductionStrong
<1>. QED BY <1>0, <1>2, UpStep DEF S

LEMMA UpLinear ==
  ASSUME TypeInv, TreeInv, NEW x \in Expr, NEW y \in Upward(x), NEW z \in Upward(x), depth[z] <= depth[y]
  PROVE  z \in Upward(y)
<1>. DEFINE S == {i \in Nat : i \in Expr => \A u, v \in Upward(i) : depth[v] <= depth[u] => v \in Upward(u)}
<1>0. x \in Nat
  BY Dom
<1>1. ASSUME NEW i \in Nat, \A j \in Nat : j < i => j \in S PROVE i \in S
  <2>. SUFFICES ASSUME i \in Expr, NEW u \in Upward(i), NEW v \in Upward(i), depth[v] <= depth[u]
                PROVE  v \in Upward(u)
    OBVIOUS
  <2>. DEFINE p == Parent(i)
  <2>1. /\ Upward(i) = {i} \cup Upward(p) /\ p \in 0 .. i - 1 /\ (p = Null \/ p \in Expr)
        /\ i \in Upward(i)
    BY UpStep, UpBelow
  <2>2. u \in Expr /\ v \in Expr /\ depth[i] \in Nat
    BY UpBelow, Dom
  <2>3. depth[u] \in Nat /\ depth[v] \in Nat /\ u \in Upward(u)
    BY <2>2, Dom, UpBelow
  <2>4. CASE u = i
    BY <2>4
  <2>5. CASE u # i
    <3>1. depth[u] < depth[i]
      BY <2>5, UpBelow
    <3>2. v # i
      BY <2>2, <2>3, <3>1
    <3>3. u \in Upward(p) /\ v \in Upward(p)
      BY <2>1, <2>5, <3>2
    <3>4. p \in Expr /\ p \in Nat /\ p < i
      BY <2>1, <3>3, UpStep
    <3>. HIDE DEF p
    <3>. QED BY <1>1, <3>3, <3>4
  <2>. QED BY <2>4, <2>5
<1>. HIDE DEF S
<1>2. x \in S
  BY <1>0, <1>1, InductionStrong
<1>. QED BY <1>2 DEF S

(* Of the ancestors there is one at each distance, and the table has those *)
(* at distances of powers of two.                                          *)
LEMMA Table ==
  ASSUME TypeInv, TreeInv, TableInv, NEW x \in Expr, NEW k \in Nat
  PROVE  /\ k < Len(anc[x]) /\ depth[x] > 0 => Bit[k] <= depth[x]
         /\ Bit[k] <= depth[x] =>
              /\ k < Len(anc[x]) /\ anc[x][k + 1] \in Upward(x) /\ anc[x][k + 1] \in Expr
              /\ depth[anc[x][k + 1]] = depth[x] - Bit[k]
         /\ depth[x] = 0 /\ k < Len(anc[x]) => k = 0 /\ anc[x][k + 1] = Null
<1>. DEFINE d == depth[x]
<1>1. d \in Nat /\ d = depth[x] /\ Bit[k] \in Nat /\ k < Bit[k]
  BY Dom, BitNat
<1>. HIDE DEF d
<1>2. CASE d > 0
  <2>1. /\ Top(d) \in 0 .. d /\ (k <= Top(d) <=> Bit[k] <= d)
    BY <1>1, <1>2, TopProps
  <2>2. /\ Len(anc[x]) = Top(d) + 1
        /\ \A h \in 0 .. Top(d) : anc[x][h + 1] \in Upward(x) /\ depth[anc[x][h + 1]] = d - Bit[h]
    BY <1>1, <1>2 DEF TableInv
  <2>3. k < Len(anc[x]) <=> Bit[k] <= d
    BY <2>1, <2>2
  <2>4. Bit[k] <= d => anc[x][k + 1] \in Upward(x) /\ depth[anc[x][k + 1]] = d - Bit[k]
    BY <2>1, <2>2
  <2>5. Upward(x) \subseteq Expr
    BY UpStep
  <2>. QED BY <1>1, <1>2, <2>3, <2>4, <2>5
<1>3. CASE d = 0
  <2>1. Len(anc[x]) = 1 /\ Parent(x) = Null
    BY <1>1, <1>3 DEF TableInv, TreeInv
  <2>. QED BY <1>1, <1>3, <2>1 DEF Parent
<1>. QED BY <1>1, <1>2, <1>3
-----------------------------------------------------------------------------
(* find_lca: the deeper one is lifted to its ancestor at the depth of the  *)
(* other.                                                                  *)
LEMMA LiftedProps ==
  ASSUME TypeInv, TreeInv, TableInv, NEW v \in Expr, NEW d \in Nat, d <= depth[v]
  PROVE  Lifted(v, d) \in Upward(v) /\ depth[Lifted(v, d)] = d
<1>0. depth[v] \in Nat /\ v \in Upward(v) /\ Upward(v) \subseteq Expr
  BY Dom, UpBelow, UpStep
<1>1. CASE d = depth[v]
  <2>1. Lifted(v, d) = v
    BY <1>0, <1>1 DEF Lifted
  <2>. QED BY <1>0, <1>1, <2>1
<1>2. CASE d # depth[v]
  <2>. DEFINE e == depth[v] - d
  <2>0. e \in Nat /\ e > 0 /\ depth[v] = d + e
    BY <1>0, <1>2
  <2>. DEFINE top == Top(e)
              n == top + 1
  <2>1. n \in Nat /\ e < Bit[n] /\ top \in Nat
    <3>. HIDE DEF e
    <3>. QED BY <2>0, TopProps
  <2>. DEFINE W == [k \in 0 .. n |-> {x \in Upward(v) : d <= depth[x] /\ depth[x] < d + Bit[k]}]
              g == [p \in (0 .. n) \X Expr |-> Lift(p[2], p[1], d)]
  <2>. HIDE DEF top, e
  <2>2. v \in W[n]
    <3>1. n \in 0 .. n /\ Bit[n] \in Nat
      BY <2>1, BitNat
    <3>2. d <= depth[v] /\ depth[v] < d + Bit[n]
      BY <2>0, <2>1, <3>1
    <3>. HIDE DEF n
    <3>. QED BY <1>0, <3>1, <3>2
  <2>3. ASSUME NEW k \in 0 .. n - 1, NEW x \in W[k + 1]
        PROVE  g[<<k, x>>] = Lift(x, k, d) /\ Lift(x, k, d) \in W[k]
    <3>1. k \in Nat /\ k \in 0 .. n /\ k + 1 \in 0 .. n
      BY <2>1
    <3>2. x \in Upward(v) /\ d <= depth[x] /\ depth[x] < d + Bit[k + 1]
      BY <3>1
    <3>3. x \in Expr
      BY <1>0, <3>2
    <3>4. depth[x] \in Nat /\ Bit[k] \in Nat /\ Bit[k + 1] = 2 * Bit[k]
      BY <3>1, <3>3, Dom, BitNat, BitStep
    <3>5. g[<<k, x>>] = Lift(x, k, d)
      BY <3>1, <3>3
    <3>6. CASE d <= depth[x] - Bit[k]
      <4>. DEFINE y == anc[x][k + 1]
      <4>1. Bit[k] <= depth[x]
        BY <3>4, <3>6
      <4>2. y \in Upward(x) /\ depth[y] = depth[x] - Bit[k]
        BY <3>1, <3>3, <4>1, Table
      <4>3. Lift(x, k, d) = y
        BY <3>6 DEF Lift
      <4>. HIDE DEF y
      <4>4. y \in Upward(v)
        BY <3>2, <4>2, UpBelow
      <4>5. d <= depth[y] /\ depth[y] < d + Bit[k]
        BY <3>2, <3>4, <3>6, <4>2
      <4>. QED BY <3>1, <3>5, <4>3, <4>4, <4>5
    <3>7. CASE ~ (d <= depth[x] - Bit[k])
      <4>1. Lift(x, k, d) = x
        BY <3>7 DEF Lift
      <4>2. depth[x] < d + Bit[k]
        BY <3>4, <3>7
      <4>. QED BY <3>1, <3>2, <3>5, <4>1, <4>2
    <3>. QED BY <3>6, <3>7
  <2>4. \A k \in 0 .. n - 1 : \A x \in W[k + 1] : g[<<k, x>>] \in W[k]
    <3>. HIDE DEF n, W, g
    <3>. QED BY <2>3
  <2>5. PICK f : RecDown(n, v, g, f) /\ Stays(n, W, f)
    <3>. HIDE DEF n, W, g
    <3>. QED BY <2>1, <2>2, <2>4, RecursionDown
  <2>. DEFINE Is(h) == h = [k \in 0 .. n |-> IF k = n THEN v ELSE Lift(h[k + 1], k, d)]
              X == CHOOSE h : Is(h)
  <2>6. Is(f)
    <3>1. f = [i \in 0 .. n |-> IF i = n THEN v ELSE g[<<i, f[i + 1]>>]] /\ \A i \in 0 .. n : f[i] \in W[i]
      BY <2>5 DEF RecDown, Stays
    <3>. HIDE DEF W, g
    <3>2. ASSUME NEW k \in 0 .. n PROVE f[k] = IF k = n THEN v ELSE Lift(f[k + 1], k, d)
      <4>1. CASE k = n
        BY <3>1, <4>1
      <4>2. CASE k # n
        <5>1. k \in 0 .. n - 1 /\ k + 1 \in 0 .. n
          BY <2>1, <4>2
        <5>. QED BY <2>3, <3>1, <4>2, <5>1
      <4>. QED BY <4>1, <4>2
    <3>. QED BY <3>1, <3>2
  <2>7. Is(X)
    BY <2>6
  <2>8. Lifted(v, d) = X[0]
    BY <1>0, <1>2 DEF Lifted, top, e
  <2>. HIDE DEF X
  <2>9. X[0] \in W[0]
    <3>. DEFINE S == {k \in 0 .. n : X[k] \in W[k]}
    <3>0. n \in 0 .. n
      BY <2>1
    <3>1. n \in S
      BY <2>2, <2>7, <3>0
    <3>2. ASSUME NEW k \in 0 .. n, k < n, k + 1 \in S PROVE k \in S
      <4>1. k \in 0 .. n - 1 /\ k # n
        BY <2>1, <3>2
      <4>2. X[k] = Lift(X[k + 1], k, d)
        BY <2>7, <4>1
      <4>3. X[k + 1] \in W[k + 1]
        BY <3>2
      <4>4. Lift(X[k + 1], k, d) \in W[k]
        <5>. HIDE DEF W, g
        <5>. QED BY <2>3, <4>1, <4>3
      <4>. QED BY <4>2, <4>4
    <3>. HIDE DEF S, W
    <3>3. \A k \in 0 .. n : k \in S
      BY <2>1, <3>1, <3>2, InductionDown
    <3>4. 0 \in S
      BY <2>1, <3>3
    <3>. QED BY <3>4 DEF S
  <2>10. X[0] \in Upward(v) /\ d <= depth[X[0]] /\ depth[X[0]] < d + 1
    BY <2>1, <2>9, BitStep
  <2>11. depth[X[0]] \in Nat
    BY <1>0, <2>10, Dom
  <2>12. depth[X[0]] = d
    BY <2>10, <2>11
  <2>. QED BY <2>8, <2>10, <2>12
<1>. QED BY <1>1, <1>2
(* The two climb from x and y by the powers of two, as long as they stay   *)
(* apart: what is above u by Bit[k] or more is above v too.                *)
Joining(x, y, u, v, k) ==
  /\ u \in Expr /\ v \in Expr /\ depth[u] = depth[v] /\ u # v
  /\ Upward(u) \cap Upward(v) = Upward(x) \cap Upward(y)
  /\ \A z \in Upward(u) : depth[z] + Bit[k] <= depth[u] => z \in Upward(v)

LEMMA ClimbStep ==
  ASSUME TypeInv, TreeInv, TableInv, NEW x \in Expr, NEW y \in Expr,
         NEW u, NEW v, NEW k \in Nat, Joining(x, y, u, v, k + 1)
  PROVE  \E s, t : Climb(<<u, v>>, k) = <<s, t>> /\ Joining(x, y, s, t, k)
<1>0. /\ u \in Expr /\ v \in Expr /\ depth[u] = depth[v] /\ u # v
      /\ Upward(u) \cap Upward(v) = Upward(x) \cap Upward(y)
      /\ \A z \in Upward(u) : depth[z] + Bit[k + 1] <= depth[u] => z \in Upward(v)
  BY DEF Joining
<1>1. /\ depth[u] \in Nat /\ depth[v] \in Nat /\ Bit[k] \in Nat /\ Bit[k + 1] = 2 * Bit[k] /\ k < Bit[k]
      /\ u \in Upward(u) /\ v \in Upward(v) /\ Upward(u) \subseteq Expr /\ Upward(v) \subseteq Expr
  BY <1>0, Dom, BitNat, BitStep, UpBelow, UpStep
<1>2. CASE k < Len(anc[u]) /\ anc[u][k + 1] # anc[v][k + 1]
  <2>. DEFINE s == anc[u][k + 1]
              t == anc[v][k + 1]
  <2>1. Bit[k] <= depth[u]
    <3>1. CASE depth[u] > 0
      BY <1>0, <1>2, <3>1, Table
    <3>2. CASE depth[u] = 0
      <4>1. k = 0 /\ anc[u][k + 1] = Null
        BY <1>0, <1>2, <3>2, Table
      <4>2. Parent(v) = Null
        BY <1>0, <3>2 DEF TreeInv
      <4>. QED BY <1>2, <4>1, <4>2 DEF Parent
    <3>. QED BY <1>1, <3>1, <3>2
  <2>2. /\ s \in Upward(u) /\ s \in Expr /\ depth[s] = depth[u] - Bit[k]
        /\ t \in Upward(v) /\ t \in Expr /\ depth[t] = depth[v] - Bit[k]
    BY <1>0, <2>1, Table
  <2>3. Climb(<<u, v>>, k) = <<s, t>> /\ s # t
    BY <1>2 DEF Climb
  <2>. HIDE DEF s, t
  <2>4. Upward(s) \subseteq Upward(u) /\ Upward(t) \subseteq Upward(v)
    BY <1>0, <2>2, UpBelow
  <2>5. ASSUME NEW z \in Upward(u), z \in Upward(v) PROVE z \in Upward(s) /\ z \in Upward(t)
    <3>1. z \in Expr /\ depth[z] \in Nat /\ depth[s] \in Nat /\ depth[t] = depth[s]
      BY <1>0, <1>1, <2>2, Dom
    <3>2. CASE depth[z] <= depth[s]
      <4>1. z \in Upward(s)
        BY <1>0, <2>2, <3>2, UpLinear
      <4>2. depth[z] <= depth[t]
        BY <3>1, <3>2
      <4>3. z \in Upward(t)
        BY <1>0, <2>2, <2>5, <4>2, UpLinear
      <4>. QED BY <4>1, <4>3
    <3>3. CASE depth[s] <= depth[z]
      <4>1. s \in Upward(z) /\ t \in Upward(z)
        BY <1>0, <2>2, <2>5, <3>1, <3>3, UpLinear
      <4>2. s \in Upward(t)
        <5>1. z \in Expr /\ depth[s] <= depth[t]
          BY <2>2, <3>1
        <5>. QED BY <4>1, <5>1, UpLinear
      <4>. QED BY <2>2, <2>3, <3>1, <4>2, UpBelow
    <3>. QED BY <3>1, <3>2, <3>3
  <2>6. Upward(s) \cap Upward(t) = Upward(x) \cap Upward(y)
    BY <1>0, <2>4, <2>5
  <2>7. ASSUME NEW z \in Upward(s), depth[z] + Bit[k] <= depth[s] PROVE z \in Upward(t)
    <3>1. z \in Upward(u) /\ z \in Expr /\ depth[z] \in Nat
      BY <1>1, <2>4, Dom
    <3>2. depth[z] + Bit[k + 1] <= depth[u]
      BY <1>1, <2>2, <2>7, <3>1
    <3>. QED BY <1>0, <2>5, <3>1, <3>2
  <2>8. Joining(x, y, s, t, k)
    BY <1>0, <2>2, <2>3, <2>6, <2>7 DEF Joining
  <2>. QED BY <2>3, <2>8
<1>3. CASE ~ (k < Len(anc[u]) /\ anc[u][k + 1] # anc[v][k + 1])
  <2>1. Climb(<<u, v>>, k) = <<u, v>>
    BY <1>3 DEF Climb
  <2>2. ASSUME NEW z \in Upward(u), depth[z] + Bit[k] <= depth[u] PROVE z \in Upward(v)
    <3>1. z \in Expr /\ depth[z] \in Nat
      BY <1>1, Dom
    <3>2. Bit[k] <= depth[u]
      BY <1>1, <2>2, <3>1
    <3>. DEFINE s == anc[u][k + 1]
    <3>3. k < Len(anc[u]) /\ s \in Upward(u) /\ s \in Expr /\ depth[s] = depth[u] - Bit[k]
      BY <1>0, <3>2, Table
    <3>4. anc[v][k + 1] \in Upward(v)
      BY <1>0, <3>2, Table
    <3>5. s \in Upward(v)
      BY <1>3, <3>3, <3>4
    <3>. HIDE DEF s
    <3>6. z \in Upward(s)
      <4>1. depth[z] <= depth[s]
        BY <1>1, <2>2, <3>1, <3>3
      <4>. QED BY <1>0, <3>3, <4>1, UpLinear
    <3>. QED BY <1>0, <3>5, <3>6, UpBelow
  <2>3. Joining(x, y, u, v, k)
    BY <1>0, <2>2 DEF Joining
  <2>. QED BY <2>1, <2>3
<1>. QED BY <1>2, <1>3

LEMMA Joined ==
  ASSUME TypeInv, TreeInv, NEW x \in Expr, NEW y \in Expr, NEW u, NEW v, Joining(x, y, u, v, 0)
  PROVE  Upward(Parent(u)) = Upward(x) \cap Upward(y) /\ (Parent(u) = Null \/ Parent(u) \in Expr)
<1>0. /\ u \in Expr /\ v \in Expr /\ depth[u] = depth[v] /\ u # v
      /\ Upward(u) \cap Upward(v) = Upward(x) \cap Upward(y)
      /\ \A z \in Upward(u) : depth[z] + 1 <= depth[u] => z \in Upward(v)
  BY BitStep DEF Joining
<1>1. /\ Upward(u) = {u} \cup Upward(Parent(u)) /\ Parent(u) \in 0 .. u - 1
      /\ Parent(u) = Null \/ Parent(u) \in Expr
      /\ Upward(u) \subseteq Expr
  BY <1>0, UpStep
<1>. depth[u] \in Nat /\ u \in Nat
  BY <1>0, Dom
<1>2. u \notin Upward(v)
  BY <1>0, <1>1, UpBelow
<1>3. ASSUME NEW z \in Upward(Parent(u)) PROVE z \in Upward(u) /\ z \in Upward(v)
  <2>1. Parent(u) \in Expr
    BY <1>1, <1>3, UpStep
  <2>2. z \in Upward(u) /\ z <= Parent(u) /\ z \in Expr
    BY <1>1, <1>3, <2>1, UpBelow
  <2>3. z \in Nat /\ depth[z] \in Nat /\ z # u
    BY <1>1, <2>2, Dom
  <2>4. depth[z] < depth[u]
    BY <1>0, <2>2, <2>3, UpBelow
  <2>5. depth[z] + 1 <= depth[u]
    BY <1>1, <2>3, <2>4
  <2>. QED BY <1>0, <2>2, <2>5
<1>. QED BY <1>0, <1>1, <1>2, <1>3

LEMMA ClimbedProps ==
  ASSUME TypeInv, TreeInv, TableInv, NEW x \in Expr, NEW y \in Expr, x # y, depth[x] = depth[y]
  PROVE  Upward(Climbed(x, y)) = Upward(x) \cap Upward(y) /\ (Climbed(x, y) = Null \/ Climbed(x, y) \in Expr)
<1>. DEFINE d == depth[y]
<1>0. d \in Nat /\ d = depth[y]
  BY Dom
<1>. HIDE DEF d
<1>1. CASE d = 0
  <2>1. Climbed(x, y) = Parent(x)
    BY <1>0, <1>1 DEF Climbed, Parent
  <2>2. Joining(x, y, x, y, 0)
    <3>1. ASSUME NEW z \in Upward(x), depth[z] + Bit[0] <= depth[x] PROVE FALSE
      <4>1. z \in Expr /\ depth[z] \in Nat
        BY UpStep, Dom
      <4>. QED BY <1>0, <1>1, <3>1, <4>1, BitStep
    <3>. QED BY <3>1 DEF Joining
  <2>. QED BY <2>1, <2>2, Joined
<1>2. CASE d > 0
  <2>. DEFINE top == Top(d)
              n == top + 1
  <2>1. n \in Nat /\ d < Bit[n] /\ top \in Nat /\ n \in 0 .. n
    BY <1>0, <1>2, TopProps
  <2>. DEFINE W == [k \in 0 .. n |-> {p \in Expr \X Expr : Joining(x, y, p[1], p[2], k)}]
              g == [q \in (0 .. n) \X (Expr \X Expr) |-> Climb(q[2], q[1])]
  <2>. HIDE DEF top
  <2>2. <<x, y>> \in W[n]
    <3>1. ASSUME NEW z \in Upward(x), depth[z] + Bit[n] <= depth[x] PROVE FALSE
      <4>1. z \in Expr /\ depth[z] \in Nat /\ Bit[n] \in Nat
        BY <2>1, UpStep, Dom, BitNat
      <4>. QED BY <1>0, <2>1, <3>1, <4>1
    <3>2. Joining(x, y, x, y, n)
      BY <3>1 DEF Joining
    <3>. HIDE DEF n
    <3>. QED BY <2>1, <3>2
  <2>3. ASSUME NEW k \in 0 .. n - 1, NEW p \in W[k + 1]
        PROVE  g[<<k, p>>] = Climb(p, k) /\ Climb(p, k) \in W[k]
    <3>1. k \in Nat /\ k \in 0 .. n /\ k + 1 \in 0 .. n
      BY <2>1
    <3>. HIDE DEF n
    <3>2. p \in Expr \X Expr /\ Joining(x, y, p[1], p[2], k + 1) /\ p = <<p[1], p[2]>>
      BY <3>1
    <3>3. PICK s, t : Climb(<<p[1], p[2]>>, k) = <<s, t>> /\ Joining(x, y, s, t, k)
      BY <3>1, <3>2, ClimbStep
    <3>4. Climb(p, k) = <<s, t>> /\ s \in Expr /\ t \in Expr
      BY <3>2, <3>3 DEF Joining
    <3>5. <<s, t>> \in W[k]
      BY <3>1, <3>3, <3>4
    <3>6. g[<<k, p>>] = Climb(p, k)
      BY <3>1, <3>2
    <3>. QED BY <3>4, <3>5, <3>6
  <2>4. \A k \in 0 .. n - 1 : \A p \in W[k + 1] : g[<<k, p>>] \in W[k]
    <3>. HIDE DEF n, W, g
    <3>. QED BY <2>3
  <2>5. PICK f : RecDown(n, <<x, y>>, g, f) /\ Stays(n, W, f)
    <3>. HIDE DEF n, W, g
    <3>. QED BY <2>1, <2>2, <2>4, RecursionDown
  <2>. DEFINE Is(h) == h = [k \in 0 .. n |-> IF k = n THEN <<x, y>> ELSE Climb(h[k + 1], k)]
              X == CHOOSE h : Is(h)
  <2>6. Is(f)
    <3>1. f = [i \in 0 .. n |-> IF i = n THEN <<x, y>> ELSE g[<<i, f[i + 1]>>]] /\ \A i \in 0 .. n : f[i] \in W[i]
      BY <2>5 DEF RecDown, Stays
    <3>. HIDE DEF W, g
    <3>2. ASSUME NEW k \in 0 .. n PROVE f[k] = IF k = n THEN <<x, y>> ELSE Climb(f[k + 1], k)
      <4>1. CASE k = n
        BY <3>1, <4>1
      <4>2. CASE k # n
        <5>1. k \in 0 .. n - 1 /\ k + 1 \in 0 .. n
          BY <2>1, <4>2
        <5>. QED BY <2>3, <3>1, <4>2, <5>1
      <4>. QED BY <4>1, <4>2
    <3>. QED BY <3>1, <3>2
  <2>7. Is(X)
    BY <2>6
  <2>8. Climbed(x, y) = Parent(X[0][1])
    BY <1>0, <1>2 DEF Climbed, top, Parent
  <2>. HIDE DEF X
  <2>9. X[0] \in W[0]
    <3>. DEFINE S == {k \in 0 .. n : X[k] \in W[k]}
    <3>1. n \in S
      BY <2>1, <2>2, <2>7
    <3>2. ASSUME NEW k \in 0 .. n, k < n, k + 1 \in S PROVE k \in S
      <4>1. k \in 0 .. n - 1 /\ k # n
        BY <2>1, <3>2
      <4>2. X[k] = Climb(X[k + 1], k)
        BY <2>7, <4>1
      <4>3. X[k + 1] \in W[k + 1]
        BY <3>2
      <4>4. Climb(X[k + 1], k) \in W[k]
        <5>. HIDE DEF W, g, n
        <5>. QED BY <2>3, <4>1, <4>3
      <4>. QED BY <4>2, <4>4
    <3>. HIDE DEF S, W
    <3>3. \A k \in 0 .. n : k \in S
      BY <2>1, <3>1, <3>2, InductionDown
    <3>4. 0 \in S
      BY <2>1, <3>3
    <3>. QED BY <3>4 DEF S
  <2>10. Joining(x, y, X[0][1], X[0][2], 0)
    BY <2>1, <2>9
  <2>. QED BY <2>8, <2>10, Joined
<1>. QED BY <1>0, <1>1, <1>2

(* find_lca: what is above both is what is above the result.               *)
LEMMA Lca ==
  ASSUME TypeInv, TreeInv, TableInv, NEW x \in Expr, NEW y \in Expr
  PROVE  /\ Upward(FindLca(x, y)) = Upward(x) \cap Upward(y)
         /\ FindLca(x, y) = Null \/ FindLca(x, y) \in Expr
<1>1. ASSUME NEW u \in Expr, NEW v \in Expr, depth[u] <= depth[v]
      PROVE  LET m == MetAt(u, Lifted(v, depth[u]))
             IN Upward(m) = Upward(u) \cap Upward(v) /\ (m = Null \/ m \in Expr)
  <2>. DEFINE w == Lifted(v, depth[u])
  <2>0. depth[u] \in Nat /\ depth[v] \in Nat /\ Upward(v) \subseteq Expr /\ Upward(u) \subseteq Expr
    BY Dom, UpStep
  <2>1. w \in Upward(v) /\ depth[w] = depth[u] /\ w \in Expr
    BY <1>1, <2>0, LiftedProps
  <2>. HIDE DEF w
  <2>2. Upward(w) \cap Upward(u) = Upward(u) \cap Upward(v)
    <3>1. Upward(w) \subseteq Upward(v)
      BY <2>1, UpBelow
    <3>2. ASSUME NEW z \in Upward(u), z \in Upward(v) PROVE z \in Upward(w)
      <4>1. depth[z] <= depth[w]
        BY <2>1, <3>2, UpBelow
      <4>. QED BY <2>1, <3>2, <4>1, UpLinear
    <3>. QED BY <3>1, <3>2
  <2>3. CASE u = w
    <3>1. MetAt(u, w) = u
      BY <2>3 DEF MetAt
    <3>2. MetAt(u, Lifted(v, depth[u])) = u
      BY <3>1 DEF w
    <3>. QED BY <2>2, <2>3, <3>2
  <2>4. CASE u # w
    <3>1. MetAt(u, Lifted(v, depth[u])) = Climbed(u, w)
      BY <2>4 DEF MetAt, w
    <3>2. Upward(Climbed(u, w)) = Upward(u) \cap Upward(w) /\ (Climbed(u, w) = Null \/ Climbed(u, w) \in Expr)
      BY <2>1, <2>4, ClimbedProps
    <3>. QED BY <2>2, <3>1, <3>2
  <2>. QED BY <2>3, <2>4
<1>2. depth[x] \in Nat /\ depth[y] \in Nat
  BY Dom
<1>3. CASE depth[x] > depth[y]
  <2>1. FindLca(x, y) = MetAt(y, Lifted(x, depth[y])) /\ depth[y] <= depth[x]
    BY <1>2, <1>3 DEF FindLca
  <2>. QED BY <1>1, <2>1
<1>4. CASE ~ (depth[x] > depth[y])
  <2>1. FindLca(x, y) = MetAt(x, Lifted(y, depth[x])) /\ depth[x] <= depth[y]
    BY <1>2, <1>4 DEF FindLca
  <2>. QED BY <1>1, <2>1
<1>. QED BY <1>3, <1>4
(* The ancestors brought along.                                            *)
LEMMA ChainProps ==
  ASSUME TypeInv, TreeInv, NEW x \in Expr, NEW stop, stop = Null \/ stop \in Upward(x)
  PROVE  Chain(x, stop) = Upward(x) \ Upward(stop)
<1>0. Len(anc) \in Nat /\ DOMAIN anc = 1 .. Len(anc) /\ Parents(anc) /\ x \in DOMAIN anc /\ x # Null
  BY Dom DEF TreeInv, Expr, Null
<1>1. CASE stop = Null
  BY <1>1, UpStep DEF Upward
<1>2. CASE stop = x
  <2>1. Chain(x, stop) = {}
    BY <1>2 DEF Chain
  <2>. QED BY <1>2, <2>1
<1>3. CASE stop # Null /\ stop # x
  <2>1. stop \in Upward(x) /\ stop \in DOMAIN anc /\ stop \in Line(anc, x)
    BY <1>3, UpStep, UpwardLine DEF Expr
  <2>2. Chain(x, stop) = CHOOSE C \in SUBSET DOMAIN anc : Above(anc, x, stop, C)
    BY <1>3 DEF Chain, Above, Expr
  <2>3. Chain(x, stop) = Line(anc, x) \ Line(anc, stop)
    BY <1>0, <1>3, <2>1, <2>2, ChainLine
  <2>. QED BY <2>3, UpwardLine
<1>. QED BY <1>1, <1>2, <1>3

-----------------------------------------------------------------------------
(* The loops over two sorted vectors.                                      *)
Ascends(s) == \A i, j \in DOMAIN s : i < j => s[i] < s[j]
Elements(s, n) == {s[i] : i \in 1 .. n}
Ascending(s, n) == s \in [1 .. n -> Nat] /\ Ascends(s)

(* A finite set of numbers has an ascending list.                          *)
LEMMA ListExists ==
  ASSUME NEW n \in Nat
  PROVE  \A X \in SUBSET Nat : IsFiniteSet(X) /\ Cardinality(X) = n =>
           \E s \in [1 .. n -> X] : Ascends(s) /\ \A x \in X : \E i \in 1 .. n : s[i] = x
<1>. DEFINE Has(m, X) == \E s \in [1 .. m -> X] : Ascends(s) /\ \A x \in X : \E i \in 1 .. m : s[i] = x
            S == {m \in 0 .. n : \A X \in SUBSET Nat : IsFiniteSet(X) /\ Cardinality(X) = m => Has(m, X)}
<1>1. 0 \in S
  <2>. SUFFICES ASSUME NEW X \in SUBSET Nat, IsFiniteSet(X), Cardinality(X) = 0 PROVE Has(0, X)
    OBVIOUS
  <2>1. X = {}
    BY FS_EmptySet
  <2>. DEFINE s == [i \in 1 .. 0 |-> 0]
  <2>2. s \in [1 .. 0 -> X] /\ Ascends(s)
    BY DEF Ascends
  <2>. HIDE DEF s
  <2>. QED BY <2>1, <2>2
<1>2. ASSUME NEW m \in 0 .. n, m < n, m \in S PROVE m + 1 \in S
  <2>. SUFFICES ASSUME NEW X \in SUBSET Nat, IsFiniteSet(X), Cardinality(X) = m + 1 PROVE Has(m + 1, X)
    BY <1>2
  <2>1. X # {}
    BY FS_EmptySet
  <2>2. Min(X) \in X /\ \A x \in X : Min(X) <= x
    BY <2>1, MinProps
  <2>3. PICK l \in X : \A x \in X : l <= x
    BY <2>2
  <2>. DEFINE Y == X \ {l}
  <2>4. Y \in SUBSET Nat /\ IsFiniteSet(Y) /\ Cardinality(Y) = m
    <3>1. IsFiniteSet(Y) /\ Cardinality(Y) = Cardinality(X) - 1
      BY <2>3, FS_RemoveElement
    <3>. QED BY <3>1
  <2>5. Has(m, Y)
    <3>. HIDE DEF Has, Y
    <3>. QED BY <1>2, <2>4
  <2>6. PICK s \in [1 .. m -> Y] : Ascends(s) /\ \A x \in Y : \E i \in 1 .. m : s[i] = x
    BY <2>5
  <2>. DEFINE t == [i \in 1 .. m + 1 |-> IF i = 1 THEN l ELSE s[i - 1]]
  <2>7. \A i \in 1 .. m + 1 : i # 1 => i - 1 \in 1 .. m /\ t[i] = s[i - 1] /\ t[i] \in Y
    BY <2>6
  <2>8. t[1] = l /\ DOMAIN t = 1 .. m + 1 /\ 1 \in 1 .. m + 1
    OBVIOUS
  <2>9. t \in [1 .. m + 1 -> X]
    BY <2>3, <2>7
  <2>. HIDE DEF t
  <2>10. ASSUME NEW i \in 1 .. m + 1, NEW j \in 1 .. m + 1, i < j PROVE t[i] < t[j]
    <3>1. j # 1 /\ j - 1 \in 1 .. m /\ t[j] = s[j - 1] /\ t[j] \in Y
      BY <2>7, <2>10
    <3>2. CASE i = 1
      <4>1. l <= t[j] /\ l # t[j] /\ t[j] \in Nat /\ l \in Nat
        BY <2>3, <3>1
      <4>. QED BY <2>8, <3>2, <4>1
    <3>3. CASE i # 1
      <4>1. i - 1 \in 1 .. m /\ t[i] = s[i - 1] /\ i - 1 < j - 1
        BY <2>7, <2>10, <3>3
      <4>2. s[i - 1] < s[j - 1]
        BY <2>6, <3>1, <4>1 DEF Ascends
      <4>. QED BY <3>1, <4>1, <4>2
    <3>. QED BY <3>2, <3>3
  <2>11. Ascends(t)
    BY <2>8, <2>10 DEF Ascends
  <2>12. ASSUME NEW x \in X PROVE \E i \in 1 .. m + 1 : t[i] = x
    <3>1. CASE x = l
      BY <2>8, <3>1
    <3>2. CASE x # l
      <4>1. PICK i \in 1 .. m : s[i] = x
        BY <2>6, <3>2
      <4>2. i + 1 \in 1 .. m + 1 /\ i + 1 # 1 /\ (i + 1) - 1 = i
        OBVIOUS
      <4>. QED BY <2>7, <4>1, <4>2
    <3>. QED BY <3>1, <3>2
  <2>. QED BY <2>9, <2>11, <2>12
<1>. HIDE DEF S
<1>3. \A i \in 0 .. n : i \in S
  BY <1>1, <1>2, InductionUp
<1>4. n \in S
  BY <1>3
<1>. QED BY <1>4 DEF S

(* An ascending list as long as the set is large has all of the set.       *)
LEMMA ListedProps ==
  ASSUME NEW D \in SUBSET Nat, IsFiniteSet(D), NEW W, DOMAIN W = D
  PROVE  /\ Listed(W) \in [1 .. Cardinality(D) -> D] /\ Ascends(Listed(W))
         /\ Elements(Listed(W), Cardinality(D)) = D
<1>. DEFINE n == Cardinality(D)
<1>0. n \in Nat
  BY FS_CardinalityType
<1>1. \E s \in [1 .. n -> D] : Ascends(s)
  BY <1>0, ListExists
<1>2. Listed(W) \in [1 .. n -> D] /\ Ascends(Listed(W))
  BY <1>1 DEF Listed, Ascends
<1>. DEFINE s == Listed(W)
            R == {s[i] : i \in 1 .. n}
<1>3. s \in [1 .. n -> D] /\ Ascends(s)
  BY <1>2
<1>. HIDE DEF s
<1>4. ASSUME NEW i \in 1 .. n, NEW j \in 1 .. n, s[i] = s[j] PROVE i = j
  <2>1. s[i] \in Nat /\ s[j] \in Nat
    BY <1>3
  <2>2. i < j => s[i] < s[j]
    BY <1>3 DEF Ascends
  <2>3. j < i => s[j] < s[i]
    BY <1>3 DEF Ascends
  <2>. QED BY <1>4, <2>1, <2>2, <2>3
<1>5. s \in Injection(1 .. n, R)
  BY <1>3, <1>4 DEF Injection, IsInjective
<1>7. IsFiniteSet(1 .. n) /\ Cardinality(1 .. n) = n
  BY <1>0, FS_Interval
<1>8. R \subseteq D
  BY <1>3
<1>9. IsFiniteSet(R) /\ Cardinality(R) <= n
  BY <1>8, FS_Subset
<1>10. n <= Cardinality(R)
  BY <1>5, <1>7, <1>9, FS_Injection
<1>11. Cardinality(R) \in Nat
  BY <1>9, FS_CardinalityType
<1>12. R = D
  BY <1>0, <1>8, <1>9, <1>10, <1>11, FS_Subset
<1>. QED BY <1>3, <1>12 DEF s, Elements

(* j follows to the first one that is not less.                            *)
LEMMA FollowedProps ==
  ASSUME NEW m \in Nat, NEW ws \in [1 .. m -> Nat], NEW j \in 1 .. m + 1, NEW x \in Nat
  PROVE  /\ Followed(ws, j, x) \in j .. m + 1
         /\ Followed(ws, j, x) <= m => x <= ws[Followed(ws, j, x)]
         /\ \A g \in j .. Followed(ws, j, x) - 1 : ws[g] < x
<1>0. Len(ws) = m
  <2>1. ws \in Seq(Nat)
    BY SeqDef
  <2>2. DOMAIN ws = 1 .. Len(ws) /\ Len(ws) \in Nat
    BY <2>1, LenProperties
  <2>. QED BY <2>2
<1>. DEFINE B == {h \in j .. m + 1 : h <= m => x <= ws[h]}
<1>1. m + 1 \in B /\ B \in SUBSET Nat
  OBVIOUS
<1>. HIDE DEF B
<1>2. Min(B) \in B /\ \A h \in B : Min(B) <= h
  BY <1>1, MinProps
<1>3. PICK h \in B : \A g \in B : h <= g
  BY <1>2
<1>4. h \in j .. m + 1 /\ (h <= m => x <= ws[h])
  BY <1>3 DEF B
<1>5. ASSUME NEW g \in j .. h - 1 PROVE ws[g] < x
  <2>1. g \in j .. m + 1 /\ g <= m /\ g \notin B /\ g \in 1 .. m
    BY <1>3, <1>4
  <2>. QED BY <2>1 DEF B
<1>6. \E f \in j .. Len(ws) + 1 : /\ f <= Len(ws) => x <= ws[f]
                                  /\ \A g \in j .. f - 1 : ws[g] < x
  BY <1>0, <1>4, <1>5
<1>. DEFINE F == Followed(ws, j, x)
<1>7. F \in j .. Len(ws) + 1 /\ (F <= Len(ws) => x <= ws[F]) /\ \A g \in j .. F - 1 : ws[g] < x
  BY <1>6 DEF Followed
<1>. QED BY <1>0, <1>7

LEMMA MetProps ==
  ASSUME NEW n \in Nat, NEW m \in Nat, NEW vs \in [1 .. n -> Nat], NEW ws \in [1 .. m -> Nat],
         Ascends(vs), Ascends(ws)
  PROVE  Met(vs, ws) = Elements(vs, n) \cap Elements(ws, m)
<1>0. Len(vs) = n /\ Len(ws) = m
  <2>1. vs \in Seq(Nat) /\ ws \in Seq(Nat)
    BY SeqDef
  <2>2. DOMAIN vs = 1 .. Len(vs) /\ Len(vs) \in Nat
    BY <2>1, LenProperties
  <2>3. DOMAIN ws = 1 .. Len(ws) /\ Len(ws) \in Nat
    BY <2>1, LenProperties
  <2>. QED BY <2>2, <2>3
<1>. DEFINE Right(i, h) == /\ h <= m => vs[i] <= ws[h]
                           /\ \A f \in 1 .. h - 1 : ws[f] < vs[i]
            W == [i \in 0 .. n |-> {h \in 1 .. m + 1 : IF i = 0 THEN h = 1 ELSE Right(i, h)}]
            g == [q \in (1 .. n) \X (1 .. m + 1) |-> Followed(ws, q[2], vs[q[1]])]
<1>1. 1 \in W[0]
  OBVIOUS
<1>2. ASSUME NEW i \in 1 .. n, NEW j \in W[i - 1]
      PROVE  g[<<i, j>>] = Followed(ws, j, vs[i]) /\ Followed(ws, j, vs[i]) \in W[i]
  <2>1. i \in 0 .. n /\ i - 1 \in 0 .. n /\ i > 0 /\ vs[i] \in Nat
    OBVIOUS
  <2>2. j \in 1 .. m + 1 /\ (IF i - 1 = 0 THEN j = 1 ELSE Right(i - 1, j))
    BY <2>1
  <2>3. g[<<i, j>>] = Followed(ws, j, vs[i])
    BY <2>2
  <2>. DEFINE h == Followed(ws, j, vs[i])
  <2>4. /\ h \in j .. m + 1 /\ (h <= m => vs[i] <= ws[h])
        /\ \A f \in j .. h - 1 : ws[f] < vs[i]
    BY <2>1, <2>2, FollowedProps
  <2>. HIDE DEF h
  <2>5. ASSUME NEW f \in 1 .. h - 1 PROVE ws[f] < vs[i]
    <3>1. CASE f < j
      <4>1. f \in 1 .. j - 1 /\ f \in 1 .. m
        BY <2>2, <2>4, <3>1
      <4>2. i - 1 # 0
        BY <2>2, <4>1
      <4>3. ws[f] < vs[i - 1] /\ i - 1 \in 1 .. n
        BY <2>1, <2>2, <4>1, <4>2
      <4>4. vs[i - 1] < vs[i]
        BY <4>3 DEF Ascends
      <4>5. ws[f] \in Nat /\ vs[i - 1] \in Nat
        BY <4>1, <4>3
      <4>. QED BY <2>1, <4>3, <4>4, <4>5
    <3>2. CASE j <= f
      <4>1. f \in j .. h - 1
        BY <2>2, <2>4, <3>2
      <4>. QED BY <2>4, <4>1
    <3>. QED BY <2>2, <2>4, <3>1, <3>2
  <2>6. h \in 1 .. m + 1 /\ Right(i, h)
    BY <2>2, <2>4, <2>5
  <2>7. h \in W[i]
    <3>. HIDE DEF Right
    <3>. QED BY <2>1, <2>6
  <2>. QED BY <2>3, <2>7 DEF h
<1>. HIDE DEF Right
<1>3. \A i \in 1 .. n : \A j \in W[i - 1] : g[<<i, j>>] \in W[i]
  <2>. HIDE DEF W, g
  <2>. QED BY <1>2
<1>4. PICK f : RecUp(n, 1, g, f) /\ Stays(n, W, f)
  <2>. HIDE DEF W, g
  <2>. QED BY <1>1, <1>3, RecursionUp
<1>. DEFINE Is(h) == h = [i \in 0 .. n |-> IF i = 0 THEN 1 ELSE Followed(ws, h[i - 1], vs[i])]
            J == CHOOSE h : Is(h)
<1>5. Is(f)
  <2>1. f = [i \in 0 .. n |-> IF i = 0 THEN 1 ELSE g[<<i, f[i - 1]>>]] /\ \A i \in 0 .. n : f[i] \in W[i]
    BY <1>4 DEF RecUp, Stays
  <2>. HIDE DEF W, g
  <2>2. ASSUME NEW i \in 0 .. n PROVE f[i] = IF i = 0 THEN 1 ELSE Followed(ws, f[i - 1], vs[i])
    <3>1. CASE i = 0
      BY <2>1, <3>1
    <3>2. CASE i # 0
      <4>1. i \in 1 .. n /\ i - 1 \in 0 .. n
        BY <3>2
      <4>. QED BY <1>2, <2>1, <3>2, <4>1
    <3>. QED BY <3>1, <3>2
  <2>. QED BY <2>1, <2>2
<1>6. Is(J)
  BY <1>5
<1>7. Met(vs, ws) = {vs[i] : i \in {i \in 1 .. n : J[i] <= m /\ ws[J[i]] = vs[i]}}
  BY <1>0 DEF Met
<1>. HIDE DEF J
<1>8. ASSUME NEW i \in 1 .. n PROVE J[i] \in 1 .. m + 1 /\ Right(i, J[i])
  <2>. DEFINE S == {k \in 0 .. n : J[k] \in W[k]}
  <2>1. 0 \in S
    BY <1>1, <1>6
  <2>2. ASSUME NEW k \in 0 .. n, k < n, k \in S PROVE k + 1 \in S
    <3>1. k + 1 \in 1 .. n /\ (k + 1) - 1 = k /\ k + 1 # 0 /\ k + 1 \in 0 .. n
      BY <2>2
    <3>2. J[k + 1] = Followed(ws, J[k], vs[k + 1])
      BY <1>6, <3>1
    <3>3. Followed(ws, J[k], vs[k + 1]) \in W[k + 1]
      <4>1. J[k] \in W[(k + 1) - 1]
        BY <2>2, <3>1
      <4>. HIDE DEF W, g
      <4>. QED BY <1>2, <3>1, <4>1
    <3>. QED BY <3>1, <3>2, <3>3
  <2>. HIDE DEF S, W
  <2>3. \A k \in 0 .. n : k \in S
    BY <2>1, <2>2, InductionUp
  <2>4. i \in S /\ i \in 0 .. n /\ i # 0
    BY <2>3
  <2>. QED BY <2>4 DEF S, W
<1>9. ASSUME NEW i \in 1 .. n
      PROVE  J[i] <= m /\ ws[J[i]] = vs[i] <=> \E h \in 1 .. m : ws[h] = vs[i]
  <2>1. J[i] \in 1 .. m + 1 /\ (J[i] <= m => vs[i] <= ws[J[i]]) /\ \A e \in 1 .. J[i] - 1 : ws[e] < vs[i]
    BY <1>8 DEF Right
  <2>2. ASSUME NEW h \in 1 .. m, ws[h] = vs[i] PROVE J[i] <= m /\ ws[J[i]] = vs[i]
    <3>1. ws[h] \in Nat /\ vs[i] \in Nat
      OBVIOUS
    <3>2. ~ (h < J[i])
      BY <2>1, <2>2, <3>1
    <3>3. J[i] <= m /\ J[i] \in 1 .. m
      BY <2>1, <3>2
    <3>4. J[i] = h \/ J[i] < h
      BY <2>1, <3>2
    <3>5. CASE J[i] < h
      <4>1. ws[J[i]] < ws[h] /\ ws[J[i]] \in Nat
        BY <3>3, <3>5 DEF Ascends
      <4>. QED BY <2>1, <2>2, <3>1, <3>3, <4>1
    <3>. QED BY <2>2, <3>3, <3>4, <3>5
  <2>. QED BY <2>1, <2>2
<1>10. Met(vs, ws) \subseteq {vs[i] : i \in 1 .. n} \cap {ws[i] : i \in 1 .. m}
  BY <1>7, <1>9
<1>11. ASSUME NEW x \in {vs[i] : i \in 1 .. n} \cap {ws[i] : i \in 1 .. m} PROVE x \in Met(vs, ws)
  <2>1. PICK i \in 1 .. n : x = vs[i]
    OBVIOUS
  <2>2. PICK h \in 1 .. m : x = ws[h]
    OBVIOUS
  <2>. QED BY <1>7, <1>9, <2>1, <2>2
<1>. QED BY <1>10, <1>11 DEF Elements

LEMMA MetOfLists ==
  \A n, m \in Nat : \A vs, ws :
    Ascending(vs, n) /\ Ascending(ws, m) => Met(vs, ws) = Elements(vs, n) \cap Elements(ws, m)
<1>. SUFFICES ASSUME NEW n \in Nat, NEW m \in Nat, NEW vs, NEW ws, Ascending(vs, n), Ascending(ws, m)
              PROVE  Met(vs, ws) = Elements(vs, n) \cap Elements(ws, m)
  OBVIOUS
<1>1. vs \in [1 .. n -> Nat] /\ ws \in [1 .. m -> Nat] /\ Ascends(vs) /\ Ascends(ws)
  BY DEF Ascending
<1>. QED BY <1>1, MetProps
-----------------------------------------------------------------------------
(* The table pre_expr gives an expression is in the line of the open ones. *)
LEMMA Bottom ==
  ASSUME TypeInv, PathInv, path # <<>>
  PROVE  /\ Len(path) \in Nat \ {0} /\ Last(path) = path[Len(path)] /\ Last(path) \in Expr
         /\ \A i \in 1 .. Len(path) : path[i] \in Expr
         /\ \A j \in 1 .. Len(path) : path[j] \in Upward(Last(path))
         /\ \A z \in Upward(Last(path)) : \E j \in 1 .. Len(path) : z = path[j]
<1>1. path \in Seq(Expr) /\ Len(path) \in Nat \ {0}
  BY EmptySeq DEF TypeInv
<1>2. Upward(path[Len(path)]) = {path[j] : j \in 1 .. Len(path)}
  <2>1. Len(path) \in 1 .. Len(path)
    BY <1>1
  <2>. QED BY <2>1 DEF PathInv
<1>. QED BY <1>1, <1>2 DEF Last

LEMMA AncestorsProps ==
  ASSUME TypeInv, TreeInv, TableInv, PathInv, path # <<>>
  PROVE  LET d == Len(path)
         IN /\ DOMAIN Ancestors(d) = 1 .. Top(d) + 1 /\ Top(d) \in Nat
            /\ \A k \in 0 .. Top(d) : d + 1 - Bit[k] \in 1 .. d /\ Ancestors(d)[k + 1] = path[d + 1 - Bit[k]]
<1>. DEFINE d == Len(path)
            t == Top(d)
            at(k) == path[d + 1 - Bit[k]]
<1>1. /\ d \in Nat \ {0} /\ Last(path) = path[d]
      /\ \A i \in 1 .. d : path[i] \in Expr /\ depth[path[i]] = i - 1 /\ Upward(path[i]) = {path[j] : j \in 1 .. i}
  BY Bottom DEF PathInv
<1>. HIDE DEF d
<1>2. t \in Nat /\ \A k \in Nat : k <= t <=> Bit[k] <= d
  BY <1>1, TopProps
<1>. HIDE DEF t
<1>3. ASSUME NEW k \in 0 .. t
      PROVE  /\ d + 1 - Bit[k] \in 1 .. d /\ at(k) \in Expr /\ depth[at(k)] = d - Bit[k]
             /\ Upward(at(k)) = {path[j] : j \in 1 .. d + 1 - Bit[k]}
  <2>1. k \in Nat /\ k <= t
    BY <1>2
  <2>2. Bit[k] \in Nat /\ Bit[k] > 0 /\ Bit[k] <= d
    BY <1>2, <2>1, BitNat
  <2>3. d + 1 - Bit[k] \in 1 .. d /\ (d + 1 - Bit[k]) - 1 = d - Bit[k]
    BY <1>1, <2>2
  <2>. QED BY <1>1, <2>3
<1>4. ASSUME NEW k \in 1 .. t PROVE anc[at(k - 1)][k] = at(k)
  <2>1. k - 1 \in 0 .. t /\ k \in 0 .. t /\ (k - 1) + 1 = k /\ k - 1 \in Nat /\ k <= t /\ k \in Nat
    BY <1>2
  <2>2. Bit[k] = 2 * Bit[k - 1] /\ Bit[k - 1] \in Nat /\ Bit[k] <= d /\ Bit[k] \in Nat
    BY <1>2, <2>1, BitStep, BitNat
  <2>. DEFINE y == at(k - 1)
  <2>3. /\ y \in Expr /\ depth[y] = d - Bit[k - 1]
        /\ Upward(y) = {path[j] : j \in 1 .. d + 1 - Bit[k - 1]} /\ d + 1 - Bit[k - 1] \in 1 .. d
    BY <1>3, <2>1
  <2>. HIDE DEF y
  <2>4. Bit[k - 1] <= depth[y]
    BY <1>1, <2>2, <2>3
  <2>5. anc[y][k] \in Upward(y) /\ depth[anc[y][k]] = depth[y] - Bit[k - 1]
    BY <2>1, <2>3, <2>4, Table
  <2>6. PICK j \in 1 .. d + 1 - Bit[k - 1] : anc[y][k] = path[j]
    BY <2>3, <2>5
  <2>7. depth[path[j]] = j - 1
    BY <1>1, <2>2, <2>3
  <2>8. j - 1 = (d - Bit[k - 1]) - Bit[k - 1]
    BY <2>3, <2>5, <2>6, <2>7
  <2>9. j = d + 1 - Bit[k]
    <3>1. \A m \in Int, b \in Nat, c \in Nat, i \in Int : c = 2 * b /\ i - 1 = (m - b) - b => i = m + 1 - c
      OBVIOUS
    <3>2. j \in Int /\ d \in Int
      BY <1>1, <2>3
    <3>. QED BY <2>2, <2>8, <3>1, <3>2
  <2>. QED BY <2>6, <2>9 DEF y
<1>. DEFINE h == [k \in 0 .. t |-> at(k)]
            Is(f) == f = [k \in 0 .. t |-> IF k = 0 THEN Last(path) ELSE anc[f[k - 1]][k]]
            X == CHOOSE f : Is(f)
<1>5. Is(h)
  <2>. HIDE DEF at
  <2>1. at(0) = Last(path)
    <3>1. d + 1 - Bit[0] = d
      BY <1>1, BitStep
    <3>. QED BY <1>1, <3>1 DEF at
  <2>2. ASSUME NEW k \in 0 .. t PROVE h[k] = IF k = 0 THEN Last(path) ELSE anc[h[k - 1]][k]
    <3>1. CASE k = 0
      BY <2>1, <3>1
    <3>2. CASE k # 0
      <4>1. k \in 1 .. t /\ k - 1 \in 0 .. t
        BY <1>2, <3>2
      <4>. QED BY <1>4, <3>2, <4>1
    <3>. QED BY <3>1, <3>2
  <2>. QED BY <2>2
<1>6. Is(X)
  <2>. HIDE DEF h
  <2>. QED BY <1>5
<1>7. Ancestors(d) = [j \in 1 .. t + 1 |-> X[j - 1]]
  BY DEF Ancestors, t
<1>. HIDE DEF X, at
<1>8. \A k \in 0 .. t : X[k] = at(k)
  <2>. DEFINE S == {k \in 0 .. t : X[k] = h[k]}
  <2>1. 0 \in S
    <3>1. 0 \in 0 .. t
      BY <1>2
    <3>2. X[0] = Last(path)
      BY <1>6, <3>1
    <3>3. h[0] = Last(path)
      <4>. HIDE DEF h
      <4>. QED BY <1>5, <3>1
    <3>. HIDE DEF h
    <3>. QED BY <3>1, <3>2, <3>3
  <2>2. ASSUME NEW k \in 0 .. t, k < t, k \in S PROVE k + 1 \in S
    <3>1. k + 1 \in 0 .. t /\ k + 1 # 0 /\ (k + 1) - 1 = k
      BY <1>2, <2>2
    <3>2. X[k + 1] = anc[X[k]][k + 1] /\ h[k + 1] = anc[h[k]][k + 1]
      <4>. HIDE DEF h
      <4>. QED BY <1>5, <1>6, <3>1
    <3>. QED BY <2>2, <3>1, <3>2
  <2>. HIDE DEF S
  <2>3. \A k \in 0 .. t : k \in S
    BY <1>2, <2>1, <2>2, InductionUp
  <2>. QED BY <2>3 DEF S
<1>9. ASSUME NEW k \in 0 .. t PROVE Ancestors(d)[k + 1] = at(k)
  <2>1. k + 1 \in 1 .. t + 1 /\ (k + 1) - 1 = k
    BY <1>2
  <2>. QED BY <1>7, <1>8, <2>1
<1>. QED BY <1>2, <1>3, <1>7, <1>9 DEF d, t, at

(* What was above an expression stays above it when one is added.          *)
LEMMA LinesGrow ==
  ASSUME NEW N \in Nat, NEW a, NEW b, DOMAIN a = 1 .. N, DOMAIN b = 1 .. N + 1,
         Parents(a), Parents(b), \A x \in 1 .. N : b[x] = a[x]
  PROVE  \A x \in 0 .. N : Line(b, x) = Line(a, x)
<1>. DEFINE S == {i \in Nat : i \in 0 .. N => Line(b, i) = Line(a, i)}
<1>1. ASSUME NEW i \in Nat, \A j \in Nat : j < i => j \in S PROVE i \in S
  <2>. SUFFICES ASSUME i \in 0 .. N PROVE Line(b, i) = Line(a, i)
    OBVIOUS
  <2>1. CASE i = 0
    BY <2>1 DEF Line, Null
  <2>2. CASE i # 0
    <3>1. i \in DOMAIN a /\ i \in DOMAIN b /\ b[i] = a[i] /\ a[i][1] \in 0 .. i - 1
      BY <2>2 DEF Parents
    <3>2. Line(a, i) = {i} \cup Line(a, a[i][1])
      BY <3>1, LineStep
    <3>3. Line(b, i) = {i} \cup Line(b, a[i][1])
      <4>1. N + 1 \in Nat
        OBVIOUS
      <4>. QED BY <3>1, <4>1, LineStep
    <3>4. Line(b, a[i][1]) = Line(a, a[i][1])
      <4>1. a[i][1] \in Nat /\ a[i][1] < i /\ a[i][1] \in 0 .. N
        BY <3>1
      <4>. QED BY <1>1, <4>1
    <3>. QED BY <3>2, <3>3, <3>4
  <2>. QED BY <2>1, <2>2
<1>. HIDE DEF S
<1>2. \A i \in Nat : i \in S
  BY <1>1, InductionStrong
<1>. QED BY <1>2 DEF S
-----------------------------------------------------------------------------
(* An expression is entered.                                               *)
LEMMA Entered ==
  ASSUME IInv, PreExpr, NEW N, N = Len(anc), NEW d, d = Len(path)
  PROVE  /\ N \in Nat /\ d \in Nat /\ TypeInv' /\ Expr' = 1 .. N + 1 /\ Len(anc') = N + 1
         /\ \A x \in 1 .. N : anc'[x] = anc[x] /\ depth'[x] = depth[x] /\ pre'[x] = pre[x]
         /\ anc'[N + 1] = Ancestors(d) /\ depth'[N + 1] = d
         /\ pre'[N + 1] = (IF path = <<>> THEN 0 ELSE tick) /\ tick' = pre'[N + 1] + 1
         /\ Len(path') = d + 1 /\ path'[d + 1] = N + 1 /\ path' # <<>>
         /\ \A i \in 1 .. d : path[i] \in 1 .. N /\ path'[i] = path[i]
         /\ d = 0 <=> path = <<>>
<1>0. /\ anc \in Seq(Seq(Nat)) /\ depth \in Seq(Nat) /\ pre \in Seq(Nat) /\ tick \in Nat
      /\ Len(depth) = N /\ Len(pre) = N /\ path \in Seq(Expr) /\ Expr = 1 .. N
  <2>1. TypeInv
    BY DEF IInv
  <2>2. Expr = 1 .. N
    BY <2>1, Dom
  <2>. QED BY <2>1, <2>2 DEF TypeInv
<1>1. N \in Nat /\ d \in Nat /\ (d = 0 <=> path = <<>>) /\ \A i \in 1 .. d : path[i] \in 1 .. N
  <2>1. N \in Nat
    BY <1>0
  <2>2. d \in Nat /\ (d = 0 <=> path = <<>>)
    BY <1>0, EmptySeq
  <2>3. ASSUME NEW i \in 1 .. d PROVE path[i] \in 1 .. N
    <3>1. path[i] \in Expr
      BY <1>0, <2>3, ElementOfSeq
    <3>. QED BY <1>0, <3>1
  <2>. QED BY <2>1, <2>2, <2>3
<1>2. Ancestors(d) \in Seq(Nat)
  <2>1. CASE path = <<>>
    BY <2>1 DEF Ancestors, Null
  <2>2. CASE path # <<>>
    <3>1. /\ DOMAIN Ancestors(d) = 1 .. Top(d) + 1 /\ Top(d) \in Nat
          /\ \A k \in 0 .. Top(d) : d + 1 - Bit[k] \in 1 .. d /\ Ancestors(d)[k + 1] = path[d + 1 - Bit[k]]
      BY <2>2, AncestorsProps DEF IInv
    <3>. DEFINE t == Top(d)
                a == Ancestors(d)
    <3>2. t \in Nat /\ DOMAIN a = 1 .. t + 1
      BY <3>1
    <3>3. ASSUME NEW j \in 1 .. t + 1 PROVE a[j] \in Nat
      <4>1. j - 1 \in 0 .. t /\ (j - 1) + 1 = j
        BY <3>2
      <4>. QED BY <1>1, <3>1, <4>1
    <3>4. a = [j \in 1 .. t + 1 |-> a[j]]
      BY <2>2 DEF Ancestors
    <3>. HIDE DEF a, t
    <3>5. a \in Seq(Nat)
      BY <3>2, <3>3, <3>4, SeqDef
    <3>. QED BY <3>5 DEF a
  <2>. QED BY <2>1, <2>2
<1>. DEFINE now == IF path = <<>> THEN 0 ELSE tick
<1>3. now \in Nat
  BY <1>0
<1>4. /\ pre' = Append(pre, now) /\ tick' = now + 1 /\ depth' = Append(depth, d)
      /\ anc' = Append(anc, Ancestors(d)) /\ path' = Append(path, N + 1)
      /\ assoc' = assoc /\ todo' = todo /\ last' = last /\ withins' = withins
      /\ assoc = <<>>
  BY DEF PreExpr
<1>. HIDE DEF now
<1>5. /\ anc' \in Seq(Seq(Nat)) /\ Len(anc') = N + 1 /\ anc'[N + 1] = Ancestors(d)
      /\ \A x \in 1 .. N : anc'[x] = anc[x]
  BY <1>0, <1>1, <1>2, <1>4
<1>6. /\ depth' \in Seq(Nat) /\ Len(depth') = N + 1 /\ depth'[N + 1] = d
      /\ \A x \in 1 .. N : depth'[x] = depth[x]
  BY <1>0, <1>1, <1>4
<1>7. /\ pre' \in Seq(Nat) /\ Len(pre') = N + 1 /\ pre'[N + 1] = now
      /\ \A x \in 1 .. N : pre'[x] = pre[x]
  BY <1>0, <1>1, <1>3, <1>4
<1>8. Expr' = 1 .. N + 1
  BY <1>5 DEF Expr
<1>9. /\ Len(path') = d + 1 /\ path'[d + 1] = N + 1
      /\ \A i \in 1 .. d : path'[i] = path[i]
  BY <1>0, <1>1, <1>4
<1>10. path' \in Seq(1 .. N + 1)
  <2>1. path \in Seq(1 .. N + 1)
    BY <1>0, <1>1
  <2>. QED BY <1>1, <1>4, <2>1
<1>11. assoc' \in Seq(End') /\ withins' \in Seq(End') /\ todo' \subseteq Expr'
  <2>1. assoc = <<>> /\ withins = <<>> /\ todo = {}
    BY <1>4 DEF IInv, FindInv
  <2>. QED BY <1>4, <2>1
<1>12. TypeInv'
  BY <1>3, <1>4, <1>5, <1>6, <1>7, <1>8, <1>10, <1>11 DEF TypeInv
<1>13. path' # <<>>
  BY <1>1, <1>9
<1>. QED BY <1>1, <1>4, <1>5, <1>6, <1>7, <1>8, <1>9, <1>12, <1>13 DEF now

LEMMA EnteredUp ==
  ASSUME IInv, PreExpr, NEW N, N = Len(anc), NEW d, d = Len(path)
  PROVE  /\ Parents(anc') /\ (d > 0 => Parent(N + 1)' = path[d])
         /\ (Parent(N + 1)' = Null) = (d = 0)
         /\ \A x \in 1 .. N : Upward(x)' = Upward(x)
         /\ Upward(N + 1)' = {N + 1} \cup {path[j] : j \in 1 .. d}
<1>0. /\ N \in Nat /\ d \in Nat /\ Len(anc') = N + 1 /\ anc' \in Seq(Seq(Nat))
      /\ \A x \in 1 .. N : anc'[x] = anc[x]
      /\ anc'[N + 1] = Ancestors(d) /\ (d = 0 <=> path = <<>>) /\ \A i \in 1 .. d : path[i] \in 1 .. N
  BY Entered DEF TypeInv
<1>1. TypeInv /\ TreeInv /\ TableInv /\ PathInv /\ Parents(anc) /\ DOMAIN anc = 1 .. N /\ DOMAIN anc' = 1 .. N + 1
  BY <1>0, Dom DEF IInv, TreeInv
<1>. DEFINE p == anc'[N + 1][1]
<1>2. IF d = 0 THEN p = Null ELSE p = path[d]
  <2>1. CASE d = 0
    <3>1. Ancestors(d) = <<Null>>
      BY <1>0, <2>1 DEF Ancestors
    <3>. QED BY <1>0, <2>1, <3>1
  <2>2. CASE d # 0
    <3>1. /\ Top(d) \in Nat
          /\ \A k \in 0 .. Top(d) : Ancestors(d)[k + 1] = path[d + 1 - Bit[k]]
      BY <1>0, <1>1, <2>2, AncestorsProps
    <3>2. Ancestors(d)[0 + 1] = path[d + 1 - Bit[0]]
      BY <3>1
    <3>3. d + 1 - Bit[0] = d
      BY <1>0, BitStep
    <3>. QED BY <1>0, <2>2, <3>2, <3>3
  <2>. QED BY <2>1, <2>2
<1>3. p \in 0 .. N /\ (p = Null <=> d = 0)
  BY <1>0, <1>2 DEF Null
<1>4. Parents(anc')
  <2>1. ASSUME NEW x \in DOMAIN anc' PROVE anc'[x][1] \in 0 .. x - 1
    <3>1. CASE x = N + 1
      BY <1>0, <1>3, <3>1
    <3>2. CASE x # N + 1
      <4>1. x \in 1 .. N
        BY <1>0, <1>1, <3>2
      <4>. QED BY <1>0, <1>1, <4>1 DEF Parents
    <3>. QED BY <3>1, <3>2
  <2>. QED BY <2>1 DEF Parents
<1>5. Parent(N + 1)' = p
  BY DEF Parent
<1>. HIDE DEF p
<1>6. \A x \in 0 .. N : Line(anc', x) = Line(anc, x)
  <2>1. /\ N \in Nat /\ DOMAIN anc = 1 .. N /\ DOMAIN anc' = 1 .. N + 1
        /\ Parents(anc) /\ Parents(anc') /\ \A x \in 1 .. N : anc'[x] = anc[x]
    BY <1>0, <1>1, <1>4
  <2>. QED BY <2>1, LinesGrow
<1>7. \A x : Upward(x)' = Line(anc', x)
  BY DEF Upward, Chain, Line, Above, Expr
<1>8. \A x \in 1 .. N : Upward(x)' = Upward(x)
  BY <1>6, <1>7, UpwardLine
<1>9. Line(anc', N + 1) = {N + 1} \cup Line(anc', p)
  <2>1. N + 1 \in Nat /\ N + 1 \in DOMAIN anc'
    BY <1>0, <1>1
  <2>. QED BY <1>1, <1>4, <2>1, LineStep DEF p
<1>10. Line(anc', p) = Upward(p)
  BY <1>3, <1>6, UpwardLine
<1>11. Upward(p) = {path[j] : j \in 1 .. d}
  <2>1. CASE d = 0
    BY <1>1, <1>2, <2>1, UpStep
  <2>2. CASE d # 0
    <3>1. d \in 1 .. Len(path)
      BY <1>0, <2>2
    <3>. QED BY <1>1, <1>2, <2>2, <3>1 DEF PathInv
  <2>. QED BY <2>1, <2>2
<1>12. Upward(N + 1)' = {N + 1} \cup {path[j] : j \in 1 .. d}
  BY <1>7, <1>9, <1>10, <1>11
<1>. QED BY <1>0, <1>2, <1>3, <1>4, <1>5, <1>8, <1>12
LEMMA EnteredTree == ASSUME IInv, PreExpr PROVE TreeInv' /\ TableInv' /\ PathInv'
<1>. DEFINE N == Len(anc)
            d == Len(path)
<1>0. /\ TypeInv /\ TreeInv /\ TableInv /\ PathInv
      /\ TypeInv => N \in Nat /\ Expr = 1 .. N /\ \A x \in Expr : depth[x] \in Nat
  BY Dom DEF IInv
<1>1. PICK n \in Nat : n = N
  BY <1>0
<1>2. PICK e : e = d
  OBVIOUS
<1>. HIDE DEF N, d
<1>3. /\ n \in Nat /\ e \in Nat /\ Expr' = 1 .. n + 1
      /\ \A x \in 1 .. n : anc'[x] = anc[x] /\ depth'[x] = depth[x]
      /\ anc'[n + 1] = Ancestors(e) /\ depth'[n + 1] = e
      /\ Len(path') = e + 1 /\ path'[e + 1] = n + 1
      /\ \A i \in 1 .. e : path[i] \in 1 .. n /\ path'[i] = path[i]
      /\ e = 0 <=> path = <<>>
  BY <1>1, <1>2, Entered DEF N, d
<1>4. /\ Parents(anc') /\ (e > 0 => Parent(n + 1)' = path[e])
      /\ (Parent(n + 1)' = Null) = (e = 0)
      /\ \A x \in 1 .. n : Upward(x)' = Upward(x)
      /\ Upward(n + 1)' = {n + 1} \cup {path[j] : j \in 1 .. e}
  BY <1>1, <1>2, EnteredUp DEF N, d
<1>5. Expr = 1 .. n /\ e = Len(path) /\ \A x \in 1 .. n : depth[x] \in Nat
  BY <1>0, <1>1, <1>2 DEF d
<1>6. \A i \in 1 .. e : depth[path[i]] = i - 1 /\ Upward(path[i]) = {path[j] : j \in 1 .. i}
  BY <1>0, <1>5 DEF PathInv
<1>7. ASSUME NEW x \in Expr'
      PROVE  /\ (Parent(x)' = Null) = (depth'[x] = 0)
             /\ Parent(x)' # Null => depth'[x] = depth'[Parent(x)'] + 1
  <2>1. CASE x = n + 1
    <3>1. (Parent(x)' = Null) = (depth'[x] = 0)
      BY <1>3, <1>4, <2>1
    <3>2. ASSUME e > 0 PROVE depth'[x] = depth'[Parent(x)'] + 1
      <4>1. Parent(x)' = path[e] /\ e \in 1 .. e
        BY <1>3, <1>4, <2>1, <3>2
      <4>2. depth'[path[e]] = e - 1
        BY <1>3, <1>6, <4>1
      <4>. QED BY <1>3, <2>1, <4>1, <4>2
    <3>. QED BY <1>3, <1>4, <2>1, <3>1, <3>2
  <2>2. CASE x # n + 1
    <3>1. x \in 1 .. n /\ Parent(x)' = Parent(x) /\ depth'[x] = depth[x]
      BY <1>3, <2>2 DEF Parent
    <3>2. /\ (Parent(x) = Null) = (depth[x] = 0)
          /\ Parent(x) # Null => depth[x] = depth[Parent(x)] + 1
      BY <1>0, <1>5, <3>1 DEF TreeInv
    <3>3. Parent(x) = Null \/ Parent(x) \in 1 .. n
      BY <1>0, <1>5, <3>1, UpStep
    <3>. QED BY <1>3, <3>1, <3>2, <3>3
  <2>. QED BY <2>1, <2>2
<1>8. TreeInv'
  BY <1>4, <1>7 DEF TreeInv
<1>9. ASSUME NEW x \in Expr'
      PROVE  IF depth'[x] = 0 THEN Len(anc'[x]) = 1
             ELSE /\ Len(anc'[x]) = Top(depth'[x]) + 1
                  /\ \A k \in 0 .. Top(depth'[x]) :
                       anc'[x][k + 1] \in Upward(x)' /\ depth'[anc'[x][k + 1]] = depth'[x] - Bit[k]
  <2>1. CASE x = n + 1
    <3>1. CASE e = 0
      <4>1. Ancestors(e) = <<Null>>
        BY <1>3, <3>1 DEF Ancestors
      <4>2. depth'[x] = 0 /\ Len(anc'[x]) = 1
        BY <1>3, <2>1, <3>1, <4>1
      <4>. QED BY <4>2
    <3>2. CASE e # 0
      <4>1. /\ DOMAIN Ancestors(e) = 1 .. Top(e) + 1 /\ Top(e) \in Nat
            /\ \A k \in 0 .. Top(e) : e + 1 - Bit[k] \in 1 .. e /\ Ancestors(e)[k + 1] = path[e + 1 - Bit[k]]
        BY <1>0, <1>3, <1>5, <3>2, AncestorsProps
      <4>2. Len(anc'[x]) = Top(e) + 1
        <5>1. anc'[x] \in Seq(Nat)
          <6>1. anc' \in Seq(Seq(Nat)) /\ x \in DOMAIN anc'
            BY <1>1, <1>2, Entered DEF TypeInv, Expr, N, d
          <6>. QED BY <6>1
        <5>2. DOMAIN anc'[x] = 1 .. Len(anc'[x]) /\ Len(anc'[x]) \in Nat
          BY <5>1, LenProperties
        <5>3. DOMAIN anc'[x] = 1 .. Top(e) + 1
          BY <1>3, <2>1, <4>1
        <5>. QED BY <4>1, <5>2, <5>3
      <4>3. ASSUME NEW k \in 0 .. Top(e)
            PROVE  anc'[x][k + 1] \in Upward(x)' /\ depth'[anc'[x][k + 1]] = e - Bit[k]
        <5>1. k \in Nat /\ Bit[k] \in Nat
          BY <4>1, BitNat
        <5>. DEFINE j == e + 1 - Bit[k]
        <5>2. j \in 1 .. e /\ anc'[x][k + 1] = path[j] /\ j - 1 = e - Bit[k]
          <6>1. e + 1 - Bit[k] \in 1 .. e /\ Ancestors(e)[k + 1] = path[e + 1 - Bit[k]]
            BY <4>1
          <6>2. anc'[x] = Ancestors(e)
            BY <1>3, <2>1
          <6>3. e + 1 - Bit[k] - 1 = e - Bit[k]
            BY <1>3, <5>1
          <6>4. anc'[x][k + 1] = path[e + 1 - Bit[k]]
            BY <6>1, <6>2
          <6>5. e \in Nat
            BY <1>3
          <6>. QED BY <5>1, <6>1, <6>3, <6>4, <6>5
        <5>. HIDE DEF j
        <5>3. depth'[path[j]] = j - 1
          BY <1>3, <1>6, <5>2
        <5>. QED BY <1>4, <2>1, <5>2, <5>3
      <4>4. depth'[x] = e /\ depth'[x] # 0
        BY <1>3, <2>1, <3>2
      <4>. QED BY <4>2, <4>3, <4>4
    <3>. QED BY <3>1, <3>2
  <2>2. CASE x # n + 1
    <3>1. x \in 1 .. n /\ x \in Expr /\ anc'[x] = anc[x] /\ depth'[x] = depth[x] /\ Upward(x)' = Upward(x)
      BY <1>3, <1>4, <1>5, <2>2
    <3>2. IF depth[x] = 0 THEN Len(anc[x]) = 1
          ELSE /\ Len(anc[x]) = Top(depth[x]) + 1
               /\ \A k \in 0 .. Top(depth[x]) :
                    anc[x][k + 1] \in Upward(x) /\ depth[anc[x][k + 1]] = depth[x] - Bit[k]
      BY <1>0, <3>1 DEF TableInv
    <3>3. Upward(x) \subseteq 1 .. n
      BY <1>0, <1>5, <3>1, UpStep
    <3>. QED BY <1>3, <3>1, <3>2, <3>3
  <2>. QED BY <2>1, <2>2
<1>10. TableInv'
  <2>1. \A x \in Expr' : Top(depth[x])' = Top(depth'[x])
    BY DEF Top
  <2>. QED BY <1>9, <2>1 DEF TableInv
<1>11. ASSUME NEW i \in 1 .. e + 1
       PROVE  depth'[path'[i]] = i - 1 /\ Upward(path[i])' = {path'[j] : j \in 1 .. i}
  <2>1. CASE i = e + 1
    <3>1. path'[i] = n + 1 /\ depth'[n + 1] = i - 1
      BY <1>3, <2>1
    <3>2. {path'[j] : j \in 1 .. i} = {n + 1} \cup {path[j] : j \in 1 .. e}
      BY <1>3, <2>1
    <3>. QED BY <1>4, <3>1, <3>2
  <2>2. CASE i # e + 1
    <3>1. i \in 1 .. e
      BY <1>3, <2>2
    <3>2. {path'[j] : j \in 1 .. i} = {path[j] : j \in 1 .. i}
      BY <1>3, <3>1
    <3>3. path'[i] = path[i] /\ path[i] \in 1 .. n
      BY <1>3, <3>1
    <3>4. depth'[path[i]] = i - 1 /\ Upward(path[i]) = {path[j] : j \in 1 .. i}
      BY <1>3, <1>6, <3>1, <3>3
    <3>5. \A z \in 1 .. n : Upward(z)' = Upward(z)
      BY <1>4
    <3>. QED BY <3>2, <3>3, <3>4, <3>5
  <2>. QED BY <2>1, <2>2
<1>12. PathInv'
  BY <1>3, <1>11 DEF PathInv
<1>. QED BY <1>8, <1>10, <1>12
LEMMA EnteredOrder == ASSUME IInv, PreExpr PROVE OrderInv'
<1>0. TypeInv /\ TreeInv /\ PathInv /\ OrderInv
  BY DEF IInv
<1>1. PICK n \in Nat : n = Len(anc)
  BY <1>0, Dom
<1>2. PICK e : e = Len(path)
  OBVIOUS
<1>3. /\ n \in Nat /\ e \in Nat /\ Expr' = 1 .. n + 1 /\ Len(anc') = n + 1
      /\ \A x \in 1 .. n : anc'[x] = anc[x] /\ depth'[x] = depth[x] /\ pre'[x] = pre[x]
      /\ depth'[n + 1] = e
      /\ pre'[n + 1] = (IF path = <<>> THEN 0 ELSE tick) /\ tick' = pre'[n + 1] + 1
      /\ Len(path') = e + 1 /\ path'[e + 1] = n + 1
      /\ \A i \in 1 .. e : path[i] \in 1 .. n /\ path'[i] = path[i]
      /\ e = 0 <=> path = <<>>
  BY <1>1, <1>2, Entered
<1>4. /\ \A x \in 1 .. n : Upward(x)' = Upward(x)
      /\ Upward(n + 1)' = {n + 1} \cup {path[j] : j \in 1 .. e}
  BY <1>1, <1>2, EnteredUp
<1>5. /\ Expr = 1 .. n
      /\ \A y \in Expr : \A x \in Upward(y) : x \in Expr /\ x <= y
      /\ \A y \in Expr : \A x \in Upward(y) : \A l \in x .. y : x \in Upward(l)
      /\ \A i \in 1 .. e : \A l \in path[i] .. n : path[i] \in Upward(l)
      /\ \A x \in Expr : \E r \in Upward(x) : depth[r] = 0 /\ pre[x] = x - r
      /\ path # <<>> => tick = n + 1 - path[1]
  <2>1. Expr = 1 .. n /\ \A y \in Expr : \A x \in Upward(y) : x \in Expr /\ x <= y
    BY <1>0, <1>1, Dom, UpBelow
  <2>. QED BY <1>0, <1>1, <1>2, <2>1 DEF OrderInv
<1>6. ASSUME NEW y \in Expr', NEW x \in Upward(y)', NEW l \in x .. y PROVE x \in Upward(l)'
  <2>1. CASE y = n + 1
    <3>1. CASE x = n + 1
      <4>1. l = n + 1
        BY <1>3, <2>1, <3>1
      <4>. QED BY <1>4, <3>1, <4>1
    <3>2. CASE x # n + 1
      <4>1. PICK j \in 1 .. e : x = path[j]
        BY <1>4, <2>1, <3>2
      <4>2. x \in 1 .. n
        BY <1>3, <4>1
      <4>3. CASE l = n + 1
        BY <1>4, <4>1, <4>3
      <4>4. CASE l # n + 1
        <5>1. l \in path[j] .. n /\ l \in 1 .. n
          BY <1>3, <2>1, <4>1, <4>2, <4>4
        <5>2. x \in Upward(l)
          BY <1>5, <4>1, <5>1
        <5>. QED BY <1>4, <5>1, <5>2
      <4>. QED BY <4>3, <4>4
    <3>. QED BY <3>1, <3>2
  <2>2. CASE y # n + 1
    <3>1. y \in 1 .. n /\ x \in Upward(y)
      BY <1>3, <1>4, <2>2
    <3>2. x \in 1 .. n /\ x \in Upward(l)
      BY <1>5, <3>1
    <3>3. l \in 1 .. n
      BY <3>1, <3>2
    <3>. QED BY <1>4, <3>2, <3>3
  <2>. QED BY <2>1, <2>2
<1>7. ASSUME NEW i \in 1 .. e + 1, NEW l \in path'[i] .. n + 1 PROVE path'[i] \in Upward(l)'
  <2>1. CASE i = e + 1
    <3>1. path'[i] = n + 1 /\ l = n + 1
      BY <1>3, <2>1
    <3>. QED BY <1>4, <3>1
  <2>2. CASE i # e + 1
    <3>1. i \in 1 .. e /\ path'[i] = path[i] /\ path[i] \in 1 .. n
      BY <1>3, <2>2
    <3>2. CASE l = n + 1
      BY <1>4, <3>1, <3>2
    <3>3. CASE l # n + 1
      <4>1. l \in path[i] .. n /\ l \in 1 .. n
        BY <3>1, <3>3
      <4>2. path[i] \in Upward(l)
        BY <1>5, <3>1, <4>1
      <4>. QED BY <1>4, <3>1, <4>1, <4>2
    <3>. QED BY <3>2, <3>3
  <2>. QED BY <2>1, <2>2
<1>8. e > 0 => 1 \in 1 .. e /\ depth[path[1]] = 0
  BY <1>0, <1>2, <1>3 DEF PathInv
<1>9. ASSUME NEW x \in Expr' PROVE \E r \in Upward(x)' : depth'[r] = 0 /\ pre'[x] = x - r
  <2>1. CASE x = n + 1
    <3>1. CASE e = 0
      <4>1. x \in Upward(x)' /\ depth'[x] = 0 /\ pre'[x] = x - x
        BY <1>3, <1>4, <2>1, <3>1
      <4>. QED BY <4>1
    <3>2. CASE e # 0
      <4>1. path[1] \in Upward(n + 1)' /\ depth'[path[1]] = 0
        BY <1>3, <1>4, <1>8, <3>2
      <4>2. path # <<>>
        BY <1>3, <3>2
      <4>3. pre'[n + 1] = tick /\ tick = n + 1 - path[1]
        BY <1>3, <1>5, <4>2
      <4>4. pre'[x] = x - path[1]
        <5>1. path[1] \in Int /\ n \in Int /\ x \in Int
          BY <1>3, <1>8, <2>1, <3>2
        <5>2. pre'[x] = tick
          BY <2>1, <4>3
        <5>3. x - path[1] = n + 1 - path[1]
          BY <2>1, <5>1
        <5>. QED BY <4>3, <5>2, <5>3
      <4>5. path[1] \in Upward(x)'
        BY <2>1, <4>1
      <4>. QED BY <4>1, <4>4, <4>5
    <3>. QED BY <3>1, <3>2
  <2>2. CASE x # n + 1
    <3>1. x \in 1 .. n
      BY <1>3, <2>2
    <3>2. PICK r \in Upward(x) : depth[r] = 0 /\ pre[x] = x - r
      BY <1>5, <3>1
    <3>3. r \in 1 .. n
      BY <1>5, <3>1
    <3>. QED BY <1>3, <1>4, <3>1, <3>2, <3>3
  <2>. QED BY <2>1, <2>2
<1>10. tick' = n + 1 + 1 - path'[1]
  <2>1. CASE e = 0
    BY <1>3, <2>1
  <2>2. CASE e # 0
    <3>1. path'[1] = path[1] /\ path[1] \in 1 .. n /\ path # <<>>
      BY <1>3, <1>8, <2>2
    <3>2. tick' = tick + 1 /\ tick = n + 1 - path[1]
      BY <1>3, <1>5, <3>1
    <3>3. path[1] \in Int /\ n \in Int
      BY <3>1
    <3>. QED BY <3>1, <3>2, <3>3
  <2>. QED BY <2>1, <2>2
<1>. QED BY <1>3, <1>6, <1>7, <1>9, <1>10 DEF OrderInv

LEMMA PreExprStep == IInv /\ PreExpr => IInv'
<1>. SUFFICES ASSUME IInv, PreExpr PROVE IInv'
  OBVIOUS
<1>1. TypeInv'
  BY Entered
<1>2. FindInv'
  BY DEF IInv, FindInv, PreExpr
<1>. QED BY <1>1, <1>2, EnteredTree, EnteredOrder DEF IInv

(* An expression is left.                                                  *)
LEMMA PostExprStep == IInv /\ PostExpr => IInv'
<1>. SUFFICES ASSUME IInv, PostExpr PROVE IInv'
  OBVIOUS
<1>0. TypeInv /\ TreeInv /\ TableInv /\ PathInv /\ OrderInv /\ FindInv
  BY DEF IInv
<1>1. /\ path # <<>> /\ path' = Front(path)
      /\ pre' = pre /\ depth' = depth /\ anc' = anc /\ tick' = tick
      /\ assoc' = assoc /\ todo' = todo /\ last' = last /\ withins' = withins
  BY DEF PostExpr
<1>2. path \in Seq(Expr) /\ Len(path) \in Nat \ {0}
  BY <1>0, <1>1, Bottom DEF TypeInv
<1>3. /\ path' \in Seq(Expr) /\ Len(path') = Len(path) - 1
      /\ \A i \in 1 .. Len(path') : path'[i] = path[i]
  <2>1. path' = SubSeq(path, 1, Len(path) - 1)
    BY <1>1 DEF Front
  <2>. DEFINE d == Len(path)
  <2>2. d \in Nat \ {0} /\ d - 1 \in Int /\ 1 \in Int /\ \A i \in 1 .. d - 1 : path[i] \in Expr
    BY <1>2
  <2>. HIDE DEF d
  <2>3. /\ SubSeq(path, 1, d - 1) \in Seq(Expr)
        /\ Len(SubSeq(path, 1, d - 1)) = IF 1 <= d - 1 THEN d - 1 - 1 + 1 ELSE 0
        /\ \A i \in 1 .. d - 1 - 1 + 1 : SubSeq(path, 1, d - 1)[i] = path[1 + i - 1]
    BY <2>2, SubSeqProperties
  <2>4. Len(SubSeq(path, 1, d - 1)) = d - 1
    BY <2>2, <2>3
  <2>5. ASSUME NEW i \in 1 .. d - 1 PROVE SubSeq(path, 1, d - 1)[i] = path[i]
    <3>1. i \in 1 .. d - 1 - 1 + 1 /\ 1 + i - 1 = i
      BY <2>2
    <3>. QED BY <2>3, <3>1
  <2>. QED BY <2>1, <2>3, <2>4, <2>5 DEF d
<1>4. Expr' = Expr /\ \A x : Upward(x)' = Upward(x)
  BY <1>1 DEF Expr, Upward, Chain
<1>5. TypeInv'
  BY <1>0, <1>1, <1>3, <1>4 DEF TypeInv, End
<1>6. TreeInv' /\ TableInv'
  <2>1. \A x : Parent(x)' = Parent(x)
    BY <1>1 DEF Parent
  <2>2. \A x : Top(depth[x])' = Top(depth[x])
    BY <1>1 DEF Top
  <2>3. TreeInv'
    BY <1>0, <1>1, <1>4, <2>1 DEF TreeInv
  <2>4. TableInv'
    BY <1>0, <1>1, <1>4, <2>2 DEF TableInv
  <2>. QED BY <2>3, <2>4
<1>7. PathInv'
  <2>1. ASSUME NEW i \in 1 .. Len(path')
        PROVE  depth'[path'[i]] = i - 1 /\ Upward(path[i])' = {path'[j] : j \in 1 .. i}
    <3>1. i \in 1 .. Len(path) /\ path'[i] = path[i] /\ \A j \in 1 .. i : path'[j] = path[j]
      BY <1>2, <1>3
    <3>2. depth[path[i]] = i - 1 /\ Upward(path[i]) = {path[j] : j \in 1 .. i}
      BY <1>0, <3>1 DEF PathInv
    <3>3. {path'[j] : j \in 1 .. i} = {path[j] : j \in 1 .. i}
      BY <3>1
    <3>. QED BY <1>1, <1>4, <3>1, <3>2, <3>3
  <2>. QED BY <2>1 DEF PathInv
<1>8. OrderInv'
  <2>1. \A i \in 1 .. Len(path') : i \in 1 .. Len(path)
    BY <1>2, <1>3
  <2>2. path' # <<>> => path'[1] = path[1]
    <3>1. path' # <<>> => Len(path') > 0
      BY <1>3, EmptySeq
    <3>. QED BY <1>2, <1>3, <3>1
  <2>. QED BY <1>0, <1>1, <1>3, <1>4, <2>1, <2>2 DEF OrderInv
<1>9. FindInv'
  BY <1>0, <1>1 DEF FindInv
<1>. QED BY <1>5, <1>6, <1>7, <1>8, <1>9 DEF IInv
-----------------------------------------------------------------------------
(* The start has no expression.                                            *)
LEMMA InitStep == Init => IInv
<1>. SUFFICES ASSUME Init PROVE IInv
  OBVIOUS
<1>1. /\ pre = <<>> /\ depth = <<>> /\ anc = <<>> /\ path = <<>> /\ tick = 0
      /\ assoc = <<>> /\ todo = {} /\ last = Null /\ withins = <<>>
  BY DEF Init
<1>2. Expr = {} /\ Len(path) = 0
  BY <1>1 DEF Expr
<1>3. TypeInv
  BY <1>1, <1>2, EmptySeq DEF TypeInv
<1>4. TreeInv /\ TableInv
  BY <1>1, <1>2 DEF TreeInv, TableInv, Parents, Expr
<1>5. PathInv /\ OrderInv
  BY <1>1, <1>2 DEF PathInv, OrderInv
<1>6. FindInv
  BY <1>1 DEF FindInv
<1>. QED BY <1>3, <1>4, <1>5, <1>6 DEF IInv
-----------------------------------------------------------------------------
(* find_within leaves the expressions as they are.                         *)
LEMMA Kept ==
  ASSUME IInv, UNCHANGED <<pre, depth, anc, path, tick>>
  PROVE  /\ Expr' = Expr /\ path' = path
         /\ \A x : Upward(x)' = Upward(x)
         /\ \A f, x : Interleaved(f, x)' = Interleaved(f, x)
         /\ \A x : pre'[x] = pre[x]
         /\ TreeInv' /\ TableInv' /\ PathInv' /\ OrderInv'
         /\ assoc' \in Seq(End) /\ withins' \in Seq(End) /\ todo' \subseteq Expr => TypeInv'
<1>0. TypeInv /\ TreeInv /\ TableInv /\ PathInv /\ OrderInv
  BY DEF IInv
<1>1. pre' = pre /\ depth' = depth /\ anc' = anc /\ path' = path /\ tick' = tick
  OBVIOUS
<1>2. Expr' = Expr /\ \A x : Upward(x)' = Upward(x)
  BY <1>1 DEF Expr, Upward, Chain
<1>3. \A f, x : Interleaved(f, x)' = Interleaved(f, x)
  BY <1>1, <1>2 DEF Interleaved
<1>4. TreeInv' /\ TableInv'
  <2>1. \A x : Parent(x)' = Parent(x)
    BY <1>1 DEF Parent
  <2>2. \A x : Top(depth[x])' = Top(depth[x])
    BY <1>1 DEF Top
  <2>3. TreeInv'
    BY <1>0, <1>1, <1>2, <2>1 DEF TreeInv
  <2>4. TableInv'
    BY <1>0, <1>1, <1>2, <2>2 DEF TableInv
  <2>. QED BY <2>3, <2>4
<1>5. PathInv'
  <2>1. ASSUME NEW i \in 1 .. Len(path')
        PROVE  depth'[path'[i]] = i - 1 /\ Upward(path[i])' = {path'[j] : j \in 1 .. i}
    <3>1. i \in 1 .. Len(path) /\ path'[i] = path[i]
      BY <1>1, <2>1
    <3>2. depth[path[i]] = i - 1 /\ Upward(path[i]) = {path[j] : j \in 1 .. i}
      BY <1>0, <3>1 DEF PathInv
    <3>3. {path'[j] : j \in 1 .. i} = {path[j] : j \in 1 .. i}
      BY <1>1
    <3>. QED BY <1>1, <1>2, <3>1, <3>2, <3>3
  <2>. QED BY <2>1 DEF PathInv
<1>6. OrderInv'
  BY <1>0, <1>1, <1>2 DEF OrderInv
<1>7. assoc' \in Seq(End) /\ withins' \in Seq(End) /\ todo' \subseteq Expr => TypeInv'
  BY <1>0, <1>1, <1>2 DEF TypeInv, End
<1>. QED BY <1>1, <1>2, <1>3, <1>4, <1>5, <1>6, <1>7

(* Within a statement the numbers differ as the expressions do.            *)
LEMMA SameStatement ==
  ASSUME TypeInv, TreeInv, OrderInv, NEW x \in Expr, NEW y \in Expr, NEW z \in Expr,
         z \in Upward(x), z \in Upward(y)
  PROVE  pre[x] + y = pre[y] + x
<1>1. PICK r \in Upward(x) : depth[r] = 0 /\ pre[x] = x - r
  BY DEF OrderInv
<1>2. PICK q \in Upward(y) : depth[q] = 0 /\ pre[y] = y - q
  BY DEF OrderInv
<1>3. PICK o \in Upward(z) : depth[o] = 0
  BY DEF OrderInv
<1>4. ASSUME NEW w \in Expr, z \in Upward(w), NEW t \in Upward(w), depth[t] = 0 PROVE t = o
  <2>1. o \in Upward(w) /\ t \in Expr /\ o \in Expr
    BY <1>3, <1>4, UpBelow
  <2>2. o \in Upward(t)
    <3>1. depth[o] <= depth[t]
      BY <1>3, <1>4
    <3>. QED BY <1>4, <2>1, <3>1, UpLinear
  <2>3. o # t => depth[o] < depth[t]
    BY <2>1, <2>2, UpBelow
  <2>. QED BY <1>3, <1>4, <2>3
<1>5. r = o /\ q = o
  BY <1>1, <1>2, <1>4
<1>6. x \in Int /\ y \in Int /\ o \in Int
  <2>1. Len(anc) \in Nat /\ Expr = 1 .. Len(anc) /\ o \in Expr
    BY <1>3, Dom, UpBelow
  <2>. QED BY <2>1
<1>7. pre[x] = x - o /\ pre[y] = y - o
  BY <1>1, <1>2, <1>5
<1>. QED BY <1>6, <1>7
-----------------------------------------------------------------------------
(* An edge is looked at: nothing of its first end is visited yet.          *)
LEMMA GenerateStep == IInv /\ Generate => IInv'
<1>. SUFFICES ASSUME IInv, Generate PROVE IInv'
  OBVIOUS
<1>1. PICK f, g \in UNION {[X -> Tag] : X \in SUBSET Expr} : assoc' = <<f, g>> /\ FindWithin(f)
  BY DEF Generate
<1>2. /\ path = <<>> /\ withins' = <<None>> /\ todo' = DOMAIN f /\ last' = Null
      /\ UNCHANGED <<pre, depth, anc, path, tick>>
  BY <1>1 DEF Generate, FindWithin
<1>3. f \in End /\ g \in End /\ None \in End /\ DOMAIN f \subseteq Expr
  <2>1. ASSUME NEW h \in UNION {[X -> Tag] : X \in SUBSET Expr} PROVE h \in End /\ DOMAIN h \subseteq Expr
    <3>1. PICK X \in SUBSET Expr : h \in [X -> Tag]
      BY <2>1
    <3>2. h \in [X -> SUBSET {1, Inner, Final}]
      BY <3>1, WithinAssumption
    <3>. QED BY <3>1, <3>2 DEF End
  <2>2. None \in [{} -> SUBSET {1, Inner, Final}] /\ {} \in SUBSET Expr
    BY DEF None
  <2>. QED BY <2>1, <2>2 DEF End
<1>4. /\ assoc' \in Seq(End) /\ withins' \in Seq(End) /\ assoc' # <<>>
      /\ Len(assoc') = 2 /\ Len(withins') = 1 /\ assoc'[1] = f /\ withins'[1] = None
  BY <1>1, <1>2, <1>3
<1>5. /\ TypeInv' /\ TreeInv' /\ TableInv' /\ PathInv' /\ OrderInv' /\ path' = <<>>
  BY <1>2, <1>3, <1>4, Kept
<1>6. Visited(1)' = {}
  BY <1>2, <1>4 DEF Visited
<1>7. DOMAIN withins'[1] = UNION {Upward(x)' : x \in Visited(1)'}
  BY <1>4, <1>6 DEF None
<1>8. FindInv'
  <2>1. ASSUME NEW k \in 1 .. Len(withins')
        PROVE  /\ DOMAIN withins'[k] = UNION {Upward(x)' : x \in Visited(k)'}
               /\ \A x \in Visited(k)' : Interleaved(assoc[k], x)' \/ withins'[k][x] = assoc'[k][x]
    <3>1. k = 1
      BY <1>4
    <3>. QED BY <1>6, <1>7, <3>1
  <2>2. (last' = Null) = (Visited(Len(withins))' = {})
    BY <1>2, <1>4, <1>6
  <2>. QED BY <1>2, <1>4, <1>5, <2>1, <2>2 DEF FindInv
<1>. QED BY <1>5, <1>8 DEF IInv

(* The second end is turned to.                                            *)
LEMMA NextEndStep == IInv /\ NextEnd => IInv'
<1>. SUFFICES ASSUME IInv, NextEnd PROVE IInv'
  OBVIOUS
<1>0. TypeInv /\ FindInv
  BY DEF IInv
<1>1. /\ Len(withins) = 1 /\ todo = {} /\ withins' = Append(withins, None)
      /\ todo' = DOMAIN assoc[2] /\ last' = Null /\ assoc' = assoc
      /\ UNCHANGED <<pre, depth, anc, path, tick>>
  BY DEF NextEnd, FindWithin
<1>2. withins \in Seq(End) /\ assoc \in Seq(End)
  BY <1>0 DEF TypeInv
<1>3. assoc # <<>>
  <2>1. Len(<<>>) = 0
    OBVIOUS
  <2>. QED BY <1>0, <1>1, <2>1 DEF FindInv
<1>4. path = <<>> /\ Len(assoc) = 2
  BY <1>0, <1>3 DEF FindInv
<1>5. assoc[2] \in End
  <2>1. 2 \in 1 .. Len(assoc)
    BY <1>4
  <2>. QED BY <1>2, <2>1, ElementOfSeq
<1>6. DOMAIN assoc[2] \subseteq Expr
  BY <1>5 DEF End
<1>7. None \in End
  <2>1. None \in [{} -> SUBSET {1, Inner, Final}] /\ {} \in SUBSET Expr
    BY DEF None
  <2>. QED BY <2>1 DEF End
<1>8. /\ withins' \in Seq(End) /\ Len(withins') = 2
      /\ withins'[1] = withins[1] /\ withins'[2] = None
  <2>1. /\ Append(withins, None) \in Seq(End)
        /\ Len(Append(withins, None)) = Len(withins) + 1
        /\ \A i \in 1 .. Len(withins) : Append(withins, None)[i] = withins[i]
        /\ Append(withins, None)[Len(withins) + 1] = None
    BY <1>2, <1>7, AppendProperties
  <2>. QED BY <1>1, <2>1
<1>9. /\ TypeInv' /\ TreeInv' /\ TableInv' /\ PathInv' /\ OrderInv'
      /\ \A x : Upward(x)' = Upward(x)
      /\ \A f, x : Interleaved(f, x)' = Interleaved(f, x)
  BY <1>1, <1>2, <1>6, <1>8, Kept
<1>10. Visited(1)' = Visited(1) /\ Visited(2)' = {}
  BY <1>1, <1>8 DEF Visited
<1>11. ASSUME NEW k \in 1 .. Len(withins')
       PROVE  /\ DOMAIN withins'[k] = UNION {Upward(x)' : x \in Visited(k)'}
              /\ \A x \in Visited(k)' : Interleaved(assoc[k], x)' \/ withins'[k][x] = assoc'[k][x]
  <2>1. CASE k = 1
    <3>1. 1 \in 1 .. Len(withins)
      BY <1>1
    <3>2. DOMAIN withins[1] = UNION {Upward(x) : x \in Visited(1)}
      BY <1>0, <1>3, <3>1 DEF FindInv
    <3>3. ASSUME NEW x \in Visited(1) PROVE Interleaved(assoc[1], x) \/ withins[1][x] = assoc[1][x]
      BY <1>0, <1>3, <3>1 DEF FindInv
    <3>4. DOMAIN withins'[1] = UNION {Upward(x)' : x \in Visited(1)'}
      BY <1>8, <1>9, <1>10, <3>2
    <3>5. ASSUME NEW x \in Visited(1) PROVE Interleaved(assoc[1], x)' \/ withins'[1][x] = assoc'[1][x]
      <4>1. Interleaved(assoc[1], x)' = Interleaved(assoc[1], x)
        BY <1>1, <1>9 DEF Interleaved
      <4>. QED BY <1>1, <1>8, <3>3, <4>1
    <3>. QED BY <1>10, <2>1, <3>4, <3>5
  <2>2. CASE k # 1
    <3>1. k = 2
      BY <1>8, <2>2
    <3>2. DOMAIN withins'[2] = {}
      BY <1>8 DEF None
    <3>. QED BY <1>10, <3>1, <3>2
  <2>. QED BY <2>1, <2>2
<1>12. FindInv'
  <2>1. (last' = Null) = (Visited(Len(withins))' = {})
    BY <1>1, <1>8, <1>10
  <2>2. todo' \subseteq DOMAIN assoc'[Len(withins')] /\ Len(withins') \in 1 .. 2
    BY <1>1, <1>8
  <2>. QED BY <1>1, <1>3, <1>4, <1>11, <2>1, <2>2 DEF FindInv
<1>. QED BY <1>9, <1>12 DEF IInv
-----------------------------------------------------------------------------
(* An expression is visited, which is none of those brought along so far;  *)
(* it brings what is not around the last one.                              *)
Brings(x, f, W, V, C) ==
  /\ f \in End /\ W \in End
  /\ DOMAIN f \subseteq Expr /\ V \subseteq DOMAIN f /\ x \in DOMAIN f \ V
  /\ DOMAIN W = UNION {Upward(z) : z \in V} /\ x \notin DOMAIN W
  /\ DOMAIN W \cup C = UNION {Upward(z) : z \in V \cup {x}}
  /\ \A z \in V : pre[z] <= pre[x]
  /\ \A z \in V : Interleaved(f, z) \/ (z \notin C /\ W[z] = f[z])

LEMMA Brought ==
  ASSUME IInv, NEW x \in todo, NEW f, f = Own, NEW W, W = withins[Len(withins)],
         NEW V, V = Visited(Len(withins))
  PROVE  assoc # <<>> /\ Len(withins) \in 1 .. 2 /\ Brings(x, f, W, V, Chain(x, Stop(x)))
<1>0. TypeInv /\ TreeInv /\ TableInv /\ OrderInv /\ FindInv
  BY DEF IInv
<1>1. assoc # <<>>
  BY <1>0 DEF FindInv
<1>2. PICK m : m = Len(withins)
  OBVIOUS
<1>3. /\ m \in 1 .. 2 /\ Len(assoc) = 2 /\ f = assoc[m] /\ W = withins[m]
      /\ todo \subseteq DOMAIN f /\ V = DOMAIN f \ todo
  BY <1>0, <1>1, <1>2 DEF FindInv, Own, Visited
<1>4. f \in End /\ W \in End
  <2>1. m \in 1 .. Len(assoc) /\ m \in 1 .. Len(withins) /\ assoc \in Seq(End) /\ withins \in Seq(End)
    BY <1>0, <1>2, <1>3 DEF TypeInv
  <2>2. assoc[m] \in End
    BY <2>1, ElementOfSeq
  <2>3. withins[m] \in End
    BY <2>1, ElementOfSeq
  <2>. QED BY <1>3, <2>2, <2>3
<1>5. DOMAIN f \subseteq Expr
  BY <1>4 DEF End
<1>6. /\ x \in DOMAIN f \ V /\ V \subseteq DOMAIN f /\ V \subseteq Expr /\ x \in Expr
  BY <1>3, <1>5
<1>7. /\ (last = Null) = (V = {})
      /\ last # Null => /\ last \in V
                        /\ \A z \in V : pre[z] <= pre[last]
                        /\ \A z \in todo : pre[last] <= pre[z]
  BY <1>0, <1>1 DEF FindInv
<1>8. /\ DOMAIN W = UNION {Upward(z) : z \in V}
      /\ \A z \in V : Interleaved(f, z) \/ W[z] = f[z]
  <2>1. m \in 1 .. Len(withins)
    BY <1>2, <1>3
  <2>2. V = Visited(m)
    BY <1>2
  <2>. QED BY <1>0, <1>1, <1>3, <2>1, <2>2 DEF FindInv
<1>9. \A z \in Expr : z \in Int /\ pre[z] \in Int
  <2>1. Expr = 1 .. Len(anc) /\ Len(anc) \in Nat
    BY <1>0, Dom
  <2>. QED BY <1>0, <2>1, Dom
<1>10. \A z \in V : pre[z] <= pre[x]
  <2>1. ASSUME NEW z \in V PROVE pre[z] <= pre[x]
    <3>1. last # Null /\ last \in Expr
      BY <1>6, <1>7
    <3>2. pre[z] <= pre[last] /\ pre[last] <= pre[x]
      BY <1>7, <3>1
    <3>. QED BY <1>6, <1>9, <3>1, <3>2
  <2>. QED BY <2>1
<1>11. x \notin DOMAIN W
  <2>1. SUFFICES ASSUME NEW v \in V, x \in Upward(v) PROVE FALSE
    BY <1>8
  <2>2. v \in Expr /\ v # x /\ x <= v /\ x \in Upward(x)
    BY <1>0, <1>6, <2>1, UpBelow
  <2>3. pre[x] + v = pre[v] + x
    BY <1>0, <1>6, <2>1, <2>2, SameStatement
  <2>4. pre[v] <= pre[x] /\ x \in Int /\ v \in Int /\ pre[x] \in Int /\ pre[v] \in Int
    BY <1>6, <1>9, <1>10, <2>2
  <2>. QED BY <2>2, <2>3, <2>4
<1>12. Chain(x, Stop(x)) = Upward(x) \ (IF last = Null THEN {} ELSE Upward(last))
  <2>1. CASE last = Null
    <3>1. Stop(x) = Null
      BY <2>1 DEF Stop
    <3>2. Chain(x, Null) = Upward(x)
      BY DEF Upward
    <3>. QED BY <2>1, <3>1, <3>2
  <2>2. CASE last # Null
    <3>. DEFINE s == FindLca(last, x)
    <3>1. Stop(x) = s
      BY <2>2 DEF Stop
    <3>2. last \in Expr
      BY <1>6, <1>7, <2>2
    <3>3. Upward(s) = Upward(last) \cap Upward(x) /\ (s = Null \/ s \in Expr)
      BY <1>0, <1>6, <3>2, Lca
    <3>. HIDE DEF s
    <3>4. s = Null \/ s \in Upward(x)
      BY <1>0, <3>3, UpBelow
    <3>5. Chain(x, s) = Upward(x) \ Upward(s)
      BY <1>0, <1>6, <3>4, ChainProps
    <3>. QED BY <2>2, <3>1, <3>3, <3>5
  <2>. QED BY <2>1, <2>2
<1>13. last # Null => Upward(last) \subseteq DOMAIN W
  BY <1>7, <1>8
<1>14. DOMAIN W \cup Chain(x, Stop(x)) = UNION {Upward(z) : z \in V \cup {x}}
  <2>1. UNION {Upward(z) : z \in V \cup {x}} = DOMAIN W \cup Upward(x)
    BY <1>8
  <2>. QED BY <1>12, <1>13, <2>1
<1>15. ASSUME NEW z \in V, z \in Chain(x, Stop(x)) PROVE Interleaved(f, z)
  <2>1. last # Null /\ last \in V /\ last \in Expr /\ z \in Expr
    BY <1>6, <1>7
  <2>2. z \in Upward(x) /\ z \notin Upward(last)
    BY <1>12, <1>15, <2>1
  <2>3. pre[z] <= pre[last] /\ pre[last] <= pre[x]
    BY <1>7, <2>1
  <2>4. Upward(last) \cap Upward(z) = {}
    <3>1. SUFFICES ASSUME NEW o \in Upward(last), o \in Upward(z) PROVE FALSE
      OBVIOUS
    <3>2. o \in Expr
      BY <1>0, <2>1, <3>1, UpBelow
    <3>3. pre[last] + z = pre[z] + last
      BY <1>0, <2>1, <3>1, <3>2, SameStatement
    <3>4. z \in Upward(z)
      BY <1>0, <2>1, UpBelow
    <3>5. pre[x] + z = pre[z] + x
      BY <1>0, <1>6, <2>1, <2>2, <3>4, SameStatement
    <3>6. /\ x \in Int /\ z \in Int /\ last \in Int
          /\ pre[x] \in Int /\ pre[z] \in Int /\ pre[last] \in Int
      BY <1>6, <1>9, <2>1
    <3>7. z <= last /\ last <= x
      BY <2>3, <3>3, <3>5, <3>6
    <3>8. last \in z .. x
      BY <3>6, <3>7
    <3>9. z \in Upward(last)
      BY <1>0, <1>6, <2>2, <3>8 DEF OrderInv
    <3>. QED BY <2>2, <3>9
  <2>5. x # z /\ x \in DOMAIN f /\ last \in DOMAIN f
    BY <1>6, <2>1
  <2>. QED BY <2>2, <2>3, <2>4, <2>5 DEF Interleaved
<1>16. \A z \in V : Interleaved(f, z) \/ (z \notin Chain(x, Stop(x)) /\ W[z] = f[z])
  BY <1>8, <1>15
<1>17. Brings(x, f, W, V, Chain(x, Stop(x)))
  BY <1>4, <1>5, <1>6, <1>8, <1>10, <1>11, <1>14, <1>16 DEF Brings
<1>. QED BY <1>1, <1>2, <1>3, <1>17

LEMMA BringStep == ASSUME IInv, NEW x \in todo, Bring(x) PROVE IInv'
<1>0. TypeInv /\ FindInv
  BY DEF IInv
<1>1. PICK m : m = Len(withins)
  OBVIOUS
<1>2. PICK f : f = Own
  OBVIOUS
<1>3. PICK W : W = withins[m]
  OBVIOUS
<1>4. PICK V : V = Visited(m)
  OBVIOUS
<1>5. PICK C : C = Chain(x, Stop(x))
  OBVIOUS
<1>6. /\ assoc # <<>> /\ m \in 1 .. 2 /\ f \in End /\ W \in End
      /\ DOMAIN f \subseteq Expr /\ V \subseteq DOMAIN f /\ x \in DOMAIN f \ V
      /\ DOMAIN W = UNION {Upward(z) : z \in V} /\ x \notin DOMAIN W
      /\ DOMAIN W \cup C = UNION {Upward(z) : z \in V \cup {x}}
      /\ \A z \in V : pre[z] <= pre[x]
      /\ \A z \in V : Interleaved(f, z) \/ (z \notin C /\ W[z] = f[z])
  <2>1. W = withins[Len(withins)] /\ V = Visited(Len(withins))
    BY <1>1, <1>3, <1>4
  <2>2. assoc # <<>> /\ m \in 1 .. 2 /\ Brings(x, f, W, V, C)
    BY <1>1, <1>2, <1>5, <2>1, Brought
  <2>. QED BY <2>2 DEF Brings
<1>7. /\ \A y \in todo : Sorted(x, y)
      /\ todo' = todo \ {x} /\ last' = x /\ assoc' = assoc
      /\ withins' = [withins EXCEPT ![m] = Tagged(W, C, f[x])]
      /\ UNCHANGED <<pre, depth, anc, path, tick>>
  BY <1>1, <1>2, <1>3, <1>5 DEF Bring
<1>8. x \in C
  <2>1. x \in Upward(x)
    <3>1. TreeInv /\ x \in Expr
      BY <1>6 DEF IInv
    <3>. QED BY <1>0, <3>1, UpBelow
  <2>. QED BY <1>6, <2>1
<1>. DEFINE T == Tagged(W, C, f[x])
<1>9. /\ DOMAIN T = DOMAIN W \cup C
      /\ \A z \in DOMAIN W : z \notin C => T[z] = W[z]
      /\ T[x] = f[x]
      /\ T \in End
  <2>1. DOMAIN T = DOMAIN W \cup C /\ \A z \in DOMAIN T : T[z] =
           (IF z \in DOMAIN W THEN W[z] ELSE {}) \cup (IF z \in C THEN f[x] ELSE {})
    BY DEF Tagged
  <2>. HIDE DEF T
  <2>2. /\ DOMAIN W \subseteq Expr /\ \A z \in DOMAIN W : W[z] \in SUBSET {1, Inner, Final}
        /\ f[x] \in SUBSET {1, Inner, Final}
    BY <1>6 DEF End
  <2>3. C \subseteq Expr
    <3>1. \A z \in Expr : Upward(z) \subseteq Expr
      BY <1>0, UpStep DEF IInv
    <3>. QED BY <1>6, <3>1
  <2>4. DOMAIN T \in SUBSET Expr
    BY <2>1, <2>2, <2>3
  <2>5. \A z \in DOMAIN T : T[z] \in SUBSET {1, Inner, Final}
    BY <2>1, <2>2
  <2>6. T = [z \in DOMAIN T |-> T[z]]
    BY DEF T, Tagged
  <2>7. T \in [DOMAIN T -> SUBSET {1, Inner, Final}]
    BY <2>5, <2>6
  <2>8. T \in End
    BY <2>4, <2>7 DEF End
  <2>9. T[x] = f[x]
    <3>1. x \in DOMAIN T /\ x \notin DOMAIN W /\ x \in C
      BY <1>6, <1>8, <2>1
    <3>2. T[x] = {} \cup f[x]
      BY <2>1, <3>1
    <3>. QED BY <3>2
  <2>10. ASSUME NEW z \in DOMAIN W, z \notin C PROVE T[z] = W[z]
    <3>1. T[z] = W[z] \cup {}
      BY <2>1, <2>10
    <3>. QED BY <3>1
  <2>. QED BY <2>1, <2>8, <2>9, <2>10
<1>. HIDE DEF T
<1>10. /\ withins' \in Seq(End) /\ Len(withins') = m /\ withins'[m] = T
       /\ \A k \in 1 .. m : k # m => withins'[k] = withins[k]
  <2>1. withins \in Seq(End) /\ m \in 1 .. Len(withins)
    BY <1>0, <1>1, <1>6 DEF TypeInv
  <2>2. withins' = [withins EXCEPT ![m] = T]
    BY <1>7 DEF T
  <2>. QED BY <1>1, <1>9, <2>1, <2>2
<1>11. /\ TypeInv' /\ TreeInv' /\ TableInv' /\ PathInv' /\ OrderInv'
       /\ \A z : Upward(z)' = Upward(z)
       /\ \A z : pre'[z] = pre[z]
       /\ \A g, z : Interleaved(g, z)' = Interleaved(g, z)
  <2>1. assoc' \in Seq(End) /\ todo' \subseteq Expr
    BY <1>0, <1>7 DEF TypeInv
  <2>. QED BY <1>7, <1>10, <2>1, Kept
<1>12. /\ Visited(m)' = V \cup {x}
       /\ \A k \in 1 .. m : k # m => Visited(k)' = Visited(k)
  <2>1. V = DOMAIN f \ todo /\ f = assoc[m]
    BY <1>1, <1>2, <1>4 DEF Visited, Own
  <2>2. Visited(m)' = DOMAIN f \ (todo \ {x})
    BY <1>7, <1>10, <2>1 DEF Visited
  <2>3. \A k \in 1 .. m : k # m => Visited(k)' = Visited(k)
    BY <1>1, <1>7, <1>10 DEF Visited
  <2>. QED BY <1>6, <2>1, <2>2, <2>3
<1>13. ASSUME NEW k \in 1 .. m
       PROVE  /\ DOMAIN withins'[k] = UNION {Upward(z)' : z \in Visited(k)'}
              /\ \A z \in Visited(k)' : Interleaved(assoc[k], z)' \/ withins'[k][z] = assoc'[k][z]
  <2>1. CASE k = m
    <3>1. assoc'[m] = f
      BY <1>1, <1>2, <1>7 DEF Own
    <3>2. DOMAIN withins'[m] = UNION {Upward(z)' : z \in Visited(m)'}
      BY <1>6, <1>9, <1>10, <1>11, <1>12
    <3>3. ASSUME NEW z \in V \cup {x} PROVE Interleaved(f, z)' \/ withins'[m][z] = f[z]
      <4>1. CASE z = x
        BY <1>9, <1>10, <4>1
      <4>2. CASE z \in V
        <5>1. Interleaved(f, z) \/ (z \notin C /\ W[z] = f[z])
          BY <1>6, <4>2
        <5>2. z \in DOMAIN W
          <6>1. z \in Upward(z)
            <7>1. TreeInv /\ z \in Expr
              BY <1>6, <4>2 DEF IInv
            <7>. QED BY <1>0, <7>1, UpBelow
          <6>. QED BY <1>6, <4>2, <6>1
        <5>. QED BY <1>9, <1>10, <1>11, <5>1, <5>2
      <4>. QED BY <3>3, <4>1, <4>2
    <3>4. \A z : Interleaved(assoc[m], z)' = Interleaved(f, z)'
      BY <3>1 DEF Interleaved
    <3>. QED BY <1>12, <2>1, <3>1, <3>2, <3>3, <3>4
  <2>2. CASE k # m
    <3>1. k \in 1 .. Len(withins) /\ withins'[k] = withins[k] /\ Visited(k)' = Visited(k) /\ assoc'[k] = assoc[k]
      BY <1>1, <1>7, <1>10, <1>12, <2>2
    <3>2. /\ DOMAIN withins[k] = UNION {Upward(z) : z \in Visited(k)}
          /\ \A z \in Visited(k) : Interleaved(assoc[k], z) \/ withins[k][z] = assoc[k][z]
      BY <1>0, <1>6, <3>1 DEF FindInv
    <3>3. \A z : Interleaved(assoc[k], z)' = Interleaved(assoc[k], z)
      BY <1>7, <1>11 DEF Interleaved
    <3>4. DOMAIN withins'[k] = UNION {Upward(z)' : z \in Visited(k)'}
      BY <1>11, <3>1, <3>2
    <3>. QED BY <3>1, <3>2, <3>3, <3>4
  <2>. QED BY <2>1, <2>2
<1>14. FindInv'
  <2>1. /\ assoc' # <<>> /\ path' = <<>> /\ Len(assoc') = 2 /\ Len(withins') \in 1 .. 2
        /\ todo' \subseteq DOMAIN assoc'[m]
    BY <1>0, <1>1, <1>6, <1>7, <1>10 DEF FindInv
  <2>2. last' # Null /\ last' = x /\ x \in Visited(m)'
    <3>1. x # Null
      BY <1>0, <1>6, Dom DEF Null
    <3>. QED BY <1>7, <1>12, <3>1
  <2>3. \A z \in Visited(m)' : pre'[z] <= pre'[x]
    <3>1. pre[x] \in Nat
      BY <1>0, <1>6, Dom
    <3>. QED BY <1>6, <1>11, <1>12, <3>1
  <2>4. \A z \in todo' : pre'[x] <= pre'[z]
    <3>1. ASSUME NEW z \in todo PROVE pre[x] <= pre[z]
      <4>1. pre[x] < pre[z] \/ pre[x] = pre[z]
        BY <1>7 DEF Sorted
      <4>2. pre[x] \in Nat /\ pre[z] \in Nat
        BY <1>0, <1>6, Dom DEF TypeInv
      <4>. QED BY <4>1, <4>2
    <3>. QED BY <1>7, <1>11, <3>1
  <2>5. (last' = Null) = (Visited(m)' = {})
    BY <2>2
  <2>6. Visited(Len(withins))' = Visited(m)'
    BY <1>10 DEF Visited
  <2>. QED BY <1>10, <1>13, <2>1, <2>2, <2>3, <2>4, <2>5, <2>6 DEF FindInv
<1>. QED BY <1>11, <1>14 DEF IInv
-----------------------------------------------------------------------------
(* The tables of pre_expr stay right, and find_within keeps its order.     *)
LEMMA StutterStep == IInv /\ UNCHANGED vars => IInv'
<1>. SUFFICES ASSUME IInv, UNCHANGED vars PROVE IInv'
  OBVIOUS
<1>0. TypeInv /\ FindInv
  BY DEF IInv
<1>1. /\ UNCHANGED <<pre, depth, anc, path, tick>>
      /\ assoc' = assoc /\ todo' = todo /\ last' = last /\ withins' = withins
  BY DEF vars
<1>2. assoc' \in Seq(End) /\ withins' \in Seq(End) /\ todo' \subseteq Expr
  BY <1>0, <1>1 DEF TypeInv
<1>3. /\ TypeInv' /\ TreeInv' /\ TableInv' /\ PathInv' /\ OrderInv'
      /\ \A x : Upward(x)' = Upward(x)
      /\ \A f, x : Interleaved(f, x)' = Interleaved(f, x)
  BY <1>1, <1>2, Kept
<1>4. \A k : Visited(k)' = Visited(k)
  BY <1>1 DEF Visited
<1>5. \A k, x : Interleaved(assoc[k], x)' = Interleaved(assoc[k], x)
  BY <1>1 DEF Interleaved, Upward, Chain, Expr
<1>6. Visited(Len(withins))' = Visited(Len(withins))
  BY <1>1 DEF Visited
<1>7. FindInv'
  BY <1>0, <1>1, <1>3, <1>4, <1>5, <1>6 DEF FindInv
<1>. QED BY <1>3, <1>7 DEF IInv

(* The invariant: the tables have the ancestors of every expression at the *)
(* distances that are powers of two (compiler.cc 89-131), the numbers are  *)
(* in the order of entering, and find_within (304-333) has brought along   *)
(* what is around the expressions visited so far.                          *)
THEOREM Invariance == Spec => []IInv
<1>1. Init => IInv
  BY InitStep
<1>2. IInv /\ [Next]_vars => IInv'
  <2>. SUFFICES ASSUME IInv, [Next]_vars PROVE IInv'
    OBVIOUS
  <2>1. CASE PreExpr
    BY <2>1, PreExprStep
  <2>2. CASE PostExpr
    BY <2>2, PostExprStep
  <2>3. CASE Generate
    BY <2>3, GenerateStep
  <2>4. ASSUME NEW x \in todo, Bring(x) PROVE IInv'
    BY <2>4, BringStep
  <2>5. CASE NextEnd
    BY <2>5, NextEndStep
  <2>6. CASE Finished \/ UNCHANGED vars
    <3>1. UNCHANGED vars
      BY <2>6 DEF Finished
    <3>. QED BY <3>1, StutterStep
  <2>. QED BY <2>1, <2>2, <2>3, <2>4, <2>5, <2>6 DEF Next
<1>. QED BY <1>1, <1>2, PTL DEF Spec

(* find_lca (compiler.cc 89-113) returns the deepest of the expressions    *)
(* that are around both, and null for expressions of different statements. *)
THEOREM LcaAlways == Spec => []LcaCorrect
<1>1. ASSUME IInv PROVE LcaCorrect
  <2>0. TypeInv /\ TreeInv /\ TableInv
    BY <1>1 DEF IInv
  <2>1. ASSUME NEW x \in Expr, NEW y \in Expr
        PROVE  LET common == Upward(x) \cap Upward(y)
                   lca == FindLca(x, y)
               IN IF common = {} THEN lca = Null ELSE lca \in common /\ common = Upward(lca)
    <3>. DEFINE lca == FindLca(x, y)
    <3>1. Upward(lca) = Upward(x) \cap Upward(y) /\ (lca = Null \/ lca \in Expr)
      BY <2>0, Lca
    <3>. HIDE DEF lca
    <3>2. lca \in Expr => lca \in Upward(lca)
      BY <2>0, UpBelow
    <3>3. lca = Null => Upward(lca) = {}
      BY <2>0, UpStep
    <3>4. IF Upward(x) \cap Upward(y) = {} THEN lca = Null
          ELSE lca \in Upward(x) \cap Upward(y) /\ Upward(x) \cap Upward(y) = Upward(lca)
      BY <3>1, <3>2, <3>3
    <3>. QED BY <3>4 DEF lca
  <2>. QED BY <2>1 DEF LcaCorrect
<1>. QED BY <1>1, Invariance, PTL

(* When both ends are found, all of their expressions are visited.        *)
LEMMA AllVisited ==
  ASSUME IInv, Found
  PROVE  \A k \in 1 .. 2 :
           /\ withins[k] \in End
           /\ DOMAIN withins[k] = UNION {Upward(x) : x \in DOMAIN assoc[k]}
           /\ \A x \in DOMAIN assoc[k] : /\ x \in DOMAIN withins[k]
                                         /\ Interleaved(assoc[k], x) \/ withins[k][x] = assoc[k][x]
<1>0. TypeInv /\ TreeInv /\ FindInv /\ Len(withins) = 2 /\ todo = {}
  BY DEF IInv, Found
<1>1. assoc # <<>>
  <2>1. Len(<<>>) = 0
    OBVIOUS
  <2>. QED BY <1>0, <2>1 DEF FindInv
<1>2. ASSUME NEW k \in 1 .. 2
      PROVE  /\ withins[k] \in End
             /\ DOMAIN withins[k] = UNION {Upward(x) : x \in DOMAIN assoc[k]}
             /\ \A x \in DOMAIN assoc[k] : /\ x \in DOMAIN withins[k]
                                           /\ Interleaved(assoc[k], x) \/ withins[k][x] = assoc[k][x]
  <2>1. Visited(k) = DOMAIN assoc[k]
    BY <1>0 DEF Visited
  <2>2. k \in 1 .. Len(withins) /\ k \in 1 .. Len(assoc) /\ withins \in Seq(End) /\ assoc \in Seq(End)
    BY <1>0, <1>1 DEF FindInv, TypeInv
  <2>3. withins[k] \in End
    BY <2>2, ElementOfSeq
  <2>4. assoc[k] \in End
    BY <2>2, ElementOfSeq
  <2>5. /\ DOMAIN withins[k] = UNION {Upward(x) : x \in DOMAIN assoc[k]}
        /\ \A x \in DOMAIN assoc[k] : Interleaved(assoc[k], x) \/ withins[k][x] = assoc[k][x]
    BY <1>0, <1>1, <2>1, <2>2 DEF FindInv
  <2>6. DOMAIN assoc[k] \subseteq Expr
    BY <2>4 DEF End
  <2>7. ASSUME NEW x \in DOMAIN assoc[k] PROVE x \in DOMAIN withins[k]
    <3>1. x \in Upward(x)
      BY <1>0, <2>6, <2>7, UpBelow
    <3>. QED BY <2>5, <2>7, <3>1
  <2>. QED BY <2>3, <2>5, <2>7
<1>. QED BY <1>2

(* find_within (compiler.cc 304-333) gives the expressions associated with *)
(* a state and those around them, and no other; and a state is tagged in   *)
(* each associated one as it is there, unless the order of the visit put   *)
(* an expression of another statement between.                             *)
THEOREM WithinAlways == Spec => []WithinUpward
<1>1. ASSUME IInv PROVE WithinUpward
  BY <1>1, AllVisited DEF WithinUpward
<1>. QED BY <1>1, Invariance, PTL

(* What the two loops of generate_transitions make of the two ends.        *)
LEMMA RunProps ==
  ASSUME NEW W, NEW V, DOMAIN W \in SUBSET Nat, IsFiniteSet(DOMAIN W),
         DOMAIN V \in SUBSET Nat, IsFiniteSet(DOMAIN V)
  PROVE  /\ Run(W, V).leaving = DOMAIN W \ DOMAIN V
         /\ Run(W, V).entering = DOMAIN V \ DOMAIN W
         /\ Run(W, V).transiting = DOMAIN W \cap DOMAIN V
         /\ Run(W, V).finishing = {x \in DOMAIN W \cap DOMAIN V : Final \in V[x]}
<1>. DEFINE vs == Listed(V)
            ws == Listed(W)
<1>1. PICK n, m : n = Cardinality(DOMAIN V) /\ m = Cardinality(DOMAIN W)
  OBVIOUS
<1>2. n \in Nat /\ m \in Nat
  BY <1>1, FS_CardinalityType
<1>3. vs \in [1 .. n -> DOMAIN V] /\ Ascends(vs) /\ Elements(vs, n) = DOMAIN V
  BY <1>1, ListedProps
<1>4. ws \in [1 .. m -> DOMAIN W] /\ Ascends(ws) /\ Elements(ws, m) = DOMAIN W
  BY <1>1, ListedProps
<1>. HIDE DEF vs, ws
<1>5. Ascending(vs, n)
  BY <1>3 DEF Ascending
<1>6. Ascending(ws, m)
  BY <1>4 DEF Ascending
<1>7. Met(vs, ws) = Elements(vs, n) \cap Elements(ws, m)
  BY <1>2, <1>5, <1>6, MetOfLists
<1>8. Met(ws, vs) = Elements(ws, m) \cap Elements(vs, n)
  BY <1>2, <1>5, <1>6, MetOfLists
<1>9. Met(vs, ws) = DOMAIN V \cap DOMAIN W /\ Met(ws, vs) = DOMAIN W \cap DOMAIN V
  BY <1>3, <1>4, <1>7, <1>8
<1>10. Run(W, V) = [leaving |-> DOMAIN W \ Met(ws, vs), entering |-> DOMAIN V \ Met(vs, ws),
                    transiting |-> Met(vs, ws), finishing |-> {x \in Met(vs, ws) : Final \in V[x]}]
  BY DEF Run, vs, ws
<1>. QED BY <1>9, <1>10

(* On an edge exactly the actions of the expressions run that it leaves,   *)
(* enters or stays in (compiler.cc 418-460), and of those it stays in the  *)
(* finishing ones are where the expression may end.                        *)
THEOREM EdgeActionsAlways == Spec => []EdgeActions
<1>1. ASSUME IInv, Found
      PROVE  LET Around(k) == UNION {Upward(x) : x \in DOMAIN assoc[k]}
                 run == Run(withins[1], withins[2])
             IN /\ run.leaving = Around(1) \ Around(2)
                /\ run.entering = Around(2) \ Around(1)
                /\ run.transiting = Around(1) \cap Around(2)
                /\ \A x \in Around(1) \cap DOMAIN assoc[2] :
                     ~ Interleaved(assoc[2], x) => (x \in run.finishing) = (Final \in assoc[2][x])
  <2>. DEFINE Around(k) == UNION {Upward(x) : x \in DOMAIN assoc[k]}
  <2>1. /\ withins[1] \in End /\ DOMAIN withins[1] = Around(1)
        /\ withins[2] \in End /\ DOMAIN withins[2] = Around(2)
    BY <1>1, AllVisited
  <2>2. \A x \in DOMAIN assoc[2] : /\ x \in DOMAIN withins[2]
                                   /\ Interleaved(assoc[2], x) \/ withins[2][x] = assoc[2][x]
    BY <1>1, AllVisited
  <2>. HIDE DEF Around
  <2>3. /\ DOMAIN withins[1] \in SUBSET Nat /\ IsFiniteSet(DOMAIN withins[1])
        /\ DOMAIN withins[2] \in SUBSET Nat /\ IsFiniteSet(DOMAIN withins[2])
    <3>1. Len(anc) \in Nat /\ Expr = 1 .. Len(anc)
      BY <1>1, Dom DEF IInv
    <3>2. IsFiniteSet(Expr) /\ Expr \subseteq Nat
      BY <3>1, FS_Interval
    <3>3. DOMAIN withins[1] \subseteq Expr /\ DOMAIN withins[2] \subseteq Expr
      BY <2>1 DEF End
    <3>. QED BY <3>2, <3>3, FS_Subset
  <2>. DEFINE run == Run(withins[1], withins[2])
  <2>4. /\ run.leaving = Around(1) \ Around(2)
        /\ run.entering = Around(2) \ Around(1)
        /\ run.transiting = Around(1) \cap Around(2)
        /\ run.finishing = {x \in Around(1) \cap Around(2) : Final \in withins[2][x]}
    BY <2>1, <2>3, RunProps
  <2>. HIDE DEF run
  <2>5. ASSUME NEW x \in Around(1) \cap DOMAIN assoc[2], ~ Interleaved(assoc[2], x)
        PROVE  (x \in run.finishing) = (Final \in assoc[2][x])
    <3>1. x \in Around(1) \cap Around(2) /\ withins[2][x] = assoc[2][x]
      BY <2>1, <2>2, <2>5
    <3>. QED BY <2>4, <3>1
  <2>. QED BY <2>4, <2>5 DEF run, Around
<1>2. IInv => EdgeActions
  BY <1>1 DEF EdgeActions
<1>. QED BY <1>2, Invariance, PTL
=============================================================================
