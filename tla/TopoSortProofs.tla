--------------------------- MODULE TopoSortProofs ---------------------------
(***************************************************************************)
(* For every embedding relation, order of the roots and order of the uses: *)
(* load fails iff there is a circular embedding, and otherwise compiles    *)
(* every statement after the ones it embeds.                               *)
(***************************************************************************)
EXTENDS TopoSort, LeastLemmas, SequenceTheorems

(* The frames are a path along depended_by of distinct open statements,    *)
(* and every statement marked `in stack' is among them.                    *)
PathInv ==
  /\ \A k \in 1 .. Len(frames) : frames[k].i <= Len(depended_by[frames[k].u]) + 1
  /\ \A k \in 1 .. Len(frames) - 1 :
       frames[k].i <= Len(depended_by[frames[k].u]) /\ frames[k + 1].u = depended_by[frames[k].u][frames[k].i]
  /\ \A j, k \in 1 .. Len(frames) : frames[j].u = frames[k].u => j = k
  /\ \A k \in 1 .. Len(frames) : vis[frames[k].u] \in {1, 3}
  /\ \A s \in Stmt : vis[s] = 1 => \E k \in 1 .. Len(frames) : frames[k].u = s
  /\ Len(st) >= Len(frames)
  /\ pc # "sort" => frames = <<>>

(* A cycle has been met: the error is counted, or on its way to the root.  *)
Bad == n_errors > 0 \/ \E k \in 1 .. Len(frames) : frames[k].cycle

BadInv ==
  /\ Bad => Cyclic
  /\ \A s \in Stmt : vis[s] = 3 => Bad

(* As long as none has been met, topo holds exactly the visited statements *)
(* and each one's users before it.                                         *)
SortInv ==
  pc = "sort" /\ ~ Bad =>
    /\ \A s \in Stmt : vis[s] = 2 <=> \E j \in 1 .. Len(topo) : topo[j] = s
    /\ \A j, k \in 1 .. Len(topo) : topo[j] = topo[k] => j = k
    /\ \A j \in 1 .. Len(topo) : \A k \in DOMAIN depended_by[topo[j]] :
         \E i \in 1 .. j - 1 : topo[i] = depended_by[topo[j]][k]
    /\ \A k \in 1 .. Len(frames) : \A m \in 1 .. frames[k].i - 1 : vis[depended_by[frames[k].u][m]] = 2

RootsInv ==
  /\ \A s \in Stmt : s \notin todo => vis[s] # 0
  /\ compiled # <<>> => pc # "sort"

DoneInv ==
  pc # "sort" =>
    /\ n_errors > 0 <=> Cyclic
    /\ pc \in {"compile", "done"} => n_errors = 0
    /\ n_errors = 0 =>
         /\ \A s \in Stmt : \E j \in 1 .. Len(topo) : topo[j] = s
         /\ \A j, k \in 1 .. Len(topo) :
              /\ topo[j] = topo[k] => j = k
              /\ topo[k] \in Users(topo[j]) => j < k
    /\ Len(compiled) <= Len(topo)
    /\ \A k \in 1 .. Len(compiled) : compiled[k] = topo[k]

IInv == TypeOK /\ PathInv /\ BadInv /\ SortInv /\ RootsInv /\ DoneInv

-----------------------------------------------------------------------------
LEMMA InitInv == Init => IInv
<1>. SUFFICES ASSUME Init PROVE IInv
  OBVIOUS
<1>1. depended_by \in [Stmt -> Seq(Stmt)]
  BY StmtAssumption DEF Init, BoundedSeq, SeqOf
<1>2. TypeOK
  BY <1>1 DEF Init, TypeOK
<1>. QED BY <1>2 DEF Init, IInv, PathInv, BadInv, Bad, SortInv, RootsInv, DoneInv

LEMMA ElementInSeq ==
  ASSUME NEW S, NEW q \in Seq(S), NEW k \in 1 .. Len(q)
  PROVE  q[k] \in S
OBVIOUS

LEMMA FrameFields ==
  ASSUME NEW f \in Frame
  PROVE  f.u \in Stmt /\ f.i \in Nat \ {0} /\ f.cycle \in BOOLEAN
BY DEF Frame

(* The call frames after a child returned b to the last of fs.             *)
LEMMA ResumeProps ==
  ASSUME NEW fs \in Seq(Frame), fs # <<>>,
         NEW b \in BOOLEAN
  PROVE  /\ Resume(fs, b) \in Seq(Frame)
         /\ Len(Resume(fs, b)) = Len(fs)
         /\ \A k \in 1 .. Len(fs) : Resume(fs, b)[k].u = fs[k].u
         /\ \A k \in 1 .. Len(fs) - 1 : Resume(fs, b)[k] = fs[k]
         /\ Resume(fs, b)[Len(fs)].i = fs[Len(fs)].i + 1
         /\ Resume(fs, b)[Len(fs)].cycle = (fs[Len(fs)].cycle \/ b)
<1>. DEFINE f == fs[Len(fs)]
            r == [u |-> f.u, i |-> f.i + 1, cycle |-> f.cycle \/ b]
<1>1. f \in Frame
  <2>1. Len(fs) \in 1 .. Len(fs)
    OBVIOUS
  <2>. QED BY <2>1, ElementInSeq
<1>2. f.u \in Stmt /\ f.i + 1 \in Nat \ {0} /\ (f.cycle \/ b) \in BOOLEAN
  BY <1>1, FrameFields
<1>3. /\ r \in Frame
      /\ r.u = f.u /\ r.i = f.i + 1 /\ r.cycle = (f.cycle \/ b)
  BY <1>2 DEF Frame
<1>4. Resume(fs, b) = [fs EXCEPT ![Len(fs)] = r]
  BY DEF Resume
<1>. HIDE DEF r
<1>5. Len(fs) \in Nat \ {0}
  OBVIOUS
<1>. QED BY <1>3, <1>4, <1>5

(* Opening a statement not met before lengthens the path by it.            *)
LEMMA OpenInv ==
  ASSUME IInv, pc = "sort", NEW v \in Stmt, vis[v] = 0, Open(v),
         todo' \in SUBSET todo, \A s \in todo : s \notin todo' => s = v,
         Len(frames) > 0 => AtChild /\ v = Child
  PROVE  IInv'
<1>0. TypeOK /\ PathInv /\ BadInv /\ SortInv /\ RootsInv /\ DoneInv
  BY DEF IInv
<1>. USE <1>0
<1>. DEFINE f == [u |-> v, i |-> 1, cycle |-> FALSE]
<1>1. /\ vis' = [vis EXCEPT ![v] = 1]
      /\ st' = Append(st, v)
      /\ frames' = Append(frames, f)
      /\ depended_by' = depended_by /\ topo' = topo /\ n_errors' = n_errors
      /\ compiled' = compiled /\ pc' = pc
  BY DEF Open
<1>2. f \in Frame /\ f.u = v /\ f.i = 1 /\ f.cycle = FALSE
  BY DEF Frame
<1>3. /\ frames \in Seq(Frame)
      /\ depended_by \in [Stmt -> Seq(Stmt)]
      /\ vis \in [Stmt -> 0 .. 3]
      /\ st \in Seq(Stmt)
  BY DEF TypeOK
<1>. HIDE DEF f
<1>4. /\ Len(frames') = Len(frames) + 1 /\ frames'[Len(frames) + 1] = f
      /\ \A k \in 1 .. Len(frames) : frames'[k] = frames[k]
      /\ Len(frames) \in Nat
  BY <1>1, <1>3
<1>5. TypeOK'
  BY <1>1, <1>2, <1>3 DEF TypeOK
<1>6. \A k \in 1 .. Len(frames) : frames[k].u \in Stmt /\ frames[k].i \in Nat \ {0} /\ frames[k].u # v
  <2>1. \A k \in 1 .. Len(frames) : frames[k] \in Frame
    BY <1>3, ElementInSeq
  <2>2. \A k \in 1 .. Len(frames) : vis[frames[k].u] # 0
    BY DEF PathInv
  <2>. QED BY <2>1, <2>2, FrameFields
<1>7. PathInv'
  <2>1. \A k \in 1 .. Len(frames) + 1 : frames'[k].i <= Len(depended_by'[frames'[k].u]) + 1
    <3>1. depended_by[v] \in Seq(Stmt)
      BY <1>3
    <3>2. Len(depended_by[v]) \in Nat
      BY <3>1
    <3>. QED BY <1>1, <1>2, <1>4, <3>2 DEF PathInv
  <2>2. \A k \in 1 .. Len(frames) : frames'[k].i <= Len(depended_by'[frames'[k].u])
                          /\ frames'[k + 1].u = depended_by'[frames'[k].u][frames'[k].i]
    <3>. SUFFICES ASSUME NEW k \in 1 .. Len(frames)
                  PROVE  frames[k].i <= Len(depended_by[frames[k].u])
                         /\ frames'[k + 1].u = depended_by[frames[k].u][frames[k].i]
      BY <1>1, <1>4
    <3>1. CASE k = Len(frames)
      BY <1>2, <1>4, <3>1 DEF AtChild, Child, Top
    <3>2. CASE k # Len(frames)
      <4>1. \A j \in 1 .. Len(frames) - 1 :
              /\ frames[j].i <= Len(depended_by[frames[j].u])
              /\ frames[j + 1].u = depended_by[frames[j].u][frames[j].i]
        BY DEF PathInv
      <4>. HIDE <1>0
      <4>2. k \in 1 .. Len(frames) - 1 /\ k + 1 \in 1 .. Len(frames)
        BY <1>4, <3>2
      <4>3. frames'[k + 1] = frames[k + 1]
        BY <1>4, <4>2
      <4>. QED BY <4>1, <4>2, <4>3
    <3>. QED BY <3>1, <3>2
  <2>3. \A j, k \in 1 .. Len(frames) + 1 : frames'[j].u = frames'[k].u => j = k
    BY <1>2, <1>4, <1>6 DEF PathInv
  <2>4. \A k \in 1 .. Len(frames) + 1 : vis'[frames'[k].u] \in {1, 3}
    <3>1. \A s \in Stmt : s # v => vis'[s] = vis[s]
      BY <1>1, <1>3
    <3>2. vis'[v] = 1
      BY <1>1, <1>3
    <3>3. \A k \in 1 .. Len(frames) : vis[frames[k].u] \in {1, 3}
      BY DEF PathInv
    <3>. QED BY <1>2, <1>4, <1>6, <3>1, <3>2, <3>3
  <2>5. \A s \in Stmt : vis'[s] = 1 => \E k \in 1 .. Len(frames) + 1 : frames'[k].u = s
    <3>. SUFFICES ASSUME NEW s \in Stmt, vis'[s] = 1
                  PROVE  \E k \in 1 .. Len(frames) + 1 : frames'[k].u = s
      OBVIOUS
    <3>1. CASE s = v
      BY <1>2, <1>4, <3>1
    <3>2. CASE s # v
      BY <1>1, <1>3, <1>4, <3>2 DEF PathInv
    <3>. QED BY <3>1, <3>2
  <2>6. Len(st') >= Len(frames) + 1
    BY <1>1, <1>3, <1>4 DEF PathInv
  <2>7. Len(frames') = Len(frames) + 1 /\ Len(frames') - 1 = Len(frames) /\ pc' = "sort"
    BY <1>1, <1>4
  <2>. QED BY <2>1, <2>2, <2>3, <2>4, <2>5, <2>6, <2>7 DEF PathInv
<1>8. Bad' <=> Bad
  BY <1>1, <1>2, <1>4 DEF Bad
<1>9. BadInv'
  <2>1. Cyclic' <=> Cyclic
    BY <1>1 DEF Cyclic, Users
  <2>2. \A s \in Stmt : vis'[s] = 3 => vis[s] = 3
    BY <1>1, <1>3
  <2>. QED BY <1>8, <2>1, <2>2 DEF BadInv
<1>10. SortInv'
  <2>. SUFFICES ASSUME ~ Bad PROVE SortInv'
    BY <1>8 DEF SortInv
  <2>1. \A s \in Stmt : vis'[s] = 2 <=> vis[s] = 2
    BY <1>1, <1>3
  <2>2. \A k \in 1 .. Len(frames) + 1 : \A m \in 1 .. frames'[k].i - 1 :
          vis'[depended_by[frames'[k].u][m]] = 2
    <3>. SUFFICES ASSUME NEW k \in 1 .. Len(frames), NEW m \in 1 .. frames[k].i - 1
                  PROVE  vis'[depended_by[frames[k].u][m]] = 2
      BY <1>2, <1>4
    <3>1. depended_by[frames[k].u][m] \in Stmt
      <4>1. depended_by[frames[k].u] \in Seq(Stmt) /\ m \in 1 .. Len(depended_by[frames[k].u])
        <5>1. depended_by[frames[k].u] \in Seq(Stmt)
          BY <1>3, <1>6
        <5>2. frames[k].i <= Len(depended_by[frames[k].u]) + 1
          BY DEF PathInv
        <5>3. Len(depended_by[frames[k].u]) \in Nat
          BY <5>1
        <5>. QED BY <1>6, <5>1, <5>2, <5>3
      <4>. QED BY <4>1
    <3>. QED BY <2>1, <3>1 DEF SortInv
  <2>5. /\ \A s \in Stmt : vis'[s] = 2 <=> \E j \in 1 .. Len(topo') : topo'[j] = s
        /\ \A j, k \in 1 .. Len(topo') : topo'[j] = topo'[k] => j = k
    BY <1>1, <2>1, SMTT(30) DEF SortInv
  <2>3. /\ \A j \in 1 .. Len(topo') : \A k \in DOMAIN depended_by'[topo'[j]] :
             \E i \in 1 .. j - 1 : topo'[i] = depended_by'[topo'[j]][k]
    BY <1>1 DEF SortInv
  <2>4. \A k \in 1 .. Len(frames') : \A m \in 1 .. frames'[k].i - 1 :
          vis'[depended_by'[frames'[k].u][m]] = 2
    BY <1>1, <1>4, <2>2
  <2>. QED BY <2>3, <2>4, <2>5 DEF SortInv
<1>11. RootsInv' /\ DoneInv'
  BY <1>1, <1>3 DEF RootsInv, DoneInv
<1>. QED BY <1>5, <1>7, <1>9, <1>10, <1>11 DEF IInv

(* The call on the child of the last frame returned b: FALSE for a visited *)
(* child, and TRUE only when there is a cycle.                             *)
LEMMA ReturnedInv ==
  ASSUME IInv, AtChild, NEW b \in BOOLEAN, frames' = Resume(frames, b),
         UNCHANGED <<depended_by, todo, topo, n_errors, compiled, pc>>,
         st' \in Seq(Stmt), Len(st') >= Len(st), vis' \in [Stmt -> 0 .. 3],
         \A s \in Stmt : vis'[s] # vis[s] => vis'[s] = 3 /\ b,
         b => Cyclic,
         ~ b => vis[Child] = 2
  PROVE  IInv'
<1>1. TypeOK /\ PathInv /\ BadInv /\ SortInv /\ RootsInv /\ DoneInv
  BY DEF IInv
<1>. DEFINE n == Len(frames)
<1>2. /\ depended_by' = depended_by /\ todo' = todo /\ topo' = topo
      /\ n_errors' = n_errors /\ compiled' = compiled /\ pc' = pc
  OBVIOUS
<1>3. pc = "sort" /\ frames # <<>> /\ frames[n].i <= Len(depended_by[frames[n].u])
  BY DEF AtChild, Top
<1>4. frames \in Seq(Frame) /\ n \in Nat \ {0}
  <2>1. frames \in Seq(Frame)
    BY <1>1 DEF TypeOK
  <2>. QED BY <1>3, <2>1
<1>5. /\ frames' \in Seq(Frame)
      /\ Len(frames') = n
      /\ \A k \in 1 .. n : frames'[k].u = frames[k].u
      /\ \A k \in 1 .. n - 1 : frames'[k] = frames[k]
      /\ frames'[n].i = frames[n].i + 1
      /\ frames'[n].cycle = (frames[n].cycle \/ b)
  BY <1>3, <1>4, ResumeProps
<1>6. \A k \in 1 .. n : frames[k].u \in Stmt /\ frames[k].i \in Nat \ {0}
  BY <1>4, ElementInSeq, FrameFields
<1>. HIDE DEF n
<1>7. TypeOK'
  BY <1>1, <1>2, <1>5 DEF TypeOK
<1>8. \A k \in 1 .. n : depended_by[frames[k].u] \in Seq(Stmt)
                        /\ Len(depended_by[frames[k].u]) \in Nat
  <2>1. depended_by \in [Stmt -> Seq(Stmt)]
    BY <1>1 DEF TypeOK
  <2>. QED BY <1>6, <2>1
<1>9. PathInv'
  <2>1. \A k \in 1 .. n : frames'[k].i <= Len(depended_by'[frames'[k].u]) + 1
    <3>. SUFFICES ASSUME NEW k \in 1 .. n
                  PROVE  frames'[k].i <= Len(depended_by[frames[k].u]) + 1
      BY <1>2, <1>5
    <3>1. CASE k = n
      BY <1>3, <1>4, <1>5, <1>6, <1>8, <3>1 DEF n
    <3>2. CASE k # n
      BY <1>1, <1>4, <1>5, <3>2 DEF PathInv, n
    <3>. QED BY <3>1, <3>2
  <2>2. \A k \in 1 .. n - 1 : frames'[k].i <= Len(depended_by'[frames'[k].u])
                              /\ frames'[k + 1].u = depended_by'[frames'[k].u][frames'[k].i]
    <3>. SUFFICES ASSUME NEW k \in 1 .. n - 1
                  PROVE  frames[k].i <= Len(depended_by[frames[k].u])
                         /\ frames[k + 1].u = depended_by[frames[k].u][frames[k].i]
      <4>1. \A k \in 1 .. n - 1 : k \in 1 .. n /\ k + 1 \in 1 .. n
        BY <1>4
      <4>. QED BY <1>2, <1>5, <4>1
    <3>. QED BY <1>1 DEF PathInv, n
  <2>3. \A j, k \in 1 .. n : frames'[j].u = frames'[k].u => j = k
    BY <1>1, <1>5 DEF PathInv, n
  <2>4. \A k \in 1 .. n : vis'[frames'[k].u] \in {1, 3}
    BY <1>1, <1>5, <1>6, SMTT(30) DEF PathInv, n
  <2>5. \A s \in Stmt : vis'[s] = 1 => \E k \in 1 .. n : frames'[k].u = s
    <3>1. \A s \in Stmt : vis'[s] = 1 => vis[s] = 1
      OBVIOUS
    <3>2. \A s \in Stmt : vis[s] = 1 => \E k \in 1 .. n : frames[k].u = s
      BY <1>1 DEF PathInv, n
    <3>. QED BY <1>5, <3>1, <3>2
  <2>6. Len(st') >= n
    <3>1. Len(st) \in Nat /\ Len(st') \in Nat
      BY <1>1 DEF TypeOK
    <3>2. Len(st) >= n
      BY <1>1 DEF PathInv, n
    <3>. QED BY <1>4, <3>1, <3>2
  <2>. QED BY <1>2, <1>3, <1>5, <2>1, <2>2, <2>3, <2>4, <2>5, <2>6 DEF PathInv
<1>10. Bad' <=> Bad \/ b
  <2>1. \A k \in 1 .. n : k # n => k \in 1 .. n - 1
    BY <1>4
  <2>2. n \in 1 .. n
    BY <1>4
  <2>3. (\E k \in 1 .. n : frames'[k].cycle) <=> (\E k \in 1 .. n : frames[k].cycle) \/ b
    BY <1>5, <2>1, <2>2
  <2>. QED BY <1>2, <1>5, <2>3 DEF Bad, n
<1>11. BadInv'
  <2>1. Cyclic' <=> Cyclic
    BY <1>2 DEF Cyclic, Users
  <2>. QED BY <1>1, <1>10, <2>1 DEF BadInv
<1>12. SortInv'
  <2>. SUFFICES ASSUME ~ Bad, ~ b PROVE SortInv'
    BY <1>10 DEF SortInv
  <2>1. \A s \in Stmt : vis'[s] = vis[s]
    OBVIOUS
  <2>2. \A k \in 1 .. n : \A m \in 1 .. frames[k].i - 1 : vis[depended_by[frames[k].u][m]] = 2
    BY <1>1, <1>3 DEF SortInv, n
  <2>3. \A k \in 1 .. n : \A m \in 1 .. frames[k].i - 1 : depended_by[frames[k].u][m] \in Stmt
    <3>. SUFFICES ASSUME NEW k \in 1 .. n, NEW m \in 1 .. frames[k].i - 1
                  PROVE  depended_by[frames[k].u][m] \in Stmt
      OBVIOUS
    <3>1. frames[k].i <= Len(depended_by[frames[k].u]) + 1
      BY <1>1 DEF PathInv, n
    <3>2. m \in 1 .. Len(depended_by[frames[k].u])
      BY <1>6, <1>8, <3>1
    <3>. QED BY <1>8, <3>2, ElementInSeq
  <2>4. vis[depended_by[frames[n].u][frames[n].i]] = 2
        /\ depended_by[frames[n].u][frames[n].i] \in Stmt
    <3>1. n \in 1 .. n /\ frames[n].i \in 1 .. Len(depended_by[frames[n].u])
      BY <1>3, <1>4, <1>6, <1>8
    <3>2. depended_by[frames[n].u][frames[n].i] \in Stmt
      BY <1>8, <3>1, ElementInSeq
    <3>. QED BY <3>2 DEF Child, Top, n
  <2>5. \A k \in 1 .. n : \A m \in 1 .. frames'[k].i - 1 : vis'[depended_by[frames[k].u][m]] = 2
    <3>. SUFFICES ASSUME NEW k \in 1 .. n, NEW m \in 1 .. frames'[k].i - 1
                  PROVE  vis'[depended_by[frames[k].u][m]] = 2
      OBVIOUS
    <3>1. CASE k # n
      <4>1. k \in 1 .. n - 1
        BY <1>4, <3>1
      <4>2. m \in 1 .. frames[k].i - 1
        BY <1>5, <4>1
      <4>. QED BY <2>1, <2>2, <2>3, <4>2
    <3>2. CASE k = n /\ m = frames[n].i
      BY <2>1, <2>4, <3>2
    <3>3. CASE k = n /\ m # frames[n].i
      <4>1. m \in 1 .. frames[n].i - 1
        BY <1>4, <1>5, <1>6, <3>3
      <4>. QED BY <2>1, <2>2, <2>3, <3>3, <4>1
    <3>. QED BY <3>1, <3>2, <3>3
  <2>6. \A k \in 1 .. n : \A m \in 1 .. frames'[k].i - 1 : vis'[depended_by'[frames'[k].u][m]] = 2
    BY <1>2, <1>5, <2>5
  <2>7. /\ \A s \in Stmt : vis'[s] = 2 <=> \E j \in 1 .. Len(topo') : topo'[j] = s
        /\ \A j, k \in 1 .. Len(topo') : topo'[j] = topo'[k] => j = k
    BY <1>1, <1>2, <1>3, <2>1 DEF SortInv
  <2>8. \A j \in 1 .. Len(topo') : \A k \in DOMAIN depended_by'[topo'[j]] :
          \E i \in 1 .. j - 1 : topo'[i] = depended_by'[topo'[j]][k]
    BY <1>1, <1>2, <1>3 DEF SortInv
  <2>. QED BY <1>5, <2>6, <2>7, <2>8 DEF SortInv
<1>13. RootsInv' /\ DoneInv'
  BY <1>1, <1>2, <1>3 DEF RootsInv, DoneInv
<1>. QED BY <1>7, <1>9, <1>11, <1>12, <1>13 DEF IInv

LEMMA VisitInv ==
  ASSUME IInv, VisitVisited \/ VisitInCycle \/ VisitOpen
  PROVE  IInv'
<1>1. TypeOK /\ PathInv /\ BadInv
  BY DEF IInv
<1>2. AtChild
  BY DEF VisitVisited, VisitInCycle, VisitOpen, Pushed
<1>3. vis \in [Stmt -> 0 .. 3] /\ st \in Seq(Stmt) /\ frames \in Seq(Frame)
      /\ depended_by \in [Stmt -> Seq(Stmt)]
  BY <1>1 DEF TypeOK
<1>. DEFINE n == Len(frames)
<1>4. n \in 1 .. n /\ n \in Nat \ {0}
  BY <1>2, <1>3 DEF AtChild
<1>5. \A k \in 1 .. n : frames[k].u \in Stmt /\ frames[k].i \in Nat \ {0}
  BY <1>3, ElementInSeq, FrameFields
<1>6. Top.u \in Stmt /\ Top.i \in 1 .. Len(depended_by[Top.u]) /\ depended_by[Top.u] \in Seq(Stmt)
  <2>1. Top.u \in Stmt /\ Top.i \in Nat \ {0}
    BY <1>4, <1>5 DEF Top
  <2>2. depended_by[Top.u] \in Seq(Stmt)
    BY <1>3, <2>1
  <2>3. Len(depended_by[Top.u]) \in Nat
    BY <2>2
  <2>. QED BY <1>2, <2>1, <2>2, <2>3 DEF AtChild
<1>7. Child \in Stmt
  BY <1>6, ElementInSeq DEF Child
<1>8. CASE VisitVisited
  <2>1. /\ frames' = Resume(frames, FALSE) /\ st' = st /\ vis' = vis /\ vis[Child] = 2
        /\ UNCHANGED <<depended_by, todo, topo, n_errors, compiled, pc>>
    BY <1>8 DEF VisitVisited
  <2>2. st' \in Seq(Stmt) /\ Len(st') >= Len(st) /\ vis' \in [Stmt -> 0 .. 3]
    BY <1>3, <2>1
  <2>3. \A s \in Stmt : vis'[s] # vis[s] => vis'[s] = 3 /\ FALSE
    BY <2>1
  <2>. QED BY <1>2, <2>1, <2>2, <2>3, ReturnedInv, Zenon
<1>9. CASE VisitInCycle
  <2>1. Cyclic
    BY <1>1, <1>7, <1>9 DEF VisitInCycle, BadInv
  <2>2. /\ frames' = Resume(frames, TRUE) /\ st' = st /\ vis' = vis
        /\ UNCHANGED <<depended_by, todo, topo, n_errors, compiled, pc>>
    BY <1>9 DEF VisitInCycle
  <2>3. st' \in Seq(Stmt) /\ Len(st') >= Len(st) /\ vis' \in [Stmt -> 0 .. 3]
    BY <1>3, <2>2
  <2>4. \A s \in Stmt : vis'[s] # vis[s] => vis'[s] = 3 /\ TRUE
    BY <2>2
  <2>. QED BY <1>2, <2>1, <2>2, <2>3, <2>4, ReturnedInv, Zenon
<1>10. CASE VisitOpen
  <2>. DEFINE at == CHOOSE k \in DOMAIN st :
                      st[k] = Child /\ \A j \in k + 1 .. Len(st) : st[j] # Child
              pushed == Append(st, Child)
              marked == {pushed[j] : j \in at + 1 .. Len(pushed)}
  <2>1. /\ st' = pushed /\ vis' = [s \in Stmt |-> IF s \in marked THEN 3 ELSE vis[s]]
        /\ frames' = Resume(frames, TRUE) /\ vis[Child] = 1
        /\ UNCHANGED <<depended_by, todo, topo, n_errors, compiled, pc>>
    BY <1>10 DEF VisitOpen, Pushed
  <2>. HIDE DEF at, marked
  <2>2. st' \in Seq(Stmt) /\ Len(st') >= Len(st)
    BY <1>3, <1>7, <2>1
  <2>3. vis' \in [Stmt -> 0 .. 3] /\ \A s \in Stmt : vis'[s] # vis[s] => vis'[s] = 3 /\ TRUE
    BY <1>3, <2>1
  <2>4. Cyclic
    <3>1. PICK k \in 1 .. n : frames[k].u = Child
      BY <1>1, <1>7, <2>1 DEF PathInv
    <3>. DEFINE S == {frames[j].u : j \in k .. n}
    <3>2. k .. n \subseteq 1 .. n /\ k \in k .. n
      BY <1>4
    <3>3. S \in SUBSET Stmt /\ S # {} /\ Child \in S
      BY <1>5, <3>1, <3>2
    <3>4. ASSUME NEW j \in k .. n PROVE Users(frames[j].u) \cap S # {}
      <4>1. CASE j = n
        <5>1. Child \in Users(Top.u)
          BY <1>6 DEF Users, Child
        <5>. QED BY <3>3, <4>1, <5>1 DEF Top
      <4>2. CASE j # n
        <5>1. j \in 1 .. n - 1 /\ j + 1 \in k .. n
          BY <1>4, <3>2, <4>2
        <5>2. /\ frames[j].i <= Len(depended_by[frames[j].u])
              /\ frames[j + 1].u = depended_by[frames[j].u][frames[j].i]
          BY <1>1, <5>1 DEF PathInv
        <5>3. frames[j].u \in Stmt /\ frames[j].i \in Nat \ {0}
          BY <1>5, <3>2
        <5>4. depended_by[frames[j].u] \in Seq(Stmt)
          BY <1>3, <5>3
        <5>5. frames[j].i \in DOMAIN depended_by[frames[j].u]
          BY <5>2, <5>3, <5>4
        <5>6. frames[j + 1].u \in Users(frames[j].u)
          BY <5>2, <5>5 DEF Users
        <5>. QED BY <5>1, <5>6
      <4>. QED BY <4>1, <4>2
    <3>5. \A u \in S : Users(u) \cap S # {}
      BY <3>4
    <3>. HIDE DEF S
    <3>. QED BY <3>3, <3>5 DEF Cyclic
  <2>. QED BY <1>2, <2>1, <2>2, <2>3, <2>4, ReturnedInv, Zenon
<1>. QED BY <1>8, <1>9, <1>10

LEMMA ReturnInv ==
  ASSUME IInv, Return
  PROVE  IInv'
<1>1. TypeOK /\ PathInv /\ BadInv /\ SortInv /\ RootsInv /\ DoneInv
  BY DEF IInv
<1>. DEFINE n == Len(frames)
            m == n - 1
            t == Top.u
<1>2. /\ depended_by' = depended_by /\ todo' = todo /\ compiled' = compiled /\ pc' = pc
      /\ pc = "sort" /\ frames # <<>> /\ Top.i > Len(depended_by[t])
      /\ st' = Front(st) /\ vis' = [vis EXCEPT ![t] = 2] /\ topo' = Append(topo, t)
  BY DEF Return, Visited
<1>3. /\ vis \in [Stmt -> 0 .. 3] /\ st \in Seq(Stmt) /\ frames \in Seq(Frame)
      /\ depended_by \in [Stmt -> Seq(Stmt)] /\ topo \in Seq(Stmt) /\ n_errors \in Nat
  BY <1>1 DEF TypeOK
<1>4. n \in Nat \ {0} /\ m \in Nat /\ n = m + 1
  BY <1>2, <1>3
<1>5. \A k \in 1 .. n : frames[k] \in Frame /\ frames[k].u \in Stmt
                        /\ frames[k].i \in Nat \ {0} /\ frames[k].cycle \in BOOLEAN
  BY <1>3, ElementInSeq, FrameFields
<1>6. t \in Stmt /\ Top = frames[n] /\ Top.cycle \in BOOLEAN
  BY <1>4, <1>5 DEF Top
<1>7. \A k \in 1 .. n : depended_by[frames[k].u] \in Seq(Stmt)
                        /\ Len(depended_by[frames[k].u]) \in Nat
  BY <1>3, <1>5
<1>8. /\ frames' \in Seq(Frame)
      /\ Len(frames') = m
      /\ \A k \in 1 .. m : frames'[k].u = frames[k].u
      /\ \A k \in 1 .. m - 1 : frames'[k] = frames[k]
      /\ m > 0 => /\ frames'[m].i = frames[m].i + 1
                  /\ frames'[m].cycle = (frames[m].cycle \/ Top.cycle)
                  /\ n_errors' = n_errors
      /\ m = 0 => n_errors' = n_errors + (IF Top.cycle THEN 1 ELSE 0)
  <2>1. CASE n = 1
    BY <1>4, <2>1 DEF Return, Visited
  <2>2. CASE n # 1
    <3>1. frames' = Resume(Front(frames), Top.cycle) /\ n_errors' = n_errors
      BY <2>2 DEF Return, Visited
    <3>2. /\ Front(frames) \in Seq(Frame) /\ Len(Front(frames)) = m
          /\ \A k \in 1 .. m : Front(frames)[k] = frames[k]
      BY <1>3, <1>4 DEF Front
    <3>3. Front(frames) # <<>> /\ m > 0
      BY <1>4, <2>2, <3>2
    <3>. HIDE DEF m
    <3>4. /\ frames' \in Seq(Frame)
          /\ Len(frames') = m
          /\ \A k \in 1 .. m : frames'[k].u = Front(frames)[k].u
          /\ \A k \in 1 .. m - 1 : frames'[k] = Front(frames)[k]
          /\ frames'[m].i = Front(frames)[m].i + 1
          /\ frames'[m].cycle = (Front(frames)[m].cycle \/ Top.cycle)
      <4>. DEFINE g == Front(frames)
      <4>1. g \in Seq(Frame) /\ g # <<>> /\ Top.cycle \in BOOLEAN /\ Len(g) = m
        BY <1>6, <3>2, <3>3
      <4>. HIDE DEF g
      <4>2. /\ Resume(g, Top.cycle) \in Seq(Frame)
            /\ Len(Resume(g, Top.cycle)) = Len(g)
            /\ \A k \in 1 .. Len(g) : Resume(g, Top.cycle)[k].u = g[k].u
            /\ \A k \in 1 .. Len(g) - 1 : Resume(g, Top.cycle)[k] = g[k]
            /\ Resume(g, Top.cycle)[Len(g)].i = g[Len(g)].i + 1
            /\ Resume(g, Top.cycle)[Len(g)].cycle = (g[Len(g)].cycle \/ Top.cycle)
        BY <4>1, ResumeProps
      <4>3. frames' = Resume(g, Top.cycle)
        BY <3>1 DEF g
      <4>4. /\ frames' \in Seq(Frame)
            /\ Len(frames') = m
            /\ \A k \in 1 .. m : frames'[k].u = g[k].u
            /\ \A k \in 1 .. m - 1 : frames'[k] = g[k]
            /\ frames'[m].i = g[m].i + 1
            /\ frames'[m].cycle = (g[m].cycle \/ Top.cycle)
        BY <4>1, <4>2, <4>3
      <4>. QED BY <4>4 DEF g
    <3>5. m \in 1 .. m /\ \A k \in 1 .. m - 1 : k \in 1 .. m
      BY <1>4, <3>3
    <3>. QED BY <3>1, <3>2, <3>3, <3>4, <3>5
  <2>. QED BY <2>1, <2>2
<1>. HIDE DEF n, m, t
<1>9. \A k \in 1 .. m : k \in 1 .. n /\ frames[k].u # t
  BY <1>1, <1>4, <1>6 DEF PathInv, n, t
<1>10. vis'[t] = 2 /\ \A s \in Stmt : s # t => vis'[s] = vis[s]
  BY <1>2, <1>3, <1>6
<1>11. vis[t] \in {1, 3}
  BY <1>1, <1>4, <1>6 DEF PathInv, n, t
<1>12. TypeOK'
  <2>1. st' \in Seq(Stmt) /\ Len(st') >= m
    <3>1. Len(st) >= n
      BY <1>1 DEF PathInv, n
    <3>. QED BY <1>2, <1>3, <1>4, <3>1 DEF Front
  <2>2. n_errors' \in Nat
    BY <1>3, <1>4, <1>8
  <2>3. vis' \in [Stmt -> 0 .. 3] /\ topo' \in Seq(Stmt)
    BY <1>2, <1>3, <1>6
  <2>. QED BY <1>1, <1>2, <1>8, <2>1, <2>2, <2>3 DEF TypeOK
<1>13. PathInv'
  <2>1. \A k \in 1 .. m : frames'[k].i <= Len(depended_by'[frames'[k].u]) + 1
    <3>. SUFFICES ASSUME NEW k \in 1 .. m
                  PROVE  frames'[k].i <= Len(depended_by[frames[k].u]) + 1
      BY <1>2, <1>8
    <3>1. k \in 1 .. n - 1 /\ frames[k].i <= Len(depended_by[frames[k].u])
      BY <1>1, <1>4 DEF PathInv, n
    <3>2. CASE k = m
      BY <1>4, <1>5, <1>7, <1>8, <1>9, <3>1, <3>2
    <3>3. CASE k # m
      <4>1. k \in 1 .. m - 1
        BY <1>4, <3>3
      <4>. QED BY <1>5, <1>7, <1>8, <1>9, <3>1, <4>1
    <3>. QED BY <3>2, <3>3
  <2>2. \A k \in 1 .. m - 1 : frames'[k].i <= Len(depended_by'[frames'[k].u])
                              /\ frames'[k + 1].u = depended_by'[frames'[k].u][frames'[k].i]
    <3>. SUFFICES ASSUME NEW k \in 1 .. m - 1
                  PROVE  frames[k].i <= Len(depended_by[frames[k].u])
                         /\ frames[k + 1].u = depended_by[frames[k].u][frames[k].i]
      <4>1. \A k \in 1 .. m - 1 : k \in 1 .. m /\ k + 1 \in 1 .. m
        BY <1>4
      <4>. QED BY <1>2, <1>8, <4>1
    <3>1. k \in 1 .. n - 1
      BY <1>4
    <3>. QED BY <1>1, <3>1 DEF PathInv, n
  <2>3. \A j, k \in 1 .. m : frames'[j].u = frames'[k].u => j = k
    BY <1>1, <1>8, <1>9 DEF PathInv, n
  <2>4. \A k \in 1 .. m : vis'[frames'[k].u] \in {1, 3}
    <3>1. \A k \in 1 .. m : vis[frames[k].u] \in {1, 3}
      BY <1>1, <1>9 DEF PathInv, n
    <3>. QED BY <1>5, <1>8, <1>9, <1>10, <3>1
  <2>5. \A s \in Stmt : vis'[s] = 1 => \E k \in 1 .. m : frames'[k].u = s
    <3>. SUFFICES ASSUME NEW s \in Stmt, vis'[s] = 1
                  PROVE  \E k \in 1 .. m : frames'[k].u = s
      OBVIOUS
    <3>1. s # t /\ vis[s] = 1
      BY <1>10
    <3>2. PICK k \in 1 .. n : frames[k].u = s
      BY <1>1, <3>1 DEF PathInv, n
    <3>3. k \in 1 .. m
      BY <1>4, <1>6, <3>1, <3>2 DEF t
    <3>. QED BY <1>8, <3>2, <3>3
  <2>6. Len(st') >= m
    <3>1. Len(st) >= n
      BY <1>1 DEF PathInv, n
    <3>. QED BY <1>2, <1>3, <1>4, <3>1 DEF Front
  <2>. QED BY <1>2, <1>8, <2>1, <2>2, <2>3, <2>4, <2>5, <2>6 DEF PathInv
<1>14. Bad' <=> Bad
  <2>1. Bad <=> n_errors > 0 \/ Top.cycle \/ \E k \in 1 .. m : frames[k].cycle
    <3>1. \A k : k \in 1 .. n <=> k = n \/ k \in 1 .. m
      BY <1>4
    <3>. QED BY <1>6, <3>1 DEF Bad, n
  <2>2. CASE m = 0
    BY <1>3, <1>6, <1>8, <2>1, <2>2 DEF Bad
  <2>3. CASE m # 0
    <3>1. \A k : k \in 1 .. m <=> k = m \/ k \in 1 .. m - 1
      BY <1>4, <2>3
    <3>2. /\ n_errors' = n_errors
          /\ frames'[m].cycle = (frames[m].cycle \/ Top.cycle)
          /\ \A k \in 1 .. m - 1 : frames'[k].cycle = frames[k].cycle
      BY <1>4, <1>8, <2>3
    <3>. QED BY <1>8, <2>1, <3>1, <3>2 DEF Bad
  <2>. QED BY <2>2, <2>3
<1>15. BadInv'
  <2>1. Cyclic' <=> Cyclic
    BY <1>2 DEF Cyclic, Users
  <2>2. \A s \in Stmt : vis'[s] = 3 => vis[s] = 3
    BY <1>10
  <2>. QED BY <1>1, <1>14, <2>1, <2>2 DEF BadInv
<1>16. SortInv'
  <2>. SUFFICES ASSUME ~ Bad PROVE SortInv'
    BY <1>14 DEF SortInv
  <2>. DEFINE L == Len(topo)
  <2>1. /\ L \in Nat /\ Len(topo') = L + 1 /\ topo'[L + 1] = t
        /\ \A j \in 1 .. L : topo'[j] = topo[j] /\ topo[j] \in Stmt
    <3>1. \A j \in 1 .. L : topo[j] \in Stmt
      BY <1>3, ElementInSeq
    <3>. QED BY <1>2, <1>3, <1>6, <3>1
  <2>2. \A j : j \in 1 .. L + 1 <=> j = L + 1 \/ j \in 1 .. L
    BY <2>1
  <2>3. /\ \A s \in Stmt : vis[s] = 2 <=> \E j \in 1 .. L : topo[j] = s
        /\ \A j, k \in 1 .. L : topo[j] = topo[k] => j = k
        /\ \A j \in 1 .. L : \A k \in DOMAIN depended_by[topo[j]] :
             \E i \in 1 .. j - 1 : topo[i] = depended_by[topo[j]][k]
        /\ \A k \in 1 .. n : \A i \in 1 .. frames[k].i - 1 : vis[depended_by[frames[k].u][i]] = 2
    BY <1>1, <1>2 DEF SortInv, n
  <2>. HIDE DEF L
  <2>4. \A j \in 1 .. L : topo[j] # t
    BY <1>6, <1>11, <2>3
  <2>5. \A s \in Stmt : vis'[s] = 2 <=> \E j \in 1 .. L + 1 : topo'[j] = s
    BY <1>10, <2>1, <2>2, <2>3
  <2>6. \A j, k \in 1 .. L + 1 : topo'[j] = topo'[k] => j = k
    BY <2>1, <2>2, <2>3, <2>4
  <2>7. ASSUME NEW j \in 1 .. L + 1, NEW k \in DOMAIN depended_by[topo'[j]]
        PROVE  \E i \in 1 .. j - 1 : topo'[i] = depended_by[topo'[j]][k]
    <3>1. CASE j \in 1 .. L
      <4>1. topo'[j] = topo[j]
        BY <2>1, <3>1
      <4>2. PICK i \in 1 .. j - 1 : topo[i] = depended_by[topo[j]][k]
        BY <2>3, <2>7, <3>1, <4>1
      <4>3. i \in 1 .. L
        BY <2>1, <3>1
      <4>. QED BY <2>1, <4>1, <4>2, <4>3
    <3>2. CASE j = L + 1
      <4>1. topo'[j] = t
        BY <2>1, <3>2
      <4>2. depended_by[t] \in Seq(Stmt)
        BY <1>3, <1>6
      <4>3. k \in 1 .. Len(depended_by[t]) /\ depended_by[t][k] \in Stmt
        <5>1. k \in 1 .. Len(depended_by[t])
          BY <4>1, <4>2
        <5>. QED BY <4>2, <5>1, ElementInSeq
      <4>4. frames[n].u = t /\ n \in 1 .. n /\ k \in 1 .. frames[n].i - 1
        <5>1. frames[n].i > Len(depended_by[t]) /\ frames[n].i \in Nat /\ n \in 1 .. n
          BY <1>2, <1>4, <1>5, <1>6
        <5>2. Len(depended_by[t]) \in Nat
          BY <4>2
        <5>. QED BY <1>6, <4>3, <5>1, <5>2 DEF t
      <4>5. vis[depended_by[t][k]] = 2
        BY <2>3, <4>4
      <4>6. PICK i \in 1 .. L : topo[i] = depended_by[t][k]
        BY <2>3, <4>3, <4>5
      <4>7. i \in 1 .. j - 1
        BY <2>1, <3>2
      <4>. QED BY <2>1, <4>1, <4>6, <4>7
    <3>. QED BY <2>2, <3>1, <3>2
  <2>8. ASSUME NEW k \in 1 .. m, NEW i \in 1 .. frames'[k].i - 1
        PROVE  vis'[depended_by[frames[k].u][i]] = 2
    <3>1. k \in 1 .. n /\ k + 1 \in 1 .. n /\ k \in 1 .. n - 1
      BY <1>4
    <3>2. /\ frames[k].i <= Len(depended_by[frames[k].u])
          /\ frames[k + 1].u = depended_by[frames[k].u][frames[k].i]
      BY <1>1, <3>1 DEF PathInv, n
    <3>3. frames'[k].i \in {frames[k].i, frames[k].i + 1} /\ (frames'[k].i # frames[k].i => k = m)
      <4>1. CASE k = m
        BY <1>4, <1>8, <4>1
      <4>2. CASE k # m
        <5>1. k \in 1 .. m - 1
          BY <1>4, <4>2
        <5>. QED BY <1>8, <5>1
      <4>. QED BY <4>1, <4>2
    <3>4. CASE i \in 1 .. frames[k].i - 1
      <4>1. vis[depended_by[frames[k].u][i]] = 2
        BY <2>3, <3>1, <3>4
      <4>2. depended_by[frames[k].u][i] \in Stmt
        <5>1. i \in 1 .. Len(depended_by[frames[k].u])
          BY <1>5, <1>7, <3>1, <3>2, <3>4
        <5>. QED BY <1>7, <3>1, <5>1, ElementInSeq
      <4>. QED BY <1>10, <4>1, <4>2
    <3>5. CASE ~ (i \in 1 .. frames[k].i - 1)
      <4>1. i = frames[k].i /\ frames'[k].i # frames[k].i
        BY <1>5, <3>1, <3>3, <3>5
      <4>2. depended_by[frames[k].u][i] = t
        BY <1>4, <1>6, <3>2, <3>3, <4>1 DEF t
      <4>. QED BY <1>10, <4>2
    <3>. QED BY <3>4, <3>5
  <2>9. \A j \in 1 .. Len(topo') : \A k \in DOMAIN depended_by'[topo'[j]] :
          \E i \in 1 .. j - 1 : topo'[i] = depended_by'[topo'[j]][k]
    BY <1>2, <2>1, <2>7, ZenonT(40)
  <2>10. \A k \in 1 .. Len(frames') : \A i \in 1 .. frames'[k].i - 1 :
           vis'[depended_by'[frames'[k].u][i]] = 2
    BY <1>2, <1>8, <2>8
  <2>. QED BY <2>1, <2>5, <2>6, <2>9, <2>10 DEF SortInv
<1>17. RootsInv' /\ DoneInv'
  BY <1>1, <1>2, <1>10 DEF RootsInv, DoneInv
<1>. QED BY <1>12, <1>13, <1>15, <1>16, <1>17 DEF IInv

(* The root actions, through OpenInv or without effect on the search.      *)
LEMMA RootInv ==
  ASSUME IInv, NEW d \in Stmt, Root(d)
  PROVE  IInv'
<1>1. TypeOK
  BY DEF IInv
<1>2. /\ pc = "sort" /\ frames = <<>> /\ todo' = todo \ {d} /\ Len(frames) = 0
      /\ todo' \in SUBSET todo /\ \A s \in todo : s \notin todo' => s = d
  BY <1>1 DEF Root, Rest, TypeOK
<1>3. CASE vis[d] = 0
  <2>1. Open(d)
    BY <1>3 DEF Root, Rest
  <2>. QED BY <1>2, <1>3, <2>1, OpenInv
<1>4. CASE vis[d] # 0
  <2>1. UNCHANGED <<depended_by, frames, st, vis, topo, n_errors, compiled, pc>>
    BY <1>4 DEF Root, Rest
  <2>2. TypeOK' /\ PathInv' /\ Bad' = Bad /\ Cyclic' = Cyclic
    BY <1>2, <2>1 DEF IInv, TypeOK, PathInv, Bad, Cyclic, Users
  <2>3. BadInv' /\ SortInv'
    BY <2>1, <2>2 DEF IInv, BadInv, SortInv
  <2>4. RootsInv' /\ DoneInv'
    BY <1>2, <1>4, <2>1 DEF IInv, RootsInv, DoneInv
  <2>. QED BY <2>2, <2>3, <2>4 DEF IInv
<1>. QED BY <1>3, <1>4

(* At the end of the search topo, reversed, is an order of all statements; *)
(* the first element of a set of statements in topo has no user in it.     *)
LEMMA SortedInv ==
  ASSUME IInv, Sorted
  PROVE  IInv'
<1>1. TypeOK /\ PathInv /\ BadInv /\ SortInv /\ RootsInv /\ DoneInv
  BY DEF IInv
<1>. DEFINE L == Len(topo)
<1>2. /\ pc = "sort" /\ frames = <<>> /\ todo = {} /\ topo' = Reverse(topo)
      /\ pc' = IF n_errors > 0 THEN "failed" ELSE "compile"
      /\ UNCHANGED <<depended_by, todo, frames, st, vis, n_errors, compiled>>
  BY DEF Sorted, Ordered
<1>3. /\ topo \in Seq(Stmt) /\ n_errors \in Nat /\ vis \in [Stmt -> 0 .. 3] /\ L \in Nat
      /\ compiled \in Seq(Stmt)
  BY <1>1 DEF TypeOK
<1>4. compiled = <<>> /\ Len(compiled) = 0
  BY <1>1, <1>2 DEF RootsInv
<1>5. Len(frames) = 0 /\ (Bad <=> n_errors > 0)
  BY <1>2 DEF Bad
<1>6. /\ topo' \in Seq(Stmt) /\ Len(topo') = L
      /\ \A j \in 1 .. L : topo'[j] = topo[L - j + 1]
  BY <1>2, <1>3 DEF Reverse
<1>7. TypeOK' /\ pc' # "sort"
  BY <1>1, <1>2, <1>6 DEF TypeOK
<1>8. Cyclic' = Cyclic /\ Bad' = Bad
  BY <1>2 DEF Cyclic, Users, Bad
<1>9. PathInv' /\ BadInv' /\ SortInv' /\ RootsInv'
  <2>1. PathInv'
    BY <1>1, <1>2 DEF PathInv
  <2>2. BadInv'
    BY <1>1, <1>2, <1>8 DEF BadInv
  <2>. QED BY <1>1, <1>2, <1>7, <2>1, <2>2 DEF SortInv, RootsInv
<1>10. ASSUME n_errors = 0
       PROVE  /\ ~ Cyclic
              /\ \A s \in Stmt : \E j \in 1 .. Len(topo') : topo'[j] = s
              /\ \A j, k \in 1 .. Len(topo') :
                   /\ topo'[j] = topo'[k] => j = k
                   /\ (topo[k] \in Users(topo[j]))' => j < k
  <2>. HIDE DEF L
  <2>1. ~ Bad
    BY <1>5, <1>10
  <2>2. \A s \in Stmt : vis[s] = 2
    <3>1. \A s \in Stmt : vis[s] # 0
      BY <1>1, <1>2 DEF RootsInv
    <3>2. \A s \in Stmt : vis[s] # 3
      BY <1>1, <2>1 DEF BadInv
    <3>3. \A s \in Stmt : vis[s] # 1
      BY <1>1, <1>5 DEF PathInv
    <3>. QED BY <1>3, <3>1, <3>2, <3>3
  <2>3. /\ \A s \in Stmt : \E j \in 1 .. L : topo[j] = s
        /\ \A j, k \in 1 .. L : topo[j] = topo[k] => j = k
        /\ \A j \in 1 .. L : \A k \in DOMAIN depended_by[topo[j]] :
             \E i \in 1 .. j - 1 : topo[i] = depended_by[topo[j]][k]
    BY <1>1, <1>2, <2>1, <2>2 DEF SortInv, L
  <2>4. \A j \in 1 .. L : \A v \in Users(topo[j]) : \E i \in 1 .. j - 1 : topo[i] = v
    BY <2>3 DEF Users
  <2>5. \A j \in 1 .. L : L - j + 1 \in 1 .. L
    BY <1>3
  <2>6. ~ Cyclic
    <3>. SUFFICES ASSUME Cyclic PROVE FALSE
      OBVIOUS
    <3>1. PICK S \in SUBSET Stmt : S # {} /\ \A u \in S : Users(u) \cap S # {}
      BY DEF Cyclic
    <3>. DEFINE J == {j \in 1 .. L : topo[j] \in S}
    <3>2. J \in SUBSET Nat /\ J # {}
      BY <2>3, <3>1
    <3>3. Min(J) \in J /\ \A j \in J : Min(J) <= j
      BY <3>2, MinProps
    <3>4. PICK v \in S : v \in Users(topo[Min(J)])
      BY <3>1, <3>3
    <3>5. PICK i \in 1 .. Min(J) - 1 : topo[i] = v
      BY <2>4, <3>3, <3>4
    <3>6. i \in J /\ i < Min(J)
      BY <1>3, <3>3, <3>4, <3>5
    <3>. QED BY <3>2, <3>3, <3>6
  <2>7. \A s \in Stmt : \E j \in 1 .. L : topo'[j] = s
    <3>. SUFFICES ASSUME NEW s \in Stmt PROVE \E j \in 1 .. L : topo'[j] = s
      OBVIOUS
    <3>1. PICK j \in 1 .. L : topo[j] = s
      BY <2>3
    <3>2. topo'[L - j + 1] = topo[j]
      BY <1>3, <1>6, <2>5 DEF L
    <3>. QED BY <2>5, <3>1, <3>2
  <2>8. ASSUME NEW j \in 1 .. L, NEW k \in 1 .. L, topo'[j] = topo'[k]
        PROVE  j = k
    <3>1. L - j + 1 = L - k + 1
      <4>1. topo[L - j + 1] = topo[L - k + 1]
        BY <1>6, <2>8 DEF L
      <4>. QED BY <2>3, <2>5, <4>1
    <3>. QED BY <1>3, <3>1
  <2>9. ASSUME NEW j \in 1 .. L, NEW k \in 1 .. L, topo'[k] \in {depended_by'[topo'[j]][i] : i \in DOMAIN depended_by'[topo'[j]]}
        PROVE  j < k
    <3>1. topo'[j] = topo[L - j + 1] /\ topo'[k] = topo[L - k + 1]
      BY <1>6 DEF L
    <3>2. topo[L - k + 1] \in Users(topo[L - j + 1])
      BY <1>2, <2>9, <3>1 DEF Users
    <3>3. PICK i \in 1 .. (L - j + 1) - 1 : topo[i] = topo[L - k + 1]
      BY <2>4, <2>5, <3>2
    <3>4. i = L - k + 1
      <4>1. i \in 1 .. L
        BY <1>3
      <4>. QED BY <2>3, <2>5, <3>3, <4>1
    <3>. QED BY <1>3, <3>3, <3>4
  <2>10. Len(topo') = L
    BY <1>6 DEF L
  <2>11. \A j, k \in 1 .. L : topo'[j] = topo'[k] => j = k
    BY <2>8
  <2>12. \A j, k \in 1 .. L : (topo[k] \in Users(topo[j]))' => j < k
    BY <2>9 DEF Users
  <2>. QED BY <2>6, <2>7, <2>10, <2>11, <2>12
<1>11. DoneInv'
  <2>1. n_errors > 0 => Cyclic
    BY <1>1, <1>5 DEF BadInv
  <2>2. n_errors' = n_errors /\ Len(compiled') = 0
    BY <1>2, <1>4
  <2>3. pc' \in {"compile", "done"} => n_errors = 0
    BY <1>2, <1>3
  <2>. QED BY <1>3, <1>6, <1>8, <1>10, <2>1, <2>2, <2>3 DEF DoneInv
<1>. QED BY <1>7, <1>9, <1>11 DEF IInv

LEMMA CompileInv ==
  ASSUME IInv, NEW s \in Stmt, Compile(s)
  PROVE  IInv'
<1>1. TypeOK /\ PathInv /\ BadInv /\ SortInv /\ RootsInv /\ DoneInv
  BY DEF IInv
<1>2. /\ pc = "compile" /\ Len(compiled) < Len(topo) /\ s = topo[Len(compiled) + 1]
      /\ compiled' = Append(compiled, s) /\ depended_by' = depended_by /\ todo' = todo
      /\ frames' = frames /\ st' = st /\ vis' = vis /\ topo' = topo
      /\ n_errors' = n_errors /\ pc' = pc
  BY DEF Compile, NextStmt
<1>3. compiled \in Seq(Stmt) /\ topo \in Seq(Stmt)
  BY <1>1 DEF TypeOK
<1>4. TypeOK' /\ PathInv'
  BY <1>1, <1>2, <1>3 DEF TypeOK, PathInv
<1>5. (Cyclic' <=> Cyclic) /\ (Bad' <=> Bad)
  BY <1>2 DEF Cyclic, Users, Bad
<1>6. BadInv' /\ SortInv' /\ RootsInv'
  BY <1>1, <1>2, <1>5 DEF BadInv, SortInv, RootsInv
<1>7. DoneInv'
  <2>1. /\ Len(compiled') = Len(compiled) + 1 /\ compiled'[Len(compiled) + 1] = s
        /\ \A k \in 1 .. Len(compiled) : compiled'[k] = compiled[k]
        /\ Len(compiled) \in Nat /\ Len(topo) \in Nat
    BY <1>2, <1>3
  <2>2. /\ n_errors > 0 <=> Cyclic
        /\ n_errors = 0
        /\ \A d \in Stmt : \E j \in 1 .. Len(topo) : topo[j] = d
        /\ \A j, k \in 1 .. Len(topo) :
             /\ topo[j] = topo[k] => j = k
             /\ topo[k] \in Users(topo[j]) => j < k
        /\ \A k \in 1 .. Len(compiled) : compiled[k] = topo[k]
    <3>1. n_errors = 0 /\ (n_errors > 0 <=> Cyclic) /\ pc # "sort"
      BY <1>1, <1>2 DEF DoneInv
    <3>. QED BY <1>1, <3>1 DEF DoneInv
  <2>3. \A j, k \in 1 .. Len(topo) : (topo[k] \in Users(topo[j]))' => j < k
    <3>1. ASSUME NEW j \in 1 .. Len(topo), NEW k \in 1 .. Len(topo),
                 topo'[k] \in {depended_by'[topo'[j]][i] : i \in DOMAIN depended_by'[topo'[j]]}
          PROVE  j < k
      <4>1. topo[k] \in Users(topo[j])
        BY <1>2, <3>1 DEF Users
      <4>. QED BY <2>2, <4>1
    <3>. QED BY <3>1 DEF Users
  <2>4. \A k \in 1 .. Len(compiled') : compiled'[k] = topo'[k]
    <3>1. \A k \in 1 .. Len(compiled') : k \in 1 .. Len(compiled) \/ k = Len(compiled) + 1
      BY <2>1
    <3>. QED BY <1>2, <2>1, <2>2, <3>1
  <2>5. Len(compiled') <= Len(topo')
    BY <1>2, <2>1
  <2>. QED BY <1>2, <1>5, <2>2, <2>3, <2>4, <2>5, SMTT(30) DEF DoneInv
<1>. QED BY <1>4, <1>6, <1>7 DEF IInv

LEMMA StutterInv ==
  ASSUME IInv, UNCHANGED <<depended_by, todo, frames, st, vis, topo, n_errors, compiled>>,
         pc' = pc \/ (pc = "compile" /\ pc' = "done")
  PROVE  IInv'
<1>1. (Cyclic' <=> Cyclic) /\ (Bad' <=> Bad)
  BY DEF Cyclic, Users, Bad
<1>2. TypeOK' /\ PathInv'
  BY DEF IInv, TypeOK, PathInv
<1>3. BadInv' /\ SortInv' /\ RootsInv'
  BY <1>1 DEF IInv, BadInv, SortInv, RootsInv
<1>4. DoneInv'
  BY <1>1 DEF IInv, DoneInv, Users
<1>. QED BY <1>2, <1>3, <1>4 DEF IInv

LEMMA StepInv == IInv /\ [Next]_vars => IInv'
<1>. SUFFICES ASSUME IInv, [Next]_vars PROVE IInv'
  OBVIOUS
<1>1. ASSUME NEW d \in Stmt, Root(d) PROVE IInv'
  BY <1>1, RootInv
<1>2. CASE VisitNew
  <2>1. AtChild /\ vis[Child] = 0 /\ Open(Child) /\ todo' = todo
    BY <1>2 DEF VisitNew
  <2>2. pc = "sort" /\ frames # <<>> /\ Top.i <= Len(depended_by[Top.u])
    BY <2>1 DEF AtChild
  <2>3. frames \in Seq(Frame) /\ depended_by \in [Stmt -> Seq(Stmt)] /\ todo \in SUBSET Stmt
    BY DEF IInv, TypeOK
  <2>4. Len(frames) \in 1 .. Len(frames)
    BY <2>2, <2>3
  <2>5. Top.u \in Stmt /\ Top.i \in Nat \ {0}
    BY <2>3, <2>4, ElementInSeq, FrameFields DEF Top
  <2>6. depended_by[Top.u] \in Seq(Stmt)
    BY <2>3, <2>5
  <2>7. Top.i \in 1 .. Len(depended_by[Top.u])
    BY <2>2, <2>5, <2>6
  <2>8. Child \in Stmt
    BY <2>6, <2>7, ElementInSeq DEF Child
  <2>9. todo' \in SUBSET todo /\ \A s \in todo : s \notin todo' => s = Child
    BY <2>1
  <2>. QED BY <2>1, <2>2, <2>8, <2>9, OpenInv
<1>3. CASE VisitVisited \/ VisitInCycle \/ VisitOpen
  BY <1>3, VisitInv
<1>4. CASE Return
  BY <1>4, ReturnInv
<1>5. CASE Sorted
  BY <1>5, SortedInv
<1>6. ASSUME NEW s \in Stmt, Compile(s) PROVE IInv'
  BY <1>6, CompileInv
<1>7. CASE Finish
  BY <1>7, StutterInv DEF Finish
<1>8. CASE Terminated
  BY <1>8, StutterInv DEF Terminated, vars
<1>9. CASE UNCHANGED vars
  BY <1>9, StutterInv DEF vars
<1>. QED BY <1>1, <1>2, <1>3, <1>4, <1>5, <1>6, <1>7, <1>8, <1>9 DEF Next, Step

-----------------------------------------------------------------------------
(* Every state of the sort and the compile loop meets the invariant.       *)
THEOREM Invariance == Spec => []IInv
<1>. QED BY InitInv, StepInv, PTL DEF Spec

(* load reports an error iff some statements embed each other in a circle: *)
(* topo_define_stmts, loader.cc 399-441, and the return of load after it.  *)
THEOREM CyclesReported == Spec => []ErrorsIffCyclic
<1>1. IInv => ErrorsIffCyclic
  BY DEF IInv, DoneInv, ErrorsIffCyclic
<1>. QED BY <1>1, Invariance, PTL

(* The compile loop is handed every statement once, after the ones it      *)
(* embeds (loader.cc 437-440 and std::reverse).                            *)
THEOREM OrderTopological == Spec => []TopologicalOrder
<1>1. ASSUME IInv PROVE TopologicalOrder
  <2>1. TypeOK /\ DoneInv
    BY <1>1 DEF IInv
  <2>2. topo \in Seq(Stmt)
    BY <2>1 DEF TypeOK
  <2>3. DOMAIN topo = 1 .. Len(topo)
    BY <2>2
  <2>4. \A k \in DOMAIN topo : topo[k] \in Stmt
    BY <2>2, <2>3, ElementInSeq
  <2>. QED BY <2>1, <2>3, <2>4 DEF DoneInv, TopologicalOrder, ToSet
<1>. QED BY <1>1, Invariance, PTL

(* compile() finds the automata of the embedded statements and has not run *)
(* for the statement itself before (loader.cc 612-624).                    *)
THEOREM EmbedsFirst == Spec => EmbedsCompiledFirst
<1>. DEFINE Fresh == \A s \in Stmt : Compile(s) =>
                       /\ s \notin ToSet(compiled)
                       /\ \A d \in Stmt : s \in Users(d) => d \in ToSet(compiled)
<1>1. ASSUME IInv PROVE Fresh
  <2>. SUFFICES ASSUME NEW s \in Stmt, Compile(s)
                PROVE  /\ s \notin ToSet(compiled)
                       /\ \A d \in Stmt : s \in Users(d) => d \in ToSet(compiled)
    OBVIOUS
  <2>1. /\ pc = "compile" /\ Len(compiled) < Len(topo) /\ s = topo[Len(compiled) + 1]
    BY DEF Compile, NextStmt
  <2>2. compiled \in Seq(Stmt) /\ topo \in Seq(Stmt)
    BY <1>1 DEF IInv, TypeOK
  <2>3. /\ Len(compiled) \in Nat /\ Len(topo) \in Nat
        /\ DOMAIN compiled = 1 .. Len(compiled)
        /\ Len(compiled) + 1 \in 1 .. Len(topo)
        /\ \A k \in 1 .. Len(compiled) : k \in 1 .. Len(topo)
    BY <2>1, <2>2
  <2>4. /\ \A d \in Stmt : \E j \in 1 .. Len(topo) : topo[j] = d
        /\ \A j, k \in 1 .. Len(topo) :
             /\ topo[j] = topo[k] => j = k
             /\ topo[k] \in Users(topo[j]) => j < k
        /\ \A k \in 1 .. Len(compiled) : compiled[k] = topo[k]
    BY <1>1, <2>1 DEF IInv, DoneInv
  <2>5. s \notin ToSet(compiled)
    <3>. SUFFICES ASSUME NEW k \in 1 .. Len(compiled), compiled[k] = s PROVE FALSE
      BY <2>3 DEF ToSet
    <3>1. topo[k] = topo[Len(compiled) + 1]
      BY <2>1, <2>4
    <3>2. k = Len(compiled) + 1
      BY <2>3, <2>4, <3>1
    <3>. QED BY <2>3, <3>2
  <2>6. ASSUME NEW d \in Stmt, s \in Users(d) PROVE d \in ToSet(compiled)
    <3>1. PICK j \in 1 .. Len(topo) : topo[j] = d
      BY <2>4
    <3>2. j < Len(compiled) + 1
      BY <2>1, <2>3, <2>4, <2>6, <3>1
    <3>3. j \in 1 .. Len(compiled)
      BY <2>3, <3>2
    <3>. QED BY <2>3, <2>4, <3>1, <3>3 DEF ToSet
  <2>. QED BY <2>5, <2>6
<1>2. IInv => [Fresh]_vars
  BY <1>1
<1>. QED BY <1>2, Invariance, PTL DEF EmbedsCompiledFirst


-----------------------------------------------------------------------------
(* Where the open statements are on st: in the order of the calls, though  *)
(* not one above the other, since a cycle leaves an entry between them.    *)
(* Return pops the top whatever it is; the order is why no statement whose *)
(* call is still active is lost.                                           *)
StackedAt(p) ==
  /\ p \in [1 .. Len(frames) -> 1 .. Len(st)]
  /\ \A k \in 1 .. Len(frames) : st[p[k]] = frames[k].u
  /\ \A j, k \in 1 .. Len(frames) : j < k => p[j] < p[k]

StackInv == \E p : StackedAt(p)

(* A call at the end of frames is found at the end of st.                  *)
LEMMA OpenStacked ==
  ASSUME IInv, StackInv, NEW v \in Stmt, Open(v)
  PROVE  StackInv'
<1>1. /\ frames \in Seq(Frame) /\ st \in Seq(Stmt)
      /\ st' = Append(st, v)
      /\ frames' = Append(frames, [u |-> v, i |-> 1, cycle |-> FALSE])
  BY DEF Open, IInv, TypeOK
<1>2. PICK p : StackedAt(p)
  BY DEF StackInv
<1>3. PICK n \in Nat : n = Len(frames)
  BY <1>1
<1>4. PICK h \in Nat : h = Len(st)
  BY <1>1
<1>5. /\ Len(frames') = n + 1 /\ Len(st') = h + 1
      /\ \A k \in 1 .. n : frames'[k] = frames[k]
      /\ frames'[n + 1].u = v
      /\ \A k \in 1 .. h : st'[k] = st[k]
      /\ st'[h + 1] = v
  BY <1>1, <1>3, <1>4
<1>6. /\ p \in [1 .. n -> 1 .. h]
      /\ \A k \in 1 .. n : st[p[k]] = frames[k].u
      /\ \A j, k \in 1 .. n : j < k => p[j] < p[k]
  BY <1>2, <1>3, <1>4 DEF StackedAt
<1>7. PICK r : r = [k \in 1 .. n + 1 |-> IF k = n + 1 THEN h + 1 ELSE p[k]]
  OBVIOUS
<1>8. /\ \A k \in 1 .. n : r[k] = p[k] /\ r[k] \in 1 .. h /\ k \in 1 .. n + 1
      /\ r[n + 1] = h + 1
      /\ \A k \in 1 .. n + 1 : k = n + 1 \/ k \in 1 .. n
  BY <1>6, <1>7
<1>9. r \in [1 .. n + 1 -> 1 .. h + 1]
  BY <1>7, <1>8
<1>10. \A k \in 1 .. n + 1 : st'[r[k]] = frames'[k].u
  <2>1. st'[r[n + 1]] = frames'[n + 1].u
    BY <1>5, <1>8
  <2>2. ASSUME NEW k \in 1 .. n PROVE st'[r[k]] = frames'[k].u
    <3>1. r[k] = p[k] /\ p[k] \in 1 .. h
      BY <1>8
    <3>2. st'[p[k]] = st[p[k]] /\ st[p[k]] = frames[k].u /\ frames'[k] = frames[k]
      BY <1>5, <1>6, <3>1
    <3>. QED BY <3>1, <3>2
  <2>. QED BY <1>8, <2>1, <2>2
<1>11. \A j, k \in 1 .. n + 1 : j < k => r[j] < r[k]
  <2>. SUFFICES ASSUME NEW j \in 1 .. n + 1, NEW k \in 1 .. n + 1, j < k PROVE r[j] < r[k]
    OBVIOUS
  <2>1. j \in 1 .. n /\ r[j] \in 1 .. h
    BY <1>8
  <2>2. CASE k = n + 1
    BY <1>8, <2>1, <2>2
  <2>3. CASE k \in 1 .. n
    BY <1>6, <1>8, <2>1, <2>3
  <2>. QED BY <1>8, <2>2, <2>3
<1>12. StackedAt(r)'
  BY <1>5, <1>9, <1>10, <1>11 DEF StackedAt
<1>. QED BY <1>12 DEF StackInv

(* Entries added to st, and a call that goes on to its next child, leave   *)
(* the calls where they were found.                                        *)
LEMMA ResumeStacked ==
  ASSUME IInv, StackInv, frames # <<>>, NEW b \in BOOLEAN, frames' = Resume(frames, b),
         Len(st') \in Nat, Len(st') >= Len(st),
         \A k \in 1 .. Len(st) : st'[k] = st[k]
  PROVE  StackInv'
<1>1. frames \in Seq(Frame) /\ st \in Seq(Stmt)
  BY DEF IInv, TypeOK
<1>2. Len(frames') = Len(frames) /\ \A k \in 1 .. Len(frames) : frames'[k].u = frames[k].u
  BY <1>1, ResumeProps
<1>3. PICK p : StackedAt(p)
  BY DEF StackInv
<1>4. PICK n \in Nat : n = Len(frames)
  BY <1>1
<1>5. PICK h \in Nat : h = Len(st)
  BY <1>1
<1>6. /\ p \in [1 .. n -> 1 .. h]
      /\ \A k \in 1 .. n : st[p[k]] = frames[k].u
      /\ \A j, k \in 1 .. n : j < k => p[j] < p[k]
  BY <1>3, <1>4, <1>5 DEF StackedAt
<1>7. p \in [1 .. n -> 1 .. Len(st')]
  BY <1>5, <1>6
<1>8. \A k \in 1 .. n : st'[p[k]] = frames'[k].u
  BY <1>2, <1>4, <1>5, <1>6
<1>9. Len(frames') = n
  BY <1>2, <1>4
<1>10. StackedAt(p)'
  BY <1>6, <1>7, <1>8, <1>9 DEF StackedAt
<1>. QED BY <1>10 DEF StackInv

(* What Return pops lies at or above the last call, so above all others.   *)
LEMMA ReturnStacked ==
  ASSUME IInv, StackInv, Return
  PROVE  StackInv'
<1>1. /\ frames \in Seq(Frame) /\ st \in Seq(Stmt) /\ frames # <<>>
      /\ st' = Front(st)
  BY DEF Return, IInv, TypeOK
<1>2. PICK p : StackedAt(p)
  BY DEF StackInv
<1>3. PICK m \in Nat : Len(frames) = m + 1
  <2>1. Len(frames) \in Nat \ {0}
    BY <1>1
  <2>. QED BY <2>1
<1>4. PICK h \in Nat : h = Len(st)
  BY <1>1
<1>5. /\ p \in [1 .. m + 1 -> 1 .. h]
      /\ \A k \in 1 .. m + 1 : st[p[k]] = frames[k].u
      /\ \A j, k \in 1 .. m + 1 : j < k => p[j] < p[k]
  BY <1>2, <1>3, <1>4 DEF StackedAt
<1>6. p[m + 1] \in 1 .. h /\ h > 0
  BY <1>5
<1>7. Len(st') = h - 1 /\ \A k \in 1 .. h - 1 : st'[k] = st[k]
  BY <1>1, <1>4, <1>6 DEF Front
<1>8. Len(frames') = m /\ \A k \in 1 .. m : frames'[k].u = frames[k].u
  <2>1. CASE m = 0
    BY <1>3, <2>1 DEF Return
  <2>2. CASE m # 0
    <3>1. frames' = Resume(Front(frames), Top.cycle)
      BY <1>3, <2>2 DEF Return
    <3>2. Top \in Frame
      BY <1>1, <1>3, ElementInSeq DEF Top
    <3>3. Top.cycle \in BOOLEAN
      BY <3>2, FrameFields
    <3>4. /\ Front(frames) \in Seq(Frame) /\ Len(Front(frames)) = m
          /\ \A k \in 1 .. m : Front(frames)[k] = frames[k]
      BY <1>1, <1>3 DEF Front
    <3>5. Front(frames) # <<>>
      BY <2>2, <3>4
    <3>6. /\ Len(frames') = Len(Front(frames))
          /\ \A k \in 1 .. Len(Front(frames)) : frames'[k].u = Front(frames)[k].u
      BY <3>1, <3>3, <3>4, <3>5, ResumeProps
    <3>. QED BY <3>4, <3>6
  <2>. QED BY <2>1, <2>2
<1>9. PICK r : r = [k \in 1 .. m |-> p[k]]
  OBVIOUS
<1>10. \A k \in 1 .. m : /\ k \in 1 .. m + 1
                         /\ r[k] = p[k] /\ r[k] \in 1 .. h - 1
  <2>. SUFFICES ASSUME NEW k \in 1 .. m PROVE p[k] \in 1 .. h - 1
    BY <1>9
  <2>1. k \in 1 .. m + 1 /\ m + 1 \in 1 .. m + 1 /\ k < m + 1
    OBVIOUS
  <2>2. p[k] < p[m + 1] /\ p[k] \in 1 .. h
    BY <1>5, <2>1
  <2>. QED BY <1>6, <2>2
<1>11. r \in [1 .. m -> 1 .. h - 1]
  BY <1>9, <1>10
<1>12. ASSUME NEW k \in 1 .. m PROVE st'[r[k]] = frames'[k].u
  <2>1. k \in 1 .. m + 1 /\ r[k] = p[k] /\ p[k] \in 1 .. h - 1
    BY <1>10
  <2>2. st'[p[k]] = st[p[k]] /\ st[p[k]] = frames[k].u /\ frames'[k].u = frames[k].u
    BY <1>5, <1>7, <1>8, <2>1
  <2>. QED BY <2>1, <2>2
<1>13. \A j, k \in 1 .. m : j < k => r[j] < r[k]
  BY <1>5, <1>10
<1>14. StackedAt(r)'
  BY <1>7, <1>8, <1>11, <1>12, <1>13 DEF StackedAt
<1>. QED BY <1>14 DEF StackInv

LEMMA StepStacked == IInv /\ StackInv /\ [Next]_vars => StackInv'
<1>. SUFFICES ASSUME IInv, StackInv, [Next]_vars PROVE StackInv'
  OBVIOUS
<1>1. ASSUME frames' = frames, st' = st PROVE StackInv'
  BY <1>1 DEF StackInv, StackedAt
<1>2. /\ frames \in Seq(Frame) /\ st \in Seq(Stmt)
      /\ depended_by \in [Stmt -> Seq(Stmt)]
  BY DEF IInv, TypeOK
<1>3. ASSUME NEW d \in Stmt, Root(d) PROVE StackInv'
  <2>1. CASE vis[d] = 0
    BY <1>3, <2>1, OpenStacked DEF Root
  <2>2. CASE vis[d] # 0
    BY <1>1, <1>3, <2>2 DEF Root
  <2>. QED BY <2>1, <2>2
<1>4. ASSUME AtChild PROVE frames # <<>> /\ Child \in Stmt
  <2>1. frames # <<>> /\ Top.i <= Len(depended_by[Top.u])
    BY <1>4 DEF AtChild
  <2>2. Len(frames) \in 1 .. Len(frames)
    BY <1>2, <2>1
  <2>3. Top.u \in Stmt /\ Top.i \in Nat \ {0}
    BY <1>2, <2>2, ElementInSeq, FrameFields DEF Top
  <2>4. depended_by[Top.u] \in Seq(Stmt)
    BY <1>2, <2>3
  <2>5. Top.i \in 1 .. Len(depended_by[Top.u])
    BY <2>1, <2>3, <2>4
  <2>. QED BY <2>1, <2>4, <2>5, ElementInSeq DEF Child
<1>5. CASE VisitNew
  BY <1>4, <1>5, OpenStacked DEF VisitNew
<1>6. CASE VisitVisited \/ VisitInCycle
  <2>1. frames # <<>> /\ st' = st
    BY <1>4, <1>6 DEF VisitVisited, VisitInCycle
  <2>2. Len(st') \in Nat /\ Len(st') >= Len(st) /\ \A k \in 1 .. Len(st) : st'[k] = st[k]
    BY <1>2, <2>1
  <2>3. frames' = Resume(frames, FALSE) \/ frames' = Resume(frames, TRUE)
    BY <1>6 DEF VisitVisited, VisitInCycle
  <2>. QED BY <2>1, <2>2, <2>3, ResumeStacked
<1>7. CASE VisitOpen
  <2>1. frames # <<>> /\ Child \in Stmt
    BY <1>4, <1>7 DEF VisitOpen
  <2>2. frames' = Resume(frames, TRUE) /\ st' = Append(st, Child)
    BY <1>7 DEF VisitOpen, Pushed
  <2>3. Len(st') \in Nat /\ Len(st') >= Len(st) /\ \A k \in 1 .. Len(st) : st'[k] = st[k]
    BY <1>2, <2>1, <2>2
  <2>. QED BY <2>1, <2>2, <2>3, ResumeStacked
<1>8. CASE Return
  BY <1>8, ReturnStacked
<1>9. CASE Sorted
  BY <1>1, <1>9 DEF Sorted
<1>10. ASSUME NEW s \in Stmt, Compile(s) PROVE StackInv'
  BY <1>1, <1>10 DEF Compile
<1>11. CASE Finish
  BY <1>1, <1>11 DEF Finish
<1>12. CASE Terminated \/ UNCHANGED vars
  BY <1>1, <1>12 DEF Terminated, vars
<1>. QED BY <1>3, <1>5, <1>6, <1>7, <1>8, <1>9, <1>10, <1>11, <1>12 DEF Next, Step

(* The search of st for an open statement never runs off its bottom:       *)
(* `while (st[i - 1] != u) i--' (loader.cc 413-416).                       *)
THEOREM OpenFound == Spec => []OpenOnStack
<1>1. Init => StackInv
  <2>. SUFFICES ASSUME Init PROVE StackInv
    OBVIOUS
  <2>1. frames = <<>> /\ st = <<>>
    BY DEF Init
  <2>2. Len(frames) = 0 /\ Len(st) = 0
    BY <2>1
  <2>3. StackedAt([k \in 1 .. 0 |-> 0])
    BY <2>2 DEF StackedAt
  <2>. QED BY <2>3 DEF StackInv
<1>2. ASSUME IInv, StackInv PROVE OpenOnStack
  <2>1. st \in Seq(Stmt) /\ DOMAIN st = 1 .. Len(st)
    BY <1>2 DEF IInv, TypeOK
  <2>2. PICK p : StackedAt(p)
    BY <1>2 DEF StackInv
  <2>3. ASSUME NEW s \in Stmt, vis[s] = 1 PROVE s \in ToSet(st)
    <3>1. PICK k \in 1 .. Len(frames) : frames[k].u = s
      BY <1>2, <2>3 DEF IInv, PathInv
    <3>2. p[k] \in DOMAIN st /\ st[p[k]] = s
      BY <2>1, <2>2, <3>1 DEF StackedAt
    <3>. QED BY <3>2 DEF ToSet
  <2>. QED BY <2>3 DEF OpenOnStack
<1>. QED BY <1>1, <1>2, StepStacked, Invariance, PTL DEF Spec
=============================================================================
