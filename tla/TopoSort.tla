------------------------------ MODULE TopoSort ------------------------------
(***************************************************************************)
(* topo_define_stmts and the compile loop of load (src/loader.cc): the     *)
(* statements are ordered by depth first search along depended_by, a       *)
(* circular embedding is an error, and compile() then reads the compiled   *)
(* automaton of every statement the current one embeds.                    *)
(*                                                                         *)
(* depended_by[d] lists the statements that embed d, in the order of the   *)
(* uses, one entry per use.  The recursive lambda dfs is modelled with its *)
(* calls on `frames'; the code keeps a second stack, st, by hand.  The map *)
(* depended_by is unordered, so the roots are taken in any order.  cnt     *)
(* only feeds a printout and is left out.                                  *)
(***************************************************************************)
EXTENDS Naturals, FiniteSets, Sequences, SequencesExt

CONSTANTS Stmt,      \* the DefineStmts of all modules
          MaxUses    \* bound: embeddings of one statement, for Init

ASSUME StmtAssumption == IsFiniteSet(Stmt) /\ MaxUses \in Nat

VARIABLES
  depended_by,  \* for each statement the statements that embed it
  todo,         \* keys of depended_by the outer loop has not reached
  frames,       \* active calls of dfs: statement u, index i of the child
                \* being visited, and the local flag cycle
  st,           \* the stack of open statements kept to report a cycle
  vis,          \* 0 new, 1 in stack, 2 visited, 3 in cycle
  topo,         \* finished statements; reversed at the end
  n_errors,
  compiled,     \* statements compile() has returned for, in order
  pc            \* "sort", "compile", "done", or "failed" (load returns)

vars == <<depended_by, todo, frames, st, vis, topo, n_errors, compiled, pc>>

(* A call of dfs(u).                                                       *)
Frame == [u : Stmt, i : Nat \ {0}, cycle : BOOLEAN]

Users(d) == {depended_by[d][k] : k \in DOMAIN depended_by[d]}

Init ==
  /\ depended_by \in [Stmt -> BoundedSeq(Stmt, MaxUses)]
  /\ todo = Stmt
  /\ frames = <<>>
  /\ st = <<>>
  /\ vis = [s \in Stmt |-> 0]
  /\ topo = <<>>
  /\ n_errors = 0
  /\ compiled = <<>>
  /\ pc = "sort"

-----------------------------------------------------------------------------
(* What a call dfs(v) does for a statement not met before: open it.        *)
Open(v) ==
  /\ vis' = [vis EXCEPT ![v] = 1]
  /\ st' = Append(st, v)
  /\ frames' = Append(frames, [u |-> v, i |-> 1, cycle |-> FALSE])
  /\ UNCHANGED <<depended_by, topo, n_errors, compiled, pc>>

(* Mutant: a key stays in the loop.                                        *)
RestKeepsKey(d) == todo

Rest(d) == todo \ {d}

(* The outer loop: the next key, unless an earlier root reached it.        *)
Root(d) ==
  /\ pc = "sort" /\ frames = <<>> /\ d \in todo
  /\ todo' = Rest(d)
  /\ IF vis[d] = 0
       THEN Open(d)
       ELSE UNCHANGED <<depended_by, frames, st, vis, topo, n_errors, compiled, pc>>

Top == frames[Len(frames)]
AtChild == pc = "sort" /\ frames # <<>> /\ Top.i <= Len(depended_by[Top.u])
Child == depended_by[Top.u][Top.i]

(* Mutant: the flag only keeps the last child's result.                    *)
ResumeLast(fs, b) ==
  LET f == fs[Len(fs)]
  IN [fs EXCEPT ![Len(fs)] = [u |-> f.u, i |-> f.i + 1, cycle |-> b]]

(* The call of dfs on the child of the last of the frames fs returns b.    *)
Resume(fs, b) ==
  LET f == fs[Len(fs)]
  IN [fs EXCEPT ![Len(fs)] = [u |-> f.u, i |-> f.i + 1, cycle |-> f.cycle \/ b]]

VisitNew ==
  /\ AtChild /\ vis[Child] = 0
  /\ Open(Child)
  /\ UNCHANGED todo

VisitVisited ==
  /\ AtChild /\ vis[Child] = 2
  /\ frames' = Resume(frames, FALSE)
  /\ UNCHANGED <<depended_by, todo, st, vis, topo, n_errors, compiled, pc>>

VisitInCycle ==
  /\ AtChild /\ vis[Child] = 3
  /\ frames' = Resume(frames, TRUE)
  /\ UNCHANGED <<depended_by, todo, st, vis, topo, n_errors, compiled, pc>>

(* Mutant: st is cut back to the statement found.                          *)
PushedCut(v, at) == SubSeq(st, 1, at)

Pushed(v, at) == Append(st, v)

(* An open child closes a cycle: st is searched for it from the top, it is *)
(* pushed once more, and everything above its first entry found is marked. *)
VisitOpen ==
  /\ AtChild /\ vis[Child] = 1
  /\ LET at == CHOOSE k \in DOMAIN st :
                 st[k] = Child /\ \A j \in k + 1 .. Len(st) : st[j] # Child
         pushed == Pushed(Child, at)
         marked == {pushed[j] : j \in at + 1 .. Len(pushed)}
     IN /\ st' = pushed
        /\ vis' = [s \in Stmt |-> IF s \in marked THEN 3 ELSE vis[s]]
  /\ frames' = Resume(frames, TRUE)
  /\ UNCHANGED <<depended_by, todo, topo, n_errors, compiled, pc>>

Visited(u) == [vis EXCEPT ![u] = 2]

(* The end of dfs: whatever is on top of st is popped.  A root's result    *)
(* counts as an error, any other is handed to the frame below.             *)
Return ==
  /\ pc = "sort" /\ frames # <<>> /\ Top.i > Len(depended_by[Top.u])
  /\ st' = Front(st)
  /\ vis' = Visited(Top.u)
  /\ topo' = Append(topo, Top.u)
  /\ IF Len(frames) = 1
       THEN /\ frames' = <<>>
            /\ n_errors' = n_errors + (IF Top.cycle THEN 1 ELSE 0)
       ELSE /\ frames' = Resume(Front(frames), Top.cycle)
            /\ UNCHANGED n_errors
  /\ UNCHANGED <<depended_by, todo, compiled, pc>>

(* Mutant: topo is left in the order of the returns.                       *)
OrderedByReturn == topo

Ordered == Reverse(topo)

Sorted ==
  /\ pc = "sort" /\ frames = <<>> /\ todo = {}
  /\ topo' = Ordered
  /\ pc' = IF n_errors > 0 THEN "failed" ELSE "compile"
  /\ UNCHANGED <<depended_by, todo, frames, st, vis, n_errors, compiled>>

-----------------------------------------------------------------------------
(* Mutant: topo is taken from the back.                                    *)
NextStmtBack == topo[Len(topo) - Len(compiled)]

NextStmt == topo[Len(compiled) + 1]

(* for (auto stmt : topo) compile(stmt): compiled grows in topo's order.   *)
Compile(s) ==
  /\ pc = "compile"
  /\ Len(compiled) < Len(topo)
  /\ s = NextStmt
  /\ compiled' = Append(compiled, s)
  /\ UNCHANGED <<depended_by, todo, frames, st, vis, topo, n_errors, pc>>

Finish ==
  /\ pc = "compile"
  /\ Len(compiled) = Len(topo)
  /\ pc' = "done"
  /\ UNCHANGED <<depended_by, todo, frames, st, vis, topo, n_errors, compiled>>

Terminated == pc \in {"done", "failed"} /\ UNCHANGED vars

Step ==
  \/ \E d \in Stmt : Root(d)
  \/ VisitNew \/ VisitVisited \/ VisitInCycle \/ VisitOpen
  \/ Return
  \/ Sorted
  \/ \E s \in Stmt : Compile(s)
  \/ Finish

Next == Step \/ Terminated

Spec == Init /\ [][Next]_vars

(* load is one sequential call.                                            *)
FairSpec == Spec /\ WF_vars(Step)

-----------------------------------------------------------------------------
(* Types.  An index past the end of depended_by[u] ends its frame.         *)
TypeOK ==
  /\ depended_by \in [Stmt -> Seq(Stmt)]
  /\ todo \in SUBSET Stmt
  /\ frames \in Seq(Frame)
  /\ st \in Seq(Stmt)
  /\ vis \in [Stmt -> 0 .. 3]
  /\ topo \in Seq(Stmt)
  /\ n_errors \in Nat
  /\ compiled \in Seq(Stmt)
  /\ pc \in {"sort", "compile", "done", "failed"}

(* There is a circular embedding iff some statements each have a user      *)
(* among themselves.                                                       *)
Cyclic == \E S \in SUBSET Stmt : S # {} /\ \A u \in S : Users(u) \cap S # {}

(* The search `while (st[i - 1] != u) i--' (loader.cc 413-416) finds its   *)
(* statement, although each cycle reported earlier has left st one entry   *)
(* longer than the recursion it stands for: an open statement is on st.    *)
OpenOnStack == \A s \in Stmt : vis[s] = 1 => s \in ToSet(st)

(* Errors are reported iff there is a circular embedding, whatever the     *)
(* order of the roots and of the uses, and although a statement that has   *)
(* been marked is later marked visited again (loader.cc 403-441).          *)
ErrorsIffCyclic == pc # "sort" => (n_errors > 0 <=> Cyclic)

(* The order handed to the compile loop has every statement, once, with    *)
(* the statements it embeds before it.                                     *)
TopologicalOrder ==
  pc \in {"compile", "done"} =>
    /\ ToSet(topo) = Stmt
    /\ \A j, k \in DOMAIN topo :
         /\ topo[j] = topo[k] => j = k
         /\ topo[k] \in Users(topo[j]) => j < k

(* compile(s) runs once per statement, after everything s embeds has been  *)
(* compiled: compiled[d] is never default-constructed by a lookup.         *)
EmbedsCompiledFirst ==
  [][\A s \in Stmt : Compile(s) =>
       /\ s \notin ToSet(compiled)
       /\ \A d \in Stmt : s \in Users(d) => d \in ToSet(compiled)]_vars

(* The recursion ends, and so does the load.                               *)
Termination == <>(pc \in {"done", "failed"})

(* "in cycle" (the comment of loader.cc 408): a statement marked 3 is part *)
(* of a circular embedding, that is, of a set of statements in which each  *)
(* one is reached from each other one.                                     *)
OnCycle(s) ==
  \E S \in SUBSET Stmt :
    /\ s \in S /\ \A u \in S : Users(u) \cap S # {}
    /\ \A T \in (SUBSET S) \ {{}, S} : \E u \in T : Users(u) \cap (S \ T) # {}

MarkedOnCycle == \A s \in Stmt : vis[s] = 3 => OnCycle(s)

=============================================================================
