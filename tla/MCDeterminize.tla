---------------------------- MODULE MCDeterminize ----------------------------
(* Automata of three states: up to two edges, of at most two labels or     *)
(* epsilon, from the first state, one from the second, few from the third. *)
EXTENDS Determinize

Edges == {e \in Edge : e[2] - e[1] <= 2}
InOrder(e, f) == e[1] < f[1] \/ (e[1] = f[1] /\ (e[2] < f[2] \/ (e[2] = f[2] /\ e[3] <= f[3])))
UpToOne == {<<>>} \cup {<<e>> : e \in Edges}
UpToTwo == UpToOne \cup {<<p[1], p[2]>> : p \in {p \in Edges \X Edges : InOrder(p[1], p[2])}}
Few == {<<>>, <<<<-1, 0, 1>>>>, <<<<0, 1, 1>>>>}

MCInputs ==
  {[start |-> 0, finals |-> {2}, starts |-> s, adj |-> (0 :> a) @@ (1 :> b) @@ (2 :> c)] :
     a \in UpToTwo, b \in UpToOne, c \in Few, s \in {<<>>, <<2, 1>>}}

MCSpec == InitFrom(MCInputs) /\ [][Next]_vars /\ WF_vars(Step)

(* Fsa::determinize returns what CompileExport and Builder take it to: the *)
(* operator of FsaOps has the same states, with the same numbers, edges    *)
(* and members.                                                            *)
Fsa == INSTANCE FsaOps
ResultInFsaOps ==
  Done => LET d == Fsa!DeterminizedFrom([start |-> start, finals |-> finals, adj |-> adj], starts)
          IN /\ d.fsa = [start |-> 0, finals |-> rfinals, adj |-> radj]
             /\ d.members = [n \in DOMAIN radj |-> Subset(n)]
=============================================================================
