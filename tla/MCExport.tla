------------------------------ MODULE MCExport ------------------------------
(* Two statements that collapse and call each other and themselves.        *)
EXTENDS Export, FiniteSetsExt

CONSTANTS S, W    \* the exported statement and another one

MCSize == (S :> 3) @@ (W :> 2)

(* A reference from state `from' to state `to'.                            *)
Use(s) == [from : 0 .. MCSize[s] - 2, kind : {"collapse", "call"}, stmt : Stmt, to : 1 .. MCSize[s] - 1]

(* Automata of a statement: a chain of edges, any final states, and at     *)
(* most n references, into states other than the start.  Id numbers the    *)
(* references of a kind, by the statement and the place in it.             *)
Id(s, u) == 3 * u.from + u.to + (IF u.stmt = S THEN 0 ELSE 6) + (IF s = S THEN 0 ELSE 12)
Expr(s, u) == <<u.kind, u.stmt, Id(s, u)>>
Label(s, u) == (IF u.kind = "call" THEN call_label_base ELSE collapse_label_base) + Id(s, u)
Automaton(s, U, F) ==
  [start |-> 0, finals |-> F,
   adj |-> [k \in 0 .. MCSize[s] - 1 |->
              (IF k + 1 < MCSize[s] THEN <<<<0, 1, k + 1>>>> ELSE <<>>)
              \o SetToSortSeq({<<Label(s, u), Label(s, u) + 1, u.to>> : u \in {u \in U : u.from = k}},
                              LAMBDA e, f : e[1] < f[1])],
   assoc |-> [k \in 0 .. MCSize[s] - 1 |->
                {<<Expr(s, u), "start">> : u \in {u \in U : u.from = k}}
                \cup {<<Expr(s, u), "final">> : u \in {u \in U : u.to = k}}]]
Automata(s, n) ==
  {Automaton(s, U, F) : U \in UNION {kSubset(m, Use(s)) : m \in 0 .. n},
                        F \in (SUBSET (0 .. MCSize[s] - 1)) \ {{}}}

(* ~ !W: complement fills the gap below the label of the collapse, and     *)
(* drops the associations.                                                 *)
Complement ==
  LET L == collapse_label_base + 1
  IN [start |-> 0, finals |-> {0, 1},
      adj |-> (0 :> <<<<0, L, 1>>, <<L, L + 1, 2>>>>) @@ [k \in 1 .. 2 |-> <<<<0, AB, 1>>>>],
      assoc |-> [k \in 0 .. 2 |-> {}]]

(* 'b' ('a' | 'b' !W) & 'b' 'a' or the like: the start of a reference is   *)
(* lost, its end is not, and may also be the end of another one.           *)
Unstarted ==
  {[A EXCEPT !.assoc[2] = @ \cup {<<<<kind, s, 23>>, "final">>}] :
     A \in Automata(S, 1), kind \in {"call", "collapse"}, s \in Stmt}

MCInputs ==
  {(S :> a) @@ (W :> b) : a \in Automata(S, 2) \cup {Complement} \cup Unstarted, b \in Automata(W, 1)}

ASSUME InputsTyped == \A c \in MCInputs : \A s \in Stmt : \E n \in 2 .. 3 : c[s] \in FsaAnno(n)

MCSpec == InitFrom(MCInputs, S) /\ [][Next]_vars
=============================================================================
