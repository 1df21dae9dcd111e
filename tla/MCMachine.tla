----------------------------- MODULE MCMachine -----------------------------
(* Two statements that refer to each other and to themselves, over the     *)
(* letters 0 and 1.                                                        *)
EXTENDS Machine

CONSTANTS S, W

(* What an edge from state k of s can be: a letter, or a reference, which  *)
(* is numbered by the statement and the edge.                              *)
Letter == {"letter"} \X {0, 1}
Refs == {"call", "collapse"} \X Stmt

(* The automaton with the edges <<from, symbol, to>> of E in it.           *)
Number(s, E, e) ==
  (IF s = S THEN 0 ELSE 3) + Cardinality({f \in E : f[1] < e[1] \/ (f[1] = e[1] /\ f[3] < e[3])})
Expr(s, E, e) == <<e[2][1], e[2][2], Number(s, E, e)>>
EdgeOf(s, E, e) ==
  LET from == IF e[2] \in Letter THEN e[2][2] ELSE Label(Expr(s, E, e)) IN <<from, from + 1, e[3]>>
Automaton(s, n, E, finals) ==
  LET refs == {e \in E : e[2] \notin Letter}
  IN [start |-> 0, finals |-> finals,
      adj |-> [k \in 0 .. n |-> SetToSortSeq({EdgeOf(s, E, e) : e \in {e \in E : e[1] = k}},
                                             LAMBDA e, f : e[1] < f[1])],
      assoc |-> [k \in 0 .. n |->
                   {<<Expr(s, E, e), "start">> : e \in {e \in refs : e[1] = k}}
                   \cup {<<Expr(s, E, e), "final">> : e \in {e \in refs : e[3] = k}}]]

(* compile leaves minimal deterministic automata.                          *)
Compiled(A) ==
  /\ \A k \in DOMAIN A.adj : \A h \in 2 .. Len(A.adj[k]) : A.adj[k][h - 1][2] <= A.adj[k][h][1]
  /\ Cardinality(DOMAIN Fsa!Minimized(A).fsa.adj) = Cardinality(DOMAIN A.adj)

Zero == <<"letter", 0>>
One == <<"letter", 1>>
Chain(x, y) == {<<0, x, 1>>, <<1, y, 2>>}

(* S has two edges and perhaps a third: a loop, or a way past them.        *)
(* W has one, perhaps a loop, or two.                                      *)
AutomataS ==
  LET itself == {<<0, <<"collapse", S>>, 2>>}
  IN {A \in {Automaton(S, 2, Chain(x, y) \cup E, {2}) :
               x \in Letter \cup Refs, y \in Letter \cup Refs,
               E \in {{}, {<<1, One, 1>>}, {<<0, One, 2>>}, itself}}
            \cup {Automaton(S, 2, Chain(x, y) \cup itself, {0, 2}) :
                    x \in Letter \cup Refs, y \in Letter \cup Refs} : Compiled(A)}
AutomataW ==
  {A \in {Automaton(W, 1, {<<0, x, 1>>} \cup E, finals) :
            x \in {Zero} \cup Refs, E \in {{}, {<<0, One, 0>>}, {<<1, Zero, 1>>}},
            finals \in {{1}, {0, 1}}}
         \cup {Automaton(W, 2, Chain(x, y), {2}) : x \in {Zero} \cup Refs, y \in {Zero} \cup Refs} :
     Compiled(A)}

(* ~ !W: complement fills the gap below the label of the collapse, over    *)
(* all those of calls, and drops the associations.                         *)
Complement ==
  LET L == collapse_label_base + 3
  IN [start |-> 0, finals |-> {0, 1},
      adj |-> (0 :> <<<<0, L, 1>>, <<L, L + 1, 2>>>>) @@ [k \in 1 .. 2 |-> <<<<0, AB, 1>>>>],
      assoc |-> [k \in 0 .. 2 |-> {}]]

(* Where S does not refer to W, W is a letter.                             *)
RefersTo(A, s) == \E k \in DOMAIN A.adj : \E t \in A.assoc[k] : Referred(t[1]) = s
MCInputs ==
  {(S :> a) @@ (W :> b) : a \in {a \in AutomataS : RefersTo(a, W)} \cup {Complement}, b \in AutomataW}
  \cup {(S :> a) @@ (W :> Automaton(W, 1, {<<0, Zero, 1>>}, {1})) : a \in {a \in AutomataS : ~ RefersTo(a, W)}}

(* S is exported alone or after W; call_label is as low as it can be.      *)
LastCall == \A L \in call_label_base .. call_label - 1 : ~ AboveCalls(L)
MCInit == (\E exports \in {<<S>>, <<W, S>>} : InitMachine(MCInputs, exports)) /\ LastCall
MCSpec == MCInit /\ [][MachineNext]_machineVars /\ WF_machineVars(Step)
=============================================================================
