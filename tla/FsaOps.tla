------------------------------- MODULE FsaOps -------------------------------
(***************************************************************************)
(* The operations of struct Fsa (src/fsa.cc) that make an automaton out of *)
(* automata, as operators.  The loops of determinize and hopcroft_minimize *)
(* are the subject of modules Determinize and Hopcroft; here the two are   *)
(* what those modules show them to compute.  The other operations are the  *)
(* sweeps of the code.                                                     *)
(*                                                                         *)
(* An automaton is [start, finals, adj]: adj[u], of a state u from 0, is   *)
(* the sequence of its edges <<from, to, v>>, labelled from .. to - 1 and  *)
(* leading to v.  The edge of an epsilon is [-1, 0).                       *)
(***************************************************************************)
EXTENDS Common, FiniteSets, SequencesExt

None == -1
States(A) == DOMAIN A.adj
Size(A) == Cardinality(States(A))
Least(S) == CHOOSE x \in S : \A y \in S : x <= y
Lower(x, y) == IF x < y THEN x ELSE y
Higher(x, y) == IF x < y THEN y ELSE x

Edges(A, X) == UNION {ToSet(A.adj[u]) : u \in X}
After(A, X, a) == {e[3] : e \in {e \in Edges(A, X) : e[1] <= a /\ a < e[2]}}

(* epsilon_closure reads the edges up to the first that is no epsilon.     *)
EpsilonFrom(A, u) ==
  {A.adj[u][j][3] : j \in {j \in DOMAIN A.adj[u] : \A h \in 1 .. j : A.adj[u][h][1] = -1}}

RECURSIVE Closure(_, _)
Closure(A, X) ==
  LET Y == X \cup UNION {EpsilonFrom(A, u) : u \in X}
  IN IF Y = X THEN X ELSE Closure(A, Y)

(* Reading a word.                                                         *)
Accepts(A, w) ==
  FoldLeft(LAMBDA X, a : Closure(A, After(A, X, a)), Closure(A, {A.start}), w)
    \cap A.finals # {}

(* Fsa::check: edges are sorted and do not overlap, epsilons come first.   *)
Checked(A) ==
  \A u \in States(A) : \A j \in 2 .. Len(A.adj[u]) :
    LET e == A.adj[u][j - 1] f == A.adj[u][j]
    IN (e[2] = 0 /\ f[2] = 0) \/ e[2] <= f[1]

RECURSIVE Ascending(_)
Ascending(S) == IF S = {} THEN <<>> ELSE <<Least(S)>> \o Ascending(S \ {Least(S)})

(* The edges of a deterministic state, given by its target f[a] from each  *)
(* label a on where an edge begins or ends: maximal, in order.             *)
Runs(f) ==
  LET Before(a) == CHOOSE b \in DOMAIN f : b < a /\ \A c \in DOMAIN f : c < a => c <= b
      Begins(a) == f[a] # None /\ (a # Least(DOMAIN f) => f[Before(a)] # f[a])
      Ends(a) == Least({b \in DOMAIN f : b > a /\ f[b] # f[a]})
      begins == Ascending({a \in DOMAIN f : Begins(a)})
  IN [j \in DOMAIN begins |-> <<begins[j], Ends(begins[j]), f[begins[j]]>>]

Breaks(A, X) == UNION {{e[1], e[2]} : e \in {e \in Edges(A, X) : e[1] >= 0}}

-----------------------------------------------------------------------------
(* determinize: the subsets met, in the order of their numbers.  Those of  *)
(* the start and of the further ones in starts are pushed first; the top   *)
(* is processed next, and meets others in the order of the labels.         *)
Pushed(q, Y) == IF Y = {} \/ Y \in ToSet(q.all) THEN q
             ELSE [all |-> Append(q.all, Y), stack |-> Append(q.stack, Y)]

RECURSIVE Processed(_, _)
Processed(A, q) ==
  IF q.stack = <<>> THEN q.all
  ELSE LET X == Last(q.stack)
       IN Processed(A, FoldLeft(LAMBDA r, a : Pushed(r, Closure(A, After(A, X, a))),
                                [q EXCEPT !.stack = Front(@)], Ascending(Breaks(A, X))))

Subsets(A, starts) ==
  Processed(A, FoldLeft(LAMBDA q, u : Pushed(q, Closure(A, {u})),
                        [all |-> <<>>, stack |-> <<>>], <<A.start>> \o starts))

DeterminizedFrom(A, starts) ==
  LET q == Subsets(A, starts)
      Number(X) == IF X = {} THEN None ELSE CHOOSE k \in 0 .. Len(q) - 1 : q[k + 1] = X
  IN [fsa |-> [start |-> 0,
               finals |-> {k \in 0 .. Len(q) - 1 : q[k + 1] \cap A.finals # {}},
               adj |-> [k \in 0 .. Len(q) - 1 |->
                          Runs([a \in Breaks(A, q[k + 1]) |->
                                  Number(Closure(A, After(A, q[k + 1], a)))])]],
      members |-> [k \in 0 .. Len(q) - 1 |-> q[k + 1]]]

Determinized(A) == DeterminizedFrom(A, <<>>)

(* FsaAnno: a new state has the associations of its members.               *)
Joined(assoc, members) == [k \in DOMAIN members |-> UNION {assoc[u] : u \in members[k]}]

(* hopcroft_minimize: the coarsest partition that labels respect; classes  *)
(* are numbered by their least states.                                     *)
Minimized(A) ==
  LET labels == Breaks(A, States(A))
      to == [u \in States(A) |-> [a \in labels |-> After(A, {u}, a)]]
      RECURSIVE Refined(_)
      Refined(P) ==
        LET sees == [u \in States(A) |-> <<P[u], [a \in labels |-> {P[v] : v \in to[u][a]}]>>]
            Q == [u \in States(A) |-> Least({v \in States(A) : sees[v] = sees[u]})]
        IN IF Q = P THEN P ELSE Refined(Q)
      B == Refined([u \in States(A) |-> Least({v \in States(A) : (v \in A.finals) = (u \in A.finals)})])
      leaders == {u \in States(A) : B[u] = u}
      Number(u) == Cardinality({v \in leaders : v < B[u]})
      Leader(k) == CHOOSE u \in leaders : Number(u) = k
  IN [fsa |-> [start |-> Number(A.start),
               finals |-> {Number(u) : u \in A.finals},
               adj |-> [k \in 0 .. Cardinality(leaders) - 1 |->
                          Runs([a \in labels |-> IF to[Leader(k)][a] = {} THEN None
                                                 ELSE Number(Least(to[Leader(k)][a]))])]],
      members |-> [k \in 0 .. Cardinality(leaders) - 1 |-> {u \in States(A) : Number(u) = k}]]

-----------------------------------------------------------------------------
(* operator~: what an edge leaves out of 0 .. AB - 1, or of the labels     *)
(* below an edge with a greater one, leads to a new state accept.          *)
Filled(es, accept, AB) ==
  LET gap(j, from) == IF j < from THEN <<<<j, from, accept>>>> ELSE <<>>
      swept == FoldLeft(LAMBDA s, e : [out |-> s.out \o gap(s.j, e[1]) \o <<e>>, j |-> e[2]],
                        [out |-> <<>>, j |-> 0], es)
  IN swept.out \o gap(swept.j, AB)

Complemented(A, AB) ==
  [start |-> A.start,
   finals |-> (0 .. Size(A)) \ A.finals,
   adj |-> [u \in 0 .. Size(A) |->
              IF u = Size(A) THEN <<<<0, AB, u>>>> ELSE Filled(A.adj[u], Size(A), AB)]]

(* The pairs of states that intersect and difference meet, in the order    *)
(* of their numbers: m maps the key width * u0 + u1 of a pair to its       *)
(* number, q holds the pairs.  Sweep gives the edges of a pair.            *)
Pairs(A, B, width, Sweep(_, _)) ==
  LET Key(p) == width * p[1] + p[2]
      Met(q, p) == IF \E j \in DOMAIN q : Key(q[j]) = Key(p) THEN q ELSE Append(q, p)
      Number(q, p) == (CHOOSE j \in DOMAIN q : Key(q[j]) = Key(p)) - 1
      RECURSIVE Grown(_, _)
      Grown(q, i) == IF i > Len(q) THEN q
                     ELSE Grown(FoldLeft(LAMBDA r, e : Met(r, e[3]), q, Sweep(q[i][1], q[i][2])), i + 1)
      all == Grown(<<<<A.start, B.start>>>>, 1)
      Numbered(es) == [j \in DOMAIN es |-> <<es[j][1], es[j][2], Number(all, es[j][3])>>]
  IN [q |-> [i \in 0 .. Len(all) - 1 |-> all[i + 1]],
      adj |-> [i \in 0 .. Len(all) - 1 |-> Numbered(Sweep(all[i + 1][1], all[i + 1][2]))]]

(* intersect: the overlaps of two sorted sequences of edges.               *)
RECURSIVE Overlaps(_, _)
Overlaps(es, fs) ==
  IF es = <<>> \/ fs = <<>> THEN <<>>
  ELSE LET e == Head(es) f == Head(fs)
       IN IF e[2] <= f[1] THEN Overlaps(Tail(es), fs)
          ELSE IF f[2] <= e[1] THEN Overlaps(es, Tail(fs))
          ELSE <<<<Higher(e[1], f[1]), Lower(e[2], f[2]), <<e[3], f[3]>>>>>>
               \o Overlaps(IF e[2] <= f[2] THEN Tail(es) ELSE es,
                           IF f[2] <= e[2] THEN Tail(fs) ELSE fs)

Intersection(A, B) ==
  LET p == Pairs(A, B, Size(B), LAMBDA u0, u1 : Overlaps(A.adj[u0], B.adj[u1]))
  IN [fsa |-> [start |-> 0, adj |-> p.adj,
               finals |-> {i \in DOMAIN p.q : p.q[i][1] \in A.finals /\ p.q[i][2] \in B.finals}],
      members |-> p.q]

(* difference: every edge of es, cut where the target in fs changes; there *)
(* it is `dead' between the edges of fs and once it has been left.         *)
RECURSIVE CutBy(_, _, _, _)
CutBy(es, fs, last, dead) ==
  IF es = <<>> THEN <<>>
  ELSE LET e == Head(es)
           from == Higher(last, e[1])
           rest == SelectSeq(fs, LAMBDA f : f[2] > from)
           inside == rest # <<>> /\ rest[1][1] <= from
           to == IF rest = <<>> THEN e[2]
                 ELSE Lower(e[2], IF inside THEN rest[1][2] ELSE rest[1][1])
       IN <<<<from, to, <<e[3], IF inside THEN rest[1][3] ELSE dead>>>>>>
          \o CutBy(IF to = e[2] THEN Tail(es) ELSE es, rest, to, dead)

(* Mutant: once B has been left its first state is read.                   *)
DifferenceRestarts(A, B) ==
  LET dead == Size(B)
      p == Pairs(A, B, dead + 1,
                 LAMBDA u0, u1 : CutBy(A.adj[u0], B.adj[IF u1 = dead THEN 0 ELSE u1], None, dead))
  IN [fsa |-> [start |-> 0, adj |-> p.adj,
               finals |-> {i \in DOMAIN p.q : p.q[i][1] \in A.finals /\ p.q[i][2] \notin B.finals}],
      members |-> p.q]

Difference(A, B) ==
  LET dead == Size(B)
      p == Pairs(A, B, dead + 1,
                 LAMBDA u0, u1 : CutBy(A.adj[u0], IF u1 = dead THEN <<>> ELSE B.adj[u1], None, dead))
  IN [fsa |-> [start |-> 0, adj |-> p.adj,
               finals |-> {i \in DOMAIN p.q : p.q[i][1] \in A.finals /\ p.q[i][2] \notin B.finals}],
      members |-> p.q]
=============================================================================
