------------------------------- MODULE Builder -------------------------------
(***************************************************************************)
(* How compile (src/compiler.cc) makes the automaton of a statement from   *)
(* its expression: Compiler visits the operands, the right one first, and  *)
(* a method of FsaAnno (src/fsa_anno.cc) combines the automata on top of   *)
(* the stack.                                                              *)
(*                                                                         *)
(* An action is the visit of one expression after those of its operands,   *)
(* so a behaviour is a program in postfix order.  Expressions are numbered *)
(* as they are visited; an operand moved out of the stack is gone from it. *)
(* assoc[u] is the set of the pairs <<expression, tag>>, a sorted vector   *)
(* of expressions with the union of their tags in the code; expressions    *)
(* without action are left out of it, those of `intact' statements too,    *)
(* except for references.                                                  *)
(***************************************************************************)
EXTENDS FsaOps

CONSTANTS
  AB,         \* letters are 0 .. AB - 1
  Room,       \* labels reserved for actions, and for calls: 1000000 in load
  MaxExprs,   \* bound on the expressions visited
  MaxActions, \* bound on those with an action
  MaxStates,  \* bound on the states of an automaton
  ActionKinds,  \* kinds of actions an expression can have, see below
  Brackets, Literals, Repeats,  \* the classes, literals and counts
              \* <<low, high>> to try; a class is [items, negated], its items
              \* a sequence of intervals <<from, to>>
  Words       \* words that languages are compared on

(* A kind is the set of the lists (entering, transiting, finishing) that   *)
(* are not empty, and stands for one action in each; leaving is treated    *)
(* like entering.                                                          *)
ASSUME BuilderAssumption == /\ AB \in Nat \ {0} /\ Room \in Nat
                            /\ Literals \subseteq Seq(0 .. AB - 1)
                            /\ ActionKinds \subseteq SUBSET {"entering", "transiting", "finishing"}
                            /\ Words \subseteq Seq(0 .. AB - 1) /\ <<>> \in Words

action_label_base == AB
call_label_base == AB + Room
collapse_label_base == AB + 2 * Room

VARIABLES
  st,              \* the stack of Compiler, last operand on top
  compiled,        \* <<>>, or <<r>> for the statement compiled before
  action_label, call_label, collapse_label,  \* next label of each class
  visited,         \* number of expressions visited
  actions,         \* the actions given to them, by expression
  owner,           \* which expression a label stands for
  failed           \* the assertion that failed, or ""

vars == <<st, compiled, action_label, call_label, collapse_label, visited, actions, owner, failed>>

(* An operand: FsaAnno, and what the checks need to know of it: the words  *)
(* its expression denotes, whether an automaton with labels of expressions *)
(* has been complemented in it, and whether one has been intersected.      *)
Anno(fsa, det, assoc, words) ==
  [fsa |-> fsa, det |-> det, assoc |-> assoc, words |-> words, flipped |-> FALSE, met |-> FALSE]
NoAssoc(A) == [u \in States(A) |-> {}]

Top == st[Len(st)]
Below == st[Len(st) - 1]

Init ==
  /\ st = <<>> /\ compiled = <<>>
  /\ action_label = action_label_base
  /\ call_label = call_label_base
  /\ collapse_label = collapse_label_base
  /\ visited = 0 /\ actions = <<>> /\ owner = {}
  /\ failed = ""

-----------------------------------------------------------------------------
(* add_assoc: the states are tagged, unless the expression has neither     *)
(* action nor reference, and loops with fresh labels are appended: to all  *)
(* states for a transiting action, to the final ones for a finishing one   *)
(* if there is no action of another kind.                                  *)
TagsOf(A, u) ==
  LET ends == {x \in {"start", "final"} : (x = "start" /\ u = A.start) \/ (x = "final" /\ u \in A.finals)}
  IN IF ends = {} THEN {"inner"} ELSE ends

(* Mutant: a transiting action has its loop at the start only.             *)
LoopedStart(A, acts) ==
  IF "transiting" \in acts THEN {A.start}
  ELSE IF acts = {"finishing"} THEN A.finals ELSE {}

Looped(A, acts) ==
  IF "transiting" \in acts THEN States(A)
  ELSE IF acts = {"finishing"} THEN A.finals ELSE {}

LoopLabel(A, acts, u) == action_label + Cardinality({v \in Looped(A, acts) : v < u})

Tagged(r, e) == [r EXCEPT !.assoc = [u \in DOMAIN @ |-> @[u] \cup ({e} \X TagsOf(r.fsa, u))]]

AddAssoc(r, e, acts, ref) ==
  IF acts = {} /\ ~ ref THEN r
  ELSE [Tagged(r, e) EXCEPT !.fsa.adj =
          [u \in DOMAIN @ |->
             IF u \in Looped(r.fsa, acts)
               THEN Append(@[u], <<LoopLabel(r.fsa, acts, u), LoopLabel(r.fsa, acts, u) + 1, u>>)
               ELSE @[u]]]

(* Compiler::visit up to its end: r replaces the n operands on top of the  *)
(* stack, with the actions of the expression, and is checked (post_expr).  *)
Leave(r, n) ==
  /\ Size(r.fsa) <= MaxStates
  /\ st' = Append(SubSeq(st, 1, Len(st) - n), r)
  /\ visited' = visited + 1
  /\ failed' = IF Checked(r.fsa) THEN "" ELSE "check"
  /\ UNCHANGED compiled

Visiting == failed = "" /\ visited < MaxExprs

VisitWith(r, n, acts, ref, labels) ==
  LET count == Cardinality(Looped(r.fsa, acts))
  IN /\ acts # {} => Cardinality({e \in DOMAIN actions : actions[e] # {}}) < MaxActions
     /\ action_label + count <= call_label_base
     /\ Leave(AddAssoc(r, visited, acts, ref), n)
     /\ action_label' = action_label + count
     /\ actions' = [e \in DOMAIN actions \cup {visited} |-> IF e = visited THEN acts ELSE actions[e]]
     /\ owner' = owner \cup labels
                  \cup ((action_label .. action_label + count - 1) \X {visited})

Visit(r, n, acts) ==
  /\ VisitWith(r, n, acts, FALSE, {})
  /\ UNCHANGED <<call_label, collapse_label>>

(* An expression whose own actions, if any, are not looked at.             *)
VisitPlain(r, n) ==
  /\ Leave(r, n)
  /\ actions' = [e \in DOMAIN actions \cup {visited} |-> IF e = visited THEN {} ELSE actions[e]]
  /\ UNCHANGED <<action_label, call_label, collapse_label, owner>>

-----------------------------------------------------------------------------
(* Two states and edges from the first to the second.                      *)
OneStep(edges) == [start |-> 0, finals |-> {1}, adj |-> (0 :> edges) @@ (1 :> <<>>)]
Operand(A, words) == Anno(A, TRUE, NoAssoc(A), words)

(* A class: the intervals of its items, put together one by one, and their *)
(* complement if it is negated.  The edge for a macro is one of a single   *)
(* letter.                                                                 *)
Intervals(class) ==
  LET I == FoldLeft(Added, {}, class.items)
  IN IF class.negated THEN Flipped(I, AB) ELSE I
Ordered(I) == SortSeq(SetToSeq(I), LAMBDA x, y : x[1] < y[1])

InClass(a, class) ==
  (\E x \in ToSet(class.items) : x[1] <= a /\ a < x[2]) # class.negated

Bracket(class, acts) ==
  /\ Visiting
  /\ LET is == Ordered(Intervals(class))
     IN Visit(Operand(OneStep([j \in DOMAIN is |-> <<is[j][1], is[j][2], 1>>]),
                      {w \in Words : Len(w) = 1 /\ InClass(w[1], class)}), 0, acts)

Dot(acts) == Bracket([items |-> <<>>, negated |-> TRUE], acts)

Literal(w, acts) ==
  /\ Visiting
  /\ LET A == [start |-> 0, finals |-> {Len(w)},
               adj |-> [u \in 0 .. Len(w) |-> IF u = Len(w) THEN <<>> ELSE <<<<w[u + 1], w[u + 1] + 1, u + 1>>>>]]
     IN Visit(Operand(A, Words \cap {w}), 0, acts)

EpsilonFsa == [start |-> 0, finals |-> {0}, adj |-> (0 :> <<>>)]
Epsilon(acts) == Visiting /\ Visit(Operand(EpsilonFsa, {<<>>}), 0, acts)

(* A reference: one edge with a fresh label, which is no letter.           *)
Call(acts) ==
  /\ Visiting /\ call_label < collapse_label_base
  /\ VisitWith(Operand(OneStep(<<<<call_label, call_label + 1, 1>>>>), {}), 0, acts, TRUE,
               {<<call_label, visited>>})
  /\ call_label' = call_label + 1
  /\ UNCHANGED collapse_label

Collapse(acts) ==
  /\ Visiting
  /\ VisitWith(Operand(OneStep(<<<<collapse_label, collapse_label + 1, 1>>>>), {}), 0, acts, TRUE,
               {<<collapse_label, visited>>})
  /\ collapse_label' = collapse_label + 1
  /\ UNCHANGED call_label

(* embed: a copy of the automaton compiled, in which the edges labelled    *)
(* from call_label_base on and below call_label get fresh labels, state by *)
(* state.  No edge may reach over call_label_base (the assertion of 135).  *)
CallEdges(A) ==
  {<<u, j>> : <<u, j>> \in {p \in UNION {{u} \X DOMAIN A.adj[u] : u \in States(A)} :
      LET e == A.adj[p[1]][p[2]] IN call_label_base <= e[1] /\ e[1] < call_label}}
Spanning(A) == \E e \in Edges(A, States(A)) : e[1] < call_label_base /\ call_label_base < e[2]
Width(A, p) == A.adj[p[1]][p[2]][2] - A.adj[p[1]][p[2]][1]
Widths(A, P) == FoldSet(LAMBDA p, sum : Width(A, p) + sum, 0, P)
Fresh(A, p) ==
  call_label + Widths(A, {q \in CallEdges(A) : q[1] < p[1] \/ (q[1] = p[1] /\ q[2] < p[2])})

Relabelled(A) ==
  [A EXCEPT !.adj = [u \in DOMAIN @ |-> [j \in DOMAIN @[u] |->
     IF <<u, j>> \in CallEdges(A)
       THEN <<Fresh(A, <<u, j>>), Fresh(A, <<u, j>>) + Width(A, <<u, j>>), @[u][j][3]>>
       ELSE @[u][j]]]]

(* Owners of the fresh labels.                                             *)
Inherited(A) ==
  UNION {{<<Fresh(A, p) + o[1] - A.adj[p[1]][p[2]][1], o[2]>> :
            o \in {o \in owner : A.adj[p[1]][p[2]][1] <= o[1] /\ o[1] < A.adj[p[1]][p[2]][2]}} :
         p \in CallEdges(A)}

Embed(acts) ==
  /\ Visiting /\ compiled # <<>>
  /\ LET r == compiled[1] A == r.fsa
     IN IF Spanning(A)
        THEN failed' = "embed" /\ UNCHANGED <<st, compiled, action_label, call_label, collapse_label,
                                             visited, actions, owner>>
        ELSE /\ call_label + Widths(A, CallEdges(A)) <= collapse_label_base
             /\ call_label' = call_label + Widths(A, CallEdges(A))
             /\ VisitWith([r EXCEPT !.fsa = Relabelled(A)], 0, acts, FALSE, Inherited(A))
             /\ UNCHANGED collapse_label

-----------------------------------------------------------------------------
(* The words of Words in languages made from others.                       *)
Concatenated(L, M) == {w \in Words : \E k \in 0 .. Len(w) :
                         SubSeq(w, 1, k) \in L /\ SubSeq(w, k + 1, Len(w)) \in M}
RECURSIVE Power(_, _)
Power(L, k) == IF k = 0 THEN {<<>>} ELSE Concatenated(L, Power(L, k - 1))
Longest == CHOOSE k \in {Len(w) : w \in Words} : \A w \in Words : Len(w) <= k
Repeated(L, low, high) == UNION {Power(L, k) : k \in low .. high}
Iterated(L) == Repeated(L, 0, Longest)

Moved(es, d) == [j \in DOMAIN es |-> <<es[j][1], es[j][2], es[j][3] + d>>]
MovedSet(S, d) == {x + d : x \in S}

(* The states of B after those of A, with their edges and associations.    *)
Beside(A, B) ==
  [u \in 0 .. Size(A) + Size(B) - 1 |->
     IF u < Size(A) THEN A.adj[u] ELSE Moved(B.adj[u - Size(A)], Size(A))]

(* Mutant: the associations of the right operand stay behind.              *)
BesideLeftAssoc(l, r) ==
  [u \in 0 .. Size(l.fsa) + Size(r.fsa) - 1 |-> IF u < Size(l.fsa) THEN l.assoc[u] ELSE {}]

BesideAssoc(l, r) ==
  [u \in 0 .. Size(l.fsa) + Size(r.fsa) - 1 |->
     IF u < Size(l.fsa) THEN l.assoc[u] ELSE r.assoc[u - Size(l.fsa)]]

Flags(l, r, words) ==
  [words |-> words, flipped |-> l.flipped \/ r.flipped, met |-> l.met \/ r.met]

(* concat: emplace_front of an epsilon to the right operand's start.       *)
ConcatOf(l, r) ==
  LET A == l.fsa B == r.fsa n == Size(A)
      beside == Beside(A, B)
  IN [fsa |-> [start |-> A.start, finals |-> MovedSet(B.finals, n),
               adj |-> [u \in DOMAIN beside |->
                          IF u \in A.finals THEN <<EpsilonTo(n + B.start)>> \o beside[u] ELSE beside[u]]],
      det |-> FALSE, assoc |-> BesideAssoc(l, r)]
     @@ Flags(l, r, Concatenated(l.words, r.words))

UnionOf(l, r) ==
  LET A == l.fsa B == r.fsa n == Size(A) src == Size(A) + Size(B)
  IN [fsa |-> [start |-> src, finals |-> A.finals \cup MovedSet(B.finals, n),
               adj |-> Beside(A, B) @@ (src :> <<EpsilonTo(A.start), EpsilonTo(n + B.start)>>)],
      det |-> FALSE, assoc |-> BesideAssoc(l, r) @@ (src :> {})]
     @@ Flags(l, r, l.words \cup r.words)

(* A new start state, and a new final one that it leads to.                *)
WithEnds(A) ==
  A.adj @@ (Size(A) :> <<EpsilonTo(A.start), EpsilonTo(Size(A) + 1)>>) @@ (Size(A) + 1 :> <<>>)
EndsAssoc(r) == r.assoc @@ (Size(r.fsa) :> {}) @@ (Size(r.fsa) + 1 :> {})

StarOf(r) ==
  LET A == r.fsa ends == WithEnds(A) sink == Size(A) + 1
  IN [r EXCEPT !.fsa = [start |-> Size(A), finals |-> {sink},
                        adj |-> [u \in DOMAIN ends |->
                                   IF u \in A.finals THEN Emplaced(Emplaced(ends[u], A.start), sink)
                                   ELSE ends[u]]],
               !.det = FALSE, !.assoc = EndsAssoc(r), !.words = Iterated(@)]

MaybeOf(r) ==
  [r EXCEPT !.fsa = [start |-> Size(@), finals |-> @.finals \cup {Size(@) + 1}, adj |-> WithEnds(@)],
            !.det = FALSE, !.assoc = EndsAssoc(r), !.words = @ \cup {<<>>}]

(* Mutant: plus leaves the automaton's flag alone.                         *)
PlusOfKeepsFlag(r) ==
  [r EXCEPT !.fsa.adj = [u \in DOMAIN @ |-> IF u \in r.fsa.finals
                                            THEN <<EpsilonTo(r.fsa.start)>> \o @[u] ELSE @[u]],
            !.words = Concatenated(@, Iterated(@))]

PlusOf(r) ==
  [r EXCEPT !.fsa.adj = [u \in DOMAIN @ |-> IF u \in r.fsa.finals
                                            THEN <<EpsilonTo(r.fsa.start)>> \o @[u] ELSE @[u]],
            !.det = FALSE, !.words = Concatenated(@, Iterated(@))]

(* repeat: low copies, followed by a star, or by the union of up to        *)
(* high - low further copies; Unbounded is LONG_MAX.                       *)
Unbounded == 99
RECURSIVE Copies(_, _)
Copies(r, k) == IF k = 0 THEN Operand(EpsilonFsa, {<<>>}) ELSE ConcatOf(Copies(r, k - 1), r)
RECURSIVE UpTo(_, _)
UpTo(r, k) ==
  LET RECURSIVE More(_, _, _)
      More(rhs, x, i) == IF i = 0 THEN rhs
                         ELSE More(UnionOf(rhs, x), IF i > 1 THEN ConcatOf(x, r) ELSE x, i - 1)
  IN More(Operand(EpsilonFsa, {<<>>}), r, k)

RepeatOf(r, low, high) ==
  LET first == Copies(r, low)
  IN [(IF high = Unbounded THEN ConcatOf(first, StarOf(r))
       ELSE IF low < high THEN ConcatOf(first, UpTo(r, high - low)) ELSE first)
      EXCEPT !.det = FALSE,
             !.words = Repeated(r.words, low, Lower(high, low + Longest))]

(* FsaAnno::determinize and minimize.                                      *)
DeterminizedOf(r) ==
  IF r.det THEN r
  ELSE LET d == Determinized(r.fsa)
       IN [r EXCEPT !.fsa = d.fsa, !.det = TRUE, !.assoc = Joined(@, d.members)]

MinimizedOf(r) ==
  LET m == Minimized(r.fsa)
  IN [r EXCEPT !.fsa = m.fsa, !.assoc = Joined(@, m.members)]

(* complement forgets the associations.                                    *)
ComplementOf(r) ==
  LET A == Complemented(DeterminizedOf(r).fsa, AB)
  IN [r EXCEPT !.fsa = A, !.det = TRUE, !.assoc = NoAssoc(A), !.words = Words \ @,
               !.flipped = @ \/ \E u \in States(r.fsa) : r.assoc[u] # {}]

IntersectionOf(l, r) ==
  LET dl == DeterminizedOf(l) dr == DeterminizedOf(r) p == Intersection(dl.fsa, dr.fsa)
  IN [fsa |-> p.fsa, det |-> TRUE,
      assoc |-> [i \in DOMAIN p.members |-> dl.assoc[p.members[i][1]] \cup dr.assoc[p.members[i][2]]]]
     @@ [Flags(l, r, l.words \cap r.words) EXCEPT !.met = TRUE]

(* The associations of the right operand are dropped.                      *)
DifferenceOf(l, r) ==
  LET dl == DeterminizedOf(l) p == Difference(dl.fsa, DeterminizedOf(r).fsa)
  IN [l EXCEPT !.fsa = p.fsa, !.det = TRUE, !.words = @ \ r.words,
               !.assoc = [i \in DOMAIN p.members |-> dl.assoc[p.members[i][1]]]]

-----------------------------------------------------------------------------
Unary == Visiting /\ Len(st) >= 1
Binary == Visiting /\ Len(st) >= 2

Star(acts) == Unary /\ Visit(StarOf(Top), 1, acts)
Plus(acts) == Unary /\ Visit(PlusOf(Top), 1, acts)
Maybe(acts) == Unary /\ Visit(MaybeOf(Top), 1, acts)
Complement == Unary /\ VisitPlain(ComplementOf(Top), 1)
Repeat(low, high) == Unary /\ low <= high /\ VisitPlain(RepeatOf(Top, low, high), 1)

(* The operand visited last, on top, is the left one.                      *)
Concat(acts) == Binary /\ Visit(ConcatOf(Top, Below), 2, acts)
Union(acts) == Binary /\ Visit(UnionOf(Top, Below), 2, acts)
Intersect(acts) == Binary /\ Visit(IntersectionOf(Top, Below), 2, acts)
Minus(acts) == Binary /\ Visit(DifferenceOf(Top, Below), 2, acts)

(* The end of compile: the next statement begins.                          *)
Compile ==
  /\ failed = "" /\ Len(st) = 1 /\ compiled = <<>>
  /\ compiled' = <<MinimizedOf(DeterminizedOf(Top))>>
  /\ st' = <<>>
  /\ UNCHANGED <<action_label, call_label, collapse_label, visited, actions, owner, failed>>

Next ==
  \/ \E acts \in ActionKinds :
       \/ \E b \in Brackets : Bracket(b, acts)
       \/ \E w \in Literals : Literal(w, acts)
       \/ Dot(acts) \/ Epsilon(acts) \/ Call(acts) \/ Collapse(acts) \/ Embed(acts)
       \/ Star(acts) \/ Plus(acts) \/ Maybe(acts)
       \/ Concat(acts) \/ Union(acts) \/ Intersect(acts) \/ Minus(acts)
  \/ Complement
  \/ \E c \in Repeats : Repeat(c[1], c[2])
  \/ Compile

Spec == Init /\ [][Next]_vars

-----------------------------------------------------------------------------
(* The automata of a program that no assertion has ended.                  *)
Operands == IF failed = "" THEN ToSet(st) \cup ToSet(compiled) ELSE {}

Deterministic(A) ==
  \A u \in States(A) : \A j \in DOMAIN A.adj[u] :
    LET e == A.adj[u][j]
    IN e[1] >= 0 /\ \A h \in 1 .. j - 1 : A.adj[u][h][2] <= e[1] \/ e[2] <= A.adj[u][h][1]

(* Types.  States have associations, edges lead to states, epsilons come   *)
(* before the other edges (epsilon_closure stops at the first of these),   *)
(* and no automaton is called deterministic that is not: complement,       *)
(* difference, intersect and minimize would be wrong about it.             *)
TypeOK ==
  /\ action_label \in action_label_base .. call_label_base
  /\ call_label \in call_label_base .. collapse_label_base
  /\ \A r \in Operands :
       LET A == r.fsa
       IN /\ States(A) = 0 .. Size(A) - 1 /\ DOMAIN r.assoc = States(A)
          /\ A.start \in States(A) /\ A.finals \subseteq States(A)
          /\ \A u \in States(A) : \A j \in DOMAIN A.adj[u] :
               LET e == A.adj[u][j]
               IN e[1] < e[2] /\ e[3] \in States(A) /\ (e[1] = -1 => \A h \in 1 .. j : A.adj[u][h][1] = -1)
          /\ r.det => Deterministic(A)

(* The automaton of an expression accepts the words over letters that the  *)
(* expression denotes, whatever its actions and references.                *)
LanguageBuilt == \A r \in Operands : \A w \in Words : Accepts(r.fsa, w) <=> w \in r.words

(* What the labels of edge e are for: <<label, expression>>.               *)
On(e) == {o \in owner : e[1] <= o[1] /\ o[1] < e[2]}
ForRef(o) == o[1] >= call_label_base
IsRef(x) == \E o \in owner : o[2] = x /\ ForRef(o)

(* compile_export finds out by the associations what a label stands for:   *)
(* an edge labelled for a reference leads from a state associated with its *)
(* start to one associated with its end, and an action's loop is at a      *)
(* state associated with the expression.  Only complement forgets that.    *)
LabelsTagged ==
  \A r \in Operands : ~ r.flipped =>
    \A u \in States(r.fsa) : \A e \in ToSet(r.fsa.adj[u]) : \A o \in On(e) :
      LET x == o[2]
      IN IF ForRef(o) THEN <<x, "start">> \in r.assoc[u] /\ <<x, "final">> \in r.assoc[e[3]]
         ELSE IF actions[x] = {"finishing"} THEN <<x, "final">> \in r.assoc[u]
         ELSE \E t \in {"start", "inner", "final"} : <<x, t>> \in r.assoc[u]

(* Conversely, where a reference starts, an expression with a finishing    *)
(* action ends, or one with a transiting action is, there is a label for   *)
(* it, which keeps minimize from merging the state with one where it is    *)
(* not.  intersect loses labels and complement associations.               *)
TagsLabelled ==
  \A r \in Operands : ~ r.flipped /\ ~ r.met =>
    \A u \in States(r.fsa) : \A t \in r.assoc[u] :
      LET x == t[1]
          Labelled(ref) ==
            \E e \in ToSet(r.fsa.adj[u]) : \E o \in On(e) : o[2] = x /\ ForRef(o) = ref
      IN /\ IsRef(x) /\ t[2] = "start" => Labelled(TRUE)
         /\ \/ actions[x] = {"finishing"} /\ t[2] = "final"
            \/ "transiting" \in actions[x]
            => Labelled(FALSE)

(* The assertion of Fsa::check (fsa.cc 30 to 32), run after each visit.    *)
CheckHolds == failed # "check"
=============================================================================
