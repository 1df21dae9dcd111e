----------------------------- MODULE Determinize -----------------------------
(***************************************************************************)
(* Fsa::determinize of src/fsa.cc: the subset construction on edges that   *)
(* carry intervals [from, to) of labels.  The events of the edges of a     *)
(* subset are swept in order, and every stretch of labels on which the     *)
(* same edges are open becomes an edge of the new state.                   *)
(*                                                                         *)
(* adj[u] is sorted, an epsilon is the interval [-1, 0).  Subsets, sorted  *)
(* vectors in the code, are sets here, and so are the sorted events, from  *)
(* which a least one is taken.                                             *)
(***************************************************************************)
EXTENDS Integers, FiniteSets, Sequences, SequencesExt, Functions

CONSTANTS N,        \* number of states of the automaton given
          Limit     \* labels are below this

ASSUME DeterminizeAssumption == N \in Nat \ {0} /\ Limit \in Nat

State == 0 .. N - 1
Edge == {e \in (0 .. Limit - 1) \X (0 .. Limit) \X State : e[1] < e[2]}
        \cup ({-1} \X {0} \X State)
Sorted(es) == \A j, l \in DOMAIN es : j < l => es[j][1] <= es[l][1]
Automata == [start : State, finals : SUBSET State, starts : Seq(State),
             adj : [State -> {es \in Seq(Edge) : Sorted(es)}]]

VARIABLES
  start, finals, adj,  \* the automaton given
  starts,        \* further subsets to build are the closures of these
  further,       \* number of them looked at
  m,             \* numbers of the subsets met
  st,            \* subsets to process
  radj, rfinals, \* edges, and final states, of the result
  id,            \* number of the subset being processed, or None
  events,        \* its events still to sweep
  last,          \* label they have been swept to
  live           \* number of edges open, by target

given == <<start, finals, adj, starts>>
vars == <<given, further, m, st, radj, rfinals, id, events, last, live>>

None == -1

(* epsilon_closure reads the edges of a state up to the first one that is  *)
(* no epsilon.                                                             *)
EpsilonFrom(u) ==
  {adj[u][j][3] : j \in {j \in DOMAIN adj[u] : \A h \in 1 .. j : adj[u][h][1] = -1}}

Closure(X) ==
  LET after[j \in 0 .. N] ==
        IF j = 0 THEN X ELSE after[j - 1] \cup UNION {EpsilonFrom(u) : u \in after[j - 1]}
  IN after[N]

(* A map after m.emplace(x, y).                                            *)
Emplaced(map, x, y) ==
  [z \in DOMAIN map \cup {x} |-> IF z \in DOMAIN map THEN map[z] ELSE y]

(* m and st once the subset X has a number: a new one is pushed.           *)
Numbered(X) == Emplaced(m, X, Cardinality(DOMAIN m))

(* Mutant: a subset met before is pushed again.                            *)
PushedAlways(X) == Append(st, X)

Pushed(X) == IF X \in DOMAIN m THEN st ELSE Append(st, X)

(* Mutant: the further starts are forgotten.                               *)
FurtherNone == <<>>

Further == starts

InitFrom(Inputs) ==
  /\ \E input \in Inputs :
       start = input.start /\ finals = input.finals /\ adj = input.adj /\ starts = input.starts
  /\ further = 0
  /\ m = Emplaced(<<>>, Closure({start}), 0) /\ st = <<Closure({start})>>
  /\ radj = <<>> /\ rfinals = {}
  /\ id = None /\ events = {} /\ last = 0 /\ live = [v \in State |-> 0]

-----------------------------------------------------------------------------
(* A further start.                                                        *)
AddStart ==
  /\ further < Len(Further)
  /\ LET X == Closure({Further[further + 1]})
     IN m' = Numbered(X) /\ st' = Pushed(X)
  /\ further' = further + 1
  /\ UNCHANGED <<given, radj, rfinals, id, events, last, live>>

(* The events <<position, value, state, edge>> of a subset X: an edge into *)
(* v opens with v and closes with ~v, so that of one position it closes    *)
(* first.  Two events of one position and value are the same to the code.  *)
EdgesOf(X) == UNION {{u} \X DOMAIN adj[u] : u \in X}
At(p) == adj[p[1]][p[2]]
Opening(p) == <<At(p)[1], At(p)[3], p[1], p[2]>>
Closing(p) == <<At(p)[2], -At(p)[3] - 1, p[1], p[2]>>
Events(X) == {Opening(p) : p \in EdgesOf(X)} \cup {Closing(p) : p \in EdgesOf(X)}
Before(a, b) == a[1] < b[1] \/ (a[1] = b[1] /\ a[2] < b[2])

(* Mutant: every stretch has its own edge.                                 *)
ExtendedNever(out, next, v) == Append(out, <<last, next, v>>)

(* An edge [last, next) into v: it extends the one before if it can.       *)
Extended(out, next, v) ==
  IF out # <<>> /\ out[Len(out)][2] = last /\ out[Len(out)][3] = v
    THEN [out EXCEPT ![Len(out)][2] = next]
    ELSE Append(out, <<last, next, v>>)

(* Mutant: an edge that closes removes its target, whatever is open.       *)
ClosedAll(v) == [live EXCEPT ![v] = 0]

(* live is a multiset: several edges may lead to the same state.           *)
Closed(v) == [live EXCEPT ![v] = @ - 1]

(* Mutant: the top of the stack stays.                                     *)
RestKeepsTop == st

Rest == Front(st)

(* The subset on top of the stack is next.                                 *)
Pop ==
  /\ further = Len(Further) /\ id = None /\ st # <<>>
  /\ LET X == Last(st)
     IN /\ id' = m[X]
        /\ radj' = Emplaced(radj, m[X], <<>>)
        /\ rfinals' = IF X \cap finals # {} THEN rfinals \cup {m[X]} ELSE rfinals
        /\ events' = Events(X)
  /\ st' = Rest
  /\ last' = 0 /\ live' = [v \in State |-> 0]
  /\ UNCHANGED <<given, further, m>>

(* An event: all labels from last to it lead to the closure of the targets *)
(* of the edges open, and then an edge opens or closes.                    *)
Targets == {v \in State : live[v] > 0}
Event(e) ==
  /\ id # None /\ \A f \in events : ~ Before(f, e)
  /\ LET next == e[1]
         v == e[2]
         V == Closure(Targets)
     IN /\ IF last < next /\ Targets # {}
             THEN /\ m' = Numbered(V)
                  /\ st' = Pushed(V)
                  /\ radj' = [radj EXCEPT ![id] = Extended(@, next, m'[V])]
             ELSE UNCHANGED <<m, st, radj>>
        /\ last' = IF last < next THEN next ELSE last
        /\ live' = IF v >= 0 THEN [live EXCEPT ![v] = @ + 1] ELSE Closed(-v - 1)
  /\ events' = events \ {e}
  /\ UNCHANGED <<given, further, rfinals, id>>

Swept ==
  /\ id # None /\ events = {}
  /\ id' = None
  /\ UNCHANGED <<given, further, m, st, radj, rfinals, events, last, live>>

Done == id = None /\ st = <<>>
Finished == Done /\ UNCHANGED vars

Step == AddStart \/ Pop \/ (\E e \in events : Event(e)) \/ Swept
Next == Step \/ Finished

Spec == InitFrom(Automata) /\ [][Next]_vars

-----------------------------------------------------------------------------
Ids == Range(m)
Subset(n) == CHOOSE X \in DOMAIN m : m[X] = n

(* Reading a label, and the least set closed under epsilon around X.       *)
Has(e, a) == e[1] <= a /\ a < e[2]
Move(X, a) == {At(p)[3] : p \in {p \in EdgesOf(X) : Has(At(p), a)}}
EpsilonClosed(X) == \A u \in X : \A j \in DOMAIN adj[u] : adj[u][j][1] = -1 => adj[u][j][3] \in X
LeastClosed(X) == {v \in State : \A Y \in SUBSET State : X \subseteq Y /\ EpsilonClosed(Y) => v \in Y}

(* Types.  The subsets are numbered from 0 without a gap, and the ones on  *)
(* the stack have no edges yet, unlike the others.  No edge is closed that *)
(* is not open: live.find would be at the end (449).                       *)
TypeOK ==
  /\ DOMAIN m \subseteq SUBSET State
  /\ IsInjective(m) /\ Ids = 0 .. Cardinality(DOMAIN m) - 1
  /\ IsInjective(st) /\ ToSet(st) \subseteq DOMAIN m
  /\ DOMAIN radj = {m[X] : X \in DOMAIN m \ ToSet(st)}
  /\ rfinals \subseteq DOMAIN radj /\ id \in DOMAIN radj \cup {None}
  /\ live \in [State -> Nat]
  /\ \A n \in DOMAIN radj : radj[n] \in Seq((0 .. Limit - 1) \X (0 .. Limit) \X Ids)

(* The subset construction: the label a leads from a subset to the number  *)
(* of the closure of all that it leads to, and nowhere if that is nothing; *)
(* a state is final iff a member is.                                       *)
SubsetsFollowed ==
  /\ rfinals = {n \in DOMAIN radj : Subset(n) \cap finals # {}}
  /\ \A n \in DOMAIN radj \ {id} : \A a \in 0 .. Limit - 1 :
       LET js == {j \in DOMAIN radj[n] : Has(radj[n][j], a)}
           to == Move(Subset(n), a)
       IN IF to = {} THEN js = {}
          ELSE LeastClosed(to) \in DOMAIN m /\ {radj[n][j][3] : j \in js} = {m[LeastClosed(to)]}

(* The edges of a new state are sorted, do not overlap (Fsa::check), and   *)
(* no two neighbours could be one.                                         *)
EdgesCanonical ==
  \A n \in DOMAIN radj :
    /\ \A j \in DOMAIN radj[n] : radj[n][j][1] < radj[n][j][2]
    /\ \A j \in 2 .. Len(radj[n]) :
         LET e == radj[n][j - 1] f == radj[n][j]
         IN e[2] < f[1] \/ (e[2] = f[1] /\ e[3] # f[3])

(* compile_export looks for the start of each called statement among the   *)
(* new states: its closure is one.                                         *)
StartsBuilt ==
  Done => /\ m[LeastClosed({start})] = 0
          /\ \A j \in DOMAIN starts : LeastClosed({starts[j]}) \in DOMAIN m

(* The construction ends: a subset is processed once.                      *)
Termination == <>Done
=============================================================================
