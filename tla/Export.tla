------------------------------- MODULE Export -------------------------------
(***************************************************************************)
(* The lambda allocate of compile_export (src/compiler.cc): the automata   *)
(* of a statement and of all it refers to (!S collapses S, &S calls it)    *)
(* are laid out one after the other, and each collapse transition is       *)
(* replaced by epsilons into and out of the automaton referred to.         *)
(*                                                                         *)
(* The recursive calls of allocate are kept on `frames'.  Of the           *)
(* expressions associated with states only the references matter; the      *)
(* vector assoc[i] is ordered by address, so they are visited in any       *)
(* order.                                                                  *)
(***************************************************************************)
EXTENDS Common, FiniteSets, SequencesExt

CONSTANTS
  Stmt,       \* the DefineStmts
  AB,         \* letters are 0 .. AB - 1
  Room        \* labels reserved for actions, and for calls: 1000000 in load

ASSUME ExportAssumption ==
  /\ IsFiniteSet(Stmt)
  /\ AB \in Nat \ {0} /\ Room \in Nat

action_label_base == AB
call_label_base == AB + Room
collapse_label_base == AB + 2 * Room

None == -1

(* What compile leaves of a statement with n states: a deterministic       *)
(* automaton with sorted edges <<from, to, v>>, and for each state the     *)
(* expressions it belongs to with a tag.  Of these only the references     *)
(* <<kind, stmt, id>> count, whose edge has the label number id of their   *)
(* kind.  A product of automata may have lost the start of a reference and *)
(* kept its end, a complement all associations.                            *)
Reference == {"call", "collapse"} \X Stmt \X Nat
Edge(n) == Nat \X Nat \X (0 .. n - 1)
Deterministic(es) ==
  \A j \in DOMAIN es : es[j][1] < es[j][2] /\ \A l \in DOMAIN es : j < l => es[j][2] <= es[l][1]
FsaAnno(n) ==
  {A \in [start : 0 .. n - 1, finals : SUBSET (0 .. n - 1), adj : [0 .. n - 1 -> Seq(Edge(n))],
          assoc : [0 .. n - 1 -> SUBSET (Reference \X {"start", "inner", "final"})]] :
     \A k \in 0 .. n - 1 : Deterministic(A.adj[k])}
FsaAnnos == UNION {FsaAnno(n) : n \in Nat \ {0}}

VARIABLES
  compiled,   \* of each statement its automaton [start, finals, adj, assoc]
  used_as_call, \* the statements that a call in the program text refers to
  exporting,  \* the statement compile_export is called for
  offset,     \* stmt2offset: None, or the first state of the statement
  allo,       \* number of states laid out
  adj,        \* their edges
  starts,     \* start states of the statements that are called
  sub_final,  \* final states of these
  frames      \* active calls of allocate

vars == <<compiled, used_as_call, exporting, offset, allo, adj, starts, sub_final, frames>>

Kind(x) == x[1]
Referred(x) == x[2]
Local(s) == DOMAIN compiled[s].adj
Size(s) == Cardinality(Local(s))
References(s) == {t[1] : t \in UNION {compiled[s].assoc[k] : k \in Local(s)}}

(* Mutant: the statements called are not visited.                          *)
CollapsedAt(s, k) ==
  {t[1] : t \in {t \in compiled[s].assoc[k] : t[2] = "start" /\ Kind(t[1]) = "collapse"}}

(* The references that start at state k of s, and the collapse expressions *)
(* that end there.                                                         *)
StartingAt(s, k) == {t[1] : t \in {t \in compiled[s].assoc[k] : t[2] = "start"}}
EndingAt(s, k) ==
  {t[1] : t \in {t \in compiled[s].assoc[k] : t[2] = "final" /\ Kind(t[1]) = "collapse"}}

(* The edges of state k of s, moved by base.                               *)
EdgesOf(s, k, base) ==
  LET es == compiled[s].adj[k]
  IN [j \in DOMAIN es |-> <<es[j][1], es[j][2], es[j][3] + base>>]

-----------------------------------------------------------------------------
(* The statements whose calls are left in the associations.                *)
CalledNow == {Referred(r) : r \in {r \in UNION {References(s) : s \in Stmt} : Kind(r) = "call"}}

(* compile_export is called for x.  load has filled used_as_call from the  *)
(* syntax: a call of which complement or intersect has dropped the         *)
(* association counts as well.                                             *)
InitFrom(Inputs, x) ==
  /\ compiled \in Inputs
  /\ used_as_call \in {U \in SUBSET Stmt : CalledNow \subseteq U}
  /\ exporting = x
  /\ offset = [s \in Stmt |-> None]
  /\ allo = 0
  /\ adj = <<>>
  /\ starts = <<>>
  /\ sub_final = {}
  /\ frames = <<>>

(* A call of allocate for s at its state k: references of this state still *)
(* to visit, and the one being visited; when these are collapses that end  *)
(* in state v, j is the index of the edge that leads there.                *)
AtState(s, k) ==
  [stmt |-> s, k |-> k, phase |-> "starts", j |-> 0, v |-> 0,
   todo |-> StartingAt(s, k), at |-> <<>>]

(* Mutant: one state too few is reserved.                                  *)
ReservedShort(s) == allo + Size(s) - 1

Reserved(s) == allo + Size(s)

(* Mutant: the final states are not moved by the offset.                   *)
SubFinalsUnmoved(s) == IF s \in used_as_call THEN compiled[s].finals ELSE {}

SubFinals(s) == IF s \in used_as_call THEN {allo + f : f \in compiled[s].finals} ELSE {}

(* allocate(s), entered with the callers fs on the stack: the automaton is *)
(* appended, unless that has been done before.                             *)
Allocate(s, fs) ==
  IF offset[s] # None
    THEN /\ frames' = fs
         /\ UNCHANGED <<compiled, used_as_call, exporting, offset, allo, adj, starts, sub_final>>
    ELSE /\ offset' = [offset EXCEPT ![s] = allo]
         /\ allo' = Reserved(s)
         /\ adj' = [i \in 0 .. allo + Size(s) - 1 |->
                      IF i < allo THEN adj[i] ELSE EdgesOf(s, i - allo, allo)]
         /\ starts' = IF s \in used_as_call THEN Append(starts, allo + compiled[s].start) ELSE starts
         /\ sub_final' = sub_final \cup SubFinals(s)
         /\ frames' = Append(fs, AtState(s, 0))
         /\ UNCHANGED <<compiled, used_as_call, exporting>>

Begin ==
  /\ frames = <<>> /\ offset[exporting] = None
  /\ Allocate(exporting, <<>>)

Top == frames[Len(frames)]
Replaced(f) == [frames EXCEPT ![Len(frames)] = f]
i == offset[Top.stmt] + Top.k

(* The body of the loops over assoc: allocate the statement referred to,   *)
(* then add the epsilons.                                                  *)
Visit(x) ==
  /\ Top.at = <<>>
  /\ Allocate(Referred(x), Replaced([Top EXCEPT !.todo = @ \ {x}, !.at = x]))

LinkStart ==
  /\ frames # <<>> /\ Top.at # <<>> /\ Top.phase = "starts"
  /\ adj' = IF Kind(Top.at) = "collapse"
              THEN LET v == Referred(Top.at)
                   IN [adj EXCEPT ![i] = Emplaced(@, offset[v] + compiled[v].start)]
              ELSE adj
  /\ frames' = Replaced([Top EXCEPT !.at = <<>>])
  /\ UNCHANGED <<compiled, used_as_call, exporting, offset, allo, starts, sub_final>>

BeginRefs ==
  /\ frames # <<>> /\ Top.at = <<>> /\ Top.todo = {} /\ Top.phase = "starts"
  /\ frames' = Replaced([Top EXCEPT !.phase = "refs", !.j = Len(adj[i])])
  /\ UNCHANGED <<compiled, used_as_call, exporting, offset, allo, adj, starts, sub_final>>

InRefs == frames # <<>> /\ Top.at = <<>> /\ Top.todo = {} /\ Top.phase = "refs"
AtRef == Top.j > 0 /\ collapse_label_base < adj[i][Top.j][2]

(* The next collapse edge from the end, into v: look at what ends at v.    *)
(* An edge that begins below collapse_label_base loses the labels above,   *)
(* and stays.                                                              *)
TakeRef ==
  /\ InRefs /\ AtRef
  /\ LET e == adj[i][Top.j]
         below == e[1] < collapse_label_base
     IN /\ adj' = IF below THEN [adj EXCEPT ![i][Top.j][2] = collapse_label_base] ELSE adj
        /\ frames' = Replaced([Top EXCEPT !.j = IF below THEN @ ELSE @ - 1, !.v = e[3],
                                 !.todo = EndingAt(Top.stmt, e[3] - offset[Top.stmt])])
  /\ UNCHANGED <<compiled, used_as_call, exporting, offset, allo, starts, sub_final>>

(* Mutant: the index does not follow an insertion.                         *)
FollowedNever(j, G) == j

Followed(j, G) == IF i \in G THEN j + 1 ELSE j

(* Every final state of the statement gets an epsilon to v; when one is    *)
(* the state at hand its edges have moved.                                 *)
LinkEnd ==
  /\ frames # <<>> /\ Top.at # <<>> /\ Top.phase = "refs"
  /\ LET w == Referred(Top.at)
         G == {offset[w] + f : f \in compiled[w].finals}
     IN /\ adj' = [g \in DOMAIN adj |-> IF g \in G THEN Emplaced(adj[g], Top.v) ELSE adj[g]]
        /\ frames' = Replaced([Top EXCEPT !.at = <<>>, !.j = Followed(@, G)])
  /\ UNCHANGED <<compiled, used_as_call, exporting, offset, allo, starts, sub_final>>

(* Mutant: the edges are not deleted.                                      *)
CutNever(edges, j) == edges

Cut(edges, j) == SubSeq(edges, 1, j)

(* resize(j) deletes the collapse edges; then the next state, or return.   *)
NextState ==
  /\ InRefs /\ ~ AtRef
  /\ adj' = [adj EXCEPT ![i] = Cut(@, Top.j)]
  /\ frames' = IF Top.k + 1 < Size(Top.stmt)
                 THEN Replaced(AtState(Top.stmt, Top.k + 1))
                 ELSE Front(frames)
  /\ UNCHANGED <<compiled, used_as_call, exporting, offset, allo, starts, sub_final>>

Done == frames = <<>> /\ offset[exporting] # None
Finished == Done /\ UNCHANGED vars

Laying ==
  \/ Begin
  \/ frames # <<>> /\ \E x \in Top.todo : Visit(x)
  \/ LinkStart \/ BeginRefs \/ TakeRef \/ LinkEnd \/ NextState

Next == Laying \/ Finished

Spec == (\E x \in Stmt : InitFrom([Stmt -> FsaAnnos], x)) /\ [][Next]_vars

-----------------------------------------------------------------------------
Allocated == {s \in Stmt : offset[s] # None}

(* Every statement has its own states, and they are all there are; no call *)
(* of allocate is nested in a call for the same statement.                 *)
LayoutDisjoint ==
  /\ \A s, d \in Allocated : s # d =>
       \/ offset[s] + Size(s) <= offset[d]
       \/ offset[d] + Size(d) <= offset[s]
  /\ \A g \in 0 .. allo - 1 : \E s \in Allocated : g \in offset[s] .. offset[s] + Size(s) - 1
  /\ \A m, o \in DOMAIN frames : frames[m].stmt = frames[o].stmt => m = o

(* In the end what starts in a statement laid out is laid out, too, and    *)
(* nothing more than the exported statement and all it refers to.  (Where  *)
(* the start of a reference has been lost, it is or it is not.)            *)
Closed(S) == \A s \in S : \A x \in References(s) : Referred(x) \in S
AllocatedNeeded ==
  Done => /\ \A s \in Allocated : \A k \in Local(s) : \A t \in compiled[s].assoc[k] :
               t[2] = "start" => Referred(t[1]) \in Allocated
          /\ \A S \in SUBSET Stmt : exporting \in S /\ Closed(S) => Allocated \subseteq S

(* The starts given to determinize, and the final states a call may return *)
(* from, are those of the called statements, at their place (567-574).     *)
CalledKept ==
  Done => LET called == Allocated \cap used_as_call
          IN /\ ToSet(starts) = {offset[s] + compiled[s].start : s \in called}
             /\ Len(starts) = Cardinality(called)
             /\ sub_final = UNION {{offset[s] + f : f \in compiled[s].finals} : s \in called}

(* The edges state k of s should have had and end up with: its own ones    *)
(* without labels of collapse expressions, and epsilons into the           *)
(* statements collapsed at k and, if k is final, back to where a collapse  *)
(* of s ends.                                                              *)
OwnEdges(s, k) ==
  {<<e[1], IF e[2] < collapse_label_base THEN e[2] ELSE collapse_label_base, e[3]>> :
     e \in {e \in ToSet(EdgesOf(s, k, offset[s])) : e[1] < collapse_label_base}}
Epsilons(s, k) ==
  {EpsilonTo(offset[Referred(x)] + compiled[Referred(x)].start) :
     x \in {x \in StartingAt(s, k) : Kind(x) = "collapse"}}
  \cup (IF k \in compiled[s].finals
          THEN UNION {{EpsilonTo(offset[d] + v) :
                         v \in {v \in Local(d) : \E x \in EndingAt(d, v) : Referred(x) = s}} :
                        d \in Allocated}
          ELSE {})
Edges(s, k) == ToSet(adj[offset[s] + k])

(* No collapse edge is left, and an epsilon only where a reference is.     *)
RefsReplaced ==
  Done => \A s \in Allocated : \A k \in Local(s) :
            Edges(s, k) \subseteq OwnEdges(s, k) \cup Epsilons(s, k)

(* Nothing is lost, if a collapse that ends in a state starts wherever a   *)
(* collapse edge leads there from, and one does: then no statement is laid *)
(* out while the edges of a state are replaced.                            *)
CollapsesInto(A, v) ==
  {k \in DOMAIN A.adj : \E e \in ToSet(A.adj[k]) : collapse_label_base < e[2] /\ e[3] = v}
WellTagged(A) ==
  \A v \in DOMAIN A.adj : \A t \in A.assoc[v] : t[2] = "final" /\ Kind(t[1]) = "collapse" =>
    /\ CollapsesInto(A, v) # {}
    /\ \A k \in CollapsesInto(A, v) : <<t[1], "start">> \in A.assoc[k]
AllWellTagged(automata) == \A s \in Stmt : WellTagged(automata[s])
EdgesComplete ==
  Done /\ AllWellTagged(compiled) => \A s \in Allocated : \A k \in Local(s) :
            OwnEdges(s, k) \cup Epsilons(s, k) \subseteq Edges(s, k)

(* "delete the old collapse edges" (the comment of compiler.cc 637): a     *)
(* state's other edges stay.                                               *)
OnlyRefsDeleted ==
  Done => \A s \in Allocated : \A k \in Local(s) : OwnEdges(s, k) \subseteq Edges(s, k)

=============================================================================
