------------------------------ MODULE Hopcroft ------------------------------
(***************************************************************************)
(* Fsa::hopcroft_minimize (src/fsa.cc): partition refinement of a partial  *)
(* deterministic automaton with a set of pending splitters `refines'.      *)
(*                                                                         *)
(* The doubly linked rings L, R and the sizes C hold the same information  *)
(* as the leader map B: the ring of leader f is {q : B[q] = f}, it is      *)
(* walked in ascending order from its least state, and C[f] is its length. *)
(* The set `refines' is emptied in any order.                              *)
(***************************************************************************)
EXTENDS Automaton, FiniteSets, FiniteSetsExt

VARIABLES
  start,     \* the input automaton: its start state, ...
  succ,      \* ... letter by letter successor ...
  finals,    \* ... and final states
  B,         \* leader of the block each state belongs to
  refines,   \* pending splitters <<letter, leader>>
  cur,       \* splitter in use: letter a, leader fx, and the states xs its
             \* ring held when it was walked (xs is only used by properties)
  mark,      \* states marked as predecessors of the splitter
  CC,        \* number of marked states of each block, indexed by leader
  bs,        \* leaders of the marked blocks still to be examined
  pc,        \* "loop" at the while test, "split" inside, "built" at the end
  out        \* the automaton built from the blocks

vars == <<start, succ, finals, B, refines, cur, mark, CC, bs, pc, out>>

(* The abstract algorithm, which also says when a partition is stable.     *)
PR == INSTANCE PartitionRefinement WITH P <- B, done <- (pc = "built")

Block(f) == {q \in State : B[q] = f}
Preds(a, X) == {p \in State : succ[p][a] \in X}
Labels(X) == {a \in Letter : Preds(a, X) # {}}
Leaders == {f \in State : B[f] = f}

-----------------------------------------------------------------------------
SameFinality(q) == IF q \in finals THEN finals ELSE State \ finals

Init ==
  /\ start \in State
  /\ succ \in [State -> [Letter -> State \cup {Undef}]]
  /\ finals \in SUBSET State
  /\ B = [q \in State |-> Min(SameFinality(q))]
  /\ refines = {r \in Letter \X State :
                  r[2] \in Leaders /\ r[1] \in Labels(Block(r[2]))}
  /\ cur = <<>>
  /\ mark = {}
  /\ CC = [q \in State |-> 0]
  /\ bs = {}
  /\ pc = "loop"
  /\ out = <<>>

(* Mutant: the splitter taken stays in the set.                            *)
RestKeepsTaken(r) == refines

Rest(r) == refines \ {r}

(* Take a splitter and mark the predecessors of its ring.  A block is      *)
(* listed in bs by the increment that finds its counter at zero.           *)
Pick(a, fx) ==
  /\ pc = "loop"
  /\ <<a, fx>> \in refines
  /\ refines' = Rest(<<a, fx>>)
  /\ LET X == Block(fx)
         Y == Preds(a, X)
     IN /\ cur' = [a |-> a, fx |-> fx, xs |-> X]
        /\ mark' = mark \cup Y
        /\ CC' = [f \in State |-> CC[f] + Cardinality(Y \cap Block(f))]
        /\ bs' = {f \in State : CC[f] = 0 /\ Y \cap Block(f) # {}}
  /\ pc' = "split"
  /\ UNCHANGED <<start, succ, finals, B, out>>

(* Mutants: the test for a pending splitter is dropped; the larger half is *)
(* chosen; the letters are those that enter the ring fy is left with.      *)
NewSplittersSmaller(fy, fu, nu, fv, nv) ==
  {<<b, IF nu < nv THEN fu ELSE fv>> : b \in Labels(Block(fy))}

NewSplittersLarger(fy, fu, nu, fv, nv) ==
  {<<b, IF <<b, fy>> \in refines
          THEN IF fu # fy THEN fu ELSE fv
          ELSE IF nu > nv THEN fu ELSE fv>> : b \in Labels(Block(fy))}

NewSplittersShort(fy, fu, nu, fv, nv) ==
  {<<b, IF <<b, fy>> \in refines
          THEN IF fu # fy THEN fu ELSE fv
          ELSE IF nu < nv THEN fu ELSE fv>> :
     b \in Labels({q \in Block(fy) : (q \in mark) = (fu = fy)})}

(* The splitter entries that a split of block fy into rings led by fu      *)
(* (marked, nu states) and fv (nv states) adds, for each letter that       *)
(* enters the old block.                                                   *)
NewSplitters(fy, fu, nu, fv, nv) ==
  {<<b, IF <<b, fy>> \in refines
          THEN IF fu # fy THEN fu ELSE fv
          ELSE IF nu < nv THEN fu ELSE fv>> : b \in Labels(Block(fy))}

(* Mutants: only a ring that is split loses its marks; the counter goes    *)
(* below what it held.                                                     *)
UnmarkedIfSplit(fy) == IF CC[fy] < Cardinality(Block(fy)) THEN mark \ Block(fy) ELSE mark
UncountedBySize(fy) == [CC EXCEPT ![fy] = @ - Cardinality(Block(fy))]

Regrouped(U, fu, V, fv) ==
  [q \in State |-> IF q \in U THEN fu ELSE IF q \in V THEN fv ELSE B[q]]

Unmarked(fy) == mark \ Block(fy)
Uncounted(fy) == [CC EXCEPT ![fy] = 0]

(* One iteration of the loop over bs: the marked and the unmarked states   *)
(* of a partly marked block become two rings.                              *)
SplitBlock(fy) ==
  /\ pc = "split"
  /\ fy \in bs
  /\ LET U == Block(fy) \cap mark
         V == Block(fy) \ mark
         fu == Min(U)
         fv == Min(V)
     IN IF CC[fy] < Cardinality(Block(fy))
          THEN /\ B' = Regrouped(U, fu, V, fv)
               /\ refines' = refines \cup
                    NewSplitters(fy, fu, Cardinality(U), fv, Cardinality(V))
          ELSE UNCHANGED <<B, refines>>
  /\ mark' = Unmarked(fy)
  /\ CC' = Uncounted(fy)
  /\ bs' = bs \ {fy}
  /\ UNCHANGED <<start, succ, finals, cur, pc, out>>

(* The last loop of an iteration walks the ring of fx again, which a split *)
(* may have shortened, and resets what its predecessors had set.           *)
Cleanup ==
  /\ pc = "split"
  /\ bs = {}
  /\ LET Y == Preds(cur.a, Block(cur.fx))
     IN /\ mark' = mark \ Y
        /\ CC' = [f \in State |-> IF Y \cap Block(f) # {} THEN 0 ELSE CC[f]]
  /\ cur' = <<>>
  /\ pc' = "loop"
  /\ UNCHANGED <<start, succ, finals, B, refines, bs, out>>

(* Mutant: the states keep the numbers of their leaders.                   *)
NumberOfLeader(q) == B[q]

(* The new number of a state: the rank of its leader.                      *)
Number(q) == Cardinality({f \in Leaders : f < B[q]})

(* Mutant: one splitter may be left.                                       *)
AtMostOneLeft == Cardinality(refines) <= 1

NoSplitterLeft == refines = {}

(* The result, with the list of old states handed to relate() for each new *)
(* state.  The edges are those of the old states, renumbered; merging      *)
(* touching intervals leaves the set of letters of an edge as it is.       *)
Build ==
  /\ pc = "loop"
  /\ NoSplitterLeft
  /\ out' = [start  |-> Number(start),
             finals |-> {Number(f) : f \in Leaders \cap finals},
             adj    |-> {<<Number(e[1]), e[2], Number(succ[e[1]][e[2]])>> :
                           e \in {d \in State \X Letter :
                                    succ[d[1]][d[2]] # Undef}},
             related |-> [i \in 0 .. Cardinality(Leaders) - 1 |->
                            {q \in State : Number(q) = i}]]
  /\ pc' = "built"
  /\ UNCHANGED <<start, succ, finals, B, refines, cur, mark, CC, bs>>

Done == pc = "built" /\ UNCHANGED vars

Step ==
  \/ \E a \in Letter, fx \in State : Pick(a, fx)
  \/ \E fy \in State : SplitBlock(fy)
  \/ Cleanup
  \/ Build

Next == Step \/ Done

Spec == Init /\ [][Next]_vars

(* The function is one sequential call that runs to its return.            *)
FairSpec == Spec /\ WF_vars(Step)

-----------------------------------------------------------------------------
(* Types.  Every counter, leader and splitter names a state, and there is  *)
(* a current splitter exactly while the loop body runs (fsa.cc 563-656).   *)
TypeOK ==
  /\ start \in State
  /\ succ \in [State -> [Letter -> State \cup {Undef}]]
  /\ finals \in SUBSET State
  /\ B \in [State -> State]
  /\ refines \in SUBSET (Letter \X State)
  /\ mark \in SUBSET State
  /\ CC \in [State -> Nat]
  /\ bs \in SUBSET State
  /\ pc \in {"loop", "split", "built"}
  /\ pc = "split" => cur \in [a : Letter, fx : State, xs : SUBSET State]

(* B always is a partition whose leaders are the least states of the       *)
(* rings, and splitters and bs always name leaders, although a split may   *)
(* rename the ring that holds the old leader's other half.  The output     *)
(* loop relies on it: it starts a new state where B[i] = i (fsa.cc 660).   *)
LeadersInv ==
  /\ B \in Partition
  /\ \A r \in refines : r[2] \in Leaders
  /\ bs \subseteq Leaders

(* At the while test no state is marked and no block is counted, whatever  *)
(* splits have done to the rings in between: a counter left behind would   *)
(* keep its block out of bs the next time (fsa.cc 576-580, 642-655).       *)
MarksClean == pc = "loop" => mark = {} /\ \A q \in State : CC[q] = 0

(* While the loop body runs, the marks left are those of the blocks left   *)
(* in bs: there, a state is marked iff it is a predecessor of the ring as  *)
(* it was when walked, also after that ring itself has been split; every   *)
(* other block holds predecessors only or none (fsa.cc 568-640).           *)
MarksInv ==
  pc = "split" =>
    LET Y == Preds(cur.a, cur.xs)
    IN /\ PR!Saturated(B, cur.xs)
       /\ \A q \in State :
            IF B[q] \in bs
              THEN q \in mark <=> q \in Y
              ELSE q \notin mark /\ (q \in Y <=> B[q] \in Y)
       /\ \A f \in State :
            CC[f] = IF f \in bs THEN Cardinality(Block(f) \cap Y) ELSE 0
       /\ \A f \in bs : Block(f) \cap Y # {}

(* Hopcroft's worklist argument: two states that share a block but lead,   *)
(* by some letter, to different blocks (or only one of them anywhere) are  *)
(* still going to be separated: by a pending splitter, or by the splitter  *)
(* in use, whose bs still lists their block (fsa.cc 563-656).              *)
Pending(p, q, b) ==
  LET s == succ[p][b]
      t == succ[q][b]
  IN \/ <<b, B[s]>> \in refines
     \/ t # Undef /\ <<b, B[t]>> \in refines
     \/ pc = "split" /\ b = cur.a /\ B[p] \in bs /\ (s \in cur.xs) # (t \in cur.xs)

WorklistInv ==
  \A p, q \in State, b \in Letter :
    /\ B[p] = B[q]
    /\ succ[p][b] # Undef
    /\ Under(B, succ[p][b]) # Under(B, succ[q][b])
    => Pending(p, q, b)

(* Blocks are cut only where the abstract algorithm may cut, and the       *)
(* automaton is built only when no cut is left to make.                    *)
Implements == PR!Spec

(* No two states that some automaton with the same language merges are     *)
(* ever separated, and the automaton built has the language of the input   *)
(* (fsa.cc 466-707): the result is the minimal automaton.                  *)
NeverOversplit == PR!NeverOversplit
StableAtEnd == PR!StableAtEnd

(* The automaton built from the blocks simulates the old one: relate() is  *)
(* given disjoint groups that cover the states, and start, finality and    *)
(* every edge of a new state are those of each of its old states.          *)
OutputFaithful ==
  pc = "built" =>
    LET group == out.related
        new == DOMAIN group
        Targets(i, a) == {e[3] : e \in {d \in out.adj : d[1] = i /\ d[2] = a}}
    IN /\ \A q \in State : \E i \in new : q \in group[i]
       /\ start \in group[out.start]
       /\ \A i \in new, q \in State : q \in group[i] =>
            /\ \A j \in new : q \in group[j] => i = j
            /\ q \in finals <=> i \in out.finals
            /\ \A a \in Letter :
                 IF succ[q][a] = Undef
                   THEN Targets(i, a) = {}
                   ELSE \E j \in new : /\ succ[q][a] \in group[j]
                                       /\ Targets(i, a) = {j}

(* Splitters are added while others are consumed; the loop ends all the    *)
(* same and the automaton is built.                                        *)
Termination == <>(pc = "built")

=============================================================================
