---------------------------- MODULE HopcroftWork ----------------------------
(***************************************************************************)
(* hopcroft_minimize with a history variable that remembers, for each      *)
(* state and letter, the size of the last splitter that held the state:    *)
(* the argument behind the algorithm's n log n bound.                      *)
(***************************************************************************)
EXTENDS Hopcroft

VARIABLE last

WorkInit == Init /\ last = [q \in State |-> [a \in Letter |-> 2 * N]]

Walk(a, fx) ==
  last' = [q \in State |-> IF q \in Block(fx)
                             THEN [last[q] EXCEPT ![a] = Cardinality(Block(fx))]
                             ELSE last[q]]

WorkNext ==
  \/ \E a \in Letter, fx \in State : Pick(a, fx) /\ Walk(a, fx)
  \/ (\E fy \in State : SplitBlock(fy)) /\ UNCHANGED last
  \/ (Cleanup \/ Build \/ Done) /\ UNCHANGED last

WorkSpec == WorkInit /\ [][WorkNext]_<<vars, last>>

(* Of the two halves of a block that is no pending splitter the smaller    *)
(* one becomes one (fsa.cc 624-630): when a state is walked again with the *)
(* same letter, its ring has at most half the states it had the last time. *)
(* Choosing the larger half would give the same automata, slower.          *)
HalvesWork ==
  [][\A a \in Letter, fx \in State :
       Pick(a, fx) => \A q \in Block(fx) :
                        2 * Cardinality(Block(fx)) <= last[q][a]]_<<vars, last>>

=============================================================================
