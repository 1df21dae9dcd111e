------------------------------ MODULE Automaton ------------------------------
(***************************************************************************)
(* The shape of the automata hopcroft_minimize (src/fsa.cc) works on, and  *)
(* of the partitions of their states it computes.                          *)
(*                                                                         *)
(* States are numbered from 0 as in adj; a letter is one elementary        *)
(* interval [scale[j], scale[j+1]) of the edge labels, and the successor   *)
(* is Undef where a state has no edge on the letter.                       *)
(***************************************************************************)
EXTENDS Integers

CONSTANTS N,          \* number of states of the automaton, n() in the code
          Letter      \* the elementary intervals

ASSUME NAssumption == N \in Nat \ {0}

State == 0 .. N - 1
Undef == -1

(* A partition maps each state to the least state of its class.            *)
Partition ==
  {Q \in [State -> State] : \A q \in State : Q[q] <= q /\ Q[Q[q]] = Q[q]}

(* The class a successor is in; having no successor is a class of its own. *)
Under(Q, s) == IF s = Undef THEN Undef ELSE Q[s]

=============================================================================
