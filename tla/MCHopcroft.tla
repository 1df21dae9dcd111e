----------------------------- MODULE MCHopcroft -----------------------------
(* Small automata for hopcroft_minimize.                                   *)
EXTENDS HopcroftWork

CONSTANTS x, y    \* the letters

(* determinize numbers a state when it first meets it, so that (without    *)
(* extra starts) every state but 0 is the successor of one numbered less.  *)
Discovered == \A q \in State \ {0} : \E p \in 0 .. q - 1, a \in Letter : succ[p][a] = q

(* State 1 is met first by x, and the last state has no edge on y.         *)
Sparse == succ[0][x] = 1 /\ succ[N - 1][y] = Undef

(* State 0 is the start of what compile makes; the automata that the       *)
(* tests read may start elsewhere, as at the state numbered last.          *)
Starts == start \in {0, N - 1}

DiscoveredInit == WorkInit /\ Discovered /\ Sparse /\ Starts
MCFairSpec ==
  DiscoveredInit /\ [][WorkNext]_<<vars, last>> /\ WF_<<vars, last>>(WorkNext)
=============================================================================
