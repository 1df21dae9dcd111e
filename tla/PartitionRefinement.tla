------------------------- MODULE PartitionRefinement -------------------------
(***************************************************************************)
(* What Fsa::hopcroft_minimize (src/fsa.cc) promises: starting from the    *)
(* classes of final and of other states, cut classes until the classes     *)
(* are the states of an automaton with the same language; never cut two    *)
(* states that need no cut.  Which class is cut when, and how the cuts     *)
(* still to be made are remembered, is left open.                          *)
(***************************************************************************)
EXTENDS Automaton, FiniteSetsExt

VARIABLES
  succ,      \* the input automaton: letter by letter successor ...
  finals,    \* ... and its final states
  P,         \* the partition so far
  done       \* the partition is the answer

vars == <<succ, finals, P, done>>

Preds(a, X) == {p \in State : succ[p][a] \in X}

Class(Q, q) == {p \in State : Q[p] = Q[q]}

(* A set of states that is a union of classes.                             *)
Saturated(Q, X) == \A p, q \in State : Q[p] = Q[q] => (p \in X <=> q \in X)

(* What it takes for the classes to be states of an automaton with the     *)
(* same language: agreement on finality, and on the class reached by every *)
(* letter (having no edge on the letter is a class of its own).            *)
Stable(Q) ==
  \A p, q \in State : Q[p] = Q[q] =>
    /\ p \in finals <=> q \in finals
    /\ \A a \in Letter : Under(Q, succ[p][a]) = Under(Q, succ[q][a])

-----------------------------------------------------------------------------
SameFinality(q) == IF q \in finals THEN finals ELSE State \ finals

Init ==
  /\ succ \in [State -> [Letter -> State \cup {Undef}]]
  /\ finals \in SUBSET State
  /\ P = [q \in State |-> Min(SameFinality(q))]
  /\ done = FALSE

(* Cut the class led by f by the predecessors of a union of classes.       *)
Cut(f, a, X) ==
  LET U == Class(P, f) \cap Preds(a, X)
      V == Class(P, f) \ Preds(a, X)
  IN /\ ~ done
     /\ P[f] = f
     /\ Saturated(P, X)
     /\ U # {} /\ V # {}
     /\ P' = [q \in State |-> IF q \in U THEN Min(U)
                              ELSE IF q \in V THEN Min(V) ELSE P[q]]
     /\ UNCHANGED <<succ, finals, done>>

Finish ==
  /\ ~ done
  /\ Stable(P)
  /\ done' = TRUE
  /\ UNCHANGED <<succ, finals, P>>

Next ==
  \/ \E f \in State, a \in Letter, X \in SUBSET State : Cut(f, a, X)
  \/ Finish

Spec == Init /\ [][Next]_vars

-----------------------------------------------------------------------------
TypeOK ==
  /\ succ \in [State -> [Letter -> State \cup {Undef}]]
  /\ finals \in SUBSET State
  /\ P \in Partition
  /\ done \in BOOLEAN

(* Soundness: a cut never separates two states that some stable partition  *)
(* keeps together, so the result is never finer than needed.               *)
NeverOversplit ==
  \A Q \in Partition : Stable(Q) =>
    \A p, q \in State : Q[p] = Q[q] => P[p] = P[q]

(* The answer has the language of the input.  With NeverOversplit it is    *)
(* the coarsest stable partition: the minimal automaton.                   *)
StableAtEnd == done => Stable(P)

=============================================================================
