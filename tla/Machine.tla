------------------------------- MODULE Machine -------------------------------
(***************************************************************************)
(* The program that generate_cxx (src/compiler.cc) writes for an exported  *)
(* statement, run on the tables that compile_export made: hh_X_transit     *)
(* moves from state u on each character and keeps the states to return to  *)
(* on ret_stack, and hh_X_is_final says whether the input read so far is   *)
(* accepted.                                                               *)
(*                                                                         *)
(* It is compared with the language of the statement as its automaton and  *)
(* those it refers to define it: a call stands for the words of the        *)
(* statement called; a collapse leads into the statement and from its end  *)
(* to the end of any collapse of it.                                       *)
(***************************************************************************)
EXTENDS CompileExport

CONSTANTS MaxWord,   \* bound on the characters read
          MaxStack   \* bound on ret_stack

ASSUME MachineAssumption == MaxWord \in Nat /\ MaxStack \in Nat

VARIABLES
  main,        \* the statement whose program runs, or "none" before
  u,           \* state
  ret_stack,
  word,        \* the characters read
  mode,        \* "idle" between two characters, "transit" in hh_X_transit,
               \* "exhausted" where ret_stack would exceed its bound
  reached, derived  \* what the automata of main define, see below

runVars == <<main, u, ret_stack, word, mode, reached, derived>>
machineVars == <<allVars, runVars>>

-----------------------------------------------------------------------------
(* Triples <<c, w, n>>: after the call of statement c, w leads to n, state *)
(* n[2] of statement n[1].  A reference in calls leads from its start to   *)
(* its end by every word of its statement; one in jumps to the start of    *)
(* the statement, whose final states lead to the ends of all of these.     *)
Label(x) == (IF Kind(x) = "call" THEN call_label_base ELSE collapse_label_base) + x[3]
NodesOf(S) == UNION {{s} \X DOMAIN given[s].adj : s \in S}
Tags(n) == given[n[1]].assoc[n[2]]
StartsAt(n) == {t[1] : t \in {t \in Tags(n) : t[2] = "start"}}
EndsAt(n) == {t[1] : t \in {t \in Tags(n) : t[2] = "final"}}
EdgesAt(n) == ToSet(given[n[1]].adj[n[2]])
Entry(s) == <<s, given[s].start>>
IsEnd(n) == n[2] \in given[n[1]].finals

Uses(S) == UNION {StartsAt(n) : n \in NodesOf(S)}
OfKind(X, kind) == {x \in X : Kind(x) = kind}
RECURSIVE Needed(_)
Needed(S) ==
  LET R == S \cup {Referred(x) : x \in Uses(S)} IN IF R = S THEN S ELSE Needed(R)

WordsOf(R, c) == {r[2] : r \in {r \in R : r[1] = c /\ r[3][1] = c /\ IsEnd(r[3])}}

StepsFrom(R, calls, jumps, r) ==
  LET c == r[1] w == r[2] n == r[3]
      On(a) == {<<c, Append(w, a), <<n[1], e[3]>>>> : e \in {e \in EdgesAt(n) : e[1] <= a /\ a < e[2]}}
      Through(x) ==
        {<<c, w \o q, <<n[1], e[3]>>>> :
           q \in {q \in WordsOf(R, Referred(x)) : Len(w) + Len(q) <= MaxWord},
           e \in {e \in EdgesAt(n) : e[1] <= Label(x) /\ Label(x) < e[2]}}
      Returns == {v \in NodesOf(DOMAIN given) : \E x \in EndsAt(v) \cap jumps : Referred(x) = n[1]}
  IN (IF Len(w) < MaxWord THEN UNION {On(a) : a \in 0 .. AB - 1} ELSE {})
     \cup UNION {Through(x) : x \in StartsAt(n) \cap calls}
     \cup {<<c, w, Entry(Referred(x))>> : x \in StartsAt(n) \cap jumps}
     \cup (IF IsEnd(n) THEN {<<c, w, v>> : v \in Returns} ELSE {})

RECURSIVE Grown(_, _, _)
Grown(R, calls, jumps) ==
  LET Q == R \cup UNION {StepsFrom(R, calls, jumps, r) : r \in R}
  IN IF Q = R THEN R ELSE Grown(Q, calls, jumps)
Entered(S) == {<<s, <<>>, Entry(s)>> : s \in S}

(* The language in which collapse is a reference like any other, and the   *)
(* larger one of the automaton that has jumps instead.                     *)
Derived(x) == Grown(Entered(Needed({x})), Uses(Needed({x})), {})
Reached(x) ==
  LET uses == Uses(Needed({x}))
  IN Grown(Entered(Needed({x})), OfKind(uses, "call"), OfKind(uses, "collapse"))

-----------------------------------------------------------------------------
InitMachine(Inputs, exports) ==
  /\ InitExports(Inputs, exports)
  /\ main = "none" /\ u = None /\ ret_stack = <<>> /\ word = <<>> /\ mode = "idle"
  /\ reached = {} /\ derived = {}

Compile == Compiling /\ UNCHANGED runVars

(* Programs are only generated if all exports have been compiled.          *)
Start(x) ==
  /\ main = "none" /\ stage = "done" /\ n_errors = 0
  /\ main' = x /\ u' = compiled[x].start
  /\ reached' = Reached(x) /\ derived' = WordsOf(Derived(x), x)
  /\ UNCHANGED <<ret_stack, word, mode, allVars>>

(* main reads on until a state is negative.                                *)
Read(c) ==
  /\ main # "none" /\ mode = "idle" /\ u >= 0 /\ Len(word) < MaxWord
  /\ word' = Append(word, c)
  /\ mode' = "transit"
  /\ UNCHANGED <<main, u, ret_stack, reached, derived, allVars>>

(* hh_X_transit: a round of the loop `again'.                              *)
Transit == main # "none" /\ mode = "transit"
Address == stmt2call_addr[main][u]
Into(c) == {e[3] : e \in {e \in ToSet(compiled[main].adj[u]) : e[1] <= c /\ c < e[2]}}
Char == Last(word)

(* Mutant: the call is returned to.                                        *)
ReturnToCall == u

ReturnTo == Address[2]

Call ==
  /\ Transit /\ Address[1] >= 0
  /\ IF Len(ret_stack) < MaxStack
       THEN /\ u' = Address[1] /\ ret_stack' = Append(ret_stack, ReturnTo)
            /\ UNCHANGED mode
       ELSE mode' = "exhausted" /\ UNCHANGED <<u, ret_stack>>
  /\ UNCHANGED <<main, word, reached, derived, allVars>>

Move ==
  /\ Transit /\ Address[1] < 0 /\ Into(Char) # {}
  /\ u' \in Into(Char)
  /\ mode' = "idle"
  /\ UNCHANGED <<main, ret_stack, word, reached, derived, allVars>>

(* Mutant: a call is returned from at any state.                           *)
MayReturnAlways == ret_stack # <<>>

MayReturn == u \in stmt2final[main] /\ ret_stack # <<>>

Stuck == Transit /\ Address[1] < 0 /\ Into(Char) = {}

PopReturn ==
  /\ Stuck /\ MayReturn
  /\ u' = Last(ret_stack) /\ ret_stack' = Front(ret_stack)
  /\ UNCHANGED <<main, word, mode, reached, derived, allVars>>

Reject ==
  /\ Stuck /\ ~ MayReturn
  /\ u' = -1 /\ mode' = "idle"
  /\ UNCHANGED <<main, ret_stack, word, reached, derived, allVars>>

Step == Call \/ Move \/ PopReturn \/ Reject

MachineNext ==
  \/ Compile
  \/ \E x \in DOMAIN stmt2call_addr : Start(x)
  \/ \E c \in 0 .. AB - 1 : Read(c)
  \/ Step

(* hh_X_is_final: the statement called last is complete, and at each state *)
(* to return to its caller is, the first of them being the end of main.    *)
(* Mutant: only the last state is looked at.                               *)
IsFinalTop == u \in compiled[main].finals

IsFinal ==
  LET pending == ret_stack \o <<u>>
  IN /\ \A m \in 2 .. Len(pending) : pending[m] \in stmt2final[main]
     /\ pending[1] \in compiled[main].finals

-----------------------------------------------------------------------------
(* What main's program was made of, and the shapes for which the tables    *)
(* are known not to say what the automata do.                              *)
Statements == Needed({main})
Called == {Referred(x) : x \in OfKind(Uses(Statements), "call")}

(* A statement referred to that has been exported before, with references: *)
(* its calls are gone, and collapses begin at all states merged with       *)
(* theirs.                                                                 *)
Reexported == \E s \in (Statements \ {main}) \cap DOMAIN stmt2call_addr : Uses(Needed({s})) # {}
CallsLost ==
  \E s \in (Statements \ {main}) \cap DOMAIN stmt2call_addr : OfKind(Uses(Needed({s})), "call") # {}

(* When a word of the statement has been read it could read no more: the   *)
(* program returns from a call only when there is nothing else to do.      *)
Settled(s) ==
  \A r \in reached : r[1] = s /\ r[2] \in WordsOf(reached, s) =>
    OfKind(StartsAt(r[3]), "call") = {} /\ \A e \in EdgesAt(r[3]) : action_label_base <= e[1]

Nullable(s) == <<>> \in WordsOf(reached, s)

(* In a call that has not read a word of its statement yet another         *)
(* statement ends that is also called, perhaps elsewhere: one set of final *)
(* states serves the returns from both.                                    *)
EndsInside ==
  \E r \in reached : /\ r[1] \in Called /\ r[2] \notin WordsOf(reached, r[1])
                     /\ r[3][1] \in used_as_call /\ IsEnd(r[3])

(* Statement s calls t before it has read anything.                        *)
CallsFirst(s, t) ==
  \E r \in reached : r[1] = s /\ r[2] = <<>> /\ \E x \in OfKind(StartsAt(r[3]), "call") : Referred(x) = t
RECURSIVE CalledFirst(_)
CalledFirst(S) ==
  LET R == S \cup {t \in Stmt : \E s \in S : CallsFirst(s, t)} IN IF R = S THEN S ELSE CalledFirst(R)
LeftRecursive == \E s \in Called : s \in CalledFirst({t \in Stmt : CallsFirst(s, t)})

Waiting == main # "none" /\ mode = "idle"

(* The program (378-505, 858-885) accepts only words of the language.      *)
(* Excepted are a statement exported again (hazard 800), and a state a     *)
(* call returns from although its statement does not end there: minimize   *)
(* made it one with another (701), or another statement ends there (572).  *)
MachineSound ==
  Waiting /\ u >= 0 /\ IsFinal /\ ~ Reexported /\ main \notin merged /\ ~ EndsInside =>
    word \in WordsOf(reached, main)

(* It accepts all of them, and never gives one up before it ends, when a   *)
(* call reads something and can only return at the end of the longest      *)
(* word; excepted also are automata whose epsilons allocate loses, and     *)
(* lost calls.                                                             *)
MachineComplete ==
  Waiting /\ AllWellTagged(given) /\ ~ CallsLost /\ (\A s \in Called : Settled(s) /\ ~ Nullable(s)) =>
    /\ word \in derived => u >= 0 /\ IsFinal
    /\ u < 0 => \A w \in derived : ~ IsPrefix(word, w)

(* hh_X_transit returns, if no statement calls itself before it has read   *)
(* anything and no call reads nothing, with the exceptions of MachineSound *)
(* for early returns: the program neither calls for ever nor calls and     *)
(* returns for ever.                                                       *)
TransitEnds ==
  (mode = "transit" /\ ~ LeftRecursive /\ main \notin merged /\ ~ EndsInside
     /\ \A s \in Called : ~ Nullable(s)) ~> mode = "idle"
=============================================================================
