---------------------------- MODULE CompileExport ----------------------------
(***************************************************************************)
(* compile_export of src/compiler.cc, called for the exported statements   *)
(* one after the other as in load.  When allocate (module Export) has laid *)
(* the automata out, they are determinized and minimized, and the starts   *)
(* and final states of the called statements are followed through both.    *)
(* States with a call get their entry of call_addr, and all labels but     *)
(* letters are removed.  All this is done in place: compiled[exporting] is *)
(* what a later export finds.                                              *)
(***************************************************************************)
EXTENDS Export

Fsa == INSTANCE FsaOps

VARIABLES
  todo,        \* the exported statements still to be compiled
  stage,       \* the next part of compile_export, or "done"
  subsets,     \* map0 of determinize: the states laid out, of each new one
  classes,     \* map0 of minimize
  stmt2start,  \* the start of each called statement laid out
  start2stmt,  \* the statement that starts at a state
  stmt2final, stmt2call_addr,  \* what the generators read, by statement
  n_errors,    \* exports that failed
  given,       \* compiled as load made it
  call_label,  \* one past the greatest label of a call
  merged       \* the exports in which a state a call may return from became
               \* one with a state it may not return from

exportVars == <<todo, stage, subsets, classes, stmt2start, start2stmt,
                stmt2final, stmt2call_addr, n_errors, given, call_label, merged>>
allVars == <<vars, exportVars>>

(* The calls left in the associations have labels below L.                 *)
AboveCalls(L) ==
  \A s \in Stmt : \A x \in References(s) : Kind(x) = "call" => call_label_base + x[3] < L

(* exports is the sequence of the exported statements.  call_label has     *)
(* grown with each call that was compiled, of those that complement has    *)
(* dropped as well.                                                        *)
InitExports(Inputs, exports) ==
  /\ InitFrom(Inputs, Head(exports))
  /\ todo = Tail(exports)
  /\ stage = "allocate"
  /\ subsets = <<>> /\ classes = <<>> /\ stmt2start = <<>> /\ start2stmt = <<>>
  /\ stmt2final = <<>> /\ stmt2call_addr = <<>>
  /\ n_errors = 0
  /\ given = compiled /\ merged = {}
  /\ call_label \in {L \in call_label_base .. collapse_label_base : AboveCalls(L)}

Lay == stage = "allocate" /\ Laying /\ UNCHANGED exportVars

(* anno.determinize, with the starts of the called statements.             *)
AssocAt(g) ==
  UNION {compiled[s].assoc[g - offset[s]] :
           s \in {s \in Allocated : g \in offset[s] .. offset[s] + Size(s) - 1}}

Determinize ==
  /\ stage = "allocate" /\ Done
  /\ LET A == [start |-> compiled[exporting].start, finals |-> compiled[exporting].finals, adj |-> adj]
         d == Fsa!DeterminizedFrom(A, starts)
     IN /\ compiled' = [compiled EXCEPT ![exporting] =
                          d.fsa @@ [assoc |-> Fsa!Joined([g \in DOMAIN adj |-> AssocAt(g)], d.members)]]
        /\ subsets' = d.members
  /\ stmt2start' = [s \in Allocated \cap used_as_call |-> offset[s] + compiled[s].start]
  /\ stage' = "follow"
  /\ UNCHANGED <<used_as_call, exporting, offset, allo, adj, starts, sub_final, frames>>
  /\ UNCHANGED <<todo, classes, start2stmt, stmt2final, stmt2call_addr, n_errors, given, call_label, merged>>

(* The end of compile_export: the next one begins with nothing laid out.   *)
Return(errors) ==
  /\ n_errors' = n_errors + errors
  /\ IF todo = <<>>
       THEN stage' = "done" /\ UNCHANGED <<todo, exporting, offset, allo, adj, starts, frames>>
       ELSE /\ stage' = "allocate" /\ exporting' = Head(todo) /\ todo' = Tail(todo)
            /\ offset' = [s \in Stmt |-> None] /\ allo' = 0 /\ adj' = <<>>
            /\ starts' = <<>> /\ frames' = <<>>
  /\ subsets' = <<>> /\ classes' = <<>> /\ stmt2start' = <<>> /\ start2stmt' = <<>>
  /\ sub_final' = {}
  /\ UNCHANGED <<used_as_call, given, call_label, merged>>

(* map0 of states to those they are made of: a new state is sub_final if   *)
(* one of these is.  Mutant: if all are.                                   *)
KeptIfAll(map0) == {u \in DOMAIN map0 : map0[u] \subseteq sub_final}

Kept(map0) == {u \in DOMAIN map0 : map0[u] \cap sub_final # {}}

Holding(map0, g) == {u \in DOMAIN map0 : g \in map0[u]}

(* start2stmt is filled in the order of an unordered_map: of the           *)
(* statements with the same start the last one stays.                      *)
Inverses(f) ==
  {g \in [{f[s] : s \in DOMAIN f} -> DOMAIN f] : \A u \in DOMAIN g : f[g[u]] = u}

(* A state from which a call may return becomes one with another: finals   *)
(* alone keep minimize from that.                                          *)
MixedFinals(map0) == \E v \in DOMAIN map0 : map0[v] \cap sub_final # {} /\ ~ map0[v] \subseteq sub_final

(* A start may be in one subset only.                                      *)
Ambiguous == \E s \in DOMAIN stmt2start : Cardinality(Holding(subsets, stmt2start[s])) > 1

FollowFails ==
  /\ stage = "follow" /\ Ambiguous
  /\ Return(1)
  /\ UNCHANGED <<compiled, stmt2final, stmt2call_addr>>

FollowStarts ==
  /\ stage = "follow" /\ ~ Ambiguous
  /\ stmt2start' = [s \in DOMAIN stmt2start |-> CHOOSE u \in Holding(subsets, stmt2start[s]) : TRUE]
  /\ start2stmt' \in Inverses(stmt2start')
  /\ sub_final' = Kept(subsets)
  /\ stage' = "minimize"
  /\ UNCHANGED <<compiled, used_as_call, exporting, offset, allo, adj, starts, frames>>
  /\ UNCHANGED <<todo, subsets, classes, stmt2final, stmt2call_addr, n_errors, given, call_label, merged>>

(* Mutant: the starts keep their numbers.                                  *)
RenumberedNever(s, map0) == stmt2start[s]

(* The start of s is renumbered if start2stmt names s.                     *)
Renumbered(s, map0) ==
  LET u == stmt2start[s]
  IN IF start2stmt[u] = s THEN CHOOSE v \in Holding(map0, u) : TRUE ELSE u

Minimize ==
  /\ stage = "minimize"
  /\ LET m == Fsa!Minimized(compiled[exporting])
     IN /\ compiled' = [compiled EXCEPT ![exporting] =
                          m.fsa @@ [assoc |-> Fsa!Joined(@.assoc, m.members)]]
        /\ classes' = m.members
        /\ stmt2start' = [s \in DOMAIN stmt2start |-> Renumbered(s, m.members)]
        /\ start2stmt' \in Inverses(stmt2start')
        /\ sub_final' = Kept(m.members)
        /\ merged' = IF MixedFinals(m.members) THEN merged \cup {exporting} ELSE merged
  /\ stage' = "calls"
  /\ UNCHANGED <<used_as_call, exporting, offset, allo, adj, starts, frames>>
  /\ UNCHANGED <<todo, subsets, stmt2final, stmt2call_addr, n_errors, given, call_label>>

(* has_call: an edge reaches over call_label_base, or begins at the label  *)
(* of a later call.                                                        *)
HasCall(u) ==
  \E e \in ToSet(compiled[exporting].adj[u]) :
    \/ e[1] <= call_label_base /\ call_label_base < e[2]
    \/ call_label_base < e[1] /\ e[1] < call_label
Coexisting(u) ==
  LET es == compiled[exporting].adj[u]
  IN HasCall(u) /\ (Len(es) # 1 \/ es[1][2] - es[1][1] > 1)

(* call_addr: where to go on, and where to return to.  Of several calls    *)
(* that start at a state any may be the last one.                          *)
NoAddress == <<None, None>>
CallsAt(u) == {t[1] : t \in {t \in compiled[exporting].assoc[u] : t[2] = "start" /\ Kind(t[1]) = "call"}}
Addresses(u) ==
  IF HasCall(u) /\ CallsAt(u) # {}
    THEN {<<stmt2start[Referred(x)], compiled[exporting].adj[u][1][3]>> : x \in CallsAt(u)}
    ELSE {NoAddress}

(* The states of S have got their addresses.                               *)
AddressesOf(S) ==
  {f \in [Local(exporting) -> UNION {Addresses(u) : u \in S} \cup {NoAddress}] :
     \A u \in DOMAIN f : IF u \in S THEN f[u] \in Addresses(u) ELSE f[u] = NoAddress}

(* The first state whose call coexists ends it: those before it are done.  *)
CallsFail ==
  /\ stage = "calls"
  /\ \E n \in Local(exporting) :
       /\ Coexisting(n) /\ \A u \in 0 .. n - 1 : ~ Coexisting(u)
       /\ \E addr \in AddressesOf(0 .. n - 1) :
            stmt2call_addr' = (exporting :> addr) @@ stmt2call_addr
  /\ stmt2final' = (exporting :> sub_final) @@ stmt2final
  /\ Return(1)
  /\ UNCHANGED compiled

CallAddrs ==
  /\ stage = "calls" /\ \A u \in Local(exporting) : ~ Coexisting(u)
  /\ \E addr \in AddressesOf(Local(exporting)) :
       stmt2call_addr' = (exporting :> addr) @@ stmt2call_addr
  /\ stmt2final' = (exporting :> sub_final) @@ stmt2final
  /\ stage' = "remove"
  /\ UNCHANGED <<compiled, used_as_call, exporting, offset, allo, adj, starts, sub_final, frames>>
  /\ UNCHANGED <<todo, subsets, classes, stmt2start, start2stmt, n_errors, given, call_label, merged>>

(* The labels from action_label_base on are cut off.                       *)
Letters(es) ==
  LET kept == SelectSeq(es, LAMBDA e : e[1] < action_label_base)
  IN [j \in DOMAIN kept |-> [kept[j] EXCEPT ![2] = IF action_label_base < @ THEN action_label_base ELSE @]]

RemoveLabels ==
  /\ stage = "remove"
  /\ compiled' = [compiled EXCEPT ![exporting].adj = [u \in DOMAIN @ |-> Letters(@[u])]]
  /\ Return(0)
  /\ UNCHANGED <<stmt2final, stmt2call_addr>>

Compiling ==
  Lay \/ Determinize \/ FollowFails \/ FollowStarts \/ Minimize \/ CallsFail \/ CallAddrs \/ RemoveLabels

-----------------------------------------------------------------------------
(* Two called statements start in the same state of the DFA.               *)
SameStart(s, d) == \E k \in DOMAIN subsets :
  {offset[s] + compiled[s].start, offset[d] + compiled[d].start} \subseteq subsets[k]

(* While the calls are given their addresses, stmt2start leads each of     *)
(* them to the class of states that holds the start of its statement,      *)
(* through two renumberings (673-695, 702-718): unless two called          *)
(* statements start in the same state, of which only one is renumbered.    *)
StartsFollowed ==
  stage \in {"calls", "remove"} =>
    \A s \in DOMAIN stmt2start :
      (\A d \in DOMAIN stmt2start \ {s} : ~ SameStart(s, d)) =>
        /\ stmt2start[s] \in DOMAIN classes
        /\ \E k \in classes[stmt2start[s]] : offset[s] + compiled[s].start \in subsets[k]
=============================================================================
