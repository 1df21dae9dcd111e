------------------------------- MODULE Loader -------------------------------
(***************************************************************************)
(* load of src/loader.cc up to the topological sort: the files are parsed  *)
(* on demand and kept in inode2module, which grows while it is iterated;   *)
(* every import, definition and use is registered, and names are resolved. *)
(*                                                                         *)
(* A file is the list of statements the parser makes of it, or a number of *)
(* errors.  An import names the inode its path leads to, None when the     *)
(* path cannot be opened.  A statement is known by its module and position *)
(* <<m, k>>, a use in its expression by those and its own: <<m, k, n>>.    *)
(* cpp statements do nothing here, and AB is left out.                     *)
(***************************************************************************)
EXTENDS Integers, FiniteSets, Sequences, SequencesExt

CONSTANTS Inode,     \* keys of inode2module, in the order of the map
          Main,      \* the file load is called with
          Ident,     \* names of statements
          Qualifier  \* names of qualified imports

None == 0
Unqualified == "unqualified"
Failed == "failed"
Linked == "linked"

ASSUME LoaderAssumption ==
  /\ Inode \subseteq Nat \ {None} /\ IsFiniteSet(Inode) /\ Main \in Inode
  /\ Unqualified \notin Qualifier

VARIABLES
  files,         \* what the parser makes of each file
  inode2module,  \* the modules loaded so far, by inode
  n_errors,
  pc,            \* "load"; "import" and "use", the two loops over
                 \* inode2module; "solely"; Failed or Linked in the end
  it,            \* iterator of the loop; None stands for end()
  k,             \* statement of module `it' to visit next, 0 before any
  at,            \* use to visit next in that statement
  old,           \* n_errors when the visit of the module started
  done,          \* no module was processed in this pass
  define_stmt,   \* definition, macro or action each resolved use is bound to
  depended_by,   \* of each definition the statements that embed it, once
                 \* for each use
  used_as        \* used_as_call, _collapse and _embed: of each definition
                 \* the uses; <<>> stands for a key that is not there

vars == <<files, inode2module, n_errors, pc, it, k, at, old, done,
          define_stmt, depended_by, used_as>>

Kinds == {"call", "collapse", "embed"}
Use == [kind : Kinds \cup {"action"}, qualified : Qualifier \cup {Unqualified}, ident : Ident]
Stmts == [kind : {"import"}, target : Inode \cup {None}, qualified : Qualifier \cup {Unqualified}]
         \cup [kind : {"define"}, ident : Ident, uses : Seq(Use)]
         \cup [kind : {"macro", "action"}, ident : Ident]
File == [errors : Nat, stmts : Seq(Stmts)]

(* A map after m[x] = y, and after m.emplace(x, y).                        *)
Put(m, x, y) == [z \in DOMAIN m \cup {x} |-> IF z = x THEN y ELSE m[z]]
Emplaced(m, x, y) == IF x \in DOMAIN m THEN m ELSE Put(m, x, y)

(* A module as it enters the map; one that does not parse has no statement *)
(* list and is not processed.                                              *)
NewModule(i) ==
  [status |-> IF files[i].errors > 0 THEN "BAD" ELSE "UNPROCESSED",
   defined |-> <<>>, macro |-> <<>>, defined_action |-> <<>>,
   qualified_import |-> <<>>, unqualified_import |-> <<>>]

(* load_module: a file already loaded is not read again.                   *)
Load(i) == Emplaced(inode2module, i, NewModule(i))
LoadErrors(i) ==
  IF i = None THEN 1 ELSE IF i \in DOMAIN inode2module THEN 0 ELSE files[i].errors

-----------------------------------------------------------------------------
InitFrom(Inputs) ==
  /\ files \in Inputs
  /\ inode2module = <<>>
  /\ n_errors = 0
  /\ pc = "load" /\ it = None /\ k = 0 /\ at = 0 /\ old = 0 /\ done = TRUE
  /\ define_stmt = <<>>
  /\ depended_by = <<>>
  /\ used_as = [kind \in Kinds |-> <<>>]

LoadMain ==
  /\ pc = "load"
  /\ inode2module' = Load(Main)
  /\ n_errors' = LoadErrors(Main)
  /\ pc' = "import" /\ it' = Main /\ done' = TRUE
  /\ UNCHANGED <<files, k, at, old, define_stmt, depended_by, used_as>>

(* The key after i in the map as it is now, and the first key.             *)
After(i) ==
  LET later == {n \in DOMAIN inode2module : n > i}
  IN IF later = {} THEN None ELSE CHOOSE n \in later : \A o \in later : n <= o
First == After(None)

toplevel == IF files[it].errors > 0 THEN <<>> ELSE files[it].stmts
AtStmt == it # None /\ k \in 1 .. Len(toplevel)
s == toplevel[k]
mod == inode2module[it]
Pos == <<it, k>>

(* The first loop visits the modules not processed, the second one those   *)
(* that are good.                                                          *)
Wanted == IF pc = "import" THEN "UNPROCESSED" ELSE "GOOD"
AtModule == pc \in {"import", "use"} /\ it # None /\ k = 0

Enter ==
  /\ AtModule /\ mod.status = Wanted
  /\ IF pc = "import"
       THEN /\ inode2module' = [inode2module EXCEPT ![it].status = "GOOD"]
            /\ done' = FALSE /\ old' = n_errors
       ELSE UNCHANGED <<inode2module, done, old>>
  /\ k' = 1 /\ at' = 1
  /\ UNCHANGED <<files, n_errors, pc, it, define_stmt, depended_by, used_as>>

Skip ==
  /\ AtModule /\ mod.status # Wanted
  /\ it' = After(it)
  /\ UNCHANGED <<files, inode2module, n_errors, pc, k, at, old, done,
                 define_stmt, depended_by, used_as>>

(* ModuleImportDef: the statement is registered in its module.             *)
Redefined(name) == name \in DOMAIN mod.defined \cup DOMAIN mod.macro

DefAction ==
  /\ pc = "import" /\ AtStmt /\ s.kind = "action"
  /\ n_errors' = n_errors + (IF s.ident \in DOMAIN mod.defined_action THEN 1 ELSE 0)
  /\ inode2module' = [inode2module EXCEPT ![it].defined_action = Put(@, s.ident, Pos)]
  /\ k' = k + 1
  /\ UNCHANGED <<files, pc, it, at, old, done, define_stmt, depended_by, used_as>>

DefMacro ==
  /\ pc = "import" /\ AtStmt /\ s.kind = "macro"
  /\ IF Redefined(s.ident)
       THEN n_errors' = n_errors + 1 /\ UNCHANGED inode2module
       ELSE /\ inode2module' = [inode2module EXCEPT ![it].macro = Put(@, s.ident, Pos)]
            /\ UNCHANGED n_errors
  /\ k' = k + 1
  /\ UNCHANGED <<files, pc, it, at, old, done, define_stmt, depended_by, used_as>>

Def ==
  /\ pc = "import" /\ AtStmt /\ s.kind = "define"
  /\ IF Redefined(s.ident)
       THEN n_errors' = n_errors + 1 /\ UNCHANGED <<inode2module, depended_by, used_as>>
       ELSE /\ inode2module' = [inode2module EXCEPT ![it].defined = Put(@, s.ident, Pos)]
            /\ depended_by' = Put(depended_by, Pos, <<>>)
            /\ used_as' = [kind \in Kinds |-> Put(used_as[kind], Pos, <<>>)]
            /\ UNCHANGED n_errors
  /\ k' = k + 1
  /\ UNCHANGED <<files, pc, it, at, old, done, define_stmt>>

(* Mutants: a module imported twice is listed twice; the first import of   *)
(* a qualifier stays.                                                      *)
ImportedTwice(m) ==
  IF s.qualified = Unqualified
    THEN [m EXCEPT !.unqualified_import = Append(@, s.target)]
    ELSE [m EXCEPT !.qualified_import = Put(@, s.qualified, s.target)]
ImportedFirst(m) ==
  IF s.qualified = Unqualified
    THEN [m EXCEPT !.unqualified_import = IF Contains(@, s.target) THEN @ ELSE Append(@, s.target)]
    ELSE [m EXCEPT !.qualified_import = Emplaced(@, s.qualified, s.target)]

Imported(m) ==
  IF s.qualified # Unqualified
    THEN [m EXCEPT !.qualified_import = Put(@, s.qualified, s.target)]
    ELSE [m EXCEPT !.unqualified_import = IF Contains(@, s.target) THEN @ ELSE Append(@, s.target)]

(* A path that cannot be opened counts twice: in load_module and here.     *)
Import ==
  /\ pc = "import" /\ AtStmt /\ s.kind = "import"
  /\ IF s.target = None
       THEN n_errors' = n_errors + LoadErrors(None) + 1 /\ UNCHANGED inode2module
       ELSE /\ n_errors' = n_errors + LoadErrors(s.target)
            /\ inode2module' = [Load(s.target) EXCEPT ![it] = Imported(@)]
  /\ k' = k + 1
  /\ UNCHANGED <<files, pc, it, at, old, done, define_stmt, depended_by, used_as>>

(* The visit of a module ends; after the imports its status is final.      *)
Leave ==
  /\ pc \in {"import", "use"} /\ it # None /\ k = Len(toplevel) + 1
  /\ inode2module' =
       IF pc = "import"
         THEN [inode2module EXCEPT ![it].status = IF old = n_errors THEN "GOOD" ELSE "BAD"]
         ELSE inode2module
  /\ it' = After(it) /\ k' = 0
  /\ UNCHANGED <<files, n_errors, pc, at, old, done, define_stmt, depended_by, used_as>>

(* Mutants: the loop over the map is not repeated; it is until there is no *)
(* error.                                                                  *)
LastPassFirst == TRUE
LastPassClean == done /\ n_errors = 0

LastPass == done

(* The end of a pass: again until no module was processed; then load gives *)
(* up if there are errors.                                                 *)
EndImports ==
  /\ pc = "import" /\ it = None
  /\ pc' = IF ~ LastPass THEN pc ELSE IF n_errors > 0 THEN Failed ELSE "use"
  /\ it' = First /\ done' = TRUE
  /\ UNCHANGED <<files, inode2module, n_errors, k, at, old, define_stmt, depended_by, used_as>>

-----------------------------------------------------------------------------
(* resolve and resolve_action: the modules a name is looked up in, the     *)
(* tables it is looked up in there, and where it is found.  The macros of  *)
(* a qualified import are not seen.                                        *)
Scopes(u) ==
  IF u.qualified = Unqualified THEN <<it>> \o mod.unqualified_import
  ELSE IF u.qualified \in DOMAIN mod.qualified_import
    THEN <<mod.qualified_import[u.qualified]>> ELSE <<>>
Tables(u) ==
  IF u.kind = "action" THEN {"defined_action"}
  ELSE IF u.qualified = Unqualified THEN {"macro", "defined"} ELSE {"defined"}
Hits(u) == {h \in (DOMAIN Scopes(u)) \X Tables(u) :
              u.ident \in DOMAIN inode2module[Scopes(u)[h[1]]][h[2]]}
Hit(u) == CHOOSE h \in Hits(u) : TRUE
Definition(u) == inode2module[Scopes(u)[Hit(u)[1]]][Hit(u)[2]][u.ident]

(* A use is in error when it is undefined, ambiguous, or calls or          *)
(* collapses a macro.                                                      *)
Single(S) == \E x \in S : S = {x}
Misused(u) ==
  \/ ~ Single(Hits(u))
  \/ u.kind \in {"call", "collapse"} /\ \E h \in Hits(u) : h[2] = "macro"

(* Mutant: a collapse is recorded with the embeddings.                     *)
RecordMixed(kind) == IF kind = "collapse" THEN "embed" ELSE kind

RecordOf(kind) == kind

(* ModuleUse on a use in a define statement: it is resolved and, if it is  *)
(* of a definition, recorded, an embedding also with the statement in      *)
(* depended_by.                                                            *)
UseExpr ==
  /\ pc = "use" /\ AtStmt /\ s.kind = "define" /\ at \in DOMAIN s.uses
  /\ LET u == s.uses[at]
         d == Definition(u)
         here == <<it, k, at>>
     IN IF Misused(u)
          THEN n_errors' = n_errors + 1 /\ UNCHANGED <<define_stmt, depended_by, used_as>>
          ELSE /\ define_stmt' = Put(define_stmt, here, d)
               /\ IF Hit(u)[2] = "defined"
                    THEN used_as' = [used_as EXCEPT ![RecordOf(u.kind)][d] = Append(@, here)]
                    ELSE UNCHANGED used_as
               /\ IF Hit(u)[2] = "defined" /\ u.kind = "embed"
                    THEN depended_by' = [depended_by EXCEPT ![d] = Append(@, Pos)]
                    ELSE UNCHANGED depended_by
               /\ UNCHANGED n_errors
  /\ at' = at + 1
  /\ UNCHANGED <<files, inode2module, pc, it, k, old, done>>

UseDone ==
  /\ pc = "use" /\ AtStmt
  /\ s.kind = "define" => at > Len(s.uses)
  /\ k' = k + 1 /\ at' = 1
  /\ UNCHANGED <<files, inode2module, n_errors, pc, it, old, done,
                 define_stmt, depended_by, used_as>>

EndUses ==
  /\ pc = "use" /\ it = None
  /\ pc' = IF n_errors > 0 THEN Failed ELSE "solely"
  /\ UNCHANGED <<files, inode2module, n_errors, it, k, at, old, done,
                 define_stmt, depended_by, used_as>>

(* The merge of the used_as maps reports the statements used in more than  *)
(* one way; nothing but the output depends on it.                          *)
CheckSolely ==
  /\ pc = "solely"
  /\ pc' = Linked
  /\ UNCHANGED <<files, inode2module, n_errors, it, k, at, old, done,
                 define_stmt, depended_by, used_as>>

Finished == pc \in {Failed, Linked} /\ UNCHANGED vars

Step ==
  \/ LoadMain \/ Enter \/ Skip \/ DefAction \/ DefMacro \/ Def \/ Import \/ Leave
  \/ EndImports \/ UseExpr \/ UseDone \/ EndUses \/ CheckSolely

Next == Step \/ Finished

Spec == InitFrom([Inode -> File]) /\ [][Next]_vars

-----------------------------------------------------------------------------
(* What the text of the files says.                                        *)
Text(m) == IF files[m].errors > 0 THEN <<>> ELSE files[m].stmts
Of(kinds, m) == {p \in DOMAIN Text(m) : Text(m)[p].kind \in kinds}
Targets(m) == {Text(m)[p].target : p \in Of({"import"}, m)} \ {None}

(* The files needed: the least set with the main file that imports no      *)
(* other one.                                                              *)
Closed(S) == \A m \in S : Targets(m) \subseteq S
Reached == {i \in Inode : \A S \in SUBSET Inode : Main \in S /\ Closed(S) => i \in S}

Definitions == UNION {{m} \X Of({"define"}, m) : m \in Reached}
Uses == UNION {{<<d[1], d[2], n>> : n \in DOMAIN Text(d[1])[d[2]].uses} : d \in Definitions}
UseAt(u) == Text(u[1])[u[2]].uses[u[3]]

(* The statements a use may mean.  Of two imports with a qualifier the     *)
(* second one counts; macros are not seen through a qualifier.             *)
Importing(m, q) == {p \in Of({"import"}, m) : Text(m)[p].qualified = q}
Meant(m, u) ==
  LET kinds == IF u.kind = "action" THEN {"action"}
               ELSE IF u.qualified = Unqualified THEN {"define", "macro"} ELSE {"define"}
      from == IF u.qualified = Unqualified
                THEN {m} \cup {Text(m)[p].target : p \in Importing(m, Unqualified)}
                ELSE {Text(m)[p].target : p \in {x \in Importing(m, u.qualified) :
                        \A y \in Importing(m, u.qualified) : y <= x}}
  IN UNION {{f} \X {p \in Of(kinds, f) : Text(f)[p].ident = u.ident} : f \in from}

(* A file that imports itself sees each of its statements twice.           *)
SeenTwice(m, u) ==
  /\ u.qualified = Unqualified
  /\ \E p \in Importing(m, Unqualified) : Text(m)[p].target = m
  /\ \E d \in Meant(m, u) : d[1] = m

FaultyUse(m, u) ==
  \/ ~ Single(Meant(m, u))
  \/ SeenTwice(m, u)
  \/ u.kind \in {"call", "collapse"} /\ \E d \in Meant(m, u) : Text(d[1])[d[2]].kind = "macro"

SameName(kinds, m) ==
  \E p, q \in Of(kinds, m) : p # q /\ Text(m)[p].ident = Text(m)[q].ident
FaultyText(m) ==
  \/ files[m].errors > 0
  \/ \E p \in Of({"import"}, m) : Text(m)[p].target = None
  \/ SameName({"define", "macro"}, m)
  \/ SameName({"action"}, m)

-----------------------------------------------------------------------------
(* Whatever the order of the inodes, exactly the files reached from the    *)
(* main file are loaded, all of them have been visited when the uses are   *)
(* looked at, and every statement is found under its name (478-496).       *)
ReachedVisited ==
  pc \notin {"load", "import", Failed} =>
    /\ DOMAIN inode2module = Reached
    /\ \A m \in Reached : inode2module[m].status = "GOOD"
    /\ \A d \in Definitions : inode2module[d[1]].defined[Text(d[1])[d[2]].ident] = d

(* load gives up iff something is wrong in the text of the files reached.  *)
Faulty ==
  \/ \E m \in Reached : FaultyText(m)
  \/ \E u \in Uses : FaultyUse(u[1], UseAt(u))
ErrorsIffFaulty ==
  /\ pc = Failed => Faulty
  /\ pc = Linked => ~ Faulty

(* When it does not, every use is bound to the one statement it can mean.  *)
BoundUniquely ==
  pc = Linked =>
    /\ DOMAIN define_stmt = Uses
    /\ \A u \in Uses : Meant(u[1], UseAt(u)) = {define_stmt[u]}

(* Each use is recorded once, with the definition it is bound to, and      *)
(* depended_by has the statements that embed a definition: the input of    *)
(* the topological sort, of compile and of compile_export.                 *)
UsesRecorded ==
  pc = Linked =>
    /\ DOMAIN depended_by = Definitions
    /\ \A kind \in Kinds, d \in Definitions :
         LET users == {u \in Uses : UseAt(u).kind = kind /\ define_stmt[u] = d}
         IN /\ ToSet(used_as[kind][d]) = users
            /\ Len(used_as[kind][d]) = Cardinality(users)
            /\ kind = "embed" =>
                 depended_by[d] = [n \in DOMAIN used_as[kind][d] |->
                                      <<used_as[kind][d][n][1], used_as[kind][d][n][2]>>]

(* The comment of loader.cc 522 says of the merge that it ensures that a   *)
(* statement is used in only one of the three ways.                        *)
UsedSolely ==
  pc = Linked =>
    \A d \in Definitions : Cardinality({kind \in Kinds : used_as[kind][d] # <<>>}) <= 1

(* load comes to an end, although files import each other in circles.      *)
Termination == <>(pc \in {Failed, Linked})
=============================================================================
