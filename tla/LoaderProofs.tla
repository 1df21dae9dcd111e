---------------------------- MODULE LoaderProofs ----------------------------
(***************************************************************************)
(* For every set of files, however they import each other and whatever the *)
(* order of their inodes: load visits exactly the files reached from the   *)
(* main one, gives up iff their text is faulty, and otherwise binds every  *)
(* use to the one statement it can mean and records it once.               *)
(***************************************************************************)
EXTENDS Loader, LeastLemmas, SequenceTheorems

-----------------------------------------------------------------------------
Place == Inode \X (Nat \ {0})
UsePlace == Inode \X (Nat \ {0}) \X (Nat \ {0})
Maps(D, R) == UNION {[X -> R] : X \in SUBSET D}

Module ==
  [status : {"UNPROCESSED", "GOOD", "BAD"},
   defined : Maps(Ident, Place), macro : Maps(Ident, Place), defined_action : Maps(Ident, Place),
   qualified_import : Maps(Qualifier, Inode), unqualified_import : Seq(Inode)]

TypeOK ==
  /\ files \in [Inode -> File]
  /\ inode2module \in Maps(Inode, Module)
  /\ n_errors \in Nat
  /\ pc \in {"load", "import", "use", "solely", Failed, Linked}
  /\ it \in Inode \cup {None}
  /\ k \in Nat /\ at \in Nat /\ old \in Nat /\ done \in BOOLEAN
  /\ define_stmt \in Maps(UsePlace, Place)
  /\ depended_by \in Maps(Place, Seq(Place))
  /\ used_as \in [Kinds -> Maps(Place, Seq(UsePlace))]

Loading == pc \in {"load", "import"}
Using == pc \in {"use", "solely", Linked}

(* Where the two loops are: inside a module that is marked good, and not   *)
(* past its last statement.                                                *)
ControlInv ==
  /\ pc = "load" => DOMAIN inode2module = {} /\ n_errors = 0 /\ k = 0
  /\ pc # "load" => Main \in DOMAIN inode2module
  /\ pc \in {"import", "use"} => it \in DOMAIN inode2module \cup {None}
  /\ pc \in {"import", "use"} /\ k > 0 =>
       it # None /\ inode2module[it].status = "GOOD" /\ k <= Len(Text(it)) + 1 /\ at > 0
  /\ pc = "import" /\ k > 0 => ~ done /\ old <= n_errors
  /\ it = None => k = 0
  /\ pc \in {"solely", Linked} => n_errors = 0 /\ it = None
  /\ pc = Failed => n_errors > 0

(* How many statements of a module ModuleImportDef has visited.            *)
Seen(m) ==
  IF inode2module[m].status = "UNPROCESSED" THEN 0
  ELSE IF pc = "import" /\ m = it /\ k > 0 THEN k - 1 ELSE Len(Text(m))

(* What holds of a module M, the text T of file m, of which the first n    *)
(* statements have been visited.  The statements of some kinds among them: *)
Among(T, n, kinds) == {p \in 1 .. Len(T) : p <= n /\ T[p].kind \in kinds}

(* A table holds only statements of its kind, by name.                     *)
Holds(t, T, m, n, kind) ==
  \A x \in DOMAIN t : /\ t[x][1] = m /\ t[x][2] \in Among(T, n, {kind})
                      /\ T[t[x][2]].ident = x

TablesRight(M, T, m, n) ==
  /\ Holds(M.defined, T, m, n, "define")
  /\ Holds(M.macro, T, m, n, "macro")
  /\ Holds(M.defined_action, T, m, n, "action")
  /\ \A p \in Among(T, n, {"define", "macro"}) : T[p].ident \in DOMAIN M.defined \cup DOMAIN M.macro
  /\ \A p \in Among(T, n, {"action"}) : T[p].ident \in DOMAIN M.defined_action
  /\ DOMAIN M.defined \cap DOMAIN M.macro = {}

(* The imports name modules of the map, whose keys are D: of two with one  *)
(* qualifier the later one, and each unqualified one once.                 *)
ImportsIn(T, n) == {p \in Among(T, n, {"import"}) : T[p].target # None}

ImportsRight(M, T, n, D) ==
  /\ \A x \in DOMAIN M.qualified_import :
       \E p \in ImportsIn(T, n) :
         /\ T[p].qualified = x /\ M.qualified_import[x] = T[p].target
         /\ \A y \in ImportsIn(T, n) : T[y].qualified = x => y <= p
  /\ \A j \in 1 .. Len(M.unqualified_import) :
       \E p \in ImportsIn(T, n) :
         T[p].qualified = Unqualified /\ M.unqualified_import[j] = T[p].target
  /\ \A i, j \in 1 .. Len(M.unqualified_import) :
       M.unqualified_import[i] = M.unqualified_import[j] => i = j
  /\ \A p \in ImportsIn(T, n) :
       /\ T[p].target \in D
       /\ IF T[p].qualified = Unqualified
            THEN \E j \in 1 .. Len(M.unqualified_import) : M.unqualified_import[j] = T[p].target
            ELSE T[p].qualified \in DOMAIN M.qualified_import

(* Nothing is wrong in the statements visited.                             *)
Distinct(T, n, kinds) ==
  \A p, q \in Among(T, n, kinds) : T[p].ident = T[q].ident => p = q
Clean(T, n) ==
  /\ \A p \in Among(T, n, {"import"}) : T[p].target # None
  /\ Distinct(T, n, {"define", "macro"})
  /\ Distinct(T, n, {"action"})

ImportInv ==
  /\ \A m \in DOMAIN inode2module :
       /\ TablesRight(inode2module[m], Text(m), m, Seen(m))
       /\ ImportsRight(inode2module[m], Text(m), Seen(m), DOMAIN inode2module)
  /\ n_errors = 0 \/ Using =>
       \A m \in DOMAIN inode2module :
         Clean(Text(m), Seen(m)) /\ files[m].errors = 0 /\ inode2module[m].status # "BAD"

(* The maps of the uses have the registered definitions as keys.           *)
KeysInv ==
  /\ \A m \in DOMAIN inode2module : \A x \in DOMAIN inode2module[m].defined :
       inode2module[m].defined[x] \in DOMAIN depended_by
  /\ \A d \in DOMAIN depended_by :
       /\ d[1] \in DOMAIN inode2module
       /\ \E x \in DOMAIN inode2module[d[1]].defined : inode2module[d[1]].defined[x] = d
  /\ \A kind \in Kinds : DOMAIN used_as[kind] = DOMAIN depended_by
  /\ Loading =>
       /\ DOMAIN define_stmt = {}
       /\ \A d \in DOMAIN depended_by :
            depended_by[d] = <<>> /\ \A kind \in Kinds : used_as[kind][d] = <<>>

(* Only reached files are loaded; a pass that processed none has found all *)
(* modules it has passed processed, and then they are all.                 *)
ReachInv ==
  /\ DOMAIN inode2module \subseteq Reached
  /\ pc = "import" /\ done =>
       \A m \in DOMAIN inode2module : it = None \/ m < it => inode2module[m].status # "UNPROCESSED"
  /\ Using => /\ Reached \subseteq DOMAIN inode2module
              /\ \A m \in DOMAIN inode2module : inode2module[m].status = "GOOD"

FaultInv == n_errors > 0 => Faulty

(* The uses the second loop has visited.                                   *)
UseVisited(u) ==
  \/ it = None \/ u[1] < it
  \/ u[1] = it /\ k > 0 /\ (u[2] < k \/ (u[2] = k /\ u[3] < at))

BoundInv ==
  Using =>
    /\ DOMAIN define_stmt = {u \in Uses : UseVisited(u) /\ ~ FaultyUse(u[1], UseAt(u))}
    /\ \A u \in DOMAIN define_stmt : Meant(u[1], UseAt(u)) = {define_stmt[u]}
    /\ n_errors = 0 => \A u \in Uses : UseVisited(u) => ~ FaultyUse(u[1], UseAt(u))

RecordInv ==
  Using =>
    \A d \in DOMAIN depended_by, kind \in Kinds :
      /\ \A i, j \in 1 .. Len(used_as[kind][d]) : used_as[kind][d][i] = used_as[kind][d][j] => i = j
      /\ \A i \in 1 .. Len(used_as[kind][d]) :
           LET u == used_as[kind][d][i]
           IN u \in DOMAIN define_stmt /\ UseAt(u).kind = kind /\ define_stmt[u] = d
      /\ \A u \in DOMAIN define_stmt : UseAt(u).kind = kind /\ define_stmt[u] = d =>
           \E i \in 1 .. Len(used_as[kind][d]) : used_as[kind][d][i] = u
      /\ kind = "embed" =>
           /\ Len(depended_by[d]) = Len(used_as[kind][d])
           /\ \A i \in 1 .. Len(used_as[kind][d]) :
                depended_by[d][i] = <<used_as[kind][d][i][1], used_as[kind][d][i][2]>>

IInv == /\ TypeOK /\ ControlInv /\ ImportInv /\ KeysInv /\ ReachInv /\ FaultInv
        /\ BoundInv /\ RecordInv

-----------------------------------------------------------------------------
LEMMA MapFacts ==
  ASSUME NEW D, NEW R, NEW m
  PROVE  m \in Maps(D, R) <=> /\ m = [x \in DOMAIN m |-> m[x]]
                              /\ DOMAIN m \subseteq D
                              /\ \A x \in DOMAIN m : m[x] \in R
<1>1. ASSUME m \in Maps(D, R)
      PROVE  m = [x \in DOMAIN m |-> m[x]] /\ DOMAIN m \subseteq D /\ \A x \in DOMAIN m : m[x] \in R
  <2>1. PICK X \in SUBSET D : m \in [X -> R]
    BY <1>1 DEF Maps
  <2>. QED BY <2>1
<1>2. ASSUME m = [x \in DOMAIN m |-> m[x]], DOMAIN m \subseteq D, \A x \in DOMAIN m : m[x] \in R
      PROVE  m \in Maps(D, R)
  <2>1. m \in [DOMAIN m -> R]
    BY <1>2
  <2>. QED BY <1>2, <2>1 DEF Maps
<1>. QED BY <1>1, <1>2

(* Setting and entering a key.                                             *)
LEMMA PutFacts ==
  ASSUME NEW m, NEW x, NEW y
  PROVE  /\ DOMAIN Put(m, x, y) = DOMAIN m \cup {x}
         /\ Put(m, x, y)[x] = y
         /\ \A z \in DOMAIN m : z # x => Put(m, x, y)[z] = m[z]
BY DEF Put

LEMMA PutType ==
  ASSUME NEW D, NEW R, NEW m \in Maps(D, R), NEW x \in D, NEW y \in R
  PROVE  Put(m, x, y) \in Maps(D, R)
<1>1. m = [z \in DOMAIN m |-> m[z]] /\ DOMAIN m \subseteq D /\ \A z \in DOMAIN m : m[z] \in R
  BY MapFacts
<1>2. Put(m, x, y) \in [DOMAIN m \cup {x} -> R]
  BY <1>1 DEF Put
<1>3. DOMAIN m \cup {x} \in SUBSET D
  BY <1>1
<1>. QED BY <1>2, <1>3 DEF Maps

(* The empty map the code starts with.                                     *)
LEMMA EmptyMap ==
  ASSUME NEW D, NEW R
  PROVE  <<>> \in Maps(D, R) /\ DOMAIN <<>> = {}
<1>1. <<>> \in [{} -> R] /\ {} \in SUBSET D
  OBVIOUS
<1>. QED BY <1>1 DEF Maps

LEMMA StmtFacts ==
  ASSUME NEW x \in Stmts
  PROVE  /\ x.kind \in {"import", "define", "macro", "action"}
         /\ x.kind = "import" => /\ x.target \in Inode \cup {None}
                                 /\ x.qualified \in Qualifier \cup {Unqualified}
         /\ x.kind # "import" => x.ident \in Ident
         /\ x.kind = "define" => x.uses \in Seq(Use)
BY DEF Stmts

LEMMA TextFacts ==
  ASSUME TypeOK, NEW m \in Inode
  PROVE  /\ Text(m) \in Seq(Stmts) /\ Len(Text(m)) \in Nat
         /\ DOMAIN Text(m) = 1 .. Len(Text(m))
         /\ \A p \in 1 .. Len(Text(m)) : Text(m)[p] \in Stmts
         /\ files[m].errors \in Nat
<1>1. files[m] \in File
  BY DEF TypeOK
<1>2. files[m].errors \in Nat /\ files[m].stmts \in Seq(Stmts)
  BY <1>1 DEF File
<1>3. Text(m) \in Seq(Stmts)
  BY <1>2 DEF Text
<1>. QED BY <1>2, <1>3

(* What the text says does not change.                                     *)
LEMMA SameFiles ==
  ASSUME files' = files
  PROVE  /\ \A m : Text(m)' = Text(m)
         /\ Reached' = Reached /\ Definitions' = Definitions /\ Uses' = Uses
         /\ \A u : UseAt(u)' = UseAt(u)
         /\ \A m, u : Meant(m, u)' = Meant(m, u)
         /\ \A m, u : FaultyUse(m, u)' <=> FaultyUse(m, u)
         /\ Faulty' <=> Faulty
<1>1. \A m : Text(m)' = Text(m)
  BY DEF Text
<1>2. \A kinds, m : Of(kinds, m)' = Of(kinds, m)
  BY <1>1 DEF Of
<1>3. \A m : Targets(m)' = Targets(m)
  BY <1>1, <1>2 DEF Targets
<1>4. Reached' = Reached
  BY <1>3 DEF Reached, Closed
<1>5. Definitions' = Definitions
  BY <1>2, <1>4 DEF Definitions
<1>6. Uses' = Uses
  BY <1>1, <1>5 DEF Uses
<1>7. \A u : UseAt(u)' = UseAt(u)
  BY <1>1 DEF UseAt
<1>8. \A m, q : Importing(m, q)' = Importing(m, q)
  BY <1>1, <1>2 DEF Importing
<1>9. \A m, u : Meant(m, u)' = Meant(m, u)
  BY <1>1, <1>2, <1>8 DEF Meant
<1>10. \A m, u : SeenTwice(m, u)' <=> SeenTwice(m, u)
  BY <1>1, <1>8, <1>9 DEF SeenTwice
<1>11. \A m, u : FaultyUse(m, u)' <=> FaultyUse(m, u)
  BY <1>1, <1>9, <1>10 DEF FaultyUse, Single
<1>12. \A kinds, m : SameName(kinds, m)' <=> SameName(kinds, m)
  BY <1>1, <1>2 DEF SameName
<1>13. \A m : FaultyText(m)' <=> FaultyText(m)
  BY <1>1, <1>2, <1>12 DEF FaultyText
<1>14. Faulty' <=> Faulty
  BY <1>4, <1>6, <1>7, <1>11, <1>13 DEF Faulty
<1>. QED BY <1>1, <1>4, <1>5, <1>6, <1>7, <1>9, <1>11, <1>14

(* ++it.                                                                   *)
LEMMA AfterFacts ==
  ASSUME TypeOK, NEW i \in Nat
  PROVE  /\ After(i) \in DOMAIN inode2module \cup {None}
         /\ After(i) = None => \A m \in DOMAIN inode2module : m <= i
         /\ After(i) # None => /\ After(i) > i
                               /\ \A m \in DOMAIN inode2module : m < After(i) => m <= i
<1>1. DOMAIN inode2module \subseteq Inode
  BY MapFacts DEF TypeOK
<1>2. DOMAIN inode2module \subseteq Nat /\ None \notin DOMAIN inode2module
  BY <1>1, LoaderAssumption
<1>. DEFINE later == {n \in DOMAIN inode2module : n > i}
<1>3. CASE later = {}
  BY <1>2, <1>3 DEF After
<1>4. CASE later # {}
  <2>1. later \in SUBSET Nat
    BY <1>2
  <2>2. Min(later) \in later /\ \A x \in later : Min(later) <= x
    BY <1>4, <2>1, MinProps
  <2>3. After(i) = Min(later)
    BY <1>4 DEF After, Min
  <2>. QED BY <1>2, <2>1, <2>2, <2>3
<1>. QED BY <1>3, <1>4

-----------------------------------------------------------------------------
(* The next statement is visited.                                          *)
LEMMA AmongNext ==
  ASSUME NEW T \in Seq(Stmts), NEW n \in Nat, n + 1 <= Len(T), NEW kinds
  PROVE  /\ T[n + 1].kind \in kinds => Among(T, n + 1, kinds) = Among(T, n, kinds) \cup {n + 1}
         /\ T[n + 1].kind \notin kinds => Among(T, n + 1, kinds) = Among(T, n, kinds)
<1>1. Len(T) \in Nat
  OBVIOUS
<1>2. \A p \in 1 .. Len(T) : p <= n + 1 <=> p <= n \/ p = n + 1
  BY <1>1
<1>. QED BY <1>1, <1>2 DEF Among

(* Statements that are no definitions leave the tables right.              *)
LEMMA TablesImport ==
  ASSUME NEW T \in Seq(Stmts), NEW n \in Nat, n + 1 <= Len(T), T[n + 1].kind = "import",
         NEW M, NEW M2, NEW m, TablesRight(M, T, m, n),
         M2.defined = M.defined, M2.macro = M.macro, M2.defined_action = M.defined_action
  PROVE  TablesRight(M2, T, m, n + 1)
<1>1. /\ Among(T, n + 1, {"define"}) = Among(T, n, {"define"})
      /\ Among(T, n + 1, {"macro"}) = Among(T, n, {"macro"})
      /\ Among(T, n + 1, {"action"}) = Among(T, n, {"action"})
      /\ Among(T, n + 1, {"define", "macro"}) = Among(T, n, {"define", "macro"})
  BY AmongNext
<1>. QED BY <1>1 DEF TablesRight, Holds

LEMMA HoldsPut ==
  ASSUME NEW T \in Seq(Stmts), NEW n \in Nat, n + 1 <= Len(T), NEW m, NEW kind, NEW t,
         T[n + 1].kind = kind, Holds(t, T, m, n, kind)
  PROVE  Holds(Put(t, T[n + 1].ident, <<m, n + 1>>), T, m, n + 1, kind)
<1>1. Among(T, n + 1, {kind}) = Among(T, n, {kind}) \cup {n + 1}
  BY AmongNext
<1>2. PICK t2 : t2 = Put(t, T[n + 1].ident, <<m, n + 1>>)
  OBVIOUS
<1>3. /\ DOMAIN t2 = DOMAIN t \cup {T[n + 1].ident}
      /\ t2[T[n + 1].ident] = <<m, n + 1>>
      /\ \A z \in DOMAIN t : z # T[n + 1].ident => t2[z] = t[z]
  BY <1>2 DEF Put
<1>4. ASSUME NEW x \in DOMAIN t2
      PROVE  t2[x][1] = m /\ t2[x][2] \in Among(T, n + 1, {kind}) /\ T[t2[x][2]].ident = x
  <2>1. CASE x = T[n + 1].ident
    <3>1. t2[x] = <<m, n + 1>>
      BY <1>3, <2>1
    <3>2. t2[x][1] = m /\ t2[x][2] = n + 1
      BY <3>1
    <3>. QED BY <1>1, <2>1, <3>2
  <2>2. CASE x # T[n + 1].ident
    BY <1>1, <1>3, <1>4, <2>2 DEF Holds
  <2>. QED BY <2>1, <2>2
<1>. QED BY <1>2, <1>4 DEF Holds

LEMMA HoldsNext ==
  ASSUME NEW T \in Seq(Stmts), NEW n \in Nat, n + 1 <= Len(T), NEW m, NEW kind, NEW t,
         Holds(t, T, m, n, kind)
  PROVE  Holds(t, T, m, n + 1, kind)
<1>1. Among(T, n, {kind}) \subseteq Among(T, n + 1, {kind})
  BY AmongNext
<1>. QED BY <1>1 DEF Holds

LEMMA TablesAction ==
  ASSUME NEW T \in Seq(Stmts), NEW n \in Nat, n + 1 <= Len(T), T[n + 1].kind = "action",
         NEW M, NEW M2, NEW m, TablesRight(M, T, m, n),
         M2.defined = M.defined, M2.macro = M.macro,
         M2.defined_action = Put(M.defined_action, T[n + 1].ident, <<m, n + 1>>)
  PROVE  TablesRight(M2, T, m, n + 1)
<1>1. Among(T, n + 1, {"define", "macro"}) = Among(T, n, {"define", "macro"})
  BY AmongNext
<1>2. Among(T, n + 1, {"action"}) = Among(T, n, {"action"}) \cup {n + 1}
  BY AmongNext
<1>3. Holds(M2.defined_action, T, m, n + 1, "action")
  BY HoldsPut DEF TablesRight
<1>4. Holds(M2.defined, T, m, n + 1, "define") /\ Holds(M2.macro, T, m, n + 1, "macro")
  BY HoldsNext DEF TablesRight
<1>5. DOMAIN M2.defined_action = DOMAIN M.defined_action \cup {T[n + 1].ident}
  BY DEF Put
<1>. QED BY <1>1, <1>2, <1>3, <1>4, <1>5 DEF TablesRight

(* A definition or a macro of a name that is taken is not registered.      *)
LEMMA TablesTaken ==
  ASSUME NEW T \in Seq(Stmts), NEW n \in Nat, n + 1 <= Len(T),
         T[n + 1].kind \in {"define", "macro"},
         NEW M, NEW m, TablesRight(M, T, m, n),
         T[n + 1].ident \in DOMAIN M.defined \cup DOMAIN M.macro
  PROVE  TablesRight(M, T, m, n + 1)
<1>1. Among(T, n + 1, {"define", "macro"}) = Among(T, n, {"define", "macro"}) \cup {n + 1}
  BY AmongNext
<1>2. Among(T, n + 1, {"action"}) = Among(T, n, {"action"})
  BY AmongNext
<1>3. /\ Holds(M.defined, T, m, n + 1, "define") /\ Holds(M.macro, T, m, n + 1, "macro")
      /\ Holds(M.defined_action, T, m, n + 1, "action")
  BY HoldsNext DEF TablesRight
<1>. QED BY <1>1, <1>2, <1>3 DEF TablesRight

LEMMA TablesDefine ==
  ASSUME NEW T \in Seq(Stmts), NEW n \in Nat, n + 1 <= Len(T), T[n + 1].kind = "define",
         NEW M, NEW M2, NEW m, TablesRight(M, T, m, n),
         T[n + 1].ident \notin DOMAIN M.defined \cup DOMAIN M.macro,
         M2.macro = M.macro, M2.defined_action = M.defined_action,
         M2.defined = Put(M.defined, T[n + 1].ident, <<m, n + 1>>)
  PROVE  TablesRight(M2, T, m, n + 1)
<1>1. Among(T, n + 1, {"define", "macro"}) = Among(T, n, {"define", "macro"}) \cup {n + 1}
  BY AmongNext
<1>2. Among(T, n + 1, {"action"}) = Among(T, n, {"action"})
  BY AmongNext
<1>3. Holds(M2.defined, T, m, n + 1, "define")
  BY HoldsPut DEF TablesRight
<1>4. Holds(M2.macro, T, m, n + 1, "macro") /\ Holds(M2.defined_action, T, m, n + 1, "action")
  BY HoldsNext DEF TablesRight
<1>5. DOMAIN M2.defined = DOMAIN M.defined \cup {T[n + 1].ident}
  BY DEF Put
<1>. QED BY <1>1, <1>2, <1>3, <1>4, <1>5 DEF TablesRight

LEMMA TablesMacro ==
  ASSUME NEW T \in Seq(Stmts), NEW n \in Nat, n + 1 <= Len(T), T[n + 1].kind = "macro",
         NEW M, NEW M2, NEW m, TablesRight(M, T, m, n),
         T[n + 1].ident \notin DOMAIN M.defined \cup DOMAIN M.macro,
         M2.defined = M.defined, M2.defined_action = M.defined_action,
         M2.macro = Put(M.macro, T[n + 1].ident, <<m, n + 1>>)
  PROVE  TablesRight(M2, T, m, n + 1)
<1>1. Among(T, n + 1, {"define", "macro"}) = Among(T, n, {"define", "macro"}) \cup {n + 1}
  BY AmongNext
<1>2. Among(T, n + 1, {"action"}) = Among(T, n, {"action"})
  BY AmongNext
<1>3. Holds(M2.macro, T, m, n + 1, "macro")
  BY HoldsPut DEF TablesRight
<1>4. Holds(M2.defined, T, m, n + 1, "define") /\ Holds(M2.defined_action, T, m, n + 1, "action")
  BY HoldsNext DEF TablesRight
<1>5. DOMAIN M2.macro = DOMAIN M.macro \cup {T[n + 1].ident}
  BY DEF Put
<1>. QED BY <1>1, <1>2, <1>3, <1>4, <1>5 DEF TablesRight

-----------------------------------------------------------------------------
LEMMA ImportsMore ==
  ASSUME NEW M, NEW T, NEW n, NEW D, NEW D2, D \subseteq D2, ImportsRight(M, T, n, D)
  PROVE  ImportsRight(M, T, n, D2)
BY DEF ImportsRight

(* Of the statements only an import that leads to a file counts.           *)
LEMMA ImportsOther ==
  ASSUME NEW T \in Seq(Stmts), NEW n \in Nat, n + 1 <= Len(T),
         T[n + 1].kind = "import" => T[n + 1].target = None,
         NEW M, NEW M2, NEW D, ImportsRight(M, T, n, D),
         M2.qualified_import = M.qualified_import,
         M2.unqualified_import = M.unqualified_import
  PROVE  ImportsRight(M2, T, n + 1, D)
<1>1. ImportsIn(T, n + 1) = ImportsIn(T, n)
  <2>1. CASE T[n + 1].kind = "import"
    BY <2>1, AmongNext DEF ImportsIn
  <2>2. CASE T[n + 1].kind # "import"
    BY <2>2, AmongNext DEF ImportsIn
  <2>. QED BY <2>1, <2>2
<1>. QED BY <1>1 DEF ImportsRight

LEMMA ImportNext ==
  ASSUME NEW T \in Seq(Stmts), NEW n \in Nat, n + 1 <= Len(T), T[n + 1].kind = "import",
         T[n + 1].target # None
  PROVE  /\ ImportsIn(T, n + 1) = ImportsIn(T, n) \cup {n + 1}
         /\ \A p \in ImportsIn(T, n) : p \in Nat /\ p <= n
<1>1. Among(T, n + 1, {"import"}) = Among(T, n, {"import"}) \cup {n + 1}
  BY AmongNext
<1>. QED BY <1>1 DEF ImportsIn, Among

LEMMA ImportsQualified ==
  ASSUME NEW T \in Seq(Stmts), NEW n \in Nat, n + 1 <= Len(T), T[n + 1].kind = "import",
         T[n + 1].target # None, T[n + 1].qualified # Unqualified,
         NEW M, NEW M2, NEW D, ImportsRight(M, T, n, D), T[n + 1].target \in D,
         M2.qualified_import = Put(M.qualified_import, T[n + 1].qualified, T[n + 1].target),
         M2.unqualified_import = M.unqualified_import
  PROVE  ImportsRight(M2, T, n + 1, D)
<1>. DEFINE h == n + 1
            S == ImportsIn(T, n)
            Q == M2.qualified_import
<1>1. ImportsIn(T, h) = S \cup {h} /\ h \in Nat /\ \A p \in S : p \in Nat /\ p <= n
  BY ImportNext
<1>2. /\ DOMAIN Q = DOMAIN M.qualified_import \cup {T[h].qualified}
      /\ Q[T[h].qualified] = T[h].target
      /\ \A z \in DOMAIN M.qualified_import : z # T[h].qualified => Q[z] = M.qualified_import[z]
  BY DEF Put
<1>3. ASSUME NEW x \in DOMAIN Q
      PROVE  \E p \in S \cup {h} :
               /\ T[p].qualified = x /\ Q[x] = T[p].target
               /\ \A y \in S \cup {h} : T[y].qualified = x => y <= p
  <2>1. CASE x = T[h].qualified
    <3>1. \A y \in S \cup {h} : y <= h
      BY <1>1
    <3>. QED BY <1>2, <2>1, <3>1
  <2>2. CASE x # T[h].qualified
    <3>1. x \in DOMAIN M.qualified_import /\ Q[x] = M.qualified_import[x]
      BY <1>2, <1>3, <2>2
    <3>2. PICK p \in S : /\ T[p].qualified = x /\ M.qualified_import[x] = T[p].target
                         /\ \A y \in S : T[y].qualified = x => y <= p
      BY <3>1 DEF ImportsRight
    <3>. QED BY <2>2, <3>1, <3>2
  <2>. QED BY <2>1, <2>2
<1>4. \A j \in 1 .. Len(M2.unqualified_import) :
        \E p \in S \cup {h} :
          T[p].qualified = Unqualified /\ M2.unqualified_import[j] = T[p].target
  BY DEF ImportsRight
<1>5. \A p \in S \cup {h} :
        /\ T[p].target \in D
        /\ IF T[p].qualified = Unqualified
             THEN \E j \in 1 .. Len(M2.unqualified_import) : M2.unqualified_import[j] = T[p].target
             ELSE T[p].qualified \in DOMAIN Q
  BY <1>2 DEF ImportsRight
<1>6. \A i, j \in 1 .. Len(M2.unqualified_import) :
        M2.unqualified_import[i] = M2.unqualified_import[j] => i = j
  BY DEF ImportsRight
<1>. QED BY <1>1, <1>3, <1>4, <1>5, <1>6 DEF ImportsRight

LEMMA ImportsUnqualified ==
  ASSUME NEW T \in Seq(Stmts), NEW n \in Nat, n + 1 <= Len(T), T[n + 1].kind = "import",
         T[n + 1].target # None, T[n + 1].qualified = Unqualified,
         NEW M, NEW M2, NEW D, ImportsRight(M, T, n, D), T[n + 1].target \in D,
         M2.qualified_import = M.qualified_import,
         M.unqualified_import \in Seq(Inode), T[n + 1].target \in Inode,
         Contains(M.unqualified_import, T[n + 1].target) =>
           M2.unqualified_import = M.unqualified_import,
         ~ Contains(M.unqualified_import, T[n + 1].target) =>
           M2.unqualified_import = Append(M.unqualified_import, T[n + 1].target),
         Unqualified \notin DOMAIN M.qualified_import
  PROVE  ImportsRight(M2, T, n + 1, D)
<1>. DEFINE h == n + 1
            S == ImportsIn(T, n)
            q == M.unqualified_import
            r == M2.unqualified_import
            x == T[h].target
<1>1. ImportsIn(T, h) = S \cup {h} /\ h \in Nat /\ \A p \in S : p \in Nat /\ p <= n
  BY ImportNext
<1>2. Len(q) \in Nat /\ (Contains(q, x) <=> \E j \in 1 .. Len(q) : q[j] = x)
  BY DEF Contains
<1>3. /\ Len(r) \in Nat /\ Len(r) >= Len(q)
      /\ \A j \in 1 .. Len(q) : r[j] = q[j]
      /\ \E j \in 1 .. Len(r) : r[j] = x
      /\ \A j \in 1 .. Len(r) : j \notin 1 .. Len(q) => r[j] = x
      /\ \A i, j \in 1 .. Len(r) : r[i] = r[j] => i = j
  <2>1. \A i, j \in 1 .. Len(q) : q[i] = q[j] => i = j
    BY DEF ImportsRight
  <2>2. CASE Contains(q, x)
    BY <1>2, <2>1, <2>2, SMTT(30)
  <2>3. CASE ~ Contains(q, x)
    <3>1. r = Append(q, x)
      BY <2>3
    <3>. HIDE DEF x, r
    <3>2. /\ Len(r) = Len(q) + 1 /\ r[Len(q) + 1] = x
          /\ \A j \in 1 .. Len(q) : r[j] = q[j] /\ q[j] # x
      BY <1>2, <2>3, <3>1 DEF x
    <3>3. \A j \in 1 .. Len(r) : j \in 1 .. Len(q) \/ j = Len(q) + 1
      BY <1>2, <3>2
    <3>4. \A i, j \in 1 .. Len(r) : r[i] = r[j] => i = j
      BY <2>1, <3>2, <3>3
    <3>5. Len(q) + 1 \in 1 .. Len(r)
      BY <1>2, <3>2
    <3>6. \E j \in 1 .. Len(r) : r[j] = x
      BY <3>2, <3>5
    <3>7. \A j \in 1 .. Len(r) : j \notin 1 .. Len(q) => r[j] = x
      BY <3>2, <3>3
    <3>8. Len(r) \in Nat /\ Len(r) >= Len(q)
      BY <1>2, <3>2
    <3>. QED BY <3>2, <3>4, <3>6, <3>7, <3>8
  <2>. QED BY <2>2, <2>3
<1>4. ASSUME NEW y \in DOMAIN M2.qualified_import
      PROVE  \E p \in S \cup {h} :
               /\ T[p].qualified = y /\ M2.qualified_import[y] = T[p].target
               /\ \A z \in S \cup {h} : T[z].qualified = y => z <= p
  <2>1. PICK p \in S : /\ T[p].qualified = y /\ M.qualified_import[y] = T[p].target
                       /\ \A z \in S : T[z].qualified = y => z <= p
    BY <1>4 DEF ImportsRight
  <2>2. T[h].qualified # y
    BY <1>4
  <2>. QED BY <2>1, <2>2
<1>. HIDE DEF r, x
<1>5. ASSUME NEW j \in 1 .. Len(r)
      PROVE  \E p \in S \cup {h} : T[p].qualified = Unqualified /\ r[j] = T[p].target
  <2>1. CASE j \in 1 .. Len(q)
    <3>1. PICK p \in S : T[p].qualified = Unqualified /\ q[j] = T[p].target
      BY <2>1 DEF ImportsRight
    <3>. QED BY <1>3, <2>1, <3>1
  <2>2. CASE j \notin 1 .. Len(q)
    BY <1>3, <2>2 DEF x
  <2>. QED BY <2>1, <2>2
<1>6. ASSUME NEW p \in S \cup {h}
      PROVE  /\ T[p].target \in D
             /\ IF T[p].qualified = Unqualified
                  THEN \E j \in 1 .. Len(r) : r[j] = T[p].target
                  ELSE T[p].qualified \in DOMAIN M2.qualified_import
  <2>1. CASE p = h
    BY <1>3, <2>1 DEF x
  <2>2. CASE p \in S
    <3>1. /\ T[p].target \in D
          /\ IF T[p].qualified = Unqualified
               THEN \E j \in 1 .. Len(q) : q[j] = T[p].target
               ELSE T[p].qualified \in DOMAIN M.qualified_import
      BY <2>2 DEF ImportsRight
    <3>2. ASSUME NEW j \in 1 .. Len(q) PROVE j \in 1 .. Len(r) /\ r[j] = q[j]
      BY <1>2, <1>3
    <3>. QED BY <3>1, <3>2
  <2>. QED BY <2>1, <2>2
<1>. QED BY <1>1, <1>3, <1>4, <1>5, <1>6 DEF ImportsRight, r

-----------------------------------------------------------------------------
LEMMA DistinctNext ==
  ASSUME NEW T \in Seq(Stmts), NEW n \in Nat, n + 1 <= Len(T), NEW kinds,
         Distinct(T, n, kinds),
         T[n + 1].kind \in kinds => \A p \in Among(T, n, kinds) : T[p].ident # T[n + 1].ident
  PROVE  Distinct(T, n + 1, kinds)
<1>1. CASE T[n + 1].kind \notin kinds
  BY <1>1, AmongNext DEF Distinct
<1>2. CASE T[n + 1].kind \in kinds
  <2>1. Among(T, n + 1, kinds) = Among(T, n, kinds) \cup {n + 1}
    BY <1>2, AmongNext
  <2>. QED BY <1>2, <2>1 DEF Distinct
<1>. QED BY <1>1, <1>2

LEMMA CleanNext ==
  ASSUME NEW T \in Seq(Stmts), NEW n \in Nat, n + 1 <= Len(T), Clean(T, n),
         T[n + 1].kind = "import" => T[n + 1].target # None,
         T[n + 1].kind \in {"define", "macro"} =>
           \A p \in Among(T, n, {"define", "macro"}) : T[p].ident # T[n + 1].ident,
         T[n + 1].kind = "action" =>
           \A p \in Among(T, n, {"action"}) : T[p].ident # T[n + 1].ident
  PROVE  Clean(T, n + 1)
<1>1. Distinct(T, n + 1, {"define", "macro"}) /\ Distinct(T, n + 1, {"action"})
  BY DistinctNext DEF Clean
<1>2. \A p \in Among(T, n + 1, {"import"}) : T[p].target # None
  <2>1. CASE T[n + 1].kind = "import"
    <3>1. Among(T, n + 1, {"import"}) = Among(T, n, {"import"}) \cup {n + 1}
      BY <2>1, AmongNext
    <3>. QED BY <2>1, <3>1 DEF Clean
  <2>2. CASE T[n + 1].kind # "import"
    <3>1. Among(T, n + 1, {"import"}) = Among(T, n, {"import"})
      BY <2>2, AmongNext
    <3>. QED BY <3>1 DEF Clean
  <2>. QED BY <2>1, <2>2
<1>. QED BY <1>1, <1>2 DEF Clean

-----------------------------------------------------------------------------
(* The files reached are the least set closed under imports.               *)
LEMMA ReachedFacts ==
  ASSUME TypeOK
  PROVE  /\ Main \in Reached /\ Reached \subseteq Inode
         /\ \A m \in Reached : Targets(m) \subseteq Reached
         /\ \A S \in SUBSET Inode : Main \in S /\ Closed(S) => Reached \subseteq S
<1>1. ASSUME NEW m \in Inode PROVE Targets(m) \subseteq Inode
  <2>1. ASSUME NEW p \in Of({"import"}, m) PROVE Text(m)[p].target \in Inode \cup {None}
    <3>1. Text(m)[p] \in Stmts /\ Text(m)[p].kind = "import"
      BY <2>1, TextFacts DEF Of
    <3>. QED BY <3>1, StmtFacts
  <2>. QED BY <2>1 DEF Targets
<1>2. ASSUME NEW m \in Reached, NEW t \in Targets(m) PROVE t \in Reached
  <2>1. m \in Inode /\ t \in Inode
    BY <1>1, <1>2 DEF Reached
  <2>2. ASSUME NEW S \in SUBSET Inode, Main \in S, Closed(S) PROVE t \in S
    <3>1. m \in S
      BY <1>2, <2>2 DEF Reached
    <3>. QED BY <1>2, <2>2, <3>1 DEF Closed
  <2>. QED BY <2>1, <2>2 DEF Reached
<1>. QED BY <1>2, LoaderAssumption DEF Reached

(* What makes the text faulty.                                             *)
LEMMA FaultTarget ==
  ASSUME NEW m \in Reached, NEW p \in DOMAIN Text(m), Text(m)[p].kind = "import",
         Text(m)[p].target = None
  PROVE  Faulty
<1>1. p \in Of({"import"}, m)
  BY DEF Of
<1>. QED BY <1>1 DEF Faulty, FaultyText

LEMMA FaultFile ==
  ASSUME NEW m \in Reached, files[m].errors > 0
  PROVE  Faulty
BY DEF Faulty, FaultyText

LEMMA FaultAction ==
  ASSUME TypeOK, NEW m \in Reached, NEW M, NEW n \in Nat, n + 1 <= Len(Text(m)),
         TablesRight(M, Text(m), m, n),
         Text(m)[n + 1].kind = "action", Text(m)[n + 1].ident \in DOMAIN M.defined_action
  PROVE  Faulty
<1>1. m \in Inode
  BY ReachedFacts
<1>2. DOMAIN Text(m) = 1 .. Len(Text(m)) /\ Len(Text(m)) \in Nat
  BY <1>1, TextFacts
<1>3. PICK q \in Among(Text(m), n, {"action"}) : Text(m)[q].ident = Text(m)[n + 1].ident
  BY DEF TablesRight, Holds
<1>4. q # n + 1 /\ q \in Of({"action"}, m) /\ n + 1 \in Of({"action"}, m)
  BY <1>2, <1>3 DEF Among, Of
<1>5. SameName({"action"}, m)
  BY <1>3, <1>4 DEF SameName
<1>. QED BY <1>5 DEF Faulty, FaultyText

LEMMA FaultName ==
  ASSUME TypeOK, NEW m \in Reached, NEW M, NEW n \in Nat, n + 1 <= Len(Text(m)),
         TablesRight(M, Text(m), m, n), Text(m)[n + 1].kind \in {"define", "macro"},
         Text(m)[n + 1].ident \in DOMAIN M.defined \cup DOMAIN M.macro
  PROVE  Faulty
<1>1. m \in Inode
  BY ReachedFacts
<1>2. DOMAIN Text(m) = 1 .. Len(Text(m)) /\ Len(Text(m)) \in Nat
  BY <1>1, TextFacts
<1>3. PICK q \in Among(Text(m), n, {"define", "macro"}) : Text(m)[q].ident = Text(m)[n + 1].ident
  <2>1. CASE Text(m)[n + 1].ident \in DOMAIN M.defined
    BY <2>1 DEF TablesRight, Holds, Among
  <2>2. CASE Text(m)[n + 1].ident \in DOMAIN M.macro
    BY <2>2 DEF TablesRight, Holds, Among
  <2>. QED BY <2>1, <2>2
<1>4. q # n + 1 /\ q \in Of({"define", "macro"}, m) /\ n + 1 \in Of({"define", "macro"}, m)
  BY <1>2, <1>3 DEF Among, Of
<1>5. SameName({"define", "macro"}, m)
  BY <1>3, <1>4 DEF SameName
<1>. QED BY <1>5 DEF Faulty, FaultyText

-----------------------------------------------------------------------------
(* The first loop at a statement.                                          *)
LEMMA AtStatement ==
  ASSUME IInv, pc = "import", AtStmt
  PROVE  /\ it \in DOMAIN inode2module /\ it \in Reached /\ it \in Inode
         /\ mod.status = "GOOD" /\ mod \in Module /\ mod = inode2module[it]
         /\ k - 1 \in Nat /\ (k - 1) + 1 = k /\ k <= Len(Text(it))
         /\ k \in DOMAIN Text(it) /\ Seen(it) = k - 1
         /\ s = Text(it)[k] /\ s \in Stmts /\ Text(it) \in Seq(Stmts)
         /\ TablesRight(mod, Text(it), it, k - 1)
         /\ ImportsRight(mod, Text(it), k - 1, DOMAIN inode2module)
         /\ n_errors = 0 => Clean(Text(it), k - 1)
<1>1. toplevel = Text(it)
  BY DEF toplevel, Text
<1>2. k \in Nat /\ it # None /\ k \in 1 .. Len(Text(it)) /\ s = Text(it)[k]
  BY <1>1 DEF AtStmt, s, IInv, TypeOK
<1>3. it \in DOMAIN inode2module /\ mod = inode2module[it] /\ mod.status = "GOOD"
  BY <1>2 DEF IInv, ControlInv, mod
<1>4. it \in Reached /\ it \in Inode /\ mod \in Module
  BY <1>2, <1>3, MapFacts DEF IInv, ReachInv, TypeOK
<1>5. Len(Text(it)) \in Nat /\ DOMAIN Text(it) = 1 .. Len(Text(it)) /\ Text(it) \in Seq(Stmts)
      /\ s \in Stmts
  BY <1>2, <1>4, TextFacts DEF IInv
<1>6. Seen(it) = k - 1
  BY <1>2, <1>3 DEF Seen
<1>7. /\ TablesRight(mod, Text(it), it, k - 1)
      /\ ImportsRight(mod, Text(it), k - 1, DOMAIN inode2module)
      /\ n_errors = 0 => Clean(Text(it), k - 1)
  BY <1>3, <1>6 DEF IInv, ImportInv
<1>. QED BY <1>2, <1>3, <1>4, <1>5, <1>6, <1>7

(* A module that was just loaded.                                          *)
LEMMA NewRight ==
  ASSUME TypeOK, NEW m \in Inode, NEW D
  PROVE  /\ TablesRight(NewModule(m), Text(m), m, 0)
         /\ ImportsRight(NewModule(m), Text(m), 0, D)
         /\ Clean(Text(m), 0) /\ (files[m].errors = 0 => NewModule(m).status # "BAD")
<1>1. \A kinds : Among(Text(m), 0, kinds) = {}
  BY TextFacts DEF Among
<1>2. /\ DOMAIN NewModule(m).defined = {} /\ DOMAIN NewModule(m).macro = {}
      /\ DOMAIN NewModule(m).defined_action = {}
      /\ DOMAIN NewModule(m).qualified_import = {}
      /\ NewModule(m).unqualified_import = <<>>
  BY DEF NewModule
<1>3. TablesRight(NewModule(m), Text(m), m, 0)
  BY <1>1, <1>2 DEF TablesRight, Holds
<1>4. ImportsIn(Text(m), 0) = {} /\ 1 .. Len(NewModule(m).unqualified_import) = {}
  BY <1>1, <1>2 DEF ImportsIn
<1>5. ImportsRight(NewModule(m), Text(m), 0, D)
  BY <1>2, <1>4 DEF ImportsRight
<1>6. Clean(Text(m), 0)
  BY <1>1 DEF Clean, Distinct
<1>7. files[m].errors = 0 => NewModule(m).status # "BAD"
  BY DEF NewModule
<1>. QED BY <1>3, <1>5, <1>6, <1>7

(* What the four kinds of statements have in common in the first loop.     *)
Registered ==
  /\ pc = "import" /\ AtStmt /\ pc' = "import" /\ it' = it /\ k' = k + 1
  /\ UNCHANGED <<files, at, old, done, define_stmt>>
  /\ DOMAIN inode2module \subseteq DOMAIN inode2module'
  /\ \A m \in DOMAIN inode2module : m # it => inode2module'[m] = inode2module[m]
  /\ inode2module'[it].status = mod.status
  /\ \A m \in DOMAIN inode2module' \ DOMAIN inode2module :
       /\ inode2module'[m] = NewModule(m) /\ m \in Reached
       /\ n_errors' = 0 => files[m].errors = 0
  /\ TablesRight(inode2module'[it], Text(it), it, k)
  /\ ImportsRight(inode2module'[it], Text(it), k, DOMAIN inode2module')
  /\ n_errors' >= n_errors
  /\ n_errors' = 0 => Clean(Text(it), k)
  /\ n_errors' > n_errors => Faulty

LEMMA StatementStep ==
  ASSUME IInv, Registered, TypeOK', KeysInv'
  PROVE  IInv'
<1>. USE DEF Registered
<1>1. /\ it \in DOMAIN inode2module /\ it \in Inode /\ mod.status = "GOOD"
      /\ mod = inode2module[it] /\ k \in Nat /\ k >= 1 /\ k <= Len(Text(it))
      /\ Len(Text(it)) \in Nat /\ it # None
  <2>1. Len(Text(it)) \in Nat
    BY AtStatement, TextFacts DEF IInv
  <2>2. it # None /\ k \in 1 .. Len(toplevel) /\ k \in Nat
    BY DEF AtStmt, IInv, TypeOK
  <2>3. toplevel = Text(it)
    BY DEF toplevel, Text
  <2>. QED BY <2>1, <2>2, <2>3, AtStatement
<1>2. n_errors \in Nat /\ n_errors' \in Nat /\ n_errors <= n_errors' /\ old \in Nat
  BY DEF IInv, TypeOK
<1>3. /\ \A m : Text(m)' = Text(m)
      /\ Reached' = Reached /\ (Faulty' <=> Faulty)
  BY SameFiles
<1>4. ControlInv'
  <2>1. Main \in DOMAIN inode2module'
    BY DEF IInv, ControlInv
  <2>2. k' <= Len(Text(it))' + 1 /\ at' > 0 /\ k' # 0
    <3>1. Text(it)' = Text(it)
      BY DEF Text
    <3>2. at > 0
      BY <1>1 DEF IInv, ControlInv
    <3>. QED BY <1>1, <3>1, <3>2
  <2>3. inode2module'[it'].status = "GOOD" /\ it' \in DOMAIN inode2module' /\ it' # None
    BY <1>1
  <2>4. ~ done' /\ old' <= n_errors'
    BY <1>1, <1>2 DEF IInv, ControlInv
  <2>. QED BY <2>1, <2>2, <2>3, <2>4 DEF ControlInv, Failed, Linked
<1>5. ASSUME NEW m \in DOMAIN inode2module'
      PROVE  /\ TablesRight(inode2module'[m], Text(m), m, Seen(m)')
             /\ ImportsRight(inode2module'[m], Text(m), Seen(m)', DOMAIN inode2module')
             /\ n_errors' = 0 => /\ Clean(Text(m), Seen(m)') /\ files[m].errors = 0
                                 /\ inode2module'[m].status # "BAD"
  <2>1. CASE m = it
    <3>1. Seen(m)' = k
      BY <1>1, <2>1 DEF Seen
    <3>2. n_errors' = 0 => files[m].errors = 0
      BY <1>1, <1>2, <2>1 DEF IInv, ImportInv
    <3>. QED BY <1>1, <2>1, <3>1, <3>2
  <2>2. CASE m # it /\ m \in DOMAIN inode2module
    <3>1. Seen(m)' = Seen(m)
      BY <1>3, <2>2 DEF Seen
    <3>2. /\ TablesRight(inode2module[m], Text(m), m, Seen(m))
          /\ ImportsRight(inode2module[m], Text(m), Seen(m), DOMAIN inode2module)
          /\ n_errors = 0 => /\ Clean(Text(m), Seen(m)) /\ files[m].errors = 0
                             /\ inode2module[m].status # "BAD"
      BY <2>2 DEF IInv, ImportInv
    <3>3. ImportsRight(inode2module[m], Text(m), Seen(m), DOMAIN inode2module')
      BY <3>2, ImportsMore
    <3>. QED BY <1>2, <2>2, <3>1, <3>2, <3>3
  <2>3. CASE m \notin DOMAIN inode2module
    <3>1. /\ inode2module'[m] = NewModule(m) /\ m \in Reached
          /\ n_errors' = 0 => files[m].errors = 0
      BY <1>5, <2>3
    <3>2. m # it
      BY <1>1, <2>3
    <3>3. m \in Inode
      BY <3>1, ReachedFacts DEF IInv
    <3>4. Seen(m)' = 0
      <4>1. CASE files[m].errors > 0
        <5>1. Text(m) = <<>> /\ inode2module'[m].status = "BAD"
          BY <3>1, <4>1 DEF Text, NewModule
        <5>. QED BY <1>3, <3>2, <5>1 DEF Seen
      <4>2. CASE ~ (files[m].errors > 0)
        BY <3>1, <4>2 DEF Seen, NewModule
      <4>. QED BY <4>1, <4>2
    <3>5. /\ TablesRight(NewModule(m), Text(m), m, 0)
          /\ ImportsRight(NewModule(m), Text(m), 0, DOMAIN inode2module')
          /\ Clean(Text(m), 0) /\ (files[m].errors = 0 => NewModule(m).status # "BAD")
      BY <3>3, NewRight DEF IInv
    <3>. QED BY <3>1, <3>4, <3>5
  <2>. QED BY <2>1, <2>2, <2>3
<1>6. ImportInv'
  BY <1>3, <1>5 DEF ImportInv, Using, Linked
<1>7. ReachInv'
  <2>1. DOMAIN inode2module' \subseteq Reached
    BY DEF IInv, ReachInv
  <2>2. ~ done'
    BY <1>1 DEF IInv, ControlInv
  <2>. QED BY <1>3, <2>1, <2>2 DEF ReachInv, Using, Linked
<1>8. FaultInv'
  BY <1>2, <1>3 DEF IInv, FaultInv
<1>9. BoundInv' /\ RecordInv'
  BY DEF BoundInv, RecordInv, Using, Linked
<1>. QED BY <1>4, <1>6, <1>7, <1>8, <1>9 DEF IInv

-----------------------------------------------------------------------------
LEMMA ModuleMap ==
  ASSUME TypeOK
  PROVE  /\ inode2module = [m \in DOMAIN inode2module |-> inode2module[m]]
         /\ DOMAIN inode2module \subseteq Inode
         /\ \A m \in DOMAIN inode2module : inode2module[m] \in Module
BY MapFacts DEF TypeOK

(* One module is changed.                                                  *)
LEMMA ModuleSet ==
  ASSUME TypeOK, NEW i \in DOMAIN inode2module, NEW M \in Module,
         NEW mods, mods = [inode2module EXCEPT ![i] = M]
  PROVE  /\ mods \in Maps(Inode, Module) /\ DOMAIN mods = DOMAIN inode2module
         /\ mods[i] = M
         /\ \A m \in DOMAIN inode2module : m # i => mods[m] = inode2module[m]
<1>1. /\ DOMAIN mods = DOMAIN inode2module /\ mods[i] = M
      /\ \A m \in DOMAIN inode2module : m # i => mods[m] = inode2module[m]
      /\ mods = [m \in DOMAIN inode2module |-> mods[m]]
  BY ModuleMap
<1>2. \A m \in DOMAIN mods : mods[m] \in Module
  BY <1>1, ModuleMap
<1>3. mods \in Maps(Inode, Module)
  <2>1. mods \in [DOMAIN inode2module -> Module]
    BY <1>1, <1>2
  <2>2. DOMAIN inode2module \in SUBSET Inode
    BY ModuleMap
  <2>. QED BY <2>1, <2>2 DEF Maps
<1>. QED BY <1>1, <1>3

(* Nothing is defined by the step.                                         *)
LEMMA KeysSame ==
  ASSUME KeysInv, Loading, Loading', UNCHANGED <<define_stmt, depended_by, used_as>>,
         DOMAIN inode2module \subseteq DOMAIN inode2module',
         \A m \in DOMAIN inode2module : inode2module'[m].defined = inode2module[m].defined,
         \A m \in DOMAIN inode2module' \ DOMAIN inode2module : DOMAIN inode2module'[m].defined = {}
  PROVE  KeysInv'
<1>1. \A m \in DOMAIN inode2module' : \A x \in DOMAIN inode2module'[m].defined :
        inode2module'[m].defined[x] \in DOMAIN depended_by'
  BY DEF KeysInv
<1>2. \A d \in DOMAIN depended_by' :
        /\ d[1] \in DOMAIN inode2module'
        /\ \E x \in DOMAIN inode2module'[d[1]].defined : inode2module'[d[1]].defined[x] = d
  BY DEF KeysInv
<1>3. \A kind \in Kinds : DOMAIN used_as'[kind] = DOMAIN depended_by'
  BY DEF KeysInv
<1>4. /\ DOMAIN define_stmt' = {}
      /\ \A d \in DOMAIN depended_by' :
           depended_by'[d] = <<>> /\ \A kind \in Kinds : used_as'[kind][d] = <<>>
  BY DEF KeysInv
<1>. QED BY <1>1, <1>2, <1>3, <1>4 DEF KeysInv

LEMMA DefActionStep ==
  ASSUME IInv, DefAction
  PROVE  IInv'
<1>. USE DEF DefAction
<1>. DEFINE M == [mod EXCEPT !.defined_action = Put(mod.defined_action, s.ident, Pos)]
<1>1. /\ it \in DOMAIN inode2module /\ it \in Reached /\ it \in Inode
      /\ mod.status = "GOOD" /\ mod \in Module /\ mod = inode2module[it]
      /\ k - 1 \in Nat /\ (k - 1) + 1 = k /\ k <= Len(Text(it)) /\ k \in DOMAIN Text(it)
      /\ s = Text(it)[k] /\ s \in Stmts /\ Text(it) \in Seq(Stmts)
      /\ TablesRight(mod, Text(it), it, k - 1)
      /\ ImportsRight(mod, Text(it), k - 1, DOMAIN inode2module)
      /\ n_errors = 0 => Clean(Text(it), k - 1)
  BY AtStatement
<1>2. TypeOK /\ k \in Nat /\ n_errors \in Nat
  BY DEF IInv, TypeOK
<1>3. s.ident \in Ident /\ Pos \in Place /\ Pos = <<it, k>>
  BY <1>1, <1>2, StmtFacts DEF Pos, Place
<1>4. Put(mod.defined_action, s.ident, Pos) \in Maps(Ident, Place)
  BY <1>1, <1>3, PutType DEF Module
<1>5. /\ M \in Module /\ M.defined_action = Put(mod.defined_action, s.ident, Pos)
      /\ M.defined = mod.defined /\ M.macro = mod.macro /\ M.status = mod.status
      /\ M.qualified_import = mod.qualified_import
      /\ M.unqualified_import = mod.unqualified_import
  BY <1>1, <1>4 DEF Module
<1>6. inode2module' = [inode2module EXCEPT ![it] = M]
  BY <1>1
<1>. HIDE DEF M
<1>7. /\ inode2module' \in Maps(Inode, Module) /\ DOMAIN inode2module' = DOMAIN inode2module
      /\ inode2module'[it] = M
      /\ \A m \in DOMAIN inode2module : m # it => inode2module'[m] = inode2module[m]
  BY <1>1, <1>2, <1>5, <1>6, ModuleSet, ZenonT(40)
<1>8. TypeOK'
  BY <1>2, <1>7 DEF TypeOK
<1>9. KeysInv'
  BY <1>1, <1>5, <1>7, KeysSame DEF IInv, Loading
<1>10. TablesRight(M, Text(it), it, (k - 1) + 1)
  BY <1>1, <1>3, <1>5, TablesAction
<1>11. ImportsRight(M, Text(it), (k - 1) + 1, DOMAIN inode2module)
  BY <1>1, <1>5, ImportsOther
<1>12. CASE s.ident \in DOMAIN mod.defined_action
  <2>1. Faulty
    BY <1>1, <1>2, <1>12, FaultAction
  <2>2. n_errors' = n_errors + 1
    BY <1>12
  <2>3. Registered
    BY <1>1, <1>2, <1>5, <1>7, <1>10, <1>11, <2>1, <2>2 DEF Registered
  <2>. QED BY <1>8, <1>9, <2>3, StatementStep
<1>13. CASE s.ident \notin DOMAIN mod.defined_action
  <2>1. n_errors' = n_errors
    BY <1>2, <1>13
  <2>2. \A p \in Among(Text(it), k - 1, {"action"}) : Text(it)[p].ident # Text(it)[(k - 1) + 1].ident
    BY <1>1, <1>13 DEF TablesRight
  <2>3. n_errors' = 0 => Clean(Text(it), (k - 1) + 1)
    BY <1>1, <2>1, <2>2, CleanNext
  <2>4. Registered
    BY <1>1, <1>2, <1>5, <1>7, <1>10, <1>11, <2>1, <2>3 DEF Registered
  <2>. QED BY <1>8, <1>9, <2>4, StatementStep
<1>. QED BY <1>12, <1>13

LEMMA DefMacroStep ==
  ASSUME IInv, DefMacro
  PROVE  IInv'
<1>. USE DEF DefMacro
<1>. DEFINE M == [mod EXCEPT !.macro = Put(mod.macro, s.ident, Pos)]
<1>1. /\ it \in DOMAIN inode2module /\ it \in Reached /\ it \in Inode
      /\ mod.status = "GOOD" /\ mod \in Module /\ mod = inode2module[it]
      /\ k - 1 \in Nat /\ (k - 1) + 1 = k /\ k <= Len(Text(it)) /\ k \in DOMAIN Text(it)
      /\ s = Text(it)[k] /\ s \in Stmts /\ Text(it) \in Seq(Stmts)
      /\ TablesRight(mod, Text(it), it, k - 1)
      /\ ImportsRight(mod, Text(it), k - 1, DOMAIN inode2module)
      /\ n_errors = 0 => Clean(Text(it), k - 1)
  BY AtStatement
<1>2. TypeOK /\ k \in Nat /\ n_errors \in Nat
  BY DEF IInv, TypeOK
<1>3. s.ident \in Ident /\ Pos \in Place /\ Pos = <<it, k>>
  BY <1>1, <1>2, StmtFacts DEF Pos, Place
<1>4. CASE Redefined(s.ident)
  <2>1. s.ident \in DOMAIN mod.defined \cup DOMAIN mod.macro
    BY <1>4 DEF Redefined
  <2>2. n_errors' = n_errors + 1 /\ inode2module' = inode2module
    BY <1>4
  <2>3. Faulty
    BY <1>1, <1>2, <2>1, FaultName
  <2>4. TablesRight(mod, Text(it), it, (k - 1) + 1)
    BY <1>1, <2>1, TablesTaken
  <2>5. ImportsRight(mod, Text(it), (k - 1) + 1, DOMAIN inode2module)
    BY <1>1, ImportsOther
  <2>6. TypeOK'
    BY <1>2, <2>2 DEF TypeOK
  <2>7. KeysInv'
    BY <2>2, KeysSame DEF IInv, Loading
  <2>8. Registered
    BY <1>1, <1>2, <2>2, <2>3, <2>4, <2>5 DEF Registered
  <2>. QED BY <2>6, <2>7, <2>8, StatementStep
<1>5. CASE ~ Redefined(s.ident)
  <2>1. s.ident \notin DOMAIN mod.defined \cup DOMAIN mod.macro
    BY <1>5 DEF Redefined
  <2>2. Put(mod.macro, s.ident, Pos) \in Maps(Ident, Place)
    BY <1>1, <1>3, PutType DEF Module
  <2>3. /\ M \in Module /\ M.macro = Put(mod.macro, s.ident, Pos)
        /\ M.defined = mod.defined /\ M.defined_action = mod.defined_action
        /\ M.status = mod.status /\ M.qualified_import = mod.qualified_import
        /\ M.unqualified_import = mod.unqualified_import
    BY <1>1, <2>2 DEF Module
  <2>4. inode2module' = [inode2module EXCEPT ![it] = M] /\ n_errors' = n_errors
    BY <1>1, <1>5
  <2>. HIDE DEF M
  <2>5. /\ inode2module' \in Maps(Inode, Module) /\ DOMAIN inode2module' = DOMAIN inode2module
        /\ inode2module'[it] = M
        /\ \A m \in DOMAIN inode2module : m # it => inode2module'[m] = inode2module[m]
    BY <1>1, <1>2, <2>3, <2>4, ModuleSet
  <2>6. TypeOK'
    BY <1>2, <2>4, <2>5 DEF TypeOK
  <2>7. KeysInv'
    BY <1>1, <2>3, <2>5, KeysSame DEF IInv, Loading
  <2>8. TablesRight(M, Text(it), it, (k - 1) + 1)
    <3>1. /\ Text(it)[(k - 1) + 1].kind = "macro" /\ Text(it)[(k - 1) + 1].ident = s.ident
          /\ M.macro = Put(mod.macro, Text(it)[(k - 1) + 1].ident, <<it, (k - 1) + 1>>)
      BY <1>1, <1>3, <2>3
    <3>. QED BY <1>1, <2>1, <2>3, <3>1, TablesMacro
  <2>9. ImportsRight(M, Text(it), (k - 1) + 1, DOMAIN inode2module)
    BY <1>1, <2>3, ImportsOther
  <2>10. \A p \in Among(Text(it), k - 1, {"define", "macro"}) :
           Text(it)[p].ident # Text(it)[(k - 1) + 1].ident
    BY <1>1, <2>1 DEF TablesRight
  <2>11. n_errors' = 0 => Clean(Text(it), (k - 1) + 1)
    BY <1>1, <2>4, <2>10, CleanNext
  <2>12. Registered
    BY <1>1, <1>2, <2>3, <2>4, <2>5, <2>8, <2>9, <2>11 DEF Registered
  <2>. QED BY <2>6, <2>7, <2>12, StatementStep
<1>. QED BY <1>4, <1>5

LEMMA DefStep ==
  ASSUME IInv, Def
  PROVE  IInv'
<1>. USE DEF Def
<1>. DEFINE M == [mod EXCEPT !.defined = Put(mod.defined, s.ident, Pos)]
<1>1. /\ it \in DOMAIN inode2module /\ it \in Reached /\ it \in Inode
      /\ mod.status = "GOOD" /\ mod \in Module /\ mod = inode2module[it]
      /\ k - 1 \in Nat /\ (k - 1) + 1 = k /\ k <= Len(Text(it)) /\ k \in DOMAIN Text(it)
      /\ s = Text(it)[k] /\ s \in Stmts /\ Text(it) \in Seq(Stmts)
      /\ TablesRight(mod, Text(it), it, k - 1)
      /\ ImportsRight(mod, Text(it), k - 1, DOMAIN inode2module)
      /\ n_errors = 0 => Clean(Text(it), k - 1)
  BY AtStatement
<1>2. TypeOK /\ k \in Nat /\ n_errors \in Nat
  BY DEF IInv, TypeOK
<1>3. s.ident \in Ident /\ Pos \in Place /\ Pos = <<it, k>>
  BY <1>1, <1>2, StmtFacts DEF Pos, Place
<1>4. CASE Redefined(s.ident)
  <2>1. s.ident \in DOMAIN mod.defined \cup DOMAIN mod.macro
    BY <1>4 DEF Redefined
  <2>2. n_errors' = n_errors + 1 /\ UNCHANGED <<inode2module, depended_by, used_as>>
    BY <1>4
  <2>3. Faulty
    BY <1>1, <1>2, <2>1, FaultName
  <2>4. TablesRight(mod, Text(it), it, (k - 1) + 1)
    BY <1>1, <2>1, TablesTaken
  <2>5. ImportsRight(mod, Text(it), (k - 1) + 1, DOMAIN inode2module)
    BY <1>1, ImportsOther
  <2>6. TypeOK'
    BY <1>2, <2>2 DEF TypeOK
  <2>7. KeysInv'
    BY <2>2, KeysSame DEF IInv, Loading
  <2>8. Registered
    BY <1>1, <1>2, <2>2, <2>3, <2>4, <2>5 DEF Registered
  <2>. QED BY <2>6, <2>7, <2>8, StatementStep
<1>5. CASE ~ Redefined(s.ident)
  <2>1. s.ident \notin DOMAIN mod.defined \cup DOMAIN mod.macro
    BY <1>5 DEF Redefined
  <2>2. Put(mod.defined, s.ident, Pos) \in Maps(Ident, Place)
    BY <1>1, <1>3, PutType DEF Module
  <2>3. /\ M \in Module /\ M.defined = Put(mod.defined, s.ident, Pos)
        /\ M.macro = mod.macro /\ M.defined_action = mod.defined_action
        /\ M.status = mod.status /\ M.qualified_import = mod.qualified_import
        /\ M.unqualified_import = mod.unqualified_import
    BY <1>1, <2>2 DEF Module
  <2>4. /\ inode2module' = [inode2module EXCEPT ![it] = M] /\ n_errors' = n_errors
        /\ depended_by' = Put(depended_by, Pos, <<>>)
        /\ used_as' = [kind \in Kinds |-> Put(used_as[kind], Pos, <<>>)]
    BY <1>1, <1>5
  <2>. HIDE DEF M
  <2>5. /\ inode2module' \in Maps(Inode, Module) /\ DOMAIN inode2module' = DOMAIN inode2module
        /\ inode2module'[it] = M
        /\ \A m \in DOMAIN inode2module : m # it => inode2module'[m] = inode2module[m]
    BY <1>1, <1>2, <2>3, <2>4, ModuleSet
  <2>6. TypeOK'
    <3>1. depended_by' \in Maps(Place, Seq(Place))
      <4>1. depended_by \in Maps(Place, Seq(Place)) /\ <<>> \in Seq(Place)
        BY <1>2 DEF TypeOK
      <4>. QED BY <1>3, <2>4, <4>1, PutType
    <3>2. ASSUME NEW kind \in Kinds PROVE Put(used_as[kind], Pos, <<>>) \in Maps(Place, Seq(UsePlace))
      <4>1. used_as[kind] \in Maps(Place, Seq(UsePlace)) /\ <<>> \in Seq(UsePlace)
        BY <1>2 DEF TypeOK
      <4>. QED BY <1>3, <4>1, PutType
    <3>3. used_as' \in [Kinds -> Maps(Place, Seq(UsePlace))]
      BY <2>4, <3>2
    <3>. QED BY <1>2, <2>4, <2>5, <3>1, <3>3 DEF TypeOK
  <2>7. KeysInv'
    <3>1. /\ DOMAIN M.defined = DOMAIN mod.defined \cup {s.ident} /\ M.defined[s.ident] = Pos
          /\ \A x \in DOMAIN mod.defined : x # s.ident => M.defined[x] = mod.defined[x]
      BY <2>3 DEF Put
    <3>2. /\ DOMAIN depended_by' = DOMAIN depended_by \cup {Pos} /\ depended_by'[Pos] = <<>>
          /\ \A d \in DOMAIN depended_by : d # Pos => depended_by'[d] = depended_by[d]
      BY <2>4 DEF Put
    <3>3. ASSUME NEW kind \in Kinds
          PROVE  /\ DOMAIN used_as'[kind] = DOMAIN used_as[kind] \cup {Pos}
                 /\ used_as'[kind][Pos] = <<>>
                 /\ \A d \in DOMAIN used_as[kind] : d # Pos => used_as'[kind][d] = used_as[kind][d]
      <4>1. used_as'[kind] = Put(used_as[kind], Pos, <<>>)
        BY <2>4
      <4>. QED BY <4>1 DEF Put
    <3>4. KeysInv /\ Loading /\ Loading'
      BY DEF IInv, Loading
    <3>5. ASSUME NEW m \in DOMAIN inode2module', NEW x \in DOMAIN inode2module'[m].defined
          PROVE  inode2module'[m].defined[x] \in DOMAIN depended_by'
      <4>1. CASE m # it
        BY <2>5, <3>2, <3>4, <3>5, <4>1 DEF KeysInv
      <4>2. CASE m = it /\ x = s.ident
        BY <2>5, <3>1, <3>2, <4>2
      <4>3. CASE m = it /\ x # s.ident
        BY <1>1, <2>5, <3>1, <3>2, <3>4, <3>5, <4>3 DEF KeysInv
      <4>. QED BY <4>1, <4>2, <4>3
    <3>6. ASSUME NEW d \in DOMAIN depended_by'
          PROVE  /\ d[1] \in DOMAIN inode2module'
                 /\ \E x \in DOMAIN inode2module'[d[1]].defined : inode2module'[d[1]].defined[x] = d
      <4>1. CASE d = Pos
        <5>1. d[1] = it
          BY <1>3, <4>1
        <5>. QED BY <1>1, <2>5, <3>1, <4>1, <5>1
      <4>2. CASE d # Pos
        <5>1. d \in DOMAIN depended_by
          BY <3>2, <3>6, <4>2
        <5>2. PICK x \in DOMAIN inode2module[d[1]].defined : inode2module[d[1]].defined[x] = d
          BY <3>4, <5>1 DEF KeysInv
        <5>3. d[1] \in DOMAIN inode2module
          BY <3>4, <5>1 DEF KeysInv
        <5>4. CASE d[1] = it
          <6>1. x # s.ident
            BY <1>1, <2>1, <5>2, <5>4
          <6>. QED BY <1>1, <2>5, <3>1, <5>2, <5>4, <6>1
        <5>5. CASE d[1] # it
          BY <2>5, <5>2, <5>3, <5>5
        <5>. QED BY <5>4, <5>5
      <4>. QED BY <4>1, <4>2
    <3>7. \A kind \in Kinds : DOMAIN used_as'[kind] = DOMAIN depended_by'
      BY <3>2, <3>3, <3>4 DEF KeysInv
    <3>8. \A d \in DOMAIN depended_by' : depended_by'[d] = <<>>
      BY <3>2, <3>4 DEF KeysInv
    <3>9. ASSUME NEW d \in DOMAIN depended_by', NEW kind \in Kinds PROVE used_as'[kind][d] = <<>>
      <4>1. DOMAIN used_as[kind] = DOMAIN depended_by
        BY <3>4 DEF KeysInv
      <4>. QED BY <3>2, <3>3, <3>4, <4>1 DEF KeysInv
    <3>10. DOMAIN define_stmt' = {}
      BY <3>4 DEF KeysInv
    <3>. QED BY <3>5, <3>6, <3>7, <3>8, <3>9, <3>10 DEF KeysInv
  <2>8. TablesRight(M, Text(it), it, (k - 1) + 1)
    BY <1>1, <1>3, <2>1, <2>3, TablesDefine
  <2>9. ImportsRight(M, Text(it), (k - 1) + 1, DOMAIN inode2module)
    BY <1>1, <2>3, ImportsOther
  <2>10. \A p \in Among(Text(it), k - 1, {"define", "macro"}) :
           Text(it)[p].ident # Text(it)[(k - 1) + 1].ident
    BY <1>1, <2>1 DEF TablesRight
  <2>11. n_errors' = 0 => Clean(Text(it), (k - 1) + 1)
    BY <1>1, <2>4, <2>10, CleanNext
  <2>12. Registered
    BY <1>1, <1>2, <2>3, <2>4, <2>5, <2>8, <2>9, <2>11 DEF Registered
  <2>. QED BY <2>6, <2>7, <2>12, StatementStep
<1>. QED BY <1>4, <1>5

(* load_module in the first loop.                                          *)
LEMMA LoadFacts ==
  ASSUME TypeOK, NEW t \in Inode
  PROVE  /\ Load(t) \in Maps(Inode, Module)
         /\ DOMAIN Load(t) = DOMAIN inode2module \cup {t}
         /\ \A m \in DOMAIN inode2module : Load(t)[m] = inode2module[m]
         /\ t \notin DOMAIN inode2module => Load(t)[t] = NewModule(t)
<1>1. NewModule(t) \in Module
  <2>1. <<>> \in Maps(Ident, Place) /\ <<>> \in Maps(Qualifier, Inode) /\ <<>> \in Seq(Inode)
    BY EmptyMap
  <2>. QED BY <2>1 DEF NewModule, Module
<1>2. inode2module \in Maps(Inode, Module)
  BY DEF TypeOK
<1>3. Put(inode2module, t, NewModule(t)) \in Maps(Inode, Module)
  BY <1>1, <1>2, PutType
<1>4. CASE t \in DOMAIN inode2module
  BY <1>2, <1>4 DEF Load, Emplaced
<1>5. CASE t \notin DOMAIN inode2module
  <2>1. Load(t) = Put(inode2module, t, NewModule(t))
    BY <1>5 DEF Load, Emplaced
  <2>2. /\ DOMAIN Load(t) = DOMAIN inode2module \cup {t}
        /\ Load(t)[t] = NewModule(t)
        /\ \A m \in DOMAIN inode2module : m # t => Load(t)[m] = inode2module[m]
    BY <2>1 DEF Put
  <2>. QED BY <1>3, <1>5, <2>1, <2>2
<1>. QED BY <1>4, <1>5

LEMMA ImportStep ==
  ASSUME IInv, Import
  PROVE  IInv'
<1>. USE DEF Import
<1>1. /\ it \in DOMAIN inode2module /\ it \in Reached /\ it \in Inode
      /\ mod.status = "GOOD" /\ mod \in Module /\ mod = inode2module[it]
      /\ k - 1 \in Nat /\ (k - 1) + 1 = k /\ k <= Len(Text(it)) /\ k \in DOMAIN Text(it)
      /\ s = Text(it)[k] /\ s \in Stmts /\ Text(it) \in Seq(Stmts)
      /\ TablesRight(mod, Text(it), it, k - 1)
      /\ ImportsRight(mod, Text(it), k - 1, DOMAIN inode2module)
      /\ n_errors = 0 => Clean(Text(it), k - 1)
  BY AtStatement
<1>2. TypeOK /\ k \in Nat /\ n_errors \in Nat
  BY DEF IInv, TypeOK
<1>3. s.kind = "import" /\ s.target \in Inode \cup {None} /\ s.qualified \in Qualifier \cup {Unqualified}
  BY <1>1, StmtFacts
<1>4. CASE s.target = None
  <2>1. n_errors' = n_errors + 2 /\ inode2module' = inode2module
    BY <1>2, <1>4 DEF LoadErrors
  <2>2. Faulty
    BY <1>1, <1>3, <1>4, FaultTarget
  <2>3. TablesRight(mod, Text(it), it, (k - 1) + 1)
    BY <1>1, <1>3, TablesImport
  <2>4. ImportsRight(mod, Text(it), (k - 1) + 1, DOMAIN inode2module)
    BY <1>1, <1>4, ImportsOther
  <2>5. TypeOK'
    BY <1>2, <2>1 DEF TypeOK
  <2>6. KeysInv'
    BY <2>1, KeysSame DEF IInv, Loading
  <2>7. Registered
    BY <1>1, <1>2, <2>1, <2>2, <2>3, <2>4 DEF Registered
  <2>. QED BY <2>5, <2>6, <2>7, StatementStep
<1>5. CASE s.target # None
  <2>. DEFINE t == s.target
              L == Load(t)
              M == Imported(mod)
              D == DOMAIN inode2module \cup {t}
  <2>1. t \in Inode
    BY <1>3, <1>5
  <2>2. /\ L \in Maps(Inode, Module) /\ DOMAIN L = D
        /\ \A m \in DOMAIN inode2module : L[m] = inode2module[m]
        /\ t \notin DOMAIN inode2module => L[t] = NewModule(t)
    BY <1>2, <2>1, LoadFacts
  <2>3. t \in Reached
    <3>1. t \in Targets(it)
      BY <1>1, <1>3, <1>5 DEF Targets, Of
    <3>. QED BY <1>1, <1>2, <3>1, ReachedFacts
  <2>4. /\ M \in Module /\ M.status = mod.status
        /\ M.defined = mod.defined /\ M.macro = mod.macro
        /\ M.defined_action = mod.defined_action
        /\ t \in D => ImportsRight(M, Text(it), (k - 1) + 1, D)
    <3>1. ImportsRight(mod, Text(it), k - 1, D)
      BY <1>1, ImportsMore
    <3>2. CASE s.qualified # Unqualified
      <4>1. M = [mod EXCEPT !.qualified_import = Put(mod.qualified_import, s.qualified, t)]
        BY <1>1, <3>2 DEF Imported
      <4>2. Put(mod.qualified_import, s.qualified, t) \in Maps(Qualifier, Inode)
        BY <1>1, <1>3, <2>1, <3>2, PutType DEF Module
      <4>3. /\ M \in Module /\ M.status = mod.status
            /\ M.defined = mod.defined /\ M.macro = mod.macro
            /\ M.defined_action = mod.defined_action
            /\ M.unqualified_import = mod.unqualified_import
            /\ M.qualified_import = Put(mod.qualified_import, s.qualified, t)
        BY <1>1, <4>1, <4>2 DEF Module
      <4>4. ImportsRight(M, Text(it), (k - 1) + 1, D)
        <5>. HIDE DEF M
        <5>1. /\ Text(it)[(k - 1) + 1].kind = "import" /\ Text(it)[(k - 1) + 1].target = t
              /\ Text(it)[(k - 1) + 1].qualified = s.qualified
          BY <1>1, <1>3
        <5>. QED BY <1>1, <1>5, <3>1, <3>2, <4>3, <5>1, ImportsQualified
      <4>. QED BY <4>3, <4>4
    <3>3. CASE s.qualified = Unqualified
      <4>. DEFINE q == mod.unqualified_import
                  r == IF Contains(q, t) THEN q ELSE Append(q, t)
      <4>1. M = [mod EXCEPT !.unqualified_import = r]
        BY <1>1, <3>3 DEF Imported
      <4>2. q \in Seq(Inode) /\ r \in Seq(Inode)
        BY <1>1, <2>1 DEF Module
      <4>. HIDE DEF r
      <4>3. /\ M \in Module /\ M.status = mod.status
            /\ M.defined = mod.defined /\ M.macro = mod.macro
            /\ M.defined_action = mod.defined_action
            /\ M.qualified_import = mod.qualified_import
            /\ M.unqualified_import = r
        BY <1>1, <4>1, <4>2 DEF Module
      <4>4. Unqualified \notin DOMAIN mod.qualified_import
        <5>1. mod.qualified_import \in Maps(Qualifier, Inode)
          BY <1>1 DEF Module
        <5>. QED BY <5>1, MapFacts, LoaderAssumption
      <4>5. ImportsRight(M, Text(it), (k - 1) + 1, D)
        <5>. HIDE DEF M
        <5>1. /\ Text(it)[(k - 1) + 1].kind = "import" /\ Text(it)[(k - 1) + 1].target = t
              /\ Text(it)[(k - 1) + 1].qualified = Unqualified
          BY <1>1, <1>3, <3>3
        <5>2. /\ Contains(q, t) => M.unqualified_import = q
              /\ ~ Contains(q, t) => M.unqualified_import = Append(q, t)
          BY <4>3 DEF r
        <5>. QED BY <1>1, <1>5, <2>1, <3>1, <4>2, <4>3, <4>4, <5>1, <5>2, ImportsUnqualified
      <4>. QED BY <4>3, <4>5
    <3>. QED BY <1>3, <3>2, <3>3
  <2>5. inode2module' = [L EXCEPT ![it] = M]
    BY <1>1, <1>5, <2>2
  <2>. HIDE DEF M, L
  <2>6. /\ inode2module' \in Maps(Inode, Module) /\ DOMAIN inode2module' = D
        /\ inode2module'[it] = M
        /\ \A m \in D : m # it => inode2module'[m] = L[m]
    <3>1. L = [m \in D |-> L[m]] /\ D \in SUBSET Inode /\ \A m \in D : L[m] \in Module
      BY <2>2, MapFacts
    <3>2. /\ DOMAIN inode2module' = D /\ inode2module'[it] = M
          /\ \A m \in D : m # it => inode2module'[m] = L[m]
          /\ inode2module' \in [D -> Module]
      BY <1>1, <2>4, <2>5, <3>1
    <3>. QED BY <3>1, <3>2 DEF Maps
  <2>7. TypeOK' /\ n_errors' \in Nat /\ n_errors' >= n_errors
        /\ (n_errors' > n_errors => t \notin DOMAIN inode2module /\ files[t].errors > 0)
        /\ (n_errors' = 0 => n_errors = 0 /\ (t \notin DOMAIN inode2module => files[t].errors = 0))
    <3>1. files[t].errors \in Nat
      BY <1>2, <2>1, TextFacts
    <3>2. n_errors' = n_errors + (IF t \in DOMAIN inode2module THEN 0 ELSE files[t].errors)
      BY <1>5 DEF LoadErrors
    <3>3. n_errors' \in Nat
      BY <1>2, <3>1, <3>2
    <3>4. TypeOK'
      BY <1>2, <2>6, <3>3 DEF TypeOK
    <3>. QED BY <1>2, <3>1, <3>2, <3>3, <3>4
  <2>8. \A m \in DOMAIN inode2module' \ DOMAIN inode2module : m = t /\ inode2module'[m] = NewModule(m)
    BY <1>1, <2>2, <2>6
  <2>9. \A m \in DOMAIN inode2module : m # it => inode2module'[m] = inode2module[m]
    BY <2>2, <2>6
  <2>10. KeysInv'
    <3>1. \A m \in DOMAIN inode2module' \ DOMAIN inode2module : DOMAIN inode2module'[m].defined = {}
      BY <2>8 DEF NewModule
    <3>. QED BY <1>1, <2>4, <2>6, <2>9, <3>1, KeysSame DEF IInv, Loading
  <2>11. Faulty \/ ~ (n_errors' > n_errors)
    BY <2>3, <2>7, FaultFile
  <2>12. TablesRight(M, Text(it), it, (k - 1) + 1)
    BY <1>1, <1>3, <2>4, TablesImport
  <2>13. n_errors' = 0 => Clean(Text(it), (k - 1) + 1)
    BY <1>1, <1>3, <1>5, <2>7, CleanNext
  <2>14. Registered
    BY <1>1, <1>2, <2>3, <2>4, <2>6, <2>7, <2>8, <2>9, <2>11, <2>12, <2>13 DEF Registered
  <2>. QED BY <2>7, <2>10, <2>14, StatementStep
<1>. QED BY <1>4, <1>5

-----------------------------------------------------------------------------
(* Steps that register nothing.                                            *)
LEMMA ImportKept ==
  ASSUME ImportInv, files' = files, DOMAIN inode2module' = DOMAIN inode2module,
         \A m \in DOMAIN inode2module :
           /\ inode2module'[m].defined = inode2module[m].defined
           /\ inode2module'[m].macro = inode2module[m].macro
           /\ inode2module'[m].defined_action = inode2module[m].defined_action
           /\ inode2module'[m].qualified_import = inode2module[m].qualified_import
           /\ inode2module'[m].unqualified_import = inode2module[m].unqualified_import
           /\ Seen(m)' = Seen(m),
         n_errors' = 0 \/ Using' =>
           /\ n_errors = 0 \/ Using
           /\ \A m \in DOMAIN inode2module :
                inode2module'[m].status = "BAD" => inode2module[m].status = "BAD"
  PROVE  ImportInv'
<1>1. \A m : Text(m)' = Text(m)
  BY SameFiles
<1>2. ASSUME NEW m \in DOMAIN inode2module
      PROVE  TablesRight(inode2module'[m], Text(m), m, Seen(m))
  <2>1. TablesRight(inode2module[m], Text(m), m, Seen(m))
    BY DEF ImportInv
  <2>. QED BY <2>1 DEF TablesRight
<1>3. ASSUME NEW m \in DOMAIN inode2module
      PROVE  ImportsRight(inode2module'[m], Text(m), Seen(m), DOMAIN inode2module)
  <2>1. ImportsRight(inode2module[m], Text(m), Seen(m), DOMAIN inode2module)
    BY DEF ImportInv
  <2>. QED BY <2>1 DEF ImportsRight
<1>4. ASSUME n_errors' = 0 \/ Using', NEW m \in DOMAIN inode2module
      PROVE  Clean(Text(m), Seen(m)) /\ files'[m].errors = 0 /\ inode2module'[m].status # "BAD"
  BY <1>4 DEF ImportInv
<1>. QED BY <1>1, <1>2, <1>3, <1>4 DEF ImportInv

LEMMA KeysKept ==
  ASSUME KeysInv, Loading' => Loading, UNCHANGED <<define_stmt, depended_by, used_as>>,
         DOMAIN inode2module' = DOMAIN inode2module,
         \A m \in DOMAIN inode2module : inode2module'[m].defined = inode2module[m].defined
  PROVE  KeysInv'
<1>1. \A m \in DOMAIN inode2module' : \A x \in DOMAIN inode2module'[m].defined :
        inode2module'[m].defined[x] \in DOMAIN depended_by'
  BY DEF KeysInv
<1>2. \A d \in DOMAIN depended_by' :
        /\ d[1] \in DOMAIN inode2module'
        /\ \E x \in DOMAIN inode2module'[d[1]].defined : inode2module'[d[1]].defined[x] = d
  BY DEF KeysInv
<1>3. \A kind \in Kinds : DOMAIN used_as'[kind] = DOMAIN depended_by'
  BY DEF KeysInv
<1>4. Loading' =>
        /\ DOMAIN define_stmt' = {}
        /\ \A d \in DOMAIN depended_by' :
             depended_by'[d] = <<>> /\ \A kind \in Kinds : used_as'[kind][d] = <<>>
  BY DEF KeysInv
<1>. QED BY <1>1, <1>2, <1>3, <1>4 DEF KeysInv

LEMMA SameUses ==
  ASSUME files' = files
  PROVE  /\ Uses' = Uses /\ \A u : UseAt(u)' = UseAt(u)
         /\ \A u : FaultyUse(u[1], UseAt(u))' <=> FaultyUse(u[1], UseAt(u))
         /\ \A u : Meant(u[1], UseAt(u))' = Meant(u[1], UseAt(u))
<1>1. /\ Uses' = Uses /\ \A u : UseAt(u)' = UseAt(u)
      /\ \A m, u : Meant(m, u)' = Meant(m, u)
      /\ \A m, u : FaultyUse(m, u)' <=> FaultyUse(m, u)
  BY SameFiles
<1>2. \A u : FaultyUse(u[1], UseAt(u))' <=> FaultyUse(u[1], UseAt(u))
  <2>1. ASSUME NEW u PROVE FaultyUse(u[1], UseAt(u))' <=> FaultyUse(u[1], UseAt(u))
    <3>1. PICK x : x = UseAt(u)
      OBVIOUS
    <3>2. FaultyUse(u[1], x)' <=> FaultyUse(u[1], x)
      BY <1>1
    <3>. QED BY <1>1, <3>1, <3>2
  <2>. QED BY <2>1
<1>3. \A u : Meant(u[1], UseAt(u))' = Meant(u[1], UseAt(u))
  <2>1. ASSUME NEW u PROVE Meant(u[1], UseAt(u))' = Meant(u[1], UseAt(u))
    <3>1. PICK x : x = UseAt(u)
      OBVIOUS
    <3>2. Meant(u[1], x)' = Meant(u[1], x)
      BY <1>1
    <3>. QED BY <1>1, <3>1, <3>2
  <2>. QED BY <2>1
<1>. QED BY <1>1, <1>2, <1>3

LEMMA BoundKept ==
  ASSUME BoundInv, files' = files, define_stmt' = define_stmt, Using' => Using,
         n_errors' = 0 => n_errors = 0,
         Using' => \A u \in Uses : UseVisited(u)' <=> UseVisited(u)
  PROVE  BoundInv'
<1>1. /\ Uses' = Uses
      /\ \A u : FaultyUse(u[1], UseAt(u))' <=> FaultyUse(u[1], UseAt(u))
      /\ \A u : Meant(u[1], UseAt(u))' = Meant(u[1], UseAt(u))
  BY SameUses
<1>. SUFFICES ASSUME Using' PROVE BoundInv'
  BY DEF BoundInv
<1>2. DOMAIN define_stmt' = {u \in Uses : UseVisited(u) /\ ~ FaultyUse(u[1], UseAt(u))}
  BY DEF BoundInv
<1>3. {u \in Uses : UseVisited(u) /\ ~ FaultyUse(u[1], UseAt(u))}
        = {u \in Uses' : UseVisited(u)' /\ ~ FaultyUse(u[1], UseAt(u))'}
  BY <1>1
<1>4. \A u \in DOMAIN define_stmt' : Meant(u[1], UseAt(u))' = {define_stmt'[u]}
  BY <1>1 DEF BoundInv
<1>5. n_errors' = 0 => \A u \in Uses' : UseVisited(u)' => ~ FaultyUse(u[1], UseAt(u))'
  BY <1>1 DEF BoundInv
<1>. QED BY <1>2, <1>3, <1>4, <1>5 DEF BoundInv

LEMMA RecordKept ==
  ASSUME RecordInv, files' = files, UNCHANGED <<define_stmt, depended_by, used_as>>,
         Using' => Using
  PROVE  RecordInv'
<1>1. \A u : UseAt(u)' = UseAt(u)
  BY SameFiles
<1>. QED BY <1>1 DEF RecordInv

-----------------------------------------------------------------------------
(* The uses, and the next one.                                             *)
LEMMA UseFacts ==
  ASSUME TypeOK
  PROVE  /\ \A u \in Uses :
              /\ u = <<u[1], u[2], u[3]>> /\ u[1] \in Reached /\ u[1] \in Nat \ {None}
              /\ u[2] \in Of({"define"}, u[1]) /\ u[2] \in 1 .. Len(Text(u[1]))
              /\ u[3] \in 1 .. Len(Text(u[1])[u[2]].uses) /\ u[3] \in Nat \ {0}
              /\ UseAt(u) \in Use /\ u \in UsePlace
         /\ \A m \in Reached : \A p \in Of({"define"}, m) : \A n \in DOMAIN Text(m)[p].uses :
              <<m, p, n>> \in Uses
<1>1. ASSUME NEW m \in Reached, NEW p \in Of({"define"}, m)
      PROVE  /\ m \in Inode /\ m \in Nat \ {None} /\ p \in 1 .. Len(Text(m)) /\ p \in Nat \ {0}
             /\ Text(m)[p].uses \in Seq(Use)
             /\ DOMAIN Text(m)[p].uses = 1 .. Len(Text(m)[p].uses)
  <2>1. m \in Inode /\ m \in Nat \ {None}
    BY <1>1, ReachedFacts, LoaderAssumption
  <2>2. p \in 1 .. Len(Text(m)) /\ Text(m)[p] \in Stmts /\ Text(m)[p].kind = "define"
        /\ Len(Text(m)) \in Nat
    BY <1>1, <2>1, TextFacts DEF Of
  <2>3. Text(m)[p].uses \in Seq(Use)
    BY <2>2, StmtFacts
  <2>. QED BY <2>1, <2>2, <2>3
<1>2. ASSUME NEW u \in Uses
      PROVE  /\ u = <<u[1], u[2], u[3]>> /\ u[1] \in Reached
             /\ u[2] \in Of({"define"}, u[1]) /\ u[3] \in DOMAIN Text(u[1])[u[2]].uses
  <2>1. PICK d \in Definitions : u \in {<<d[1], d[2], n>> : n \in DOMAIN Text(d[1])[d[2]].uses}
    BY <1>2 DEF Uses
  <2>2. PICK n \in DOMAIN Text(d[1])[d[2]].uses : u = <<d[1], d[2], n>>
    BY <2>1
  <2>3. d[1] \in Reached /\ d[2] \in Of({"define"}, d[1])
    BY <2>1 DEF Definitions
  <2>. QED BY <2>2, <2>3
<1>3. ASSUME NEW u \in Uses
      PROVE  /\ u[1] \in Nat \ {None} /\ u[2] \in 1 .. Len(Text(u[1]))
             /\ u[3] \in 1 .. Len(Text(u[1])[u[2]].uses) /\ u[3] \in Nat \ {0}
             /\ UseAt(u) \in Use /\ u \in UsePlace
  <2>1. /\ u[1] \in Inode /\ u[1] \in Nat \ {None} /\ u[2] \in 1 .. Len(Text(u[1]))
        /\ u[2] \in Nat \ {0} /\ Text(u[1])[u[2]].uses \in Seq(Use)
        /\ u[3] \in 1 .. Len(Text(u[1])[u[2]].uses)
    BY <1>1, <1>2
  <2>2. u[3] \in Nat \ {0}
    BY <2>1
  <2>3. UseAt(u) \in Use
    BY <2>1 DEF UseAt
  <2>4. <<u[1], u[2], u[3]>> \in UsePlace
    BY <2>1, <2>2 DEF UsePlace
  <2>. QED BY <1>2, <2>1, <2>2, <2>3, <2>4
<1>4. ASSUME NEW m \in Reached, NEW p \in Of({"define"}, m), NEW n \in DOMAIN Text(m)[p].uses
      PROVE  <<m, p, n>> \in Uses
  <2>1. PICK d : d = <<m, p>>
    OBVIOUS
  <2>2. d \in Definitions /\ d[1] = m /\ d[2] = p
    BY <2>1 DEF Definitions
  <2>. QED BY <2>2 DEF Uses
<1>. QED BY <1>2, <1>3, <1>4

-----------------------------------------------------------------------------
LEMMA InitStep ==
  ASSUME InitFrom([Inode -> File])
  PROVE  IInv
<1>. USE DEF InitFrom
<1>1. TypeOK
  <2>1. /\ <<>> \in Maps(Inode, Module) /\ <<>> \in Maps(UsePlace, Place)
        /\ <<>> \in Maps(Place, Seq(Place)) /\ <<>> \in Maps(Place, Seq(UsePlace))
    BY EmptyMap
  <2>. QED BY <2>1 DEF TypeOK
<1>2. DOMAIN inode2module = {} /\ DOMAIN define_stmt = {} /\ DOMAIN depended_by = {}
      /\ \A kind \in Kinds : DOMAIN used_as[kind] = {}
  BY EmptyMap
<1>3. ControlInv
  BY <1>2 DEF ControlInv, Failed, Linked
<1>4. ImportInv
  BY <1>2 DEF ImportInv
<1>5. KeysInv
  BY <1>2 DEF KeysInv
<1>6. ReachInv /\ FaultInv /\ BoundInv /\ RecordInv
  BY <1>2 DEF ReachInv, FaultInv, BoundInv, RecordInv, Using, Linked
<1>. QED BY <1>1, <1>3, <1>4, <1>5, <1>6 DEF IInv

LEMMA LoadMainStep ==
  ASSUME IInv, LoadMain
  PROVE  IInv'
<1>. USE DEF LoadMain
<1>1. TypeOK /\ DOMAIN inode2module = {} /\ n_errors = 0 /\ k = 0 /\ Main \in Inode
  BY LoaderAssumption DEF IInv, ControlInv
<1>2. /\ inode2module' \in Maps(Inode, Module) /\ DOMAIN inode2module' = {Main}
      /\ inode2module'[Main] = NewModule(Main)
  BY <1>1, LoadFacts
<1>3. n_errors' = files[Main].errors /\ n_errors' \in Nat /\ Main # None
  BY <1>1, TextFacts, LoaderAssumption DEF LoadErrors
<1>4. /\ \A m : Text(m)' = Text(m)
      /\ Reached' = Reached /\ (Faulty' <=> Faulty)
  BY SameFiles
<1>5. TypeOK'
  BY <1>1, <1>2, <1>3 DEF TypeOK
<1>6. ControlInv'
  BY <1>1, <1>2, <1>3 DEF ControlInv, Failed, Linked
<1>7. ImportInv'
  <2>1. Seen(Main)' = 0
    <3>1. CASE files[Main].errors > 0
      <4>1. Text(Main) = <<>> /\ inode2module'[Main].status = "BAD"
        BY <1>2, <3>1 DEF Text, NewModule
      <4>. QED BY <1>1, <1>4, <4>1 DEF Seen
    <3>2. CASE ~ (files[Main].errors > 0)
      BY <1>2, <3>2 DEF Seen, NewModule
    <3>. QED BY <3>1, <3>2
  <2>2. /\ TablesRight(NewModule(Main), Text(Main), Main, 0)
        /\ ImportsRight(NewModule(Main), Text(Main), 0, DOMAIN inode2module')
        /\ Clean(Text(Main), 0) /\ (files[Main].errors = 0 => NewModule(Main).status # "BAD")
    BY <1>1, NewRight
  <2>. QED BY <1>2, <1>3, <1>4, <2>1, <2>2 DEF ImportInv, Using, Linked
<1>8. KeysInv'
  <2>1. \A m \in DOMAIN inode2module' \ DOMAIN inode2module : DOMAIN inode2module'[m].defined = {}
    BY <1>2 DEF NewModule
  <2>. QED BY <1>1, <2>1, KeysSame DEF IInv, Loading
<1>9. ReachInv'
  <2>1. Main \in Reached
    BY <1>1, ReachedFacts
  <2>2. Main \in Nat /\ Main # None /\ ~ (Main < Main)
    BY LoaderAssumption
  <2>. QED BY <1>2, <1>4, <2>1, <2>2 DEF ReachInv, Using, Linked
<1>10. FaultInv'
  BY <1>1, <1>3, <1>4, ReachedFacts, FaultFile DEF FaultInv
<1>11. BoundInv' /\ RecordInv'
  BY DEF BoundInv, RecordInv, Using, Linked
<1>. QED BY <1>5, <1>6, <1>7, <1>8, <1>9, <1>10, <1>11 DEF IInv

LEMMA EnterStep ==
  ASSUME IInv, Enter
  PROVE  IInv'
<1>. USE DEF Enter
<1>1. TypeOK /\ it # None /\ k = 0 /\ pc \in {"import", "use"} /\ it \in DOMAIN inode2module
      /\ it \in Inode /\ mod = inode2module[it] /\ mod \in Module /\ n_errors \in Nat
  <2>1. TypeOK /\ it # None /\ k = 0 /\ pc \in {"import", "use"} /\ it \in DOMAIN inode2module
        /\ mod = inode2module[it]
    BY DEF AtModule, IInv, ControlInv, mod
  <2>. QED BY <2>1, ModuleMap DEF TypeOK
<1>2. Len(Text(it)) \in Nat
  BY <1>1, TextFacts
<1>3. (\A m : Text(m)' = Text(m)) /\ Reached' = Reached /\ (Faulty' <=> Faulty) /\ Uses' = Uses
      /\ Text(it)' = Text(it)
  <2>1. Text(it)' = Text(it)
    BY DEF Text
  <2>. QED BY <2>1, SameFiles
<1>4. CASE pc = "import"
  <2>. DEFINE M == [mod EXCEPT !.status = "GOOD"]
  <2>1. mod.status = "UNPROCESSED" /\ done' = FALSE /\ old' = n_errors
        /\ inode2module' = [inode2module EXCEPT ![it] = M]
    BY <1>1, <1>4 DEF Wanted
  <2>2. /\ M \in Module /\ M.status = "GOOD" /\ M.defined = mod.defined /\ M.macro = mod.macro
        /\ M.defined_action = mod.defined_action /\ M.qualified_import = mod.qualified_import
        /\ M.unqualified_import = mod.unqualified_import
    BY <1>1 DEF Module
  <2>. HIDE DEF M
  <2>3. /\ inode2module' \in Maps(Inode, Module) /\ DOMAIN inode2module' = DOMAIN inode2module
        /\ inode2module'[it] = M
        /\ \A m \in DOMAIN inode2module : m # it => inode2module'[m] = inode2module[m]
    BY <1>1, <2>1, <2>2, ModuleSet
  <2>4. TypeOK'
    BY <1>1, <2>1, <2>3 DEF TypeOK
  <2>5. ControlInv'
    BY <1>1, <1>2, <1>3, <1>4, <2>1, <2>2, <2>3 DEF IInv, ControlInv, Failed, Linked
  <2>6. ImportInv'
    <3>1. ASSUME NEW m \in DOMAIN inode2module PROVE Seen(m)' = Seen(m)
      <4>1. CASE m = it
        <5>1. Seen(m) = 0
          BY <1>1, <2>1, <4>1 DEF Seen
        <5>2. Seen(m)' = 0
          BY <1>4, <2>2, <2>3, <4>1 DEF Seen
        <5>. QED BY <5>1, <5>2
      <4>2. CASE m # it
        BY <1>3, <2>3, <4>2 DEF Seen
      <4>. QED BY <4>1, <4>2
    <3>2. \A m \in DOMAIN inode2module :
            inode2module'[m].status = "BAD" => inode2module[m].status = "BAD"
      BY <2>2, <2>3
    <3>3. n_errors' = 0 \/ Using' => n_errors = 0 \/ Using
      BY DEF Using
    <3>4. ASSUME NEW m \in DOMAIN inode2module
          PROVE  /\ inode2module'[m].defined = inode2module[m].defined
                 /\ inode2module'[m].macro = inode2module[m].macro
                 /\ inode2module'[m].defined_action = inode2module[m].defined_action
                 /\ inode2module'[m].qualified_import = inode2module[m].qualified_import
                 /\ inode2module'[m].unqualified_import = inode2module[m].unqualified_import
      BY <1>1, <2>2, <2>3
    <3>. QED BY <2>3, <3>1, <3>2, <3>3, <3>4, ImportKept DEF IInv
  <2>7. KeysInv'
    <3>1. \A m \in DOMAIN inode2module : inode2module'[m].defined = inode2module[m].defined
      BY <1>1, <2>2, <2>3
    <3>. QED BY <2>3, <3>1, KeysKept DEF IInv, Loading
  <2>8. ReachInv'
    BY <1>3, <1>4, <2>1, <2>3 DEF IInv, ReachInv, Using, Linked
  <2>9. FaultInv'
    BY <1>3 DEF IInv, FaultInv
  <2>10. BoundInv' /\ RecordInv'
    BY <1>4 DEF BoundInv, RecordInv, Using, Linked
  <2>. QED BY <2>4, <2>5, <2>6, <2>7, <2>8, <2>9, <2>10 DEF IInv
<1>5. CASE pc = "use"
  <2>1. UNCHANGED <<inode2module, done, old>> /\ mod.status = "GOOD"
    BY <1>5 DEF Wanted
  <2>2. TypeOK'
    BY <1>1, <2>1 DEF TypeOK
  <2>3. ControlInv'
    BY <1>1, <1>2, <1>3, <1>5, <2>1 DEF IInv, ControlInv, Failed, Linked
  <2>4. ImportInv'
    <3>1. \A m \in DOMAIN inode2module : Seen(m)' = Seen(m)
      BY <1>3, <1>5, <2>1 DEF Seen
    <3>. QED BY <2>1, <3>1, ImportKept DEF IInv, Using
  <2>5. KeysInv'
    BY <2>1, KeysKept DEF IInv, Loading
  <2>6. ReachInv'
    BY <1>3, <1>5, <2>1 DEF IInv, ReachInv, Using
  <2>7. FaultInv'
    BY <1>3 DEF IInv, FaultInv
  <2>8. BoundInv'
    <3>1. ASSUME NEW u \in Uses PROVE UseVisited(u)' <=> UseVisited(u)
      <4>1. u[2] \in Nat \ {0} /\ u[3] \in Nat \ {0}
        BY <1>1, <3>1, UseFacts DEF UsePlace
      <4>. QED BY <1>1, <4>1 DEF UseVisited
    <3>. QED BY <3>1, BoundKept DEF IInv, Using
  <2>9. RecordInv'
    BY RecordKept DEF IInv, Using
  <2>. QED BY <2>2, <2>3, <2>4, <2>5, <2>6, <2>7, <2>8, <2>9 DEF IInv
<1>. QED BY <1>1, <1>4, <1>5

LEMMA SkipStep ==
  ASSUME IInv, Skip
  PROVE  IInv'
<1>. USE DEF Skip
<1>1. TypeOK /\ it # None /\ k = 0 /\ pc \in {"import", "use"} /\ it \in DOMAIN inode2module
      /\ it \in Nat /\ mod = inode2module[it] /\ it \in Inode
  <2>1. TypeOK /\ it # None /\ k = 0 /\ pc \in {"import", "use"} /\ it \in DOMAIN inode2module
        /\ mod = inode2module[it]
    BY DEF AtModule, IInv, ControlInv, mod
  <2>. QED BY <2>1, ModuleMap, LoaderAssumption
<1>2. pc = "import"
  <2>1. pc = "use" => inode2module[it].status = "GOOD"
    BY <1>1 DEF IInv, ReachInv, Using
  <2>. QED BY <1>1, <2>1 DEF Wanted
<1>3. mod.status # "UNPROCESSED"
  BY <1>2 DEF Wanted
<1>4. (\A m : Text(m)' = Text(m)) /\ Reached' = Reached /\ (Faulty' <=> Faulty)
  BY SameFiles
<1>5. /\ it' \in DOMAIN inode2module \cup {None}
      /\ it' = None => \A m \in DOMAIN inode2module : m <= it
      /\ it' # None => /\ it' > it
                       /\ \A m \in DOMAIN inode2module : m < it' => m <= it
  BY <1>1, AfterFacts
<1>6. DOMAIN inode2module \subseteq Inode /\ DOMAIN inode2module \subseteq Nat
  BY <1>1, ModuleMap, LoaderAssumption
<1>7. TypeOK'
  BY <1>1, <1>5, <1>6 DEF TypeOK
<1>8. ControlInv'
  BY <1>1, <1>2, <1>5 DEF IInv, ControlInv, Failed, Linked
<1>9. ImportInv'
  <2>1. \A m \in DOMAIN inode2module : Seen(m)' = Seen(m)
    BY <1>1, <1>2, <1>4 DEF Seen
  <2>. QED BY <2>1, ImportKept DEF IInv, Using
<1>10. KeysInv'
  BY KeysKept DEF IInv, Loading
<1>11. ReachInv'
  <2>1. ASSUME done', NEW m \in DOMAIN inode2module, it' = None \/ m < it'
        PROVE  inode2module[m].status # "UNPROCESSED"
    <3>1. m <= it
      BY <1>5, <2>1
    <3>2. m = it \/ m < it
      BY <1>1, <1>6, <3>1
    <3>. QED BY <1>1, <1>2, <1>3, <2>1, <3>2 DEF IInv, ReachInv
  <2>. QED BY <1>2, <1>4, <2>1 DEF IInv, ReachInv, Using, Linked
<1>12. FaultInv'
  BY <1>4 DEF IInv, FaultInv
<1>13. BoundInv' /\ RecordInv'
  BY <1>2 DEF BoundInv, RecordInv, Using, Linked
<1>. QED BY <1>7, <1>8, <1>9, <1>10, <1>11, <1>12, <1>13 DEF IInv

LEMMA LeaveStep ==
  ASSUME IInv, Leave
  PROVE  IInv'
<1>. USE DEF Leave
<1>1. TypeOK /\ it # None /\ pc \in {"import", "use"} /\ it \in DOMAIN inode2module
      /\ it \in Inode /\ it \in Nat /\ n_errors \in Nat /\ inode2module[it] \in Module
      /\ k = Len(Text(it)) + 1 /\ Len(Text(it)) \in Nat /\ k > 0
  <2>1. TypeOK /\ it # None /\ pc \in {"import", "use"} /\ it \in DOMAIN inode2module
        /\ n_errors \in Nat
    BY DEF IInv, ControlInv, TypeOK
  <2>2. toplevel = Text(it)
    BY DEF toplevel, Text
  <2>3. it \in Inode /\ it \in Nat /\ inode2module[it] \in Module
    BY <2>1, ModuleMap, LoaderAssumption
  <2>4. Len(Text(it)) \in Nat
    BY <2>1, <2>3, TextFacts
  <2>. QED BY <2>1, <2>2, <2>3, <2>4
<1>2. (\A m : Text(m)' = Text(m)) /\ Reached' = Reached /\ (Faulty' <=> Faulty) /\ Uses' = Uses
  BY SameFiles
<1>3. /\ it' \in DOMAIN inode2module \cup {None}
      /\ it' = None => \A m \in DOMAIN inode2module : m <= it
      /\ it' # None => /\ it' > it
                       /\ \A m \in DOMAIN inode2module : m < it' => m <= it
  BY <1>1, AfterFacts
<1>4. DOMAIN inode2module \subseteq Inode /\ DOMAIN inode2module \subseteq Nat
  BY <1>1, ModuleMap, LoaderAssumption
<1>5. inode2module[it].status = "GOOD"
  BY <1>1 DEF IInv, ControlInv
<1>6. CASE pc = "import"
  <2>. DEFINE st == IF old = n_errors THEN "GOOD" ELSE "BAD"
              M == [inode2module[it] EXCEPT !.status = st]
  <2>1. inode2module' = [inode2module EXCEPT ![it] = M]
    BY <1>1, <1>6
  <2>2. /\ M \in Module /\ M.status = st /\ M.defined = inode2module[it].defined
        /\ M.macro = inode2module[it].macro
        /\ M.defined_action = inode2module[it].defined_action
        /\ M.qualified_import = inode2module[it].qualified_import
        /\ M.unqualified_import = inode2module[it].unqualified_import
    BY <1>1 DEF Module
  <2>. HIDE DEF M
  <2>3. /\ inode2module' \in Maps(Inode, Module) /\ DOMAIN inode2module' = DOMAIN inode2module
        /\ inode2module'[it] = M
        /\ \A m \in DOMAIN inode2module : m # it => inode2module'[m] = inode2module[m]
    BY <1>1, <2>1, <2>2, ModuleSet
  <2>4. TypeOK'
    BY <1>1, <1>3, <1>4, <2>3 DEF TypeOK
  <2>5. ControlInv'
    BY <1>1, <1>3, <1>6, <2>3 DEF IInv, ControlInv, Failed, Linked
  <2>6. old \in Nat /\ old <= n_errors /\ ~ done
    BY <1>1, <1>6 DEF IInv, ControlInv, TypeOK
  <2>7. ImportInv'
    <3>1. ASSUME NEW m \in DOMAIN inode2module PROVE Seen(m)' = Seen(m)
      <4>1. CASE m = it
        <5>1. Seen(m) = Len(Text(m))
          BY <1>1, <1>5, <1>6, <4>1 DEF Seen
        <5>2. Seen(m)' = Len(Text(m))
          BY <1>2, <2>2, <2>3, <4>1 DEF Seen
        <5>. QED BY <5>1, <5>2
      <4>2. CASE m # it
        BY <1>2, <2>3, <4>2 DEF Seen
      <4>. QED BY <4>1, <4>2
    <3>2. ASSUME n_errors' = 0 \/ Using', NEW m \in DOMAIN inode2module,
                 inode2module'[m].status = "BAD"
          PROVE  inode2module[m].status = "BAD"
      <4>1. n_errors = 0
        BY <1>6, <3>2 DEF Using, Linked
      <4>2. st = "GOOD"
        BY <2>6, <4>1
      <4>. QED BY <2>2, <2>3, <3>2, <4>2
    <3>3. n_errors' = 0 \/ Using' => n_errors = 0 \/ Using
      BY DEF Using
    <3>4. ASSUME NEW m \in DOMAIN inode2module
          PROVE  /\ inode2module'[m].defined = inode2module[m].defined
                 /\ inode2module'[m].macro = inode2module[m].macro
                 /\ inode2module'[m].defined_action = inode2module[m].defined_action
                 /\ inode2module'[m].qualified_import = inode2module[m].qualified_import
                 /\ inode2module'[m].unqualified_import = inode2module[m].unqualified_import
      BY <1>1, <2>2, <2>3
    <3>. QED BY <2>3, <3>1, <3>2, <3>3, <3>4, ImportKept DEF IInv
  <2>8. KeysInv'
    <3>1. \A m \in DOMAIN inode2module : inode2module'[m].defined = inode2module[m].defined
      BY <1>1, <2>2, <2>3
    <3>. QED BY <2>3, <3>1, KeysKept DEF IInv, Loading
  <2>9. ReachInv'
    BY <1>2, <1>6, <2>3, <2>6 DEF IInv, ReachInv, Using, Linked
  <2>10. FaultInv'
    BY <1>2 DEF IInv, FaultInv
  <2>11. BoundInv' /\ RecordInv'
    BY <1>6 DEF BoundInv, RecordInv, Using, Linked
  <2>. QED BY <2>4, <2>5, <2>7, <2>8, <2>9, <2>10, <2>11 DEF IInv
<1>7. CASE pc = "use"
  <2>1. inode2module' = inode2module
    BY <1>7
  <2>2. TypeOK'
    BY <1>1, <1>3, <1>4, <2>1 DEF TypeOK
  <2>3. ControlInv'
    BY <1>1, <1>3, <1>7, <2>1 DEF IInv, ControlInv, Failed, Linked
  <2>4. ImportInv'
    <3>1. \A m \in DOMAIN inode2module : Seen(m)' = Seen(m)
      BY <1>2, <1>7, <2>1 DEF Seen
    <3>. QED BY <2>1, <3>1, ImportKept DEF IInv, Using
  <2>5. KeysInv'
    BY <2>1, KeysKept DEF IInv, Loading
  <2>6. ReachInv'
    BY <1>2, <1>7, <2>1 DEF IInv, ReachInv, Using
  <2>7. FaultInv'
    BY <1>2 DEF IInv, FaultInv
  <2>8. BoundInv'
    <3>1. ASSUME NEW u \in Uses PROVE UseVisited(u)' <=> UseVisited(u)
      <4>1. u[1] \in Reached /\ u[1] \in Nat \ {None} /\ u[2] \in 1 .. Len(Text(u[1])) /\ u[3] \in Nat
        BY <1>1, <3>1, UseFacts
      <4>2. u[1] \in DOMAIN inode2module
        BY <1>7, <4>1 DEF IInv, ReachInv, Using
      <4>3. UseVisited(u) <=> u[1] <= it
        BY <1>1, <4>1 DEF UseVisited
      <4>4. UseVisited(u)' <=> it' = None \/ u[1] < it'
        BY DEF UseVisited
      <4>5. it' = None \/ u[1] < it' <=> u[1] <= it
        BY <1>1, <1>3, <1>4, <4>1, <4>2
      <4>. QED BY <4>3, <4>4, <4>5
    <3>. QED BY <3>1, BoundKept DEF IInv, Using
  <2>9. RecordInv'
    BY RecordKept DEF IInv, Using
  <2>. QED BY <2>2, <2>3, <2>4, <2>5, <2>6, <2>7, <2>8, <2>9 DEF IInv
<1>. QED BY <1>1, <1>6, <1>7

LEMMA EndImportsStep ==
  ASSUME IInv, EndImports
  PROVE  IInv'
<1>. USE DEF EndImports
<1>1. TypeOK /\ k = 0 /\ pc = "import" /\ it = None /\ Main \in DOMAIN inode2module /\ n_errors \in Nat
  BY DEF IInv, ControlInv, TypeOK
<1>2. (\A m : Text(m)' = Text(m)) /\ Reached' = Reached /\ (Faulty' <=> Faulty) /\ Uses' = Uses
  BY SameFiles
<1>3. DOMAIN inode2module \subseteq Inode /\ DOMAIN inode2module \subseteq Nat \ {None}
  BY <1>1, ModuleMap, LoaderAssumption
<1>4. it' \in DOMAIN inode2module /\ it' # None /\ \A m \in DOMAIN inode2module : ~ (m < it')
  <2>1. /\ it' \in DOMAIN inode2module \cup {None}
        /\ it' = None => \A m \in DOMAIN inode2module : m <= None
        /\ it' # None => \A m \in DOMAIN inode2module : m < it' => m <= None
    BY <1>1, AfterFacts DEF First, None
  <2>2. \A m \in DOMAIN inode2module : ~ (m <= None)
    BY <1>3 DEF None
  <2>. QED BY <1>1, <2>1, <2>2
<1>5. TypeOK'
  BY <1>1, <1>3, <1>4 DEF TypeOK
<1>6. ControlInv'
  BY <1>1, <1>4 DEF IInv, ControlInv, Failed, Linked
<1>7. \A m \in DOMAIN inode2module :
        /\ Seen(m)' = Seen(m)
        /\ inode2module[m].status # "UNPROCESSED" => Seen(m) = Len(Text(m))
  BY <1>1, <1>2 DEF Seen
<1>8. Using' => done /\ n_errors = 0
  BY <1>1 DEF Using, LastPass, Failed, Linked
<1>9. ImportInv'
  BY <1>7, <1>8, ImportKept DEF IInv
<1>10. KeysInv'
  BY <1>1, KeysKept DEF IInv, Loading
<1>11. ASSUME Using'
       PROVE  /\ \A m \in DOMAIN inode2module : inode2module[m].status = "GOOD"
              /\ Reached \subseteq DOMAIN inode2module
  <2>1. ASSUME NEW m \in DOMAIN inode2module PROVE inode2module[m].status = "GOOD"
    <3>1. inode2module[m].status # "UNPROCESSED"
      BY <1>1, <1>8, <1>11 DEF IInv, ReachInv
    <3>2. inode2module[m].status # "BAD"
      BY <1>8, <1>11 DEF IInv, ImportInv
    <3>3. inode2module[m].status \in {"UNPROCESSED", "GOOD", "BAD"}
      BY <1>1, ModuleMap DEF Module
    <3>. QED BY <3>1, <3>2, <3>3
  <2>2. ASSUME NEW m \in DOMAIN inode2module, NEW t \in Targets(m)
        PROVE  t \in DOMAIN inode2module
    <3>1. PICK p \in Of({"import"}, m) : t = Text(m)[p].target /\ t # None
      BY <2>2 DEF Targets
    <3>2. p \in 1 .. Len(Text(m)) /\ Len(Text(m)) \in Nat /\ Text(m)[p].kind = "import"
      BY <1>1, <1>3, <2>2, <3>1, TextFacts DEF Of
    <3>3. Seen(m) = Len(Text(m))
      BY <1>7, <2>1
    <3>4. p \in ImportsIn(Text(m), Seen(m))
      BY <3>1, <3>2, <3>3 DEF ImportsIn, Among
    <3>5. ImportsRight(inode2module[m], Text(m), Seen(m), DOMAIN inode2module)
      BY DEF IInv, ImportInv
    <3>. QED BY <3>1, <3>4, <3>5 DEF ImportsRight
  <2>3. Closed(DOMAIN inode2module)
    BY <2>2 DEF Closed
  <2>. QED BY <1>1, <1>3, <2>1, <2>3, ReachedFacts
<1>12. ReachInv'
  BY <1>1, <1>2, <1>4, <1>11 DEF IInv, ReachInv
<1>13. FaultInv'
  BY <1>2 DEF IInv, FaultInv
<1>14. DOMAIN define_stmt = {} /\ \A d \in DOMAIN depended_by :
         depended_by[d] = <<>> /\ \A kind \in Kinds : used_as[kind][d] = <<>>
  BY <1>1 DEF IInv, KeysInv, Loading
<1>15. BoundInv'
  <2>. SUFFICES ASSUME Using' PROVE BoundInv'
    BY DEF BoundInv
  <2>1. ASSUME NEW u \in Uses PROVE ~ UseVisited(u)'
    <3>1. u[1] \in DOMAIN inode2module
      BY <1>1, <1>11, <2>1, UseFacts
    <3>. QED BY <1>1, <1>4, <3>1 DEF UseVisited
  <2>. QED BY <1>2, <1>14, <2>1 DEF BoundInv
<1>16. RecordInv'
  BY <1>14 DEF RecordInv
<1>. QED BY <1>5, <1>6, <1>9, <1>10, <1>12, <1>13, <1>15, <1>16 DEF IInv

LEMMA EndUsesStep ==
  ASSUME IInv, EndUses \/ CheckSolely
  PROVE  IInv'
<1>1. /\ UNCHANGED <<files, inode2module, n_errors, it, k, at, old, done,
                     define_stmt, depended_by, used_as>>
      /\ pc \in {"use", "solely"} /\ pc' \in {Failed, "solely", Linked}
      /\ Using /\ it = None /\ k = 0 /\ n_errors \in Nat
      /\ (pc' # Failed => n_errors = 0) /\ (pc' = Failed => n_errors > 0)
  BY DEF EndUses, CheckSolely, Using, Linked, Failed, IInv, ControlInv, TypeOK
<1>. USE <1>1
<1>2. (\A m : Text(m)' = Text(m)) /\ Reached' = Reached /\ (Faulty' <=> Faulty) /\ Uses' = Uses
  BY SameFiles
<1>3. TypeOK'
  BY DEF IInv, TypeOK
<1>4. ControlInv'
  BY DEF IInv, ControlInv, Failed, Linked
<1>5. ImportInv'
  <2>1. \A m \in DOMAIN inode2module : Seen(m)' = Seen(m)
    BY <1>2 DEF Seen
  <2>. QED BY <2>1, ImportKept DEF IInv
<1>6. KeysInv'
  BY KeysKept DEF IInv, Loading, Failed, Linked
<1>7. ReachInv'
  BY <1>2 DEF IInv, ReachInv, Failed, Linked
<1>8. FaultInv'
  BY <1>2 DEF IInv, FaultInv
<1>9. BoundInv'
  <2>1. \A u \in Uses : UseVisited(u)' <=> UseVisited(u)
    BY DEF UseVisited
  <2>. QED BY <2>1, BoundKept DEF IInv
<1>10. RecordInv'
  BY RecordKept DEF IInv
<1>. QED BY <1>3, <1>4, <1>5, <1>6, <1>7, <1>8, <1>9, <1>10 DEF IInv

LEMMA StutterStep ==
  ASSUME IInv, UNCHANGED vars
  PROVE  IInv'
<1>1. /\ files' = files /\ inode2module' = inode2module /\ n_errors' = n_errors /\ pc' = pc
      /\ it' = it /\ k' = k /\ at' = at /\ old' = old /\ done' = done
      /\ define_stmt' = define_stmt /\ depended_by' = depended_by /\ used_as' = used_as
  BY DEF vars
<1>2. (\A m : Text(m)' = Text(m)) /\ Reached' = Reached /\ (Faulty' <=> Faulty) /\ Uses' = Uses
      /\ Text(it)' = Text(it)
  <2>1. Text(it)' = Text(it)
    BY <1>1 DEF Text
  <2>. QED BY <1>1, <2>1, SameFiles
<1>3. TypeOK'
  BY <1>1 DEF IInv, TypeOK
<1>4. ControlInv'
  BY <1>1, <1>2 DEF IInv, ControlInv
<1>5. (Using' <=> Using) /\ (Loading' <=> Loading)
  BY <1>1 DEF Using, Loading
<1>6. ImportInv'
  <2>1. \A m \in DOMAIN inode2module : Seen(m)' = Seen(m)
    BY <1>1, <1>2 DEF Seen
  <2>. QED BY <1>1, <1>5, <2>1, ImportKept DEF IInv
<1>7. KeysInv'
  BY <1>1, <1>5, KeysKept DEF IInv
<1>8. ReachInv'
  BY <1>1, <1>2, <1>5 DEF IInv, ReachInv
<1>9. FaultInv'
  BY <1>1, <1>2 DEF IInv, FaultInv
<1>10. BoundInv'
  <2>1. \A u \in Uses : UseVisited(u)' <=> UseVisited(u)
    BY <1>1 DEF UseVisited
  <2>. QED BY <1>1, <1>5, <2>1, BoundKept DEF IInv
<1>11. RecordInv'
  BY <1>1, <1>5, RecordKept DEF IInv
<1>. QED BY <1>3, <1>4, <1>6, <1>7, <1>8, <1>9, <1>10, <1>11 DEF IInv

-----------------------------------------------------------------------------
(* In the second loop a table has exactly the statements of its kind.      *)
TableOf(kind) ==
  IF kind = "define" THEN "defined" ELSE IF kind = "macro" THEN "macro" ELSE "defined_action"

LEMMA Final ==
  ASSUME IInv, Using, NEW f \in DOMAIN inode2module
  PROVE  /\ f \in Inode /\ f \in Reached /\ inode2module[f] \in Module /\ files[f].errors = 0
         /\ Len(Text(f)) \in Nat /\ DOMAIN Text(f) = 1 .. Len(Text(f))
         /\ \A p \in DOMAIN Text(f) : Text(f)[p] \in Stmts
         /\ TablesRight(inode2module[f], Text(f), f, Len(Text(f)))
         /\ ImportsRight(inode2module[f], Text(f), Len(Text(f)), DOMAIN inode2module)
         /\ Clean(Text(f), Len(Text(f)))
         /\ \A kinds : Among(Text(f), Len(Text(f)), kinds) = Of(kinds, f)
<1>1. f \in Inode /\ f \in Reached /\ inode2module[f] \in Module
  BY ModuleMap DEF IInv, ReachInv
<1>2. /\ Len(Text(f)) \in Nat /\ DOMAIN Text(f) = 1 .. Len(Text(f))
      /\ \A p \in DOMAIN Text(f) : Text(f)[p] \in Stmts
  BY <1>1, TextFacts DEF IInv
<1>3. Seen(f) = Len(Text(f))
  BY DEF Seen, IInv, ReachInv, Using, Linked
<1>4. /\ TablesRight(inode2module[f], Text(f), f, Len(Text(f)))
      /\ ImportsRight(inode2module[f], Text(f), Len(Text(f)), DOMAIN inode2module)
      /\ Clean(Text(f), Len(Text(f))) /\ files[f].errors = 0
  BY <1>3 DEF IInv, ImportInv
<1>5. \A kinds : Among(Text(f), Len(Text(f)), kinds) = Of(kinds, f)
  BY <1>2 DEF Among, Of
<1>. QED BY <1>1, <1>2, <1>4, <1>5

LEMMA TableExact ==
  ASSUME IInv, Using, NEW f \in DOMAIN inode2module, NEW kind \in {"define", "macro", "action"}
  PROVE  /\ \A x \in DOMAIN inode2module[f][TableOf(kind)] :
              \E p \in Of({kind}, f) : /\ Text(f)[p].ident = x
                                       /\ inode2module[f][TableOf(kind)][x] = <<f, p>>
         /\ \A p \in Of({kind}, f) :
              /\ Text(f)[p].ident \in DOMAIN inode2module[f][TableOf(kind)]
              /\ inode2module[f][TableOf(kind)][Text(f)[p].ident] = <<f, p>>
<1>. DEFINE M == inode2module[f]
            T == Text(f)
            n == Len(T)
<1>1. /\ M \in Module /\ TablesRight(M, T, f, n) /\ Clean(T, n)
      /\ \A kinds : Among(T, n, kinds) = Of(kinds, f)
  BY Final
<1>2. /\ M["defined"] = M.defined /\ M["macro"] = M.macro /\ M["defined_action"] = M.defined_action
  BY <1>1 DEF Module
<1>3. M.defined \in Maps(Ident, Place) /\ M.macro \in Maps(Ident, Place)
      /\ M.defined_action \in Maps(Ident, Place)
  BY <1>1 DEF Module
<1>4. M[TableOf(kind)] \in Maps(Ident, Place)
  BY <1>2, <1>3 DEF TableOf
<1>5. Holds(M[TableOf(kind)], T, f, n, kind)
  BY <1>1, <1>2 DEF TableOf, TablesRight
<1>6. ASSUME NEW x \in DOMAIN M[TableOf(kind)]
      PROVE  \E p \in Of({kind}, f) : T[p].ident = x /\ M[TableOf(kind)][x] = <<f, p>>
  <2>1. M[TableOf(kind)][x] \in Place
    BY <1>4, <1>6, MapFacts
  <2>2. PICK v : v = M[TableOf(kind)][x]
    OBVIOUS
  <2>3. v[1] = f /\ v[2] \in Of({kind}, f) /\ T[v[2]].ident = x
    BY <1>1, <1>5, <1>6, <2>2 DEF Holds
  <2>4. v = <<f, v[2]>>
    BY <2>1, <2>2, <2>3 DEF Place
  <2>. QED BY <2>2, <2>3, <2>4
<1>7. ASSUME NEW p \in Of({kind}, f)
      PROVE  T[p].ident \in DOMAIN M[TableOf(kind)]
  <2>1. T[p].kind = kind
    BY <1>7 DEF Of
  <2>2. CASE kind = "action"
    BY <1>1, <1>2, <1>7, <2>2 DEF TableOf, TablesRight
  <2>3. CASE kind # "action"
    <3>1. p \in Of({"define", "macro"}, f)
      BY <1>7, <2>3 DEF Of
    <3>2. T[p].ident \in DOMAIN M.defined \cup DOMAIN M.macro
      BY <1>1, <3>1 DEF TablesRight
    <3>3. ASSUME NEW other \in {"define", "macro"}, NEW t, Holds(t, T, f, n, other),
                 T[p].ident \in DOMAIN t
          PROVE  other = kind
      <4>1. PICK q \in Of({other}, f) : T[q].ident = T[p].ident
        BY <1>1, <3>3 DEF Holds
      <4>2. q \in Of({"define", "macro"}, f) /\ T[q].kind = other
        BY <4>1 DEF Of
      <4>3. q = p
        BY <1>1, <3>1, <4>1, <4>2 DEF Clean, Distinct
      <4>. QED BY <2>1, <4>2, <4>3
    <3>4. CASE T[p].ident \in DOMAIN M.defined
      <4>1. Holds(M.defined, T, f, n, "define")
        BY <1>1 DEF TablesRight
      <4>2. kind = "define"
        BY <3>3, <3>4, <4>1
      <4>. QED BY <1>2, <3>4, <4>2 DEF TableOf
    <3>5. CASE T[p].ident \in DOMAIN M.macro
      <4>1. Holds(M.macro, T, f, n, "macro")
        BY <1>1 DEF TablesRight
      <4>2. kind = "macro"
        BY <3>3, <3>5, <4>1
      <4>. QED BY <1>2, <3>5, <4>2 DEF TableOf
    <3>. QED BY <3>2, <3>4, <3>5
  <2>. QED BY <2>2, <2>3
<1>8. ASSUME NEW p \in Of({kind}, f)
      PROVE  M[TableOf(kind)][T[p].ident] = <<f, p>>
  <2>1. PICK q \in Of({kind}, f) : T[q].ident = T[p].ident /\ M[TableOf(kind)][T[p].ident] = <<f, q>>
    BY <1>6, <1>7, <1>8
  <2>2. q = p
    <3>1. CASE kind = "action"
      BY <1>1, <1>8, <2>1, <3>1 DEF Clean, Distinct
    <3>2. CASE kind # "action"
      <4>1. p \in Of({"define", "macro"}, f) /\ q \in Of({"define", "macro"}, f)
        BY <1>8, <2>1, <3>2 DEF Of
      <4>. QED BY <1>1, <2>1, <4>1 DEF Clean, Distinct
    <3>. QED BY <3>1, <3>2
  <2>. QED BY <2>1, <2>2
<1>. QED BY <1>6, <1>7, <1>8

(* The keys of the maps of the uses are the definitions.                   *)
LEMMA KeysExact ==
  ASSUME IInv, Using
  PROVE  /\ DOMAIN inode2module = Reached
         /\ DOMAIN depended_by = Definitions
         /\ \A kind \in Kinds : DOMAIN used_as[kind] = Definitions
         /\ \A d \in Definitions :
              d = <<d[1], d[2]>> /\ d[1] \in Reached /\ d[2] \in Of({"define"}, d[1]) /\ d \in Place
<1>1. DOMAIN inode2module = Reached
  BY DEF IInv, ReachInv
<1>2. ASSUME NEW d \in Definitions
      PROVE  /\ d = <<d[1], d[2]>> /\ d[1] \in Reached /\ d[2] \in Of({"define"}, d[1])
             /\ d \in Place /\ d \in DOMAIN depended_by
  <2>1. PICK f \in Reached : d \in {f} \X Of({"define"}, f)
    BY <1>2 DEF Definitions
  <2>2. d = <<d[1], d[2]>> /\ d[1] = f /\ d[2] \in Of({"define"}, f)
    BY <2>1
  <2>3. f \in Inode /\ DOMAIN Text(f) = 1 .. Len(Text(f)) /\ Len(Text(f)) \in Nat
    BY <1>1, <2>1, Final
  <2>4. d[2] \in Nat \ {0}
    BY <2>2, <2>3 DEF Of
  <2>5. d \in Place
    BY <2>2, <2>3, <2>4 DEF Place
  <2>6. /\ Text(f)[d[2]].ident \in DOMAIN inode2module[f]["defined"]
        /\ inode2module[f]["defined"][Text(f)[d[2]].ident] = <<f, d[2]>>
    BY <1>1, <2>1, <2>2, TableExact DEF TableOf
  <2>7. inode2module[f]["defined"] = inode2module[f].defined
    BY <1>1, <2>1, Final DEF Module
  <2>8. d \in DOMAIN depended_by
    BY <1>1, <2>1, <2>2, <2>6, <2>7 DEF IInv, KeysInv
  <2>. QED BY <2>1, <2>2, <2>5, <2>8
<1>3. ASSUME NEW d \in DOMAIN depended_by PROVE d \in Definitions
  <2>1. d[1] \in DOMAIN inode2module
    BY <1>3 DEF IInv, KeysInv
  <2>2. PICK x \in DOMAIN inode2module[d[1]].defined : inode2module[d[1]].defined[x] = d
    BY <1>3 DEF IInv, KeysInv
  <2>3. inode2module[d[1]]["defined"] = inode2module[d[1]].defined
    BY <2>1, Final DEF Module
  <2>4. PICK p \in Of({"define"}, d[1]) : inode2module[d[1]]["defined"][x] = <<d[1], p>>
    BY <2>1, <2>2, <2>3, TableExact DEF TableOf
  <2>5. d \in {d[1]} \X Of({"define"}, d[1])
    BY <2>2, <2>3, <2>4
  <2>. QED BY <1>1, <2>1, <2>5 DEF Definitions
<1>4. \A kind \in Kinds : DOMAIN used_as[kind] = DOMAIN depended_by
  BY DEF IInv, KeysInv
<1>. QED BY <1>1, <1>2, <1>3, <1>4

-----------------------------------------------------------------------------
(* The modules a use of module m may mean a statement of, and the kinds.   *)
From(m, u) ==
  IF u.qualified = Unqualified
    THEN {m} \cup {Text(m)[p].target : p \in Importing(m, Unqualified)}
    ELSE {Text(m)[p].target : p \in {x \in Importing(m, u.qualified) :
            \A y \in Importing(m, u.qualified) : y <= x}}
KindsMeant(u) ==
  IF u.kind = "action" THEN {"action"}
  ELSE IF u.qualified = Unqualified THEN {"define", "macro"} ELSE {"define"}

LEMMA MeantFrom ==
  ASSUME NEW m, NEW u
  PROVE  \A d : d \in Meant(m, u) <=>
           \E f \in From(m, u) : \E p \in Of(KindsMeant(u), f) :
             Text(f)[p].ident = u.ident /\ d = <<f, p>>
<1>1. Meant(m, u) = UNION {{f} \X {p \in Of(KindsMeant(u), f) : Text(f)[p].ident = u.ident} :
                             f \in From(m, u)}
  BY DEF Meant, From, KindsMeant
<1>. QED BY <1>1

ImportsItself == \E p \in Importing(it, Unqualified) : Text(it)[p].target = it

(* The modules of resolve are those; only a module that imports itself is  *)
(* there twice.                                                            *)
LEMMA ScopesExact ==
  ASSUME IInv, pc = "use", it \in DOMAIN inode2module, NEW u \in Use
  PROVE  /\ \A n \in DOMAIN Scopes(u) : /\ Scopes(u)[n] \in DOMAIN inode2module
                                        /\ Scopes(u)[n] \in From(it, u)
         /\ \A f \in From(it, u) : \E n \in DOMAIN Scopes(u) : Scopes(u)[n] = f
         /\ \A i, j \in DOMAIN Scopes(u) : i # j /\ Scopes(u)[i] = Scopes(u)[j] =>
              Scopes(u)[i] = it /\ u.qualified = Unqualified /\ ImportsItself
         /\ u.qualified = Unqualified /\ ImportsItself =>
              \E i, j \in DOMAIN Scopes(u) : i # j /\ Scopes(u)[i] = it /\ Scopes(u)[j] = it
<1>. DEFINE T == Text(it)
            D == DOMAIN inode2module
            S == ImportsIn(T, Len(T))
            q == mod.unqualified_import
            sc == Scopes(u)
<1>1. Using /\ mod = inode2module[it]
  BY DEF Using, mod
<1>2. /\ mod \in Module /\ ImportsRight(mod, T, Len(T), D) /\ Clean(T, Len(T))
      /\ \A kinds : Among(T, Len(T), kinds) = Of(kinds, it)
      /\ Len(T) \in Nat
  BY <1>1, Final
<1>3. \A x, p : p \in Importing(it, x) <=> p \in S /\ T[p].qualified = x
  BY <1>2 DEF ImportsIn, Importing, Clean
<1>4. \A p \in S : p \in Nat /\ T[p].target \in D
  BY <1>2 DEF ImportsRight, ImportsIn, Among
<1>5. CASE u.qualified = Unqualified
  <2>1. q \in Seq(Inode) /\ Len(q) \in Nat
    BY <1>2 DEF Module
  <2>2. sc = <<it>> \o q
    BY <1>5 DEF Scopes
  <2>. HIDE DEF sc
  <2>3. /\ DOMAIN sc = 1 .. 1 + Len(q) /\ sc[1] = it
        /\ \A j \in 1 .. Len(q) : j + 1 \in DOMAIN sc /\ j + 1 # 1 /\ sc[j + 1] = q[j]
        /\ 1 \in DOMAIN sc
        /\ \A i \in DOMAIN sc : i = 1 \/ (i - 1 \in 1 .. Len(q) /\ sc[i] = q[i - 1])
    <3>1. it \in Inode
      BY <1>1, Final
    <3>2. <<it>> \in Seq(Inode) /\ Len(<<it>>) = 1
      BY <3>1
    <3>3. /\ Len(sc) = 1 + Len(q) /\ sc \in Seq(Inode)
          /\ \A i \in 1 .. 1 + Len(q) : sc[i] = IF i <= 1 THEN <<it>>[i] ELSE q[i - 1]
      BY <2>1, <2>2, <3>2
    <3>4. DOMAIN sc = 1 .. 1 + Len(q)
      BY <3>3
    <3>5. ASSUME NEW i \in 1 .. 1 + Len(q)
          PROVE  /\ i = 1 => sc[i] = it
                 /\ i # 1 => i - 1 \in 1 .. Len(q) /\ sc[i] = q[i - 1]
      BY <2>1, <3>3
    <3>6. ASSUME NEW j \in 1 .. Len(q)
          PROVE  j + 1 \in 1 .. 1 + Len(q) /\ j + 1 # 1 /\ sc[j + 1] = q[j]
      <4>1. j + 1 \in 1 .. 1 + Len(q) /\ j + 1 # 1 /\ (j + 1) - 1 = j
        BY <2>1
      <4>. QED BY <3>5, <4>1
    <3>7. 1 \in 1 .. 1 + Len(q)
      BY <2>1
    <3>. QED BY <3>4, <3>5, <3>6, <3>7
  <2>4. From(it, u) = {it} \cup {T[p].target : p \in Importing(it, Unqualified)}
    BY <1>5 DEF From
  <2>5. ASSUME NEW j \in 1 .. Len(q)
        PROVE  q[j] \in D /\ \E p \in Importing(it, Unqualified) : T[p].target = q[j]
    <3>1. PICK p \in S : T[p].qualified = Unqualified /\ q[j] = T[p].target
      BY <1>2 DEF ImportsRight
    <3>. QED BY <1>3, <1>4, <3>1
  <2>6. ASSUME NEW p \in Importing(it, Unqualified)
        PROVE  \E j \in 1 .. Len(q) : q[j] = T[p].target
    <3>1. p \in S /\ T[p].qualified = Unqualified
      BY <1>3
    <3>. QED BY <1>2, <3>1 DEF ImportsRight
  <2>7. \A i, j \in 1 .. Len(q) : q[i] = q[j] => i = j
    BY <1>2 DEF ImportsRight
  <2>8. ASSUME NEW n \in DOMAIN sc PROVE sc[n] \in D /\ sc[n] \in From(it, u)
    <3>1. CASE n = 1
      BY <2>3, <2>4, <3>1
    <3>2. CASE n # 1
      <4>1. n - 1 \in 1 .. Len(q) /\ sc[n] = q[n - 1]
        BY <2>3, <3>2
      <4>. QED BY <2>4, <2>5, <4>1
    <3>. QED BY <3>1, <3>2
  <2>9. ASSUME NEW f \in From(it, u) PROVE \E n \in DOMAIN sc : sc[n] = f
    <3>1. CASE f = it
      BY <2>3, <3>1
    <3>2. CASE f # it
      <4>1. PICK p \in Importing(it, Unqualified) : T[p].target = f
        BY <2>4, <2>9, <3>2
      <4>2. PICK j \in 1 .. Len(q) : q[j] = f
        BY <2>6, <4>1
      <4>. QED BY <2>3, <4>2
    <3>. QED BY <3>1, <3>2
  <2>10. ASSUME NEW i \in DOMAIN sc, NEW j \in DOMAIN sc, i # j, sc[i] = sc[j]
         PROVE  sc[i] = it /\ ImportsItself
    <3>1. CASE i = 1
      <4>1. j - 1 \in 1 .. Len(q) /\ q[j - 1] = it
        BY <2>3, <2>10, <3>1
      <4>. QED BY <2>3, <2>5, <3>1, <4>1 DEF ImportsItself
    <3>2. CASE j = 1
      <4>1. i - 1 \in 1 .. Len(q) /\ q[i - 1] = it
        BY <2>3, <2>10, <3>2
      <4>. QED BY <2>3, <2>5, <2>10, <3>2, <4>1 DEF ImportsItself
    <3>3. CASE i # 1 /\ j # 1
      <4>1. /\ i - 1 \in 1 .. Len(q) /\ j - 1 \in 1 .. Len(q) /\ q[i - 1] = q[j - 1]
        BY <2>3, <2>10, <3>3
      <4>2. i - 1 = j - 1
        BY <2>7, <4>1
      <4>3. i \in Int /\ j \in Int
        BY <2>1, <2>3
      <4>. QED BY <2>10, <4>2, <4>3
    <3>. QED BY <3>1, <3>2, <3>3
  <2>11. ASSUME ImportsItself
         PROVE  \E i, j \in DOMAIN sc : i # j /\ sc[i] = it /\ sc[j] = it
    <3>1. PICK j \in 1 .. Len(q) : q[j] = it
      BY <2>6, <2>11 DEF ImportsItself
    <3>. QED BY <2>3, <3>1
  <2>. QED BY <1>5, <2>8, <2>9, <2>10, <2>11 DEF sc
<1>6. CASE u.qualified # Unqualified
  <2>. DEFINE x == u.qualified
              Qi == mod.qualified_import
              Latest == {p \in Importing(it, x) : \A y \in Importing(it, x) : y <= p}
  <2>1. From(it, u) = {T[p].target : p \in Latest}
    BY <1>6 DEF From
  <2>2. CASE x \in DOMAIN Qi
    <3>1. PICK p \in S : /\ T[p].qualified = x /\ Qi[x] = T[p].target
                         /\ \A y \in S : T[y].qualified = x => y <= p
      BY <1>2, <2>2 DEF ImportsRight
    <3>2. p \in Latest
      BY <1>3, <3>1
    <3>3. ASSUME NEW r \in Latest PROVE r = p
      <4>1. r <= p /\ p <= r /\ r \in Nat /\ p \in Nat
        BY <1>3, <1>4, <3>1, <3>2, <3>3
      <4>. QED BY <4>1
    <3>4. From(it, u) = {T[p].target}
      BY <2>1, <3>2, <3>3
    <3>5. sc = <<T[p].target>>
      BY <1>6, <2>2, <3>1 DEF Scopes
    <3>. HIDE DEF sc
    <3>6. DOMAIN sc = {1} /\ sc[1] = T[p].target
      BY <3>5
    <3>. QED BY <1>4, <1>6, <3>1, <3>4, <3>6 DEF sc
  <2>3. CASE x \notin DOMAIN Qi
    <3>1. sc = <<>>
      BY <1>6, <2>3 DEF Scopes
    <3>2. Importing(it, x) = {}
      <4>1. ASSUME NEW p \in Importing(it, x) PROVE FALSE
        <5>1. p \in S /\ T[p].qualified = x
          BY <1>3, <4>1
        <5>2. T[p].qualified \in DOMAIN Qi
          BY <1>2, <1>6, <5>1 DEF ImportsRight
        <5>. QED BY <2>3, <5>1, <5>2
      <4>. QED BY <4>1
    <3>3. From(it, u) = {}
      BY <2>1, <3>2
    <3>. HIDE DEF sc
    <3>4. DOMAIN sc = {}
      BY <3>1
    <3>. QED BY <1>6, <3>3, <3>4 DEF sc
  <2>. QED BY <2>2, <2>3
<1>. QED BY <1>5, <1>6

(* What the lookup finds is what is meant.                                 *)
Found(u, h) == inode2module[Scopes(u)[h[1]]][h[2]][u.ident]

LEMMA HitMeant ==
  ASSUME IInv, pc = "use", it \in DOMAIN inode2module, NEW u \in Use, NEW h \in Hits(u)
  PROVE  /\ h = <<h[1], h[2]>> /\ h[1] \in DOMAIN Scopes(u)
         /\ Found(u, h) \in Meant(it, u)
         /\ Found(u, h)[1] = Scopes(u)[h[1]]
         /\ \E kind \in {"define", "macro", "action"} :
              h[2] = TableOf(kind) /\ Text(Found(u, h)[1])[Found(u, h)[2]].kind = kind
<1>1. Using
  BY DEF Using
<1>2. /\ h = <<h[1], h[2]>> /\ h[1] \in DOMAIN Scopes(u) /\ h[2] \in Tables(u)
      /\ u.ident \in DOMAIN inode2module[Scopes(u)[h[1]]][h[2]]
  BY DEF Hits
<1>3. PICK f : f = Scopes(u)[h[1]]
  OBVIOUS
<1>4. f \in DOMAIN inode2module /\ f \in From(it, u)
  BY <1>2, <1>3, ScopesExact
<1>5. PICK kind \in KindsMeant(u) : h[2] = TableOf(kind) /\ kind \in {"define", "macro", "action"}
  BY <1>2 DEF Tables, KindsMeant, TableOf
<1>6. PICK p \in Of({kind}, f) : /\ Text(f)[p].ident = u.ident
                                 /\ inode2module[f][TableOf(kind)][u.ident] = <<f, p>>
  <2>1. \A x \in DOMAIN inode2module[f][TableOf(kind)] :
          \E p \in Of({kind}, f) : /\ Text(f)[p].ident = x
                                   /\ inode2module[f][TableOf(kind)][x] = <<f, p>>
    BY <1>1, <1>4, <1>5, TableExact
  <2>2. u.ident \in DOMAIN inode2module[f][TableOf(kind)]
    BY <1>2, <1>3, <1>5
  <2>. QED BY <2>1, <2>2
<1>7. Found(u, h) = <<f, p>>
  BY <1>3, <1>5, <1>6 DEF Found
<1>8. p \in Of(KindsMeant(u), f) /\ Text(f)[p].kind = kind
  BY <1>5, <1>6 DEF Of
<1>9. Found(u, h) \in Meant(it, u)
  BY <1>4, <1>6, <1>7, <1>8, MeantFrom
<1>10. Found(u, h)[1] = f /\ Found(u, h)[2] = p
  BY <1>7
<1>. QED BY <1>2, <1>3, <1>5, <1>8, <1>9, <1>10

LEMMA MeantHit ==
  ASSUME IInv, pc = "use", it \in DOMAIN inode2module, NEW u \in Use, NEW d \in Meant(it, u),
         NEW n \in DOMAIN Scopes(u), Scopes(u)[n] = d[1]
  PROVE  \E h \in Hits(u) : h[1] = n /\ Found(u, h) = d
<1>1. Using
  BY DEF Using
<1>2. PICK f \in From(it, u) :
        \E p \in Of(KindsMeant(u), f) : Text(f)[p].ident = u.ident /\ d = <<f, p>>
  BY MeantFrom
<1>3. PICK p \in Of(KindsMeant(u), f) : Text(f)[p].ident = u.ident /\ d = <<f, p>>
  BY <1>2
<1>4. d[1] = f /\ f \in DOMAIN inode2module
  BY <1>3, ScopesExact
<1>5. PICK kind \in KindsMeant(u) : Text(f)[p].kind = kind
  BY <1>3 DEF Of
<1>6. kind \in {"define", "macro", "action"} /\ TableOf(kind) \in Tables(u)
  BY <1>5 DEF KindsMeant, TableOf, Tables
<1>7. p \in Of({kind}, f)
  BY <1>3, <1>5 DEF Of
<1>8. /\ u.ident \in DOMAIN inode2module[f][TableOf(kind)]
      /\ inode2module[f][TableOf(kind)][u.ident] = <<f, p>>
  <2>1. \A r \in Of({kind}, f) :
          /\ Text(f)[r].ident \in DOMAIN inode2module[f][TableOf(kind)]
          /\ inode2module[f][TableOf(kind)][Text(f)[r].ident] = <<f, r>>
    BY <1>1, <1>4, <1>6, TableExact
  <2>. QED BY <1>3, <1>7, <2>1
<1>9. PICK h : h = <<n, TableOf(kind)>>
  OBVIOUS
<1>10. h[1] = n /\ h[2] = TableOf(kind)
  BY <1>9
<1>11. h \in Hits(u)
  BY <1>4, <1>6, <1>8, <1>9, <1>10 DEF Hits
<1>12. Found(u, h) = d
  BY <1>3, <1>4, <1>8, <1>10 DEF Found
<1>. QED BY <1>10, <1>11, <1>12

(* resolve reports exactly the faulty uses and binds the others rightly.   *)
LEMMA Resolved ==
  ASSUME IInv, pc = "use", it \in DOMAIN inode2module, NEW u \in Use
  PROVE  /\ Misused(u) <=> FaultyUse(it, u)
         /\ ~ Misused(u) => /\ Meant(it, u) = {Definition(u)}
                            /\ Hit(u)[2] = "defined" <=> Definition(u) \in DOMAIN depended_by
                            /\ Hit(u)[2] = "defined" => u.kind \in Kinds
<1>1. Using
  BY DEF Using
<1>2. \A h \in Hits(u) :
        /\ h = <<h[1], h[2]>> /\ h[1] \in DOMAIN Scopes(u)
        /\ Found(u, h) \in Meant(it, u) /\ Found(u, h)[1] = Scopes(u)[h[1]]
        /\ \E kind \in {"define", "macro", "action"} :
             h[2] = TableOf(kind) /\ Text(Found(u, h)[1])[Found(u, h)[2]].kind = kind
  BY HitMeant
<1>3. ASSUME NEW d \in Meant(it, u), NEW n \in DOMAIN Scopes(u), Scopes(u)[n] = d[1]
      PROVE  \E h \in Hits(u) : h[1] = n /\ Found(u, h) = d
  BY <1>3, MeantHit
<1>4. ASSUME NEW d \in Meant(it, u)
      PROVE  \E h \in Hits(u) : Found(u, h) = d
  <2>1. PICK f \in From(it, u) : \E p : d = <<f, p>>
    BY MeantFrom
  <2>2. PICK n \in DOMAIN Scopes(u) : Scopes(u)[n] = f
    BY ScopesExact
  <2>. QED BY <1>3, <2>1, <2>2
<1>5. ASSUME NEW h \in Hits(u), Hits(u) = {h}
      PROVE  /\ Meant(it, u) = {Found(u, h)} /\ ~ SeenTwice(it, u)
  <2>1. Meant(it, u) = {Found(u, h)}
    BY <1>2, <1>4, <1>5
  <2>2. ASSUME SeenTwice(it, u) PROVE FALSE
    <3>1. u.qualified = Unqualified /\ ImportsItself
      BY <2>2 DEF SeenTwice, ImportsItself
    <3>2. PICK d \in Meant(it, u) : d[1] = it
      BY <2>2 DEF SeenTwice
    <3>3. PICK i \in DOMAIN Scopes(u), j \in DOMAIN Scopes(u) :
            i # j /\ Scopes(u)[i] = it /\ Scopes(u)[j] = it
      BY <3>1, ScopesExact
    <3>4. PICK g \in Hits(u) : g[1] = i
      BY <1>3, <3>2, <3>3
    <3>5. PICK e \in Hits(u) : e[1] = j
      BY <1>3, <3>2, <3>3
    <3>. QED BY <1>5, <3>3, <3>4, <3>5
  <2>. QED BY <2>1, <2>2
<1>6. ASSUME NEW d, Meant(it, u) = {d}, ~ SeenTwice(it, u)
      PROVE  Single(Hits(u))
  <2>1. PICK h \in Hits(u) : Found(u, h) = d
    BY <1>4, <1>6
  <2>2. ASSUME NEW g \in Hits(u) PROVE g = h
    <3>1. Found(u, g) = d
      BY <1>2, <1>6
    <3>2. Scopes(u)[g[1]] = Scopes(u)[h[1]] /\ d[1] = Scopes(u)[h[1]]
      BY <1>2, <2>1, <3>1
    <3>3. g[1] = h[1]
      <4>1. CASE g[1] # h[1]
        <5>1. d[1] = it /\ u.qualified = Unqualified /\ ImportsItself
          BY <1>2, <3>2, <4>1, ScopesExact
        <5>2. SeenTwice(it, u)
          BY <1>6, <5>1 DEF SeenTwice, ImportsItself
        <5>. QED BY <1>6, <5>2
      <4>. QED BY <4>1
    <3>4. g[2] = h[2]
      <4>1. PICK c : c = Text(d[1])[d[2]].kind
        OBVIOUS
      <4>2. g[2] = TableOf(c)
        BY <1>2, <3>1, <4>1
      <4>3. h[2] = TableOf(c)
        BY <1>2, <2>1, <4>1
      <4>. QED BY <4>2, <4>3
    <3>. QED BY <1>2, <3>3, <3>4
  <2>. QED BY <2>1, <2>2 DEF Single
<1>7. CASE Single(Hits(u))
  <2>1. PICK h \in Hits(u) : Hits(u) = {h}
    BY <1>7 DEF Single
  <2>2. Hit(u) = h
    BY <2>1 DEF Hit
  <2>3. Definition(u) = Found(u, h)
    BY <2>2 DEF Definition, Found
  <2>4. Meant(it, u) = {Definition(u)} /\ ~ SeenTwice(it, u)
    BY <1>5, <2>1, <2>3
  <2>5. PICK d : d = Definition(u)
    OBVIOUS
  <2>6. PICK kind \in {"define", "macro", "action"} : h[2] = TableOf(kind) /\ Text(d[1])[d[2]].kind = kind
    BY <1>2, <2>1, <2>3, <2>5
  <2>7. h[2] = "macro" <=> Text(d[1])[d[2]].kind = "macro"
    BY <2>6 DEF TableOf
  <2>8. Misused(u) <=> FaultyUse(it, u)
    <3>1. Misused(u) <=> u.kind \in {"call", "collapse"} /\ h[2] = "macro"
      BY <1>7, <2>1 DEF Misused
    <3>2. Single(Meant(it, u))
      BY <2>4 DEF Single
    <3>3. FaultyUse(it, u) <=> u.kind \in {"call", "collapse"} /\ Text(d[1])[d[2]].kind = "macro"
      BY <2>4, <2>5, <3>2 DEF FaultyUse
    <3>. QED BY <2>7, <3>1, <3>3
  <2>9. h[2] = "defined" <=> d \in DOMAIN depended_by
    <3>1. h[2] = "defined" <=> kind = "define"
      BY <2>6 DEF TableOf
    <3>2. PICK f \in From(it, u) : \E p \in Of(KindsMeant(u), f) : d = <<f, p>>
      BY <2>4, <2>5, MeantFrom
    <3>3. PICK p \in Of(KindsMeant(u), f) : d = <<f, p>>
      BY <3>2
    <3>4. d[1] = f /\ d[2] = p /\ f \in DOMAIN inode2module /\ p \in DOMAIN Text(f)
      <4>1. f \in DOMAIN inode2module
        BY <3>3, ScopesExact
      <4>. QED BY <3>3, <4>1 DEF Of
    <3>5. kind = "define" => d \in Definitions
      <4>1. kind = "define" => d \in {f} \X Of({"define"}, f)
        BY <2>6, <3>3, <3>4 DEF Of
      <4>2. f \in Reached
        BY <1>1, <3>4, KeysExact
      <4>. QED BY <4>1, <4>2 DEF Definitions
    <3>6. d \in Definitions => kind = "define"
      <4>1. d \in Definitions => d[2] \in Of({"define"}, d[1])
        BY <1>1, KeysExact
      <4>. QED BY <2>6, <4>1 DEF Of
    <3>7. DOMAIN depended_by = Definitions
      BY <1>1, KeysExact
    <3>. QED BY <3>1, <3>5, <3>6, <3>7
  <2>10. h[2] = "defined" => u.kind \in Kinds
    <3>1. h[2] \in Tables(u)
      BY <2>1 DEF Hits
    <3>. QED BY <3>1 DEF Tables, Use
  <2>. QED BY <2>2, <2>4, <2>5, <2>8, <2>9, <2>10
<1>8. CASE ~ Single(Hits(u))
  <2>1. Misused(u)
    BY <1>8 DEF Misused
  <2>2. FaultyUse(it, u)
    <3>1. ASSUME ~ FaultyUse(it, u) PROVE FALSE
      <4>1. Single(Meant(it, u)) /\ ~ SeenTwice(it, u)
        BY <3>1 DEF FaultyUse
      <4>2. PICK d : Meant(it, u) = {d}
        BY <4>1 DEF Single
      <4>. QED BY <1>6, <1>8, <4>1, <4>2
    <3>. QED BY <3>1
  <2>. QED BY <2>1, <2>2
<1>. QED BY <1>7, <1>8

-----------------------------------------------------------------------------
(* The second loop at a statement.                                         *)
LEMMA AtUser ==
  ASSUME IInv, pc = "use", AtStmt
  PROVE  /\ it \in DOMAIN inode2module /\ it \in Reached /\ it \in Inode /\ it \in Nat
         /\ k \in Nat \ {0} /\ k \in DOMAIN Text(it) /\ k <= Len(Text(it)) /\ Len(Text(it)) \in Nat
         /\ s = Text(it)[k] /\ s \in Stmts /\ it # None
         /\ at \in Nat \ {0} /\ n_errors \in Nat
<1>1. toplevel = Text(it)
  BY DEF toplevel, Text
<1>2. /\ k \in Nat /\ at \in Nat /\ n_errors \in Nat /\ it # None /\ k \in 1 .. Len(Text(it))
      /\ s = Text(it)[k]
  BY <1>1 DEF AtStmt, s, IInv, TypeOK
<1>3. it \in DOMAIN inode2module /\ Using
  BY <1>2 DEF IInv, ControlInv, Using
<1>4. /\ it \in Reached /\ it \in Inode /\ DOMAIN Text(it) = 1 .. Len(Text(it))
      /\ Len(Text(it)) \in Nat /\ \A p \in DOMAIN Text(it) : Text(it)[p] \in Stmts
  BY <1>3, Final
<1>5. at # 0
  BY <1>2 DEF IInv, ControlInv
<1>. QED BY <1>2, <1>3, <1>4, <1>5, LoaderAssumption

(* Steps of the second loop that change neither the modules nor the place. *)
LEMMA UseStep ==
  ASSUME IInv, pc = "use", AtStmt,
         UNCHANGED <<files, inode2module, pc, it, old, done>>,
         k' \in Nat, k' > 0, k' <= Len(Text(it)) + 1, at' \in Nat, at' > 0,
         n_errors' \in Nat, n_errors' > n_errors => Faulty, n_errors <= n_errors',
         define_stmt' \in Maps(UsePlace, Place), depended_by' \in Maps(Place, Seq(Place)),
         used_as' \in [Kinds -> Maps(Place, Seq(UsePlace))],
         DOMAIN depended_by' = DOMAIN depended_by,
         \A kind \in Kinds : DOMAIN used_as'[kind] = DOMAIN used_as[kind],
         BoundInv', RecordInv'
  PROVE  IInv'
<1>1. /\ it \in DOMAIN inode2module /\ it # None /\ Using /\ Using' /\ n_errors \in Nat
      /\ k \in Nat \ {0}
  BY AtUser DEF Using
<1>2. (\A m : Text(m)' = Text(m)) /\ Reached' = Reached /\ (Faulty' <=> Faulty)
      /\ Text(it)' = Text(it)
  <2>1. Text(it)' = Text(it)
    BY DEF Text
  <2>. QED BY <2>1, SameFiles
<1>3. TypeOK'
  BY DEF IInv, TypeOK
<1>4. ControlInv'
  BY <1>1, <1>2 DEF IInv, ControlInv, Failed, Linked
<1>5. ImportInv'
  <2>1. \A m \in DOMAIN inode2module : Seen(m)' = Seen(m)
    BY <1>2 DEF Seen
  <2>. QED BY <1>1, <2>1, ImportKept DEF IInv
<1>6. KeysInv'
  BY DEF IInv, KeysInv, Loading
<1>7. ReachInv'
  BY <1>1, <1>2 DEF IInv, ReachInv
<1>8. FaultInv'
  BY <1>1, <1>2 DEF IInv, FaultInv
<1>. QED BY <1>3, <1>4, <1>5, <1>6, <1>7, <1>8 DEF IInv

LEMMA UseDoneStep ==
  ASSUME IInv, UseDone
  PROVE  IInv'
<1>. USE DEF UseDone
<1>1. /\ it \in Reached /\ it \in Nat /\ it # None /\ k \in Nat \ {0} /\ k <= Len(Text(it))
      /\ Len(Text(it)) \in Nat /\ s = Text(it)[k] /\ at \in Nat \ {0} /\ n_errors \in Nat
  BY AtUser
<1>2. ASSUME NEW u \in Uses PROVE UseVisited(u)' <=> UseVisited(u)
  <2>1. /\ u[1] \in Nat /\ u[2] \in Nat \ {0} /\ u[3] \in Nat \ {0} /\ u[2] \in Of({"define"}, u[1])
        /\ u[3] \in 1 .. Len(Text(u[1])[u[2]].uses)
    BY <1>2, UseFacts DEF UsePlace, IInv
  <2>2. u[1] = it /\ u[2] = k => u[3] < at
    <3>1. ASSUME u[1] = it, u[2] = k PROVE u[3] < at
      <4>1. s.kind = "define"
        BY <1>1, <2>1, <3>1 DEF Of
      <4>2. u[3] \in 1 .. Len(s.uses) /\ at > Len(s.uses)
        BY <1>1, <2>1, <3>1, <4>1
      <4>3. s.uses \in Seq(Use)
        <5>1. s \in Stmts
          BY AtUser
        <5>. QED BY <4>1, <5>1, StmtFacts
      <4>4. Len(s.uses) \in Nat
        BY <4>3
      <4>. QED BY <1>1, <2>1, <4>2, <4>4
    <3>. QED BY <3>1
  <2>3. u[2] < k + 1 \/ (u[2] = k + 1 /\ u[3] < 1) <=> u[2] < k \/ u[2] = k
    BY <1>1, <2>1
  <2>. QED BY <1>1, <2>1, <2>2, <2>3 DEF UseVisited
<1>3. BoundInv'
  BY <1>2, BoundKept DEF IInv, Using
<1>4. RecordInv'
  BY RecordKept DEF IInv, Using
<1>5. k' \in Nat /\ k' > 0 /\ k' <= Len(Text(it)) + 1 /\ at' \in Nat /\ at' > 0
  BY <1>1
<1>6. /\ define_stmt' \in Maps(UsePlace, Place) /\ depended_by' \in Maps(Place, Seq(Place))
      /\ used_as' \in [Kinds -> Maps(Place, Seq(UsePlace))]
  BY DEF IInv, TypeOK
<1>. QED BY <1>1, <1>3, <1>4, <1>5, <1>6, UseStep

LEMMA UseExprPlace ==
  ASSUME IInv, UseExpr
  PROVE  /\ <<it, k, at>> \in Uses /\ <<it, k, at>> \in UsePlace
         /\ UseAt(<<it, k, at>>) = s.uses[at] /\ s.uses[at] \in Use
         /\ \A v \in Uses : UseVisited(v)' <=> UseVisited(v) \/ v = <<it, k, at>>
         /\ ~ UseVisited(<<it, k, at>>)
<1>. USE DEF UseExpr
<1>1. /\ it \in Reached /\ it \in Nat /\ it # None /\ k \in Nat \ {0} /\ k \in DOMAIN Text(it)
      /\ s = Text(it)[k] /\ s \in Stmts /\ at \in Nat \ {0} /\ it \in Inode
  BY AtUser
<1>2. k \in Of({"define"}, it)
  BY <1>1 DEF Of
<1>3. <<it, k, at>> \in Uses
  BY <1>1, <1>2, UseFacts DEF IInv
<1>4. <<it, k, at>> \in UsePlace
  BY <1>3, UseFacts DEF IInv
<1>5. UseAt(<<it, k, at>>) = s.uses[at]
  BY <1>1 DEF UseAt
<1>6. s.uses[at] \in Use
  BY <1>3, <1>5, UseFacts DEF IInv
<1>7. ASSUME NEW v \in Uses PROVE UseVisited(v)' <=> UseVisited(v) \/ v = <<it, k, at>>
  <2>1. v = <<v[1], v[2], v[3]>> /\ v[1] \in Nat /\ v[2] \in Nat /\ v[3] \in Nat
    BY <1>7, UseFacts DEF IInv, UsePlace
  <2>2. v = <<it, k, at>> <=> v[1] = it /\ v[2] = k /\ v[3] = at
    BY <2>1, SMTT(30)
  <2>3. v[3] < at + 1 <=> v[3] < at \/ v[3] = at
    BY <1>1, <2>1, SMTT(30)
  <2>. QED BY <1>1, <2>1, <2>2, <2>3, SMTT(30) DEF UseVisited
<1>8. ~ UseVisited(<<it, k, at>>)
  BY <1>1, SMTT(30) DEF UseVisited
<1>. QED BY <1>3, <1>4, <1>5, <1>6, <1>7, <1>8

(* A use that is reported.                                                 *)
LEMMA UseFaulty ==
  ASSUME IInv, UseExpr, Misused(s.uses[at])
  PROVE  IInv'
<1>. USE DEF UseExpr
<1>. DEFINE here == <<it, k, at>>
<1>1. /\ it \in DOMAIN inode2module /\ k \in Nat \ {0} /\ k <= Len(Text(it)) /\ Len(Text(it)) \in Nat
      /\ at \in Nat \ {0} /\ n_errors \in Nat
  BY AtUser
<1>2. /\ here \in Uses /\ UseAt(here) = s.uses[at] /\ s.uses[at] \in Use
      /\ \A v \in Uses : UseVisited(v)' <=> UseVisited(v) \/ v = here
  BY UseExprPlace
<1>3. FaultyUse(here[1], UseAt(here))
  <2>1. FaultyUse(it, s.uses[at])
    BY <1>1, <1>2, Resolved
  <2>. QED BY <1>2, <2>1
<1>4. Faulty
  BY <1>2, <1>3 DEF Faulty
<1>5. n_errors' = n_errors + 1 /\ UNCHANGED <<define_stmt, depended_by, used_as>>
  OBVIOUS
<1>. HIDE DEF here
<1>6. BoundInv'
  <2>1. /\ Uses' = Uses
        /\ \A u : FaultyUse(u[1], UseAt(u))' <=> FaultyUse(u[1], UseAt(u))
        /\ \A u : Meant(u[1], UseAt(u))' = Meant(u[1], UseAt(u))
    BY SameUses
  <2>2. /\ DOMAIN define_stmt = {u \in Uses : UseVisited(u) /\ ~ FaultyUse(u[1], UseAt(u))}
        /\ \A u \in DOMAIN define_stmt : Meant(u[1], UseAt(u)) = {define_stmt[u]}
    BY DEF IInv, BoundInv, Using
  <2>3. DOMAIN define_stmt' = {u \in Uses' : UseVisited(u)' /\ ~ FaultyUse(u[1], UseAt(u))'}
    BY <1>2, <1>3, <1>5, <2>1, <2>2
  <2>4. \A u \in DOMAIN define_stmt' : Meant(u[1], UseAt(u))' = {define_stmt'[u]}
    BY <1>5, <2>1, <2>2
  <2>5. n_errors' # 0
    BY <1>1, <1>5
  <2>. QED BY <2>3, <2>4, <2>5 DEF BoundInv
<1>7. RecordInv'
  BY <1>5, RecordKept DEF IInv, Using
<1>8. /\ define_stmt' \in Maps(UsePlace, Place) /\ depended_by' \in Maps(Place, Seq(Place))
      /\ used_as' \in [Kinds -> Maps(Place, Seq(UsePlace))]
  BY <1>5 DEF IInv, TypeOK
<1>9. /\ k' \in Nat /\ k' > 0 /\ k' <= Len(Text(it)) + 1 /\ at' \in Nat /\ at' > 0
      /\ n_errors' \in Nat /\ n_errors <= n_errors'
  BY <1>1, <1>5
<1>. QED BY <1>4, <1>5, <1>6, <1>7, <1>8, <1>9, UseStep

(* A use that is bound, and recorded if it is of a definition.             *)
LEMMA MeantPlace ==
  ASSUME IInv, pc = "use", it \in DOMAIN inode2module, NEW u \in Use, NEW d \in Meant(it, u)
  PROVE  d \in Place
<1>1. PICK f \in From(it, u) : \E p \in Of(KindsMeant(u), f) : d = <<f, p>>
  BY MeantFrom
<1>2. PICK p \in Of(KindsMeant(u), f) : d = <<f, p>>
  BY <1>1
<1>3. f \in DOMAIN inode2module
  BY ScopesExact
<1>4. f \in Inode /\ DOMAIN Text(f) = 1 .. Len(Text(f)) /\ Len(Text(f)) \in Nat
  BY <1>3, Final DEF Using
<1>5. p \in Nat \ {0}
  BY <1>2, <1>4 DEF Of
<1>. QED BY <1>2, <1>4, <1>5 DEF Place

(* m[x].push_back(y).                                                      *)
LEMMA AppendedFacts ==
  ASSUME NEW D, NEW R, NEW m \in Maps(D, Seq(R)), NEW x \in DOMAIN m, NEW y \in R,
         NEW m2, m2 = [m EXCEPT ![x] = Append(@, y)]
  PROVE  /\ m2 \in Maps(D, Seq(R)) /\ DOMAIN m2 = DOMAIN m
         /\ m2[x] = Append(m[x], y)
         /\ \A z \in DOMAIN m : z # x => m2[z] = m[z]
<1>1. m = [z \in DOMAIN m |-> m[z]] /\ DOMAIN m \subseteq D /\ \A z \in DOMAIN m : m[z] \in Seq(R)
  BY MapFacts
<1>2. /\ DOMAIN m2 = DOMAIN m /\ m2[x] = Append(m[x], y)
      /\ \A z \in DOMAIN m : z # x => m2[z] = m[z]
      /\ m2 = [z \in DOMAIN m |-> m2[z]]
  BY <1>1
<1>3. m[x] \in Seq(R)
  BY <1>1
<1>4. Append(m[x], y) \in Seq(R)
  BY <1>3
<1>5. \A z \in DOMAIN m : m2[z] \in Seq(R)
  BY <1>1, <1>2, <1>4
<1>6. m2 \in [DOMAIN m -> Seq(R)] /\ DOMAIN m \in SUBSET D
  BY <1>1, <1>2, <1>5
<1>. QED BY <1>2, <1>6 DEF Maps

LEMMA LastAppended ==
  ASSUME NEW R, NEW q \in Seq(R), NEW y \in R
  PROVE  /\ Len(Append(q, y)) = Len(q) + 1 /\ Len(q) \in Nat
         /\ Append(q, y)[Len(q) + 1] = y
         /\ \A i \in 1 .. Len(q) : Append(q, y)[i] = q[i]
         /\ \A i \in 1 .. Len(Append(q, y)) : i \in 1 .. Len(q) \/ i = Len(q) + 1
         /\ Len(q) + 1 \in 1 .. Len(Append(q, y))
         /\ \A i \in 1 .. Len(q) : i \in 1 .. Len(Append(q, y)) /\ i # Len(q) + 1
<1>1. Len(Append(q, y)) = Len(q) + 1 /\ Len(q) \in Nat
  OBVIOUS
<1>2. Append(q, y)[Len(q) + 1] = y
  OBVIOUS
<1>3. \A i \in 1 .. Len(q) : Append(q, y)[i] = q[i]
  OBVIOUS
<1>. QED BY <1>1, <1>2, <1>3

LEMMA UseBound ==
  ASSUME IInv, UseExpr, ~ Misused(s.uses[at])
  PROVE  IInv'
<1>1. /\ it \in DOMAIN inode2module /\ k \in Nat \ {0} /\ k <= Len(Text(it)) /\ Len(Text(it)) \in Nat
      /\ at \in Nat \ {0} /\ n_errors \in Nat /\ it \in Inode
  BY AtUser DEF UseExpr
<1>2. PICK here : here = <<it, k, at>>
  OBVIOUS
<1>3. PICK u : u = s.uses[at]
  OBVIOUS
<1>4. PICK d : d = Definition(u)
  OBVIOUS
<1>5. /\ here \in Uses /\ here \in UsePlace /\ UseAt(here) = u /\ u \in Use
      /\ \A v \in Uses : UseVisited(v)' <=> UseVisited(v) \/ v = here
      /\ ~ UseVisited(here) /\ here[1] = it /\ here[2] = k
  BY <1>2, <1>3, UseExprPlace
<1>6. /\ Meant(it, u) = {d} /\ ~ FaultyUse(it, u)
      /\ Hit(u)[2] = "defined" <=> d \in DOMAIN depended_by
      /\ Hit(u)[2] = "defined" => u.kind \in Kinds
  BY <1>1, <1>3, <1>4, <1>5, Resolved DEF UseExpr
<1>7. d \in Place /\ Pos \in Place /\ Pos = <<here[1], here[2]>>
  <2>1. d \in Place
    BY <1>1, <1>5, <1>6, MeantPlace DEF UseExpr
  <2>. QED BY <1>1, <1>5, <2>1 DEF Pos, Place
<1>8. /\ define_stmt' = Put(define_stmt, here, d) /\ n_errors' = n_errors
      /\ IF Hit(u)[2] = "defined"
           THEN used_as' = [used_as EXCEPT ![u.kind][d] = Append(@, here)]
           ELSE UNCHANGED used_as
      /\ IF Hit(u)[2] = "defined" /\ u.kind = "embed"
           THEN depended_by' = [depended_by EXCEPT ![d] = Append(@, Pos)]
           ELSE UNCHANGED depended_by
  BY <1>2, <1>3, <1>4 DEF UseExpr, RecordOf
<1>9. /\ define_stmt \in Maps(UsePlace, Place) /\ depended_by \in Maps(Place, Seq(Place))
      /\ used_as \in [Kinds -> Maps(Place, Seq(UsePlace))]
      /\ \A kind \in Kinds : DOMAIN used_as[kind] = DOMAIN depended_by
  BY DEF IInv, TypeOK, KeysInv
<1>10. /\ define_stmt' \in Maps(UsePlace, Place) /\ DOMAIN define_stmt' = DOMAIN define_stmt \cup {here}
       /\ define_stmt'[here] = d
       /\ \A v \in DOMAIN define_stmt : v # here => define_stmt'[v] = define_stmt[v]
  <2>1. Put(define_stmt, here, d) \in Maps(UsePlace, Place)
    BY <1>5, <1>7, <1>9, PutType
  <2>2. /\ DOMAIN Put(define_stmt, here, d) = DOMAIN define_stmt \cup {here}
        /\ Put(define_stmt, here, d)[here] = d
        /\ \A v \in DOMAIN define_stmt : v # here => Put(define_stmt, here, d)[v] = define_stmt[v]
    BY DEF Put
  <2>. QED BY <1>8, <2>1, <2>2
<1>11. /\ used_as' \in [Kinds -> Maps(Place, Seq(UsePlace))]
       /\ \A kind \in Kinds : DOMAIN used_as'[kind] = DOMAIN used_as[kind]
       /\ \A kind \in Kinds, e \in DOMAIN depended_by :
            /\ kind = u.kind /\ e = d => used_as'[kind][e] = Append(used_as[kind][e], here)
            /\ ~ (kind = u.kind /\ e = d) => used_as'[kind][e] = used_as[kind][e]
  <2>1. CASE d \in DOMAIN depended_by
    <3>1. PICK f : f = [used_as[u.kind] EXCEPT ![d] = Append(@, here)]
      OBVIOUS
    <3>2. u.kind \in Kinds /\ used_as' = [used_as EXCEPT ![u.kind] = f]
      BY <1>6, <1>8, <2>1, <3>1
    <3>3. /\ used_as[u.kind] \in Maps(Place, Seq(UsePlace)) /\ d \in DOMAIN used_as[u.kind]
          /\ DOMAIN used_as[u.kind] = DOMAIN depended_by
      BY <1>9, <2>1, <3>2
    <3>4. /\ f \in Maps(Place, Seq(UsePlace)) /\ DOMAIN f = DOMAIN used_as[u.kind]
          /\ f[d] = Append(used_as[u.kind][d], here)
          /\ \A z \in DOMAIN used_as[u.kind] : z # d => f[z] = used_as[u.kind][z]
      BY <1>5, <3>1, <3>3, AppendedFacts
    <3>5. used_as'[u.kind] = f /\ \A kind \in Kinds : kind # u.kind => used_as'[kind] = used_as[kind]
      BY <1>9, <3>2
    <3>6. used_as' \in [Kinds -> Maps(Place, Seq(UsePlace))]
      BY <1>9, <3>2, <3>4
    <3>. QED BY <3>3, <3>4, <3>5, <3>6
  <2>2. CASE d \notin DOMAIN depended_by
    BY <1>6, <1>8, <1>9, <2>2
  <2>. QED BY <2>1, <2>2
<1>12. /\ depended_by' \in Maps(Place, Seq(Place)) /\ DOMAIN depended_by' = DOMAIN depended_by
       /\ \A e \in DOMAIN depended_by :
            /\ u.kind = "embed" /\ e = d => depended_by'[e] = Append(depended_by[e], Pos)
            /\ ~ (u.kind = "embed" /\ e = d) => depended_by'[e] = depended_by[e]
  <2>1. CASE d \in DOMAIN depended_by /\ u.kind = "embed"
    <3>1. PICK f : f = [depended_by EXCEPT ![d] = Append(@, Pos)]
      OBVIOUS
    <3>2. depended_by' = f
      BY <1>6, <1>8, <2>1, <3>1
    <3>3. depended_by \in Maps(Place, Seq(Place)) /\ d \in DOMAIN depended_by /\ Pos \in Place
      BY <1>7, <1>9, <2>1
    <3>4. /\ f \in Maps(Place, Seq(Place)) /\ DOMAIN f = DOMAIN depended_by
          /\ f[d] = Append(depended_by[d], Pos)
          /\ \A z \in DOMAIN depended_by : z # d => f[z] = depended_by[z]
      <4>1. /\ depended_by = [z \in DOMAIN depended_by |-> depended_by[z]]
            /\ DOMAIN depended_by \in SUBSET Place
            /\ \A z \in DOMAIN depended_by : depended_by[z] \in Seq(Place)
        BY <3>3, MapFacts
      <4>2. /\ DOMAIN f = DOMAIN depended_by /\ f[d] = Append(depended_by[d], Pos)
            /\ \A z \in DOMAIN depended_by : z # d => f[z] = depended_by[z]
            /\ f = [z \in DOMAIN depended_by |-> f[z]]
        BY <3>1, <3>3, <4>1
      <4>3. depended_by[d] \in Seq(Place)
        BY <3>3, <4>1
      <4>4. Append(depended_by[d], Pos) \in Seq(Place)
        BY <3>3, <4>3
      <4>5. f \in [DOMAIN depended_by -> Seq(Place)]
        BY <4>1, <4>2, <4>4
      <4>. QED BY <4>1, <4>2, <4>5 DEF Maps
    <3>. QED BY <2>1, <3>2, <3>4
  <2>2. CASE ~ (d \in DOMAIN depended_by /\ u.kind = "embed")
    <3>1. depended_by' = depended_by
      BY <1>6, <1>8, <2>2
    <3>. QED BY <1>9, <2>2, <3>1
  <2>. QED BY <2>1, <2>2
<1>13. /\ DOMAIN define_stmt = {v \in Uses : UseVisited(v) /\ ~ FaultyUse(v[1], UseAt(v))}
       /\ \A v \in DOMAIN define_stmt : Meant(v[1], UseAt(v)) = {define_stmt[v]}
       /\ n_errors = 0 => \A v \in Uses : UseVisited(v) => ~ FaultyUse(v[1], UseAt(v))
       /\ here \notin DOMAIN define_stmt
  BY <1>5 DEF IInv, BoundInv, Using, UseExpr
<1>14. BoundInv'
  <2>1. /\ Uses' = Uses
        /\ \A v : FaultyUse(v[1], UseAt(v))' <=> FaultyUse(v[1], UseAt(v))
        /\ \A v : Meant(v[1], UseAt(v))' = Meant(v[1], UseAt(v))
    BY SameUses DEF UseExpr
  <2>2. ~ FaultyUse(here[1], UseAt(here)) /\ Meant(here[1], UseAt(here)) = {d}
    BY <1>5, <1>6
  <2>3. DOMAIN define_stmt' = {v \in Uses' : UseVisited(v)' /\ ~ FaultyUse(v[1], UseAt(v))'}
    BY <1>5, <1>10, <1>13, <2>1, <2>2
  <2>4. \A v \in DOMAIN define_stmt' : Meant(v[1], UseAt(v))' = {define_stmt'[v]}
    BY <1>10, <1>13, <2>1, <2>2
  <2>5. n_errors' = 0 => \A v \in Uses' : UseVisited(v)' => ~ FaultyUse(v[1], UseAt(v))'
    BY <1>5, <1>8, <1>13, <2>1, <2>2
  <2>. QED BY <2>3, <2>4, <2>5 DEF BoundInv
<1>15. RecordInv'
  <2>1. \A v : UseAt(v)' = UseAt(v)
    BY SameUses DEF UseExpr
  <2>2. ASSUME NEW e \in DOMAIN depended_by, NEW kind \in Kinds, NEW w, w = used_as[kind][e],
               NEW w2, w2 = used_as'[kind][e], NEW b, b = depended_by[e], NEW b2, b2 = depended_by'[e]
        PROVE  /\ \A i, j \in 1 .. Len(w2) : w2[i] = w2[j] => i = j
               /\ \A i \in 1 .. Len(w2) : /\ w2[i] \in DOMAIN define_stmt' /\ UseAt(w2[i]).kind = kind
                                          /\ define_stmt'[w2[i]] = e
               /\ \A v \in DOMAIN define_stmt' : UseAt(v).kind = kind /\ define_stmt'[v] = e =>
                    \E i \in 1 .. Len(w2) : w2[i] = v
               /\ kind = "embed" =>
                    /\ Len(b2) = Len(w2)
                    /\ \A i \in 1 .. Len(w2) : b2[i] = <<w2[i][1], w2[i][2]>>
    <3>1. /\ \A i, j \in 1 .. Len(w) : w[i] = w[j] => i = j
          /\ \A i \in 1 .. Len(w) : /\ w[i] \in DOMAIN define_stmt /\ UseAt(w[i]).kind = kind
                                    /\ define_stmt[w[i]] = e
          /\ \A v \in DOMAIN define_stmt : UseAt(v).kind = kind /\ define_stmt[v] = e =>
               \E i \in 1 .. Len(w) : w[i] = v
          /\ kind = "embed" => /\ Len(b) = Len(w)
                               /\ \A i \in 1 .. Len(w) : b[i] = <<w[i][1], w[i][2]>>
      BY <2>2, SMTT(30) DEF IInv, RecordInv, Using, UseExpr
    <3>2. \A i \in 1 .. Len(w) : w[i] # here /\ w[i] \in DOMAIN define_stmt'
                                /\ define_stmt'[w[i]] = e
      BY <1>10, <1>13, <3>1
    <3>3. \A v \in DOMAIN define_stmt' :
            v = here \/ (v \in DOMAIN define_stmt /\ define_stmt'[v] = define_stmt[v])
      BY <1>10, <1>13
    <3>4. CASE kind = u.kind /\ e = d
      <4>1. w \in Seq(UsePlace) /\ b \in Seq(Place)
        <5>1. used_as[kind] \in Maps(Place, Seq(UsePlace)) /\ e \in DOMAIN used_as[kind]
          BY <1>9, <2>2
        <5>. QED BY <1>9, <2>2, <5>1, MapFacts
      <4>2. w2 = Append(w, here)
        BY <1>11, <2>2, <3>4
      <4>3. /\ Len(w2) = Len(w) + 1 /\ Len(w) \in Nat /\ w2[Len(w) + 1] = here
            /\ \A i \in 1 .. Len(w) : w2[i] = w[i]
            /\ \A i \in 1 .. Len(w2) : i \in 1 .. Len(w) \/ i = Len(w) + 1
            /\ Len(w) + 1 \in 1 .. Len(w2)
            /\ \A i \in 1 .. Len(w) : i \in 1 .. Len(w2) /\ i # Len(w) + 1
        BY <1>5, <4>1, <4>2, LastAppended
      <4>4. \A i, j \in 1 .. Len(w2) : w2[i] = w2[j] => i = j
        BY <3>1, <3>2, <4>3
      <4>5. ASSUME NEW i \in 1 .. Len(w2)
            PROVE  /\ w2[i] \in DOMAIN define_stmt' /\ UseAt(w2[i]).kind = kind
                   /\ define_stmt'[w2[i]] = e
        <5>1. CASE i \in 1 .. Len(w)
          BY <3>1, <3>2, <4>3, <5>1
        <5>2. CASE i = Len(w) + 1
          BY <1>5, <1>10, <3>4, <4>3, <5>2
        <5>. QED BY <4>3, <5>1, <5>2
      <4>6. ASSUME NEW v \in DOMAIN define_stmt', UseAt(v).kind = kind, define_stmt'[v] = e
            PROVE  \E i \in 1 .. Len(w2) : w2[i] = v
        <5>1. CASE v = here
          BY <4>3, <5>1
        <5>2. CASE v # here
          <6>1. PICK i \in 1 .. Len(w) : w[i] = v
            BY <3>1, <3>3, <4>6, <5>2
          <6>. QED BY <4>3, <6>1
        <5>. QED BY <5>1, <5>2
      <4>7. ASSUME kind = "embed"
            PROVE  /\ Len(b2) = Len(w2)
                   /\ \A i \in 1 .. Len(w2) : b2[i] = <<w2[i][1], w2[i][2]>>
        <5>1. b2 = Append(b, Pos) /\ Len(b) = Len(w)
          BY <1>12, <2>2, <3>1, <3>4, <4>7
        <5>2. /\ Len(b2) = Len(b) + 1 /\ b2[Len(b) + 1] = Pos
              /\ \A i \in 1 .. Len(b) : b2[i] = b[i]
          BY <1>7, <4>1, <5>1, LastAppended
        <5>3. ASSUME NEW i \in 1 .. Len(w2) PROVE b2[i] = <<w2[i][1], w2[i][2]>>
          <6>1. CASE i \in 1 .. Len(w)
            BY <3>1, <4>3, <4>7, <5>1, <5>2, <6>1
          <6>2. CASE i = Len(w) + 1
            BY <1>7, <4>3, <5>1, <5>2, <6>2
          <6>. QED BY <4>3, <6>1, <6>2
        <5>. QED BY <4>3, <5>1, <5>2, <5>3
      <4>. QED BY <4>4, <4>5, <4>6, <4>7
    <3>5. CASE ~ (kind = u.kind /\ e = d)
      <4>1. w2 = w
        BY <1>11, <2>2, <3>5
      <4>2. kind = "embed" => b2 = b
        BY <1>12, <2>2, <3>5
      <4>3. ASSUME NEW v \in DOMAIN define_stmt', UseAt(v).kind = kind, define_stmt'[v] = e
            PROVE  \E i \in 1 .. Len(w2) : w2[i] = v
        <5>1. v # here
          BY <1>5, <1>10, <3>5, <4>3
        <5>. QED BY <3>1, <3>3, <4>1, <4>3, <5>1
      <4>. QED BY <3>1, <3>2, <4>1, <4>2, <4>3
    <3>. QED BY <3>4, <3>5
  <2>. QED BY <1>12, <2>1, <2>2 DEF RecordInv
<1>16. k' = k /\ at' = at + 1 /\ pc = "use" /\ AtStmt
       /\ UNCHANGED <<files, inode2module, pc, it, old, done>>
  BY DEF UseExpr
<1>. QED BY <1>1, <1>8, <1>10, <1>11, <1>12, <1>14, <1>15, <1>16, UseStep

-----------------------------------------------------------------------------
LEMMA StepInv ==
  ASSUME IInv, [Next]_vars
  PROVE  IInv'
<1>1. CASE LoadMain
  BY <1>1, LoadMainStep
<1>2. CASE Enter
  BY <1>2, EnterStep
<1>3. CASE Skip
  BY <1>3, SkipStep
<1>4. CASE DefAction
  BY <1>4, DefActionStep
<1>5. CASE DefMacro
  BY <1>5, DefMacroStep
<1>6. CASE Def
  BY <1>6, DefStep
<1>7. CASE Import
  BY <1>7, ImportStep
<1>8. CASE Leave
  BY <1>8, LeaveStep
<1>9. CASE EndImports
  BY <1>9, EndImportsStep
<1>10. CASE UseExpr
  BY <1>10, UseFaulty, UseBound
<1>11. CASE UseDone
  BY <1>11, UseDoneStep
<1>12. CASE EndUses \/ CheckSolely
  BY <1>12, EndUsesStep
<1>13. CASE UNCHANGED vars
  BY <1>13, StutterStep
<1>. QED BY <1>1, <1>2, <1>3, <1>4, <1>5, <1>6, <1>7, <1>8, <1>9, <1>10, <1>11, <1>12, <1>13
         DEF Next, Step, Finished

(* IInv holds in every state of load.                                      *)
THEOREM Invariance == Spec => []IInv
<1>1. InitFrom([Inode -> File]) => IInv
  BY InitStep
<1>2. IInv /\ [Next]_vars => IInv'
  BY StepInv
<1>. QED BY <1>1, <1>2, PTL DEF Spec

-----------------------------------------------------------------------------
LEMMA VisitedOf ==
  ASSUME IInv
  PROVE  ReachedVisited
<1>. SUFFICES ASSUME pc \notin {"load", "import", Failed} PROVE ReachedVisited
  BY DEF ReachedVisited
<1>1. Using
  BY DEF IInv, TypeOK, Using
<1>2. DOMAIN inode2module = Reached /\ \A m \in Reached : inode2module[m].status = "GOOD"
  BY <1>1 DEF IInv, ReachInv
<1>3. ASSUME NEW d \in Definitions
      PROVE  inode2module[d[1]].defined[Text(d[1])[d[2]].ident] = d
  <2>1. d = <<d[1], d[2]>> /\ d[1] \in Reached /\ d[2] \in Of({"define"}, d[1])
    BY <1>1, <1>3, KeysExact
  <2>2. inode2module[d[1]]["defined"][Text(d[1])[d[2]].ident] = <<d[1], d[2]>>
    BY <1>1, <1>2, <2>1, TableExact DEF TableOf
  <2>3. inode2module[d[1]]["defined"] = inode2module[d[1]].defined
    BY <1>1, <1>2, <2>1, Final DEF Module
  <2>. QED BY <2>1, <2>2, <2>3
<1>. QED BY <1>2, <1>3 DEF ReachedVisited

(* Whatever the files and the order of the inodes, when the uses are       *)
(* looked at exactly the files reached are loaded, all have been visited,  *)
(* and every definition is found under its name (load, 478-496).           *)
THEOREM VisitedAlways == Spec => []ReachedVisited
BY Invariance, VisitedOf, PTL

(* In the end nothing was wrong.                                           *)
LEMMA NoErrors ==
  ASSUME IInv, pc = Linked
  PROVE  /\ ~ Faulty
         /\ DOMAIN define_stmt = Uses
         /\ \A u \in Uses : Meant(u[1], UseAt(u)) = {define_stmt[u]}
<1>1. Using /\ n_errors = 0 /\ it = None
  BY DEF Using, IInv, ControlInv
<1>2. \A u \in Uses : UseVisited(u)
  BY <1>1 DEF UseVisited
<1>3. \A u \in Uses : ~ FaultyUse(u[1], UseAt(u))
  BY <1>1, <1>2 DEF IInv, BoundInv
<1>4. DOMAIN define_stmt = Uses
  BY <1>1, <1>2, <1>3 DEF IInv, BoundInv
<1>5. \A u \in Uses : Meant(u[1], UseAt(u)) = {define_stmt[u]}
  BY <1>1, <1>4 DEF IInv, BoundInv
<1>6. ASSUME NEW m \in Reached PROVE ~ FaultyText(m)
  <2>1. m \in DOMAIN inode2module
    BY <1>1, <1>6, KeysExact
  <2>2. /\ files[m].errors = 0 /\ Clean(Text(m), Len(Text(m)))
        /\ \A kinds : Among(Text(m), Len(Text(m)), kinds) = Of(kinds, m)
    BY <1>1, <2>1, Final
  <2>3. ~ SameName({"define", "macro"}, m) /\ ~ SameName({"action"}, m)
    BY <2>2 DEF SameName, Clean, Distinct
  <2>. QED BY <2>2, <2>3 DEF FaultyText, Clean
<1>. QED BY <1>3, <1>4, <1>5, <1>6 DEF Faulty

LEMMA ErrorsOf ==
  ASSUME IInv
  PROVE  ErrorsIffFaulty
<1>1. pc = Failed => Faulty
  BY DEF IInv, ControlInv, FaultInv
<1>2. pc = Linked => ~ Faulty
  BY NoErrors
<1>. QED BY <1>1, <1>2 DEF ErrorsIffFaulty

(* load gives up iff something is wrong in the text of the files reached:  *)
(* n_errors at 498 and 511 counts real mistakes only, and every one.       *)
THEOREM ErrorsAlways == Spec => []ErrorsIffFaulty
BY Invariance, ErrorsOf, PTL

LEMMA BoundOf ==
  ASSUME IInv
  PROVE  BoundUniquely
BY NoErrors DEF BoundUniquely

(* When load succeeds, every use is bound to the one statement it can      *)
(* mean (resolve, and ModuleUse 225-315).                                  *)
THEOREM BoundAlways == Spec => []BoundUniquely
BY Invariance, BoundOf, PTL

-----------------------------------------------------------------------------
LEMMA CountBySequence ==
  ASSUME NEW R, NEW q \in Seq(R), NEW S,
         \A i, j \in 1 .. Len(q) : q[i] = q[j] => i = j,
         \A i \in 1 .. Len(q) : q[i] \in S,
         \A v \in S : \E i \in 1 .. Len(q) : q[i] = v
  PROVE  ToSet(q) = S /\ Len(q) = Cardinality(S)
<1>1. Len(q) \in Nat /\ DOMAIN q = 1 .. Len(q)
  OBVIOUS
<1>2. ToSet(q) = S
  BY <1>1 DEF ToSet
<1>3. q \in [1 .. Len(q) -> S]
  BY <1>1
<1>4. q \in Bijection(1 .. Len(q), S)
  BY <1>1, <1>3 DEF Bijection, Injection, Surjection, IsInjective
<1>5. ExistsBijection(1 .. Len(q), S)
  BY <1>4 DEF ExistsBijection
<1>. QED BY <1>1, <1>2, <1>5, FS_CountingElements

LEMMA RecordedOf ==
  ASSUME IInv
  PROVE  UsesRecorded
<1>. SUFFICES ASSUME pc = Linked PROVE UsesRecorded
  BY DEF UsesRecorded
<1>1. Using
  BY DEF Using
<1>2. DOMAIN depended_by = Definitions
  BY <1>1, KeysExact
<1>3. DOMAIN define_stmt = Uses
  BY NoErrors
<1>4. ASSUME NEW kind \in Kinds, NEW d \in Definitions
      PROVE  LET users == {u \in Uses : UseAt(u).kind = kind /\ define_stmt[u] = d}
             IN /\ ToSet(used_as[kind][d]) = users
                /\ Len(used_as[kind][d]) = Cardinality(users)
                /\ kind = "embed" =>
                     depended_by[d] = [n \in DOMAIN used_as[kind][d] |->
                                          <<used_as[kind][d][n][1], used_as[kind][d][n][2]>>]
  <2>. DEFINE users == {u \in Uses : UseAt(u).kind = kind /\ define_stmt[u] = d}
  <2>1. PICK q : q = used_as[kind][d]
    OBVIOUS
  <2>2. PICK b : b = depended_by[d]
    OBVIOUS
  <2>3. q \in Seq(UsePlace) /\ b \in Seq(Place)
    <3>1. used_as[kind] \in Maps(Place, Seq(UsePlace)) /\ d \in DOMAIN used_as[kind]
          /\ depended_by \in Maps(Place, Seq(Place)) /\ d \in DOMAIN depended_by
      BY <1>1, <1>2, <1>4, KeysExact DEF IInv, TypeOK
    <3>. QED BY <2>1, <2>2, <3>1, MapFacts
  <2>4. /\ \A i, j \in 1 .. Len(q) : q[i] = q[j] => i = j
        /\ \A i \in 1 .. Len(q) : /\ q[i] \in DOMAIN define_stmt /\ UseAt(q[i]).kind = kind
                                  /\ define_stmt[q[i]] = d
        /\ \A v \in DOMAIN define_stmt : UseAt(v).kind = kind /\ define_stmt[v] = d =>
             \E i \in 1 .. Len(q) : q[i] = v
        /\ kind = "embed" => /\ Len(b) = Len(q)
                             /\ \A i \in 1 .. Len(q) : b[i] = <<q[i][1], q[i][2]>>
    BY <1>1, <1>2, <2>1, <2>2 DEF IInv, RecordInv
  <2>5. \A i \in 1 .. Len(q) : q[i] \in users
    BY <1>3, <2>4
  <2>6. \A v \in users : \E i \in 1 .. Len(q) : q[i] = v
    BY <1>3, <2>4
  <2>. HIDE DEF users
  <2>7. ToSet(q) = users /\ Len(q) = Cardinality(users)
    BY <2>3, <2>4, <2>5, <2>6, CountBySequence
  <2>8. kind = "embed" => b = [n \in DOMAIN q |-> <<q[n][1], q[n][2]>>]
    <3>1. DOMAIN q = 1 .. Len(q) /\ DOMAIN b = 1 .. Len(b) /\ b = [n \in 1 .. Len(b) |-> b[n]]
      BY <2>3
    <3>. QED BY <2>4, <3>1
  <2>. QED BY <2>1, <2>2, <2>7, <2>8 DEF users
<1>. QED BY <1>2, <1>4 DEF UsesRecorded

(* Each use is recorded once, under the definition it is bound to and the  *)
(* way it is used, and depended_by has the embeddings in the same order:   *)
(* what the sort, compile and compile_export read (ModuleUse 225-315).    *)
THEOREM RecordedAlways == Spec => []UsesRecorded
BY Invariance, RecordedOf, PTL
=============================================================================
