------------------------------ MODULE MCLoader ------------------------------
(* Three files that import each other: the main one, with the inode in the *)
(* middle, and two more.                                                   *)
EXTENDS Loader

MCInode == 1 .. 3
MCMain == 2

Imp(i, q) == [kind |-> "import", target |-> i, qualified |-> q]
Dfn(uses) == [kind |-> "define", ident |-> "x", uses |-> uses]
Mac == [kind |-> "macro", ident |-> "x"]
Act == [kind |-> "action", ident |-> "x"]
Plain(stmts) == [errors |-> 0, stmts |-> stmts]
Unparsable == [errors |-> 1, stmts |-> <<>>]

(* The main file: imports, and a definition with up to two uses of x.      *)
Imports == {Imp(i, q) : i \in {1, 3}, q \in {"q", Unqualified}}
ImportLists ==
  {<<>>} \cup {<<a>> : a \in Imports} \cup {<<a, b>> : a, b \in Imports}
         \cup {<<Imp(2, q)>> : q \in {"q", Unqualified}}
Ref(kind, q) == [kind |-> kind, qualified |-> q, ident |-> "x"]
UseLists == {<<u>> : u \in {v \in Use : v.ident = "x"}} \cup
            {<<Ref("collapse", q), Ref(d, q)>> : q \in {"q", Unqualified}, d \in {"embed", "call"}}
MainFiles ==
  {Plain(a \o <<[kind |-> "define", ident |-> n, uses |-> u]>>) :
     a \in ImportLists, u \in UseLists, n \in {"x", "y"}}

UserOf(i) == Plain(<<Imp(i, Unqualified),
                     [kind |-> "define", ident |-> "y", uses |-> <<Ref("embed", Unqualified)>>]>>)
Files1 == {Unparsable, Plain(<<Mac>>), Plain(<<Act, Dfn(<<>>)>>), Plain(<<Act, Act>>), UserOf(3)}
Files3 == {Plain(<<Imp(None, Unqualified)>>), Plain(<<Act, Dfn(<<>>)>>), Plain(<<Dfn(<<>>), Mac>>),
           UserOf(1), UserOf(2)}

MCInputs == {(1 :> a) @@ (2 :> m) @@ (3 :> b) : a \in Files1, m \in MainFiles, b \in Files3}

MCSpec == InitFrom(MCInputs) /\ [][Next]_vars /\ WF_vars(Step)
=============================================================================
