------------------------------ MODULE MCBuilder ------------------------------
(* Programs of a few expressions over two letters, compared on the words   *)
(* of up to three letters.                                                 *)
EXTENDS Builder

MCWords == UNION {[1 .. k -> {0, 1}] : k \in 0 .. 3}
MCKinds == {{}, {"transiting"}, {"finishing"}, {"entering", "finishing"}}
MCBrackets == {[items |-> <<<<1, 2>>, <<1, 2>>>>, negated |-> TRUE]}
MCLiterals == {<<0, 1>>}
MCRepeats == {<<1, 3>>, <<2, Unbounded>>}

(* DisjointIntervals (common.hh 96-126): whatever items a class has, and   *)
(* in whatever order, the intervals kept are apart from each other and     *)
(* cover what the items do; those of the class negated cover the rest.     *)
MCLimit == 5
MCItems == {x \in (0 .. MCLimit) \X (0 .. MCLimit) : x[1] < x[2]}
Covered(I) == UNION {x[1] .. x[2] - 1 : x \in I}
Apart(I) == \A x, y \in I : x = y \/ x[2] < y[1] \/ y[2] < x[1]
ASSUME ClassesCovered ==
  \A items \in UNION {[1 .. n -> MCItems] : n \in 0 .. 3} :
    LET I == FoldLeft(Added, {}, items)
        J == Flipped(I, MCLimit)
    IN /\ Apart(I) /\ Covered(I) = Covered(ToSet(items))
       /\ Apart(J) /\ Covered(J) = (0 .. MCLimit - 1) \ Covered(I)
=============================================================================
