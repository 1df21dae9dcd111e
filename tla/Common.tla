------------------------------- MODULE Common -------------------------------
(***************************************************************************)
(* The helpers of src/common.hh: sorted_emplace on the edges of a state,   *)
(* and DisjointIntervals, the set of letters of a class in brackets.       *)
(*                                                                         *)
(* An edge is <<from, to, v>>: the labels from .. to - 1 lead to state v.  *)
(* A DisjointIntervals, a map in the code, is the set of its entries       *)
(* <<from, to>>.                                                           *)
(***************************************************************************)
EXTENDS Integers, Sequences

EpsilonTo(v) == <<-1, 0, v>>

(* sorted_emplace of an epsilon: behind the last edge that is not greater. *)
Emplaced(es, v) ==
  LET k == CHOOSE k \in 0 .. Len(es) :
             /\ k > 0 => es[k][1] = -1 /\ es[k][3] <= v
             /\ \A j \in k + 1 .. Len(es) : es[j][1] > -1 \/ es[j][3] > v
  IN SubSeq(es, 1, k) \o <<EpsilonTo(v)>> \o SubSeq(es, k + 1, Len(es))

-----------------------------------------------------------------------------
(* DisjointIntervals::emplace.  The new interval begins with the last one  *)
(* that begins before it, if that touches it (prev(lower_bound)); it ends  *)
(* with the last one that begins in it or where it ends, if that reaches   *)
(* further (prev(upper_bound)).  Those in between are erased.              *)
LastOf(I) == {x \in I : \A y \in I : y[1] <= x[1]}

Added(I, x) ==
  LET left == {y \in LastOf({y \in I : y[1] < x[1]}) : x[1] <= y[2]}
      right == {y \in LastOf({y \in I : y[1] <= x[2]}) : x[2] < y[2]}
      from == IF left = {} THEN x[1] ELSE (CHOOSE y \in left : TRUE)[1]
      to == IF right = {} THEN x[2] ELSE (CHOOSE y \in right : TRUE)[2]
  IN {y \in I : y[1] < from \/ x[2] < y[1]} \cup {<<from, to>>}

(* DisjointIntervals::flip: the gaps before each interval and after all.   *)
EndBefore(I, b) == CHOOSE e \in {0} \cup {y[2] : y \in {y \in I : y[1] < b}} :
                     \A y \in I : y[1] < b => y[2] <= e
EndOf(I) == CHOOSE e \in {0} \cup {y[2] : y \in I} : \A y \in I : y[2] <= e

Flipped(I, AB) ==
  {x \in {<<EndBefore(I, y[1]), y[1]>> : y \in I} \cup {<<EndOf(I), AB>>} : x[1] < x[2]}
=============================================================================
