------------------------------- MODULE Within -------------------------------
(***************************************************************************)
(* Which actions the generated program runs on an edge (src/compiler.cc).  *)
(* pre_expr numbers the expressions of a statement and gives each the      *)
(* table anc of its ancestors; find_lca looks for the lowest common one of *)
(* two; find_within makes of the expressions associated with a state all   *)
(* that the state is within, with their tags; generate_transitions         *)
(* compares those of the two ends of an edge.                              *)
(*                                                                         *)
(* An expression is the number of its compilation, which stands for its    *)
(* address as well.  A tag is the set of the bits start, inner and final.  *)
(***************************************************************************)
EXTENDS Integers, FiniteSets, SequencesExt

CONSTANTS MaxExprs,      \* bound on the expressions compiled
          MaxAssociated, \* bound on those of programs whose states are looked at
          Tag            \* the tags of a state in an expression

Inner == 2
Final == 4

ASSUME WithinAssumption ==
  MaxExprs \in Nat /\ MaxAssociated \in Nat /\ Tag \subseteq SUBSET {1, Inner, Final}

VARIABLES
  pre, depth, anc,  \* of each expression, as pre_expr leaves them
  path, tick,       \* of the Compiler at work
  assoc,            \* of the two ends of an edge: the tags of its expressions
  todo,             \* find_within: what is left of assoc[u]
  last,
  withins           \* what find_within has made of the first ends

vars == <<pre, depth, anc, path, tick, assoc, todo, last, withins>>

Null == 0
Expr == DOMAIN anc
None == [x \in {} |-> {}]

(* 1 << k, and the greatest k for which it is at most d.                   *)
Bit[k \in Nat] == IF k = 0 THEN 1 ELSE 2 * Bit[k - 1]
Top(d) == CHOOSE k \in 0 .. d : Bit[k] <= d /\ d < Bit[k + 1]

-----------------------------------------------------------------------------
(* compile(stmt) has a Compiler of its own, with an empty path.            *)
Ancestors(d) ==
  LET a[k \in 0 .. Top(d)] == IF k = 0 THEN Last(path) ELSE anc[a[k - 1]][k]
  IN IF path = <<>> THEN <<Null>> ELSE [j \in 1 .. Top(d) + 1 |-> a[j - 1]]

PreExpr ==
  /\ assoc = <<>> /\ Len(anc) < MaxExprs
  /\ LET now == IF path = <<>> THEN 0 ELSE tick
     IN pre' = Append(pre, now) /\ tick' = now + 1
  /\ depth' = Append(depth, Len(path))
  /\ anc' = Append(anc, Ancestors(Len(path)))
  /\ path' = Append(path, Len(anc) + 1)
  /\ UNCHANGED <<assoc, todo, last, withins>>

PostExpr ==
  /\ path # <<>>
  /\ path' = Front(path)
  /\ UNCHANGED <<pre, depth, anc, tick, assoc, todo, last, withins>>

-----------------------------------------------------------------------------
(* find_lca: the deeper one is lifted to the depth of the other, by the    *)
(* powers of two from the greatest down; then both are, while apart.       *)
Lift(x, k, d) == IF d <= depth[x] - Bit[k] THEN anc[x][k + 1] ELSE x

Lifted(v, d) ==
  LET top == Top(depth[v] - d)
      x[k \in 0 .. top + 1] == IF k = top + 1 THEN v ELSE Lift(x[k + 1], k, d)
  IN IF d < depth[v] THEN x[0] ELSE v

Climb(p, k) ==
  IF k < Len(anc[p[1]]) /\ anc[p[1]][k + 1] # anc[p[2]][k + 1]
    THEN <<anc[p[1]][k + 1], anc[p[2]][k + 1]>> ELSE p

Climbed(u, v) ==
  LET top == Top(depth[v])
      p[k \in 0 .. top + 1] == IF k = top + 1 THEN <<u, v>> ELSE Climb(p[k + 1], k)
  IN IF depth[v] > 0 THEN anc[p[0][1]][1] ELSE anc[u][1]

(* Mutant: an ancestor of the other is not looked for.                     *)
MetAbove(u, v) == Climbed(u, v)

MetAt(u, v) == IF u = v THEN u ELSE Climbed(u, v)

FindLca(x, y) ==
  IF depth[x] > depth[y] THEN MetAt(y, Lifted(x, depth[y])) ELSE MetAt(x, Lifted(y, depth[x]))

(* find_within(u), for the two ends of an edge: assoc[u] is visited by pre *)
(* and tag; what is equal in both, in any order.  Every expression brings  *)
(* along its ancestors up to the one it shares with the last.              *)
FindWithin(f) == todo' = DOMAIN f /\ last' = Null

Generate ==
  /\ assoc = <<>> /\ path = <<>> /\ Len(anc) \in 1 .. MaxAssociated
  /\ \E f, g \in UNION {[X -> Tag] : X \in SUBSET Expr} : assoc' = <<f, g>> /\ FindWithin(f)
  /\ withins' = <<None>>
  /\ UNCHANGED <<pre, depth, anc, path, tick>>

Own == assoc[Len(withins)]
Bits(t) == (IF 1 \in t THEN 1 ELSE 0) + (IF Inner \in t THEN Inner ELSE 0) + (IF Final \in t THEN Final ELSE 0)
Sorted(x, y) == pre[x] < pre[y] \/ (pre[x] = pre[y] /\ Bits(Own[x]) <= Bits(Own[y]))

(* Mutant: the ancestors are brought along up to the root.                 *)
StopNever(x) == Null

Stop(x) == IF last = Null THEN Null ELSE FindLca(last, x)

(* x and the parent of each, up to stop.                                   *)
Chain(x, stop) ==
  IF x = stop THEN {}
  ELSE CHOOSE C \in SUBSET Expr : C = {x} \cup ({anc[y][1] : y \in C} \ {stop})

Tagged(W, X, t) == [x \in DOMAIN W \cup X |->
                      (IF x \in DOMAIN W THEN W[x] ELSE {}) \cup (IF x \in X THEN t ELSE {})]

Bring(x) ==
  /\ \A y \in todo : Sorted(x, y)
  /\ todo' = todo \ {x} /\ last' = x
  /\ withins' = [withins EXCEPT ![Len(withins)] = Tagged(@, Chain(x, Stop(x)), Own[x])]
  /\ UNCHANGED <<pre, depth, anc, path, tick, assoc>>

NextEnd ==
  /\ Len(withins) = 1 /\ todo = {}
  /\ withins' = Append(withins, None) /\ FindWithin(assoc[2])
  /\ UNCHANGED <<pre, depth, anc, path, tick, assoc>>

Found == Len(withins) = 2 /\ todo = {}
Finished == (Found \/ (Len(anc) = MaxExprs /\ path = <<>> /\ assoc = <<>>)) /\ UNCHANGED vars

Init ==
  /\ pre = <<>> /\ depth = <<>> /\ anc = <<>> /\ path = <<>> /\ tick = 0
  /\ assoc = <<>> /\ todo = {} /\ last = Null /\ withins = <<>>

Next == PreExpr \/ PostExpr \/ Generate \/ (\E x \in todo : Bring(x)) \/ NextEnd \/ Finished
Spec == Init /\ [][Next]_vars

-----------------------------------------------------------------------------
(* The loops of generate_transitions over two vectors that are sorted by   *)
(* address: j follows x through ws.                                        *)
Listed(W) ==
  CHOOSE s \in [1 .. Cardinality(DOMAIN W) -> DOMAIN W] :
    \A i, j \in DOMAIN s : i < j => s[i] < s[j]

(* Mutant: j follows by a step.                                            *)
FollowedOnce(ws, j, x) == IF j <= Len(ws) /\ ws[j] < x THEN j + 1 ELSE j

Followed(ws, j, x) ==
  CHOOSE h \in j .. Len(ws) + 1 : /\ h <= Len(ws) => x <= ws[h]
                                  /\ \A g \in j .. h - 1 : ws[g] < x

(* Which of vs are found in ws.                                            *)
Met(vs, ws) ==
  LET j[i \in 0 .. Len(vs)] == IF i = 0 THEN 1 ELSE Followed(ws, j[i - 1], vs[i])
  IN {vs[i] : i \in {i \in 1 .. Len(vs) : j[i] <= Len(ws) /\ ws[j[i]] = vs[i]}}

(* The expressions whose actions run on an edge between states within W    *)
(* and within V.                                                           *)
Run(W, V) ==
  LET met == Met(Listed(V), Listed(W))
  IN [leaving |-> DOMAIN W \ Met(Listed(W), Listed(V)),
      entering |-> DOMAIN V \ met,
      transiting |-> met,
      finishing |-> {x \in met : Final \in V[x]}]

-----------------------------------------------------------------------------
(* The ancestors of x by the parents alone, with x.                        *)
Upward(x) == Chain(x, Null)

(* find_lca (89-113) returns the deepest of the common ancestors, and null *)
(* for expressions of different statements.                                *)
LcaCorrect ==
  assoc = <<>> => \A x, y \in Expr :
    LET common == Upward(x) \cap Upward(y)
        lca == FindLca(x, y)
    IN IF common = {} THEN lca = Null ELSE lca \in common /\ common = Upward(lca)

(* In the order of find_within an expression of another statement is       *)
(* between x and one below x: the two then have null for find_lca, and x   *)
(* is brought along again, with the other's tag.                           *)
Interleaved(f, x) ==
  \E y, z \in DOMAIN f : /\ y # x /\ x \in Upward(y)
                         /\ Upward(z) \cap Upward(x) = {}
                         /\ pre[x] <= pre[z] /\ pre[z] <= pre[y]

(* A state is within the expressions associated with it and those around   *)
(* them; and it is tagged by itself in each, not by an inner expression,   *)
(* unless another statement's is met between them.                         *)
WithinUpward ==
  Found => \A k \in 1 .. 2 :
    /\ DOMAIN withins[k] = UNION {Upward(x) : x \in DOMAIN assoc[k]}
    /\ \A x \in DOMAIN assoc[k] : Interleaved(assoc[k], x) \/ withins[k][x] = assoc[k][x]

(* On an edge the actions run of exactly those expressions that the edge   *)
(* leaves, enters or stays in (418-460); a finishing one where the         *)
(* expression may end.                                                     *)
EdgeActions ==
  Found => LET Around(k) == UNION {Upward(x) : x \in DOMAIN assoc[k]}
               run == Run(withins[1], withins[2])
           IN /\ run.leaving = Around(1) \ Around(2)
              /\ run.entering = Around(2) \ Around(1)
              /\ run.transiting = Around(1) \cap Around(2)
              /\ \A x \in Around(1) \cap DOMAIN assoc[2] :
                   ~ Interleaved(assoc[2], x) => (x \in run.finishing) = (Final \in assoc[2][x])
=============================================================================
