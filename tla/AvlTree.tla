------------------------------- MODULE AvlTree -------------------------------
(***************************************************************************)
(* The AVL tree of sonic-forest (avl/util.rs).  `mark' is the balance      *)
(* factor, the height of the left subtree less that of the right; the code *)
(* is written once for each side, here a side is a parameter and `Lean' is *)
(* the factor as seen from it.                                             *)
(***************************************************************************)
EXTENDS TreeLinks

Sign(s) == IF s = "l" THEN 1 ELSE -1
Lean(t, s, n) == Sign(s) * t.mark[n]

AtLeast0(x) == IF x > 0 THEN x ELSE 0

\* ll_rotate and rr_rotate: s is the heavy side of n.
AvlRotate(t, s, n) ==
  LET c == t.kid[s][n]
      nlean == Lean(t, s, n) - 1 - AtLeast0(Lean(t, s, c))
      clean == Lean(t, s, c) - 1 - AtLeast0(-nlean)
      turned == Rotate(t, s, n)
  IN  [turned EXCEPT !.mark[n] = Sign(s) * nlean, !.mark[c] = Sign(s) * clean]

\* lr_rotate and rl_rotate: the child's child on the other side comes up.
AvlDoubleRotate(t, s, n) ==
  AvlRotate(AvlRotate(t, Other(s), t.kid[s][n]), s, n)

(***************************************************************************)
(* rebalance_after_insert: node has grown by its child.                    *)
(***************************************************************************)
RECURSIVE Grown(_, _, _)
Grown(t, node, child) ==
  IF t.up[node] = None THEN t
  ELSE LET p == t.up[node]
           s == SideOf(t, p, node)
           leant == [t EXCEPT !.mark[p] = @ + Sign(s)]
       IN  CASE leant.mark[p] = 0 -> leant
             [] leant.mark[p] \in {1, -1} -> Grown(leant, p, node)
             [] OTHER ->
                  IF SideOf(t, node, child) = s
                  THEN Crown(AvlRotate(leant, s, p), node)
                  ELSE Crown(AvlDoubleRotate(leant, s, p), child)

\* insert_left and insert_right: n becomes the child of p on side s.
AvlInsertAt(t, s, n, p) ==
  LET hung == [Hang(t, s, p, n) EXCEPT !.mark[p] = @ + Sign(s)]
  IN  IF t.kid[Other(s)][p] # None THEN hung ELSE Grown(hung, p, n)

AvlInsert(t, n) ==
  IF t.root = None THEN [t EXCEPT !.root = n]
  ELSE LET leaf == LeafFor(t, KeyOf(t, n))
       IN  AvlInsertAt(t, SideFor(t, KeyOf(t, n), leaf), n, leaf)

(***************************************************************************)
(* l_rebalance and r_rebalance: the subtree of n on side s has lost d      *)
(* levels.                                                                 *)
(***************************************************************************)
RECURSIVE Shrunk(_, _, _, _)
Shrunk(t, s, n, d) ==
  LET leant == [t EXCEPT !.mark[n] = @ - Sign(s) * d]
      o == Other(s)
      u == t.kid[o][n]
      single == Lean(leant, o, u) >= 0
      level == single /\ t.kid[s][u] # None /\ t.mark[u] = 0
      tilted == Lean(leant, o, n) > 1
      righted == CASE ~tilted -> leant
                   [] tilted /\ single -> AvlRotate(leant, o, n)
                   [] OTHER -> AvlDoubleRotate(leant, o, n)
      top == CASE ~tilted -> n
               [] tilted /\ single -> u
               [] OTHER -> t.kid[s][u]
  IN  IF Lean(leant, o, n) = 1 THEN leant
      ELSE IF righted.up[top] = None THEN [righted EXCEPT !.root = top]
      ELSE Shrunk(righted, SideOf(righted, righted.up[top], top),
                  righted.up[top], IF tilted /\ level THEN 0 ELSE d)

\* Both children, and the left one has no right child: it takes n's place.
RaiseLeft(t, n) ==
  LET l == t.kid["l"][n]
      r == t.kid["r"][n]
      p == t.up[n]
      placed == Hang(SetUp(Replace(t, p, n, l), l, p), "r", l, r)
      light == SetMark(placed, l, t.mark[n] - 1)
  IN  CASE p # None -> Shrunk(SetMark(placed, l, t.mark[n]), "l", l, 1)
        [] p = None /\ light.mark[l] >= -1 -> [light EXCEPT !.root = l]
        [] OTHER -> IF t.mark[r] > 0
                    THEN [AvlDoubleRotate(light, "r", l) EXCEPT !.root = t.kid["l"][r]]
                    ELSE [AvlRotate(light, "r", l) EXCEPT !.root = r]

\* Mutant: what hung below the predecessor is lost.
RaisePredecessorAlone(t, n) ==
  LET l == t.kid["l"][n]
      r == t.kid["r"][n]
      p == t.up[n]
      v == End(t, "r", l)
      vp == t.up[v]
      placed == SetMark(SetUp(Replace(t, p, n, v), v, p), v, t.mark[n])
      owned == Hang(Hang(placed, "r", v, r), "l", v, l)
      closed == Replace(owned, vp, v, None)
  IN  Shrunk(IF p = None THEN [closed EXCEPT !.root = v] ELSE closed, "r", vp, 1)

\* Both children otherwise: the in-order predecessor takes n's place.
RaisePredecessor(t, n) ==
  LET l == t.kid["l"][n]
      r == t.kid["r"][n]
      p == t.up[n]
      v == End(t, "r", l)
      vp == t.up[v]
      vl == t.kid["l"][v]
      placed == SetMark(SetUp(Replace(t, p, n, v), v, p), v, t.mark[n])
      owned == Hang(Hang(placed, "r", v, r), "l", v, l)
      closed == SetUp(Replace(owned, vp, v, vl), vl, vp)
  IN  Shrunk(IF p = None THEN [closed EXCEPT !.root = v] ELSE closed, "r", vp, 1)

AvlRemove(t, n) ==
  LET l == t.kid["l"][n]
      r == t.kid["r"][n]
      p == t.up[n]
      c == IF l # None THEN l ELSE r
      raised == SetUp(t, c, p)
      both == l # None /\ r # None
      short == t.kid["r"][l] = None
      left == CASE both /\ short -> RaiseLeft(t, n)
                [] both /\ ~short -> RaisePredecessor(t, n)
                [] OTHER -> IF p = None THEN [raised EXCEPT !.root = c]
                            ELSE Shrunk(SetKid(raised, SideOf(t, p, n), p, c),
                                        SideOf(t, p, n), p, 1)
  IN  Fresh(left, n)

(***************************************************************************)
(* assert_avl_tree.                                                        *)
(***************************************************************************)
Height(t) ==
  LET h[n \in Nodes \cup {None}] ==
        IF n = None THEN 0
        ELSE LET hl == h[t.kid["l"][n]]
                 hr == h[t.kid["r"][n]]
             IN  1 + (IF hl > hr THEN hl ELSE hr)
  IN  h

AvlValid(t, held) ==
  \A n \in held :
    /\ Linked(t, n)
    /\ t.mark[n] = Height(t)[t.kid["l"][n]] - Height(t)[t.kid["r"][n]]
    /\ t.mark[n] \in -1..1
==============================================================================
