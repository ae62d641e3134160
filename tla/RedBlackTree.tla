---------------------------- MODULE RedBlackTree ----------------------------
(***************************************************************************)
(* The red-black tree of sonic-forest (red-black/util.rs), under RbMap and *)
(* SortedMap.  `mark' is the colour.  The mirrored halves of the code      *)
(* become one definition with a side, as in AvlTree.                       *)
(***************************************************************************)
EXTENDS TreeLinks

Red == 0
Black == 1

\* A missing child counts as black.
IsBlack(t, n) == n = None \/ t.mark[n] = Black

Paint(t, n, colour) == SetMark(t, n, colour)

\* l_rotate and r_rotate.
RbRotate(t, s, n) == Rotate(t, s, n)

\* lr_rotate and rl_rotate: n, the child of p away from s, rises above g.
RbDoubleRotate(t, s, g, p) == Rotate(Rotate(t, Other(s), p), s, g)

(***************************************************************************)
(* l_rebalance, r_rebalance and recolor: n and its parent p are red, s is  *)
(* the side of p that holds n.  The result carries the node they return.   *)
(***************************************************************************)
RECURSIVE RedRed(_, _, _)
RedRed(t, s, n) ==
  LET p == t.up[n]
      g == t.up[p]
      zigzag == t.kid[Other(s)][g] = p
      u == t.kid[IF zigzag THEN s ELSE Other(s)][g]
      gg == t.up[g]
      dimmed == Paint(t, g, Red)
      lit == Paint(Paint(t, p, Black), u, Black)
      passed == Paint(lit, g, Red)
  IN  CASE IsBlack(t, u) /\ zigzag ->
             [tree |-> Paint(RbDoubleRotate(dimmed, Other(s), g, p), n, Black), top |-> n]
        [] IsBlack(t, u) /\ ~zigzag ->
             [tree |-> RbRotate(Paint(dimmed, p, Black), s, g), top |-> p]
        [] ~IsBlack(t, u) /\ gg = None ->
             [tree |-> Paint(lit, g, Black), top |-> g]
        [] ~IsBlack(t, u) /\ gg # None ->
             IF IsBlack(passed, gg) THEN [tree |-> passed, top |-> g]
             ELSE IF passed.up[gg] = None THEN [tree |-> passed, top |-> gg]
             ELSE RedRed(passed, SideOf(passed, gg, g), g)

\* insert_left and insert_right.
RbInsertAt(t, s, n, p) ==
  LET hung == Hang(t, s, p, n)
  IN  IF IsBlack(t, p) \/ t.up[p] = None THEN hung
      ELSE LET done == RedRed(hung, s, n) IN Crown(done.tree, done.top)

RbInsert(t, n) ==
  IF t.root = None THEN [Paint(t, n, Black) EXCEPT !.root = n]
  ELSE LET leaf == LeafFor(t, KeyOf(t, n))
       IN  RbInsertAt(t, SideFor(t, KeyOf(t, n), leaf), n, leaf)

(***************************************************************************)
(* correct_double_black: n's subtree is a black level short.  Kept as the  *)
(* code has it: after the first rotation `s' is still the old sibling,     *)
(* which is now above p, and so is its left child `sl'.                    *)
(***************************************************************************)
Sibling(t, p, n) == t.kid[Other(SideOf(t, p, n))][p]

KidsBlack(t, n) == IsBlack(t, t.kid["l"][n]) /\ IsBlack(t, t.kid["r"][n])

\* A red sibling with black children rises above p; with the old sibling still
\* in hand, the steps that follow do not restore the balance.
RaiseRedSibling(t, p, n) ==
  LET s == Sibling(t, p, n)
      raised == Paint(Paint(RbRotate(t, Other(SideOf(t, p, n)), p), p, Red), s, Black)
  IN  IF IsBlack(t, s) \/ ~KidsBlack(t, s) THEN t
      ELSE [Crown(raised, s) EXCEPT !.skewed = TRUE]

\* The red nephew on n's side rises above the sibling s.
RaiseNearNephew(t, p, n, s) ==
  LET side == SideOf(t, p, n)
      near == t.kid[side][s]
  IN  IF IsBlack(t, near) \/ ~IsBlack(t, t.kid[Other(side)][s]) THEN t
      ELSE RbRotate(Paint(Paint(t, near, Black), s, Red), side, s)

\* The last step: the sibling takes p's place and colour.  The code expects
\* it to have a child on the far side.
RaiseSibling(t, p, n, s) ==
  LET o == Other(SideOf(t, p, n))
      painted == Paint(Paint(t, s, t.mark[p]), p, Black)
  IN  IF t.kid[o][s] = None THEN [painted EXCEPT !.panic = TRUE]
      ELSE Crown(RbRotate(Paint(painted, t.kid[o][s], Black), o, p), s)

RECURSIVE DoubleBlack(_, _)
DoubleBlack(t, n) ==
  LET p == t.up[n]
      s == Sibling(t, p, n)
      sl == t.kid["l"][s]
      a == RaiseRedSibling(t, p, n)
      s2 == Sibling(a, p, n)
      b == IF IsBlack(a, s) THEN RaiseNearNephew(a, p, n, s) ELSE a
      s3 == IF IsBlack(a, s) THEN Sibling(b, p, n) ELSE s
  IN  IF p = None THEN [t EXCEPT !.root = n]
      ELSE IF s = None THEN DoubleBlack(t, p)
      ELSE IF IsBlack(a, p) /\ IsBlack(a, s) /\ IsBlack(a, sl)
                /\ IsBlack(a, a.kid["r"][s])
      THEN DoubleBlack(Paint(a, s, Red), p)
      ELSE IF ~IsBlack(a, p) /\ s2 # None /\ IsBlack(a, s2) /\ KidsBlack(a, s2)
      THEN Paint(Paint(a, s2, Red), p, Black)
      ELSE IF IsBlack(a, s) /\ b.up[s] = None THEN [b EXCEPT !.root = s]
      ELSE IF s3 = None THEN b
      ELSE RaiseSibling(b, p, n, s3)

(***************************************************************************)
(* remove.  A node with a right child first changes places and colours     *)
(* with its successor.                                                     *)
(***************************************************************************)
CutLeaf(t, n) == LET p == t.up[n] IN Replace(t, p, n, None)

\* Mutant of RbUnlink: a red child keeps its colour in the place of a black node.
RbUnlinkRed(t, n, child) ==
  LET p == t.up[n]
      lifted == SetUp(Replace(t, p, n, child), child, p)
      fixed == IF IsBlack(t, n) THEN DoubleBlack(t, n) ELSE t
  IN  IF child # None
      THEN IF ~IsBlack(t, child) THEN lifted ELSE DoubleBlack(lifted, child)
      ELSE IF fixed.up[n] # None THEN CutLeaf(fixed, n)
      ELSE [Paint(fixed, n, Black) EXCEPT !.root = n]

RbUnlink(t, n, child) ==
  LET p == t.up[n]
      lifted == SetUp(Replace(t, p, n, child), child, p)
      fixed == IF IsBlack(t, n) THEN DoubleBlack(t, n) ELSE t
  IN  IF child # None
      THEN IF ~IsBlack(t, child) THEN Paint(lifted, child, Black)
           ELSE DoubleBlack(lifted, child)
      ELSE IF fixed.up[n] # None THEN CutLeaf(fixed, n)
      ELSE [Paint(fixed, n, Black) EXCEPT !.root = n]

RbRemove(t, n) ==
  LET l == t.kid["l"][n]
      r == t.kid["r"][n]
      successor == End(t, "l", r)
      traded == Paint(Paint(t, successor, t.mark[n]), n, t.mark[successor])
  IN  IF r # None
      THEN RbUnlink(Swap(traded, n, successor), n, t.kid["r"][successor])
      ELSE IF t.up[n] = None THEN [SetUp(Paint(t, l, Black), l, None) EXCEPT !.root = l]
      ELSE RbUnlink(t, n, l)

(***************************************************************************)
(* assert_red_black_tree.                                                  *)
(***************************************************************************)
BlackHeight(t) ==
  LET h[n \in Nodes \cup {None}] ==
        IF n = None THEN 0 ELSE h[t.kid["l"][n]] + t.mark[n]
  IN  h

RbValid(t, held) ==
  /\ IsBlack(t, t.root)
  /\ \A n \in held :
       /\ \A s \in Sides :
            LET c == t.kid[s][n]
            IN  /\ c # None => t.up[c] = n
                /\ ~IsBlack(t, n) => IsBlack(t, c)
       /\ BlackHeight(t)[t.kid["l"][n]] = BlackHeight(t)[t.kid["r"][n]]

-----------------------------------------------------------------------------
(***************************************************************************)
(* The left-leaning red-black tree of sonic-forest (llrb-tree/*.rs).       *)
(* Colours are RedBlackTree's.  Deletion exchanges the keys of two arena   *)
(* nodes; a node being named after its key here, the two names change      *)
(* places instead.                                                         *)
(***************************************************************************)
IsRed(t, n) == n # None /\ t.mark[n] = Red

(***************************************************************************)
(* Insertion: _fix, _fix_rrb, _fix_brr, _fix_bbr.                          *)
(***************************************************************************)
\* n and p red, p the left child of g: p rises, n turns black.
FixRrb(t, n, p) == Crown(Paint(Rotate(t, "l", t.up[p]), n, Black), p)

\* p red, n its right child: n takes p's place on the left of g.
TuckLeft(t, n, p) ==
  LET g == t.up[p]
  IN  Hang(Hang(Hang(t, "l", g, n), "r", p, t.kid["l"][n]), "l", n, p)

\* p black, n its right child: n rises and takes p's colour.
FixBbr(t, n, p) == Crown(Paint(Paint(Rotate(t, "r", p), p, Red), n, Black), n)

RECURSIVE Fix(_, _)
Fix(t, n) ==
  LET p == t.up[n]
      s == t.kid["l"][p]
  IN  CASE p = None -> Paint(t, n, Black)
        [] p # None /\ s = n ->
             IF IsBlack(t, p) THEN t ELSE Fix(FixRrb(t, n, p), p)
        [] p # None /\ s # n /\ IsBlack(t, s) ->
             IF IsBlack(t, p) THEN FixBbr(t, n, p)
             ELSE Fix(FixRrb(TuckLeft(t, n, p), p, n), n)
        [] OTHER ->
             Fix(Paint(Paint(Paint(t, p, Red), s, Black), n, Black), p)

\* A new red child of p on side s, as the three branches of set attach it.
LlrbInsertAt(t, s, n, p) ==
  LET hung == Hang(t, s, p, n)
  IN  IF s = "r" THEN Fix(hung, n)
      ELSE IF IsBlack(t, p) THEN hung
      ELSE Fix(FixRrb(hung, n, p), p)

(***************************************************************************)
(* Deletion, on the way down and up again.  A rotation answers the tree    *)
(* and the node that came up.                                              *)
(***************************************************************************)
ColorFlip(t, n) ==
  LET flipped(m) == m # None /\ m \in {n, t.kid["l"][n], t.kid["r"][n]}
  IN  [t EXCEPT !.mark = [m \in Nodes |-> IF flipped(m) THEN 1 - @[m] ELSE @[m]]]

\* rotate_left and rotate_right: the child on side s comes up.
LlrbRotate(t, s, n) ==
  LET c == t.kid[s][n] IN Paint(Paint(Rotate(t, s, n), c, t.mark[n]), n, Red)

MoveRedLeft(t, n) ==
  LET flipped == ColorFlip(t, n)
      r == t.kid["r"][n]
      rl == t.kid["l"][r]
  IN  IF r = None \/ ~IsRed(flipped, rl) THEN [tree |-> flipped, top |-> n]
      ELSE [tree |-> ColorFlip(LlrbRotate(LlrbRotate(flipped, "l", r), "r", n), rl),
            top |-> rl]

MoveRedRight(t, n) ==
  LET flipped == ColorFlip(t, n)
      l == t.kid["l"][n]
  IN  IF l = None \/ ~IsRed(flipped, flipped.kid["l"][l])
      THEN [tree |-> flipped, top |-> n]
      ELSE [tree |-> ColorFlip(LlrbRotate(flipped, "l", n), l), top |-> l]

Balance(t, n) ==
  LET lean == IF IsRed(t, t.kid["r"][n])
              THEN [tree |-> LlrbRotate(t, "r", n), top |-> t.kid["r"][n]]
              ELSE [tree |-> t, top |-> n]
      l == lean.tree.kid["l"][lean.top]
      even == IF IsRed(lean.tree, l) /\ IsRed(lean.tree, lean.tree.kid["l"][l])
              THEN [tree |-> LlrbRotate(lean.tree, "l", lean.top), top |-> l]
              ELSE lean
  IN  IF \A s \in Sides : IsRed(even.tree, even.tree.kid[s][even.top])
      THEN [even EXCEPT !.tree = ColorFlip(even.tree, even.top)]
      ELSE even

\* Neither n's child on side s nor that child's left child is red.
Poor(t, s, n) ==
  LET c == t.kid[s][n] IN ~IsRed(t, c) /\ ~IsRed(t, t.kid["l"][c])

\* The subtree that answers a deletion below n on side s becomes n's child.
Rejoin(at, s, below) == Hang(below.tree, s, at, below.top)

RECURSIVE DeleteMin(_, _)
DeleteMin(t, n) ==
  LET moved == IF Poor(t, "l", n) THEN MoveRedLeft(t, n) ELSE [tree |-> t, top |-> n]
      below == DeleteMin(moved.tree, moved.tree.kid["l"][moved.top])
  IN  IF t.kid["l"][n] = None THEN [tree |-> t, top |-> None]
      ELSE Balance(Rejoin(moved.top, "l", below), moved.top)

RECURSIVE DeleteNode(_, _, _)
DeleteLeft(t, n, key) ==
  LET moved == IF Poor(t, "l", n) THEN MoveRedLeft(t, n) ELSE [tree |-> t, top |-> n]
      below == DeleteNode(moved.tree, moved.tree.kid["l"][moved.top], key)
  IN  IF t.kid["l"][n] = None THEN [tree |-> t, top |-> n]
      ELSE Balance(Rejoin(moved.top, "l", below), moved.top)

\* The key to delete is on top of a right subtree: the least key there
\* takes its place, and the node that held it goes.
DeleteHere(t, n) ==
  LET least == End(t, "l", t.kid["r"][n])
      traded == TradeNames(t, n, least)
      below == DeleteMin(traded, traded.kid["r"][least])
  IN  Balance(Rejoin(least, "r", below), least)

DeleteRight(t, n, key) ==
  LET leant == IF IsRed(t, t.kid["l"][n])
               THEN [tree |-> LlrbRotate(t, "l", n), top |-> t.kid["l"][n]]
               ELSE [tree |-> t, top |-> n]
      bottom == leant.tree.kid["r"][leant.top] = None
      moved == IF Poor(leant.tree, "r", leant.top)
               THEN MoveRedRight(leant.tree, leant.top) ELSE leant
      below == DeleteNode(moved.tree, moved.tree.kid["r"][moved.top], key)
  IN  CASE bottom /\ leant.top = key -> [tree |-> leant.tree, top |-> None]
        [] bottom /\ leant.top # key -> leant
        [] ~bottom /\ moved.top = key -> DeleteHere(moved.tree, moved.top)
        [] OTHER -> Balance(Rejoin(moved.top, "r", below), moved.top)

DeleteNode(t, n, key) ==
  IF n = None THEN [tree |-> t, top |-> None]
  ELSE IF key < n THEN DeleteLeft(t, n, key) ELSE DeleteRight(t, n, key)

\* del, after find: the new root is black and has no parent.
LlrbRemove(t, n) ==
  LET done == DeleteNode(t, t.root, n)
  IN  [Fresh(Paint(SetUp(done.tree, done.top, None), done.top, Black), n)
         EXCEPT !.root = done.top]

\* assert_llrb_tree.
LlrbValid(t, held) ==
  /\ RbValid(t, held)
  /\ \A n \in held : IsRed(t, t.kid["r"][n]) => IsRed(t, t.kid["l"][n])
=============================================================================
