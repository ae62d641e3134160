----------------------------- MODULE TreeLinks ------------------------------
(***************************************************************************)
(* The links of sonic-forest's binary trees (util/*.rs): parent, left and  *)
(* right indices into an arena, and what every balanced tree of the crate  *)
(* builds on.  A tree is a record: `kid[s][n]' is the child of n on side s,*)
(* `up[n]' its parent, `mark[n]' the balance factor or colour the kind of  *)
(* tree keeps, `root' the index its owner holds, `panic' that an `expect'  *)
(* failed, `skewed' that a removal left the red-black tree unbalanced (a   *)
(* history: see RaiseRedSibling).  A node stands for its arena index,      *)
(* named after its key; `copies' is 2 in the one tree that accepts a key   *)
(* twice, so that nodes 2k-1 and 2k both have the key k.                   *)
(***************************************************************************)
EXTENDS Integers

CONSTANT Nodes          \* the arena's indices

ASSUME NodesAssumption == Nodes \subseteq Nat \ {0}

None == 0
Sides == {"l", "r"}
Other(s) == IF s = "l" THEN "r" ELSE "l"

Bare == [n \in Nodes |-> None]

EmptyTree(copies) ==
  [kid |-> [s \in Sides |-> Bare], up |-> Bare, mark |-> [n \in Nodes |-> 0],
   root |-> None, panic |-> FALSE, skewed |-> FALSE, copies |-> copies]

KeyOf(t, n) == (n + t.copies - 1) \div t.copies

(***************************************************************************)
(* Setting links.  Optional targets are skipped, as the `if let Some' of   *)
(* the code does.                                                          *)
(***************************************************************************)
SetKid(t, s, n, c) == [t EXCEPT !.kid[s][n] = c]

SetUp(t, n, p) == IF n = None THEN t ELSE [t EXCEPT !.up[n] = p]

SetMark(t, n, v) == IF n = None THEN t ELSE [t EXCEPT !.mark[n] = v]

\* Every child of n knows its parent.
Linked(t, n) ==
  \A s \in Sides : t.kid[s][n] # None => t.up[t.kid[s][n]] = n

\* n takes c, or nothing, for its child on side s.
Hang(t, s, n, c) == SetUp(SetKid(t, s, n, c), c, n)

\* The side of p that holds n: the code asks for the left one.
SideOf(t, p, n) == IF t.kid["l"][p] = n THEN "l" ELSE "r"

\* Where p held n it now holds c.
Replace(t, p, n, c) == IF p = None THEN t ELSE SetKid(t, SideOf(t, p, n), p, c)

\* The owner's root becomes n if n has no parent.
Crown(t, n) == IF t.up[n] = None THEN [t EXCEPT !.root = n] ELSE t

\* A node as pushed on the arena.
Fresh(t, n) ==
  [t EXCEPT !.kid["l"][n] = None, !.kid["r"][n] = None,
            !.up[n] = None, !.mark[n] = 0]

\* The child of n on side s takes n's place and n hangs on its other side.
Rotate(t, s, n) ==
  LET c == t.kid[s][n]
      p == t.up[n]
      below == Hang(Hang(t, s, n, t.kid[Other(s)][c]), Other(s), c, n)
  IN  Replace(SetUp(below, c, p), p, n, c)

\* Two nodes exchange their keys, and so their names here: a stands where b
\* stood and b where a stood.
TradeNames(t, a, b) ==
  LET other(n) == IF n = a THEN b ELSE IF n = b THEN a ELSE n
  IN  [t EXCEPT !.kid = [s \in Sides |-> [n \in Nodes |-> other(@[s][other(n)])]],
                !.up = [n \in Nodes |-> other(@[other(n)])],
                !.mark = [n \in Nodes |-> @[other(n)]],
                !.root = other(@)]

(***************************************************************************)
(* Walking: first, last, next, prev.                                       *)
(***************************************************************************)
End(t, s, n) ==
  LET f[x \in Nodes] == IF t.kid[s][x] = None THEN x ELSE f[t.kid[s][x]]
  IN  IF n = None THEN None ELSE f[n]

Beside(t, s, n) ==
  LET climb[x \in Nodes] ==
        LET p == t.up[x]
        IN  IF p = None THEN None
            ELSE IF t.kid[s][p] = x THEN climb[p] ELSE p
  IN  IF t.kid[s][n] # None THEN End(t, Other(s), t.kid[s][n]) ELSE climb[n]

Find(t, key) ==
  LET f[x \in Nodes \cup {None}] ==
        IF x = None \/ KeyOf(t, x) = key THEN x
        ELSE f[t.kid[IF key < KeyOf(t, x) THEN "l" ELSE "r"][x]]
  IN  f[t.root]

FindOrNextLower(t, key) ==
  LET f[x \in Nodes \cup {None}] ==
        IF x = None \/ KeyOf(t, x) = key THEN x
        ELSE IF KeyOf(t, x) > key THEN f[t.kid["l"][x]]
        ELSE LET further == f[t.kid["r"][x]]
             IN  IF further = None THEN x ELSE further
  IN  f[t.root]

\* The last node on the way from the root to where a key is inserted.
LeafFor(t, key) ==
  LET f[x \in Nodes] ==
        LET c == t.kid[IF key < KeyOf(t, x) THEN "l" ELSE "r"][x]
        IN  IF c = None THEN x ELSE f[c]
  IN  f[t.root]

SideFor(t, key, n) == IF key < KeyOf(t, n) THEN "l" ELSE "r"

(***************************************************************************)
(* The unbalanced insert and remove.                                       *)
(***************************************************************************)
\* insert_left and insert_right: what hung on that side hangs on n.
InsertBeside(t, s, n, p) ==
  LET c == t.kid[s][p]
  IN  SetUp(Hang(SetKid(t, s, n, c), s, p, n), c, n)

Insert(t, n) ==
  IF t.root = None THEN [t EXCEPT !.root = n]
  ELSE LET leaf == LeafFor(t, KeyOf(t, n))
       IN  InsertBeside(t, SideFor(t, KeyOf(t, n), leaf), n, leaf)

Remove(t, n) ==
  LET p == t.up[n]
      l == t.kid["l"][n]
      r == t.kid["r"][n]
      cut == [Fresh(t, n) EXCEPT !.mark[n] = t.mark[n]]
      heir == IF l # None THEN l ELSE r
      joined == IF l = None \/ r = None THEN cut
                ELSE Hang(cut, "r", End(cut, "r", l), r)
  IN  IF p = None THEN [SetUp(joined, heir, None) EXCEPT !.root = heir]
ELSE SetUp(Replace(joined, p, n, heir), heir, p)

(***************************************************************************)
(* swap: x and y change places.  A link that pointed from one to the other *)
(* is turned round.                                                        *)
(***************************************************************************)
TakeKids(t, x, y, kids) ==
  LET turned(c) == IF c = x THEN y ELSE c
  IN  Hang(Hang(t, "l", x, turned(kids["l"])), "r", x, turned(kids["r"]))

TakeParent(t, x, y, p) ==
  IF p = None THEN [SetUp(t, y, None) EXCEPT !.root = y]
  ELSE IF p = y THEN t ELSE Replace(SetUp(t, y, p), p, x, y)

Swap(t, x, y) ==
  IF x = y THEN t
  ELSE LET xs == [s \in Sides |-> t.kid[s][x]]
           ys == [s \in Sides |-> t.kid[s][y]]
           placed == TakeKids(TakeKids(t, x, y, ys), y, x, xs)
       IN  TakeParent(TakeParent(placed, x, y, t.up[x]), y, x, t.up[y])

-----------------------------------------------------------------------------
(***************************************************************************)
(* The splay rotations of sonic-forest (splay/mod.rs, and util2.rs with    *)
(* the same code on the links of the id tree), and Tree.rs over them.      *)
(***************************************************************************)
\* r_splay and l_splay: node rises over the root.
Zig(t, node, p) == [Rotate(t, SideOf(t, p, node), p) EXCEPT !.root = node]

\* ll_splay and rr_splay: the grandparent turns first.
ZigZig(t, node, p, pp) ==
  LET s == SideOf(t, p, node) IN Crown(Rotate(Rotate(t, s, pp), s, p), node)

\* lr_splay and rl_splay: the parent turns first.
ZigZag(t, node, p, pp) ==
  LET s == SideOf(t, p, node)
  IN  Crown(Rotate(Rotate(t, s, p), SideOf(t, pp, p), pp), node)

SplayStep(t, node) ==
  LET p == t.up[node]
      pp == t.up[p]
      straight == SideOf(t, p, node) = SideOf(t, pp, p)
  IN  CASE pp = None -> Zig(t, node, p)
        [] pp # None /\ straight -> ZigZig(t, node, p, pp)
        [] OTHER -> ZigZag(t, node, p, pp)

\* splay takes up to `repeat' steps.
RECURSIVE Splay(_, _, _)
Splay(t, node, repeat) ==
  IF t.up[node] = None THEN t
  ELSE IF repeat > 1 THEN Splay(SplayStep(t, node), node, repeat - 1)
  ELSE SplayStep(t, node)

\* Tree::set, which does not look for the key first, and set_fast.
Repeat == 15
SplayInsert(t, n) == Splay(Insert(t, n), n, Repeat)
=============================================================================
