---------------------------- MODULE SonicForest -----------------------------
(* The containers of sonic-forest: SortedMap with its iterators, and every
   sequence of calls on each ordered map. *)
EXTENDS TreeLinks, Sequences, FiniteSets

(***************************************************************************)
(* What SortedMap adds to a red-black tree: bounds, ranks from cached      *)
(* subtree sizes, and iterators that are a position, the length they were  *)
(* made for and, when a bound made them, the node found.                   *)
(***************************************************************************)
(***************************************************************************)
(* lower_bound_node, upper_bound_node and their reverses: the nearest key  *)
(* not before, or not after, the given one; `strict' passes an equal key.  *)
(***************************************************************************)
Bound(t, key, reverse, strict) ==
  LET f[x \in Nodes \cup {None}] ==
        LET fits == IF reverse THEN x < key ELSE x > key
            nearer == f[t.kid[IF reverse THEN "r" ELSE "l"][x]]
        IN  IF x = None \/ (x = key /\ ~strict) THEN x
            ELSE IF fits THEN IF nearer = None THEN x ELSE nearer
            ELSE f[t.kid[IF reverse THEN "l" ELSE "r"][x]]
  IN  f[t.root]

\* recompute_subtree_sizes: every node the root leads to.
Sizes(t, old) ==
  LET size[n \in Nodes \cup {None}] ==
        IF n = None THEN 0 ELSE 1 + size[t.kid["l"][n]] + size[t.kid["r"][n]]
      under[n \in Nodes] == n = t.root \/ (t.up[n] # None /\ under[t.up[n]])
  IN  [n \in Nodes |-> IF under[n] THEN size[n] ELSE old[n]]

\* rank_of: what the sizes on the way up say.
RankOf(t, size, node) ==
  LET left(n) == IF t.kid["l"][n] = None THEN 0 ELSE size[t.kid["l"][n]]
      above[n \in Nodes] ==
        LET p == t.up[n]
        IN  IF p = None THEN 0
            ELSE above[p] + (IF t.kid["r"][p] = n THEN 1 + left(p) ELSE 0)
  IN  left(node) + above[node]

\* nth_index: pos steps from the cached minimum.
Nth(t, min, pos) ==
  LET f[i \in Nat] == IF i = 0 THEN min ELSE Beside(t, "r", f[i - 1]) IN f[pos]

(***************************************************************************)
(* OrderedMapIterator.  A position equal to the length is the end.         *)
(***************************************************************************)
Accessible(i) == i.pos # i.len

Clamped(i, len) == [i EXCEPT !.len = len, !.pos = IF i.pos > len THEN len ELSE i.pos]

\* next and pre; at an end they panic.
MayStep(i, forward) ==
  IF forward THEN Accessible(i)
  ELSE /\ i.len # 0
       /\ i.pos # (IF i.way = "normal" THEN 0 ELSE i.len - 1)

Stepped(i, forward) ==
  LET up == forward = (i.way = "normal")
      pos == CASE i.way = "normal" -> IF up THEN i.pos + 1 ELSE i.pos - 1
               [] i.way = "reverse" /\ up -> IF i.pos = i.len THEN 0 ELSE i.pos + 1
               [] OTHER -> IF i.pos = 0 THEN i.len ELSE i.pos - 1
  IN  [i EXCEPT !.pos = pos, !.node = None]

\* The iterator erase_element_by_iterator answers, for the length after it.
Erased(i, oldLen, newLen) ==
  LET pos == IF i.way = "normal"
             THEN IF i.pos + 1 >= oldLen THEN oldLen ELSE i.pos
             ELSE IF i.pos = 0 THEN oldLen ELSE i.pos - 1
  IN  Clamped([i EXCEPT !.pos = pos], newLen)

-----------------------------------------------------------------------------
(***************************************************************************)
(* The ordered maps of sonic-forest at work: SonicMap (data-types/map.rs)  *)
(* over AVL and red-black trees, LlrbTree, the splaying Tree, and          *)
(* SortedMap with its iterators.  A behaviour is one container and the     *)
(* calls made on it.                                                       *)
(*                                                                         *)
(* Values are left out: a node keeps its value, and setting a key that is  *)
(* there changes nothing else.                                             *)
(***************************************************************************)
CONSTANT Largest   \* the kinds of container, and the largest node of each

VARIABLES kind,    \* which container this is
          tree,    \* its arena and root
          ends,    \* the cached min, max and length
          index,   \* SortedMap: subtree sizes and whether they are out of date
          it       \* SortedMap: the iterator its caller holds

vars == <<kind, tree, ends, index, it>>

Avl == INSTANCE AvlTree
Rb == INSTANCE RedBlackTree

Kinds == DOMAIN Largest
Room == {n \in Nodes : n <= Largest[kind]}

NoIterator == [pos |-> 0, len |-> 0, way |-> "none", node |-> None]
NoSizes == [n \in Nodes |-> 1]

InsertAt(t, s, n, p) ==
  CASE kind = "avl" -> Avl!AvlInsertAt(t, s, n, p)
    [] kind \in {"rb", "sorted"} -> Rb!RbInsertAt(t, s, n, p)
    [] OTHER -> Rb!LlrbInsertAt(t, s, n, p)

\* The first node: AVL's has factor 0, the others' is black.
Plant(t, n) == IF kind = "avl" THEN Avl!AvlInsert(t, n) ELSE Rb!RbInsert(t, n)

Detach(t, n) ==
  CASE kind = "avl" -> Avl!AvlRemove(t, n)
    [] kind \in {"rb", "sorted"} -> Fresh(Rb!RbRemove(t, n), n)
    [] kind = "llrb" -> Rb!LlrbRemove(t, n)
    [] OTHER -> Remove(t, n)

\* The nodes the root leads to, in order.
InOrder(t) ==
  LET below[n \in Nodes \cup {None}] ==
        IF n = None THEN << >>
        ELSE below[t.kid["l"][n]] \o <<n>> \o below[t.kid["r"][n]]
  IN  below[t.root]

Held == LET walk == InOrder(tree) IN {walk[i] : i \in DOMAIN walk}

\* Where the code says a new key goes: beyond the cached ends, or down the
\* tree.
Place(n) ==
  IF n > ends.max THEN ends.max
  ELSE IF n < ends.min THEN ends.min ELSE LeafFor(tree, n)

\* Mutant: sizes are taken to hold after an insertion.
OutdatedNever == index

Outdated == [dirty |-> TRUE, size |-> NoSizes]

Init ==
  /\ kind \in Kinds
  /\ tree = EmptyTree(IF kind = "splay" THEN 2 ELSE 1)
  /\ ends = [min |-> None, max |-> None, len |-> 0]
  /\ index = [dirty |-> FALSE, size |-> NoSizes]
  /\ it = NoIterator

(***************************************************************************)
(* SonicMap::set, LlrbTree::set and SortedMap::set_element.                *)
(***************************************************************************)
Set(n) ==
  /\ kind # "splay"
  /\ Find(tree, n) = None
  /\ IF tree.root = None
     THEN /\ tree' = Plant(Fresh(tree, n), n)
          /\ ends' = [min |-> n, max |-> n, len |-> 1]
          /\ UNCHANGED index
     ELSE /\ tree' = InsertAt(Fresh(tree, n), SideFor(tree, n, Place(n)), n, Place(n))
          /\ ends' = [min |-> IF n < ends.min THEN n ELSE ends.min,
                      max |-> IF n > ends.max THEN n ELSE ends.max,
                      len |-> ends.len + 1]
          /\ index' = IF kind = "sorted" THEN Outdated ELSE index
  /\ it' = NoIterator
  /\ UNCHANGED kind

\* Mutant: the cached maximum stays when it is removed.
EndsWithoutMax(n, rest) ==
  IF rest.root = None THEN [min |-> None, max |-> None, len |-> 0]
  ELSE [min |-> IF ends.min = n THEN Beside(tree, "r", n) ELSE ends.min,
        max |-> ends.max, len |-> ends.len - 1]

\* What follows a removal: the ends move inwards, and the rest is counted.
EndsWithout(n, rest) ==
  LET afresh == kind = "llrb"
      max == IF afresh THEN None ELSE IF ends.max = n THEN Beside(tree, "l", n) ELSE ends.max
      min == IF afresh THEN None ELSE IF ends.min = n THEN Beside(tree, "r", n) ELSE ends.min
  IN  IF rest.root = None THEN [min |-> None, max |-> None, len |-> 0]
      ELSE [min |-> IF min = None THEN End(rest, "l", rest.root) ELSE min,
            max |-> IF max = None THEN End(rest, "r", rest.root) ELSE max,
            len |-> ends.len - 1]

Erase(n) ==
  \E rest \in {Detach(tree, n)} :
    /\ ~rest.panic
    /\ tree' = rest
    /\ ends' = EndsWithout(n, rest)
    /\ index' = IF kind # "sorted" THEN index
                ELSE [dirty |-> rest.root # None, size |-> NoSizes]
    /\ UNCHANGED kind

Del(n) ==
  /\ kind # "splay"
  /\ Find(tree, n) # None
  /\ Erase(n)
  /\ it' = NoIterator

\* LlrbTree::clear only resets the root.
Clear ==
  /\ kind # "splay"
  /\ tree' = EmptyTree(1)
  /\ ends' = IF kind = "llrb" THEN ends ELSE [min |-> None, max |-> None, len |-> 0]
  /\ index' = [dirty |-> FALSE, size |-> NoSizes]
  /\ it' = NoIterator
  /\ UNCHANGED kind

(***************************************************************************)
(* Tree: set inserts and splays without looking for the key, so a key can  *)
(* be there twice; set_fast does not splay.                                *)
(***************************************************************************)
Unused(k) == {n \in Room : KeyOf(tree, n) = k} \ Held

Push(n, grown) ==
  /\ tree' = grown
  /\ ends' = [ends EXCEPT !.len = @ + 1]
  /\ UNCHANGED <<kind, index, it>>

TreeSet(n) ==
  /\ kind = "splay"
  /\ n \in Unused(KeyOf(tree, n))
  /\ \/ Push(n, SplayInsert(Fresh(tree, n), n))
     \/ Push(n, Insert(Fresh(tree, n), n))

TreeDelete(n) ==
  /\ kind = "splay"
  /\ n \in Held /\ n = Find(tree, KeyOf(tree, n))
  /\ tree' = Remove(tree, n)
  /\ ends' = [ends EXCEPT !.len = @ - 1]
  /\ UNCHANGED <<kind, index, it>>

(***************************************************************************)
(* SortedMap's iterators.  Its caller holds one, and drops it when the map *)
(* changes other than through it.                                          *)
(***************************************************************************)
Ask(i) == it' = i /\ UNCHANGED <<kind, tree, ends>>

\* begin, r_begin, end and r_end.
From(way, pos) ==
  /\ kind = "sorted"
  /\ pos \in {ends.len, IF way = "normal" \/ ends.len = 0 THEN 0 ELSE ends.len - 1}
  /\ Ask([pos |-> pos, len |-> ends.len, way |-> way, node |-> None])
  /\ UNCHANGED index

\* The four bounds: a rank brings the sizes up to date.
AskBound(key, reverse, strict) ==
  /\ kind = "sorted"
  /\ \E n \in {Bound(tree, key, reverse, strict)} :
       /\ index' = IF n = None \/ ~index.dirty THEN index
                   ELSE [dirty |-> FALSE, size |-> Sizes(tree, index.size)]
       /\ Ask([pos |-> IF n = None THEN ends.len ELSE RankOf(tree, index'.size, n),
               len |-> ends.len, way |-> "normal", node |-> n])

Step(forward) ==
  /\ it.way # "none"
  /\ MayStep(it, forward)
  /\ Ask(Stepped(it, forward))
  /\ UNCHANGED index

\* The node an iterator stands for: the one it remembers, else by position.
Target == IF it.node # None THEN it.node ELSE Nth(tree, ends.min, it.pos)

\* An erasure answers an iterator that still remembers the erased node; its
\* caller steps or asks again before it uses it.
Usable ==
  /\ it.way # "none" /\ Accessible(it) /\ it.pos < ends.len
  /\ it.node \in Held \cup {None}

EraseByIterator ==
  /\ Usable
  /\ Erase(Target)
  /\ it' = Erased(it, ends.len, ends'.len)

\* update_key_by_iterator: between the neighbours, else refused.
Renamed(n, k) == IF n = Target THEN k ELSE n

UpdateKeyByIterator(k) ==
  /\ Usable
  /\ k \notin Held
  /\ it.pos # 0 => Beside(tree, "l", Target) < k
  /\ it.pos # ends.len - 1 => k < Beside(tree, "r", Target)
  /\ tree' = TradeNames(Fresh(tree, k), Target, k)
  /\ ends' = [ends EXCEPT !.min = Renamed(@, k), !.max = Renamed(@, k)]
  /\ index' = [index EXCEPT !.size = [@ EXCEPT ![k] = index.size[Target], ![Target] = 1]]
  /\ it' = [it EXCEPT !.node = IF @ = None THEN None ELSE k]
  /\ UNCHANGED kind

Next ==
  \/ \E n \in Room : Set(n) \/ Del(n) \/ TreeSet(n) \/ TreeDelete(n)
  \/ Clear
  \/ \E way \in {"normal", "reverse"}, pos \in 0 .. ends.len : From(way, pos)
  \/ \E key \in Room, reverse, strict \in BOOLEAN : AskBound(key, reverse, strict)
  \/ \E forward \in BOOLEAN : Step(forward)
  \/ EraseByIterator
  \/ \E k \in Room : UpdateKeyByIterator(k)

Spec == Init /\ [][Next]_vars

(***************************************************************************)
(* What is checked.                                                        *)
(***************************************************************************)
KeysInOrder == LET walk == InOrder(tree) IN [i \in DOMAIN walk |-> KeyOf(tree, walk[i])]

\* The assertions the repository keeps for its tests hold after every
\* sequence of calls: links agree both ways, and the tree is balanced as its
\* kind wants it, so that no sequence of insertions and removals leaves a
\* stale balance factor, a red child under a red parent, a short black path or
\* a node that leans right.  The red-black trees are balanced until a removal
\* meets a red sibling with black children; from then on only their links
\* are claimed, as the splaying tree's are.
Balanced ==
  /\ tree.root # None => tree.up[tree.root] = None
  /\ CASE kind = "avl" -> Avl!AvlValid(tree, Held)
       [] kind = "llrb" -> Rb!LlrbValid(tree, Held)
       [] kind \in {"rb", "sorted"} /\ ~tree.skewed -> Rb!RbValid(tree, Held)
       [] OTHER -> \A n \in Held : Linked(tree, n)

\* What a map answers on the way is what its whole walk says: the cached ends
\* and length, next and prev of every node, the search for every key and for
\* the next lower one.
Answers ==
  LET walk == InOrder(tree)
      size == Len(walk)
      keys == [i \in 1 .. size |-> KeyOf(tree, walk[i])]
  IN  /\ tree.root # None \/ kind # "llrb" =>
           /\ ends.len = size
           /\ kind # "splay" => ends.min = End(tree, "l", tree.root)
                                /\ ends.max = End(tree, "r", tree.root)
      /\ \A i \in 1 .. size :
           /\ Beside(tree, "r", walk[i]) = (IF i = size THEN None ELSE walk[i + 1])
           /\ Beside(tree, "l", walk[i]) = (IF i = 1 THEN None ELSE walk[i - 1])
      /\ \A k \in {KeyOf(tree, n) : n \in Room} :
           LET lower == {i \in 1 .. size : keys[i] <= k}
               n == FindOrNextLower(tree, k)
           IN  /\ (Find(tree, k) = None) = (\A i \in 1 .. size : keys[i] # k)
               /\ (n = None) = (lower = {})
               /\ n # None => \A i \in lower : keys[i] <= KeyOf(tree, n)

\* Erasing through an iterator takes the element at its position, whether a
\* rank from cached sizes or steps led there and whatever was rebalanced since,
\* and the iterator it answers is at the element that comes next in its
\* direction.
ErasesWhatItShows ==
  [][EraseByIterator =>
       LET walk == InOrder(tree)
           next == IF it.way = "normal" THEN it.pos + 2 ELSE it.pos
       IN  /\ Held' = Held \ {walk[it.pos + 1]}
           /\ IF next \in DOMAIN walk
              THEN Accessible(it') /\ InOrder(tree')[it'.pos + 1] = walk[next]
              ELSE ~Accessible(it')]_vars

\* Every container is an ordered map: its keys, walked in order, change as
\* SortedList's do.
List == INSTANCE SortedList WITH Keys <- Nodes, twice <- kind = "splay", list <- KeysInOrder

IsOrderedMap == List!Spec

\* The red-black tree's own assertion: a removal finds every node its last
\* rotation expects.
RemovalsFinish ==
  kind \in {"rb", "sorted"} => \A n \in Held : ~Rb!RbRemove(tree, n).panic
=============================================================================
