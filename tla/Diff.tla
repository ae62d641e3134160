-------------------------------- MODULE Diff --------------------------------
(***************************************************************************)
(* JsonCrdtDiff (json_crdt_diff): the operations that make a node look     *)
(* like a JSON value.  The text and line diffs below it may pick any of    *)
(* the scripts that lead from one sequence to the other, so a diff is the  *)
(* set of its possible outcomes: [ok, ops], where `ops` is everything the  *)
(* builder holds, also what a failed diff of a child left in it.           *)
(***************************************************************************)
EXTENDS Nodes

\* The id of the next operation of a builder that started at `start`.
NextOp(start, ops) == At(start, TicksOf(ops))

Done(ops) == [ok |-> TRUE, ops |-> ops]
Failed(ops) == [ok |-> FALSE, ops |-> ops]

\* util_inner/diff/str: the pairs of positions that a script keeps.
Matchings(src, dst) ==
  LET Before(p, q) == p[1] < q[1] /\ p[2] < q[2]
      equal == {p \in (DOMAIN src) \X (DOMAIN dst) : src[p[1]] = dst[p[2]]}
  IN  {M \in SUBSET equal : \A p, q \in M : p = q \/ Before(p, q) \/ Before(q, p)}

\* util_inner/diff/line: the ways to walk from the start of two sequences to
\* their ends.
Walks[n \in Nat, m \in Nat] ==
  IF n = 0 /\ m = 0 THEN {<< >>}
  ELSE (IF n > 0 THEN {Append(w, "del") : w \in Walks[n - 1, m]} ELSE {})
         \cup (IF m > 0 THEN {Append(w, "ins") : w \in Walks[n, m - 1]} ELSE {})
         \cup (IF n > 0 /\ m > 0 THEN {Append(w, "both") : w \in Walks[n - 1, m - 1]} ELSE {})

\* diff_str and diff_bin of one script: from the last gap between kept letters
\* to the first, what is new is inserted behind what is deleted.
TextOps(start, ops, id, node, dst, kept) ==
  LET slots == Slots(node)
      stops == <<<<0, 0>>>> \o SetToSortSeq(kept, LAMBDA p, q : p[1] < q[1])
                 \o <<<<Len(slots) + 1, Len(dst) + 1>>>>
      Insertion(at, after, text) ==
        IF node.kind = "str" THEN InsStr(at, id, after, text) ELSE InsBin(at, id, after, text)
      Gap(g, built) ==
        LET from == stops[g]
            to == stops[g + 1]
            text == SubSeq(dst, from[2] + 1, to[2] - 1)
            after == IF to[1] = 1 THEN id ELSE slots[to[1] - 1]
            inserted == IF text = << >> THEN built
                        ELSE Append(built, Insertion(NextOp(start, built), after, text))
        IN  IF to[1] = from[1] + 1 THEN inserted
            ELSE Append(inserted, Del(NextOp(start, inserted), id,
                   FindInterval(node.chunks, from[1], to[1] - from[1] - 1)))
  IN  FoldRight(Gap, [g \in 1 .. Len(stops) - 1 |-> g], ops)

DiffText(d, start, ops, id, dst) ==
  LET node == d.index[id]
      view == [i \in DOMAIN Slots(node) |-> node.data[Slots(node)[i]]]
  IN  IF view = dst THEN {Done(ops)}
      ELSE {Done(TextOps(start, ops, id, node, dst, kept)) : kept \in Matchings(view, dst)}

\* The values are built behind `ops`, each followed by its insertion.
InsertEach(start, ops, arr, inserts) ==
  FoldLeft(LAMBDA built, ins :
             built \o ArrInsOps(NextOp(start, built), arr, ins.after, ins.value),
           ops, inserts)

RECURSIVE DiffAny(_, _, _, _, _)

\* One step of a walk, from the last to the first: what the builder holds and
\* the insertions and deletions that are left for the end.
ArrStep(d, start, id, dst, walk, k, state) ==
  LET Count(steps) == Cardinality({i \in 1 .. k : walk[i] \in steps})
      slots == Slots(d.index[id])
      src == Count({"both", "del"})     \* the slot of the step, from 1
      value == dst[Count({"both", "ins"})]
      child == d.index[id].data[slots[src]]
      Slot(i) == IF i = 0 THEN id ELSE slots[i]
      deleted == Append(state.deletes, src)
  IN  CASE walk[k] = "del" -> {[state EXCEPT !.deletes = deleted]}
        [] walk[k] = "ins" ->
             {[state EXCEPT !.inserts = Append(@, [after |-> Slot(src), value |-> value])]}
        [] walk[k] = "both" /\ ViewOf(d, child) = value -> {state}
        [] OTHER ->
             {IF r.ok THEN [state EXCEPT !.ops = r.ops]
              ELSE [ops |-> r.ops, deletes |-> deleted,
                    inserts |-> Append(state.inserts,
                                  [after |-> Slot(src - 1), value |-> value])] :
                r \in DiffAny(d, start, state.ops, child, value)}

DiffArr(d, start, ops, id, dst) ==
  LET node == d.index[id]
      slots == Slots(node)
      n == Len(slots)
      Appended(built, value) ==
        LET last == IF built = ops THEN id ELSE Last(built).id
        IN  built \o ArrInsOps(NextOp(start, built), id, last, value)
      Outcome(state) ==
        LET built == InsertEach(start, state.ops, id, state.inserts)
        IN  Done(IF state.deletes = << >> THEN built
                 ELSE Append(built, Del(NextOp(start, built), id,
                        FlattenSeq([i \in DOMAIN state.deletes |->
                          FindInterval(node.chunks, state.deletes[i] - 1, 1)]))))
      States(walk) ==
        FoldRight(LAMBDA k, states : UNION {ArrStep(d, start, id, dst, walk, k, s) : s \in states},
                  [k \in DOMAIN walk |-> k],
                  {[ops |-> ops, inserts |-> << >>, deletes |-> << >>]})
  IN  CASE n = 0 -> {Done(FoldLeft(Appended, ops, dst))}
        [] n > 0 /\ dst = << >> ->
             {Done(Append(ops, Del(NextOp(start, ops), id, FindInterval(node.chunks, 0, n))))}
        [] OTHER -> UNION {{Outcome(s) : s \in States(walk)} : walk \in Walks[n, Len(dst)]}

\* The child at `key`, made to look like `value` or replaced.  (In a vec a
\* string that replaces a constant becomes a constant, which shows the same.)
DiffKey(d, start, map, key, value, state) ==
  LET Replaced(ops) ==
        [ops |-> ops \o ConstOrJson(NextOp(start, ops), value),
         entries |-> Set(state.entries, key, NextOp(start, ops))]
  IN  IF key \in DOMAIN map /\ map[key] \in DOMAIN d.index
      THEN {IF r.ok THEN [state EXCEPT !.ops = r.ops] ELSE Replaced(r.ops) :
              r \in DiffAny(d, start, state.ops, map[key], value)}
      ELSE {Replaced(state.ops)}

\* Mutant of Undefine: a key that holds a value of its own is kept.
UndefineNothing(d, start, map, keys, state) == state

\* What is no longer there becomes undefined.
Undefine(d, start, map, keys, state) ==
  LET gone == SelectSeq(SetToSeq(keys), LAMBDA k :
                map[k] \in DOMAIN d.index /\ d.index[map[k]] # Con("undefined"))
  IN  FoldLeft(LAMBDA s, k :
        [ops |-> Append(s.ops, New(NextOp(start, s.ops), Con("undefined"))),
         entries |-> Set(s.entries, k, NextOp(start, s.ops))], state, gone)

\* diff_obj and diff_vec: `dst` maps the keys to values.
DiffMap(d, start, ops, id, dst) ==
  LET node == d.index[id]
      first == Undefine(d, start, node.map, DOMAIN node.map \ DOMAIN dst,
                        [ops |-> ops, entries |-> << >>])
      states == FoldLeft(
        LAMBDA ss, key : UNION {DiffKey(d, start, node.map, key, dst[key], s) : s \in ss},
        {first}, KeySeq(dst))
      Entries(at, entries) ==
        IF node.kind = "obj" THEN InsObj(at, id, entries) ELSE InsVec(at, id, entries)
  IN  {Done(IF s.entries = << >> THEN s.ops
            ELSE Append(s.ops, Entries(NextOp(start, s.ops), s.entries))) : s \in states}

DiffVal(d, start, ops, id, dst) ==
  LET Replaced(built) ==
        LET at == NextOp(start, built)
            all == built \o ConstOrJson(at, dst)
        IN  Append(all, InsVal(NextOp(start, all), id, at))
      child == d.index[id].val
  IN  IF child \in DOMAIN d.index
      THEN {Done(IF r.ok THEN r.ops ELSE Replaced(r.ops)) : r \in DiffAny(d, start, ops, child, dst)}
      ELSE {Done(Replaced(ops))}

DiffAny(d, start, ops, id, dst) ==
  LET node == d.index[id]
  IN  CASE node.kind = "con" ->
             IF node = dst /\ node # Con("undefined") THEN {Done(ops)} ELSE {Failed(ops)}
        [] node.kind = "val" -> DiffVal(d, start, ops, id, dst)
        [] node.kind \in {"str", "bin"} /\ dst.kind = node.kind ->
             DiffText(d, start, ops, id, dst.text)
        [] node.kind = "arr" /\ dst.kind = "arr" -> DiffArr(d, start, ops, id, dst.items)
        [] node.kind = "vec" /\ dst.kind = "arr" ->
             DiffMap(d, start, ops, id, [i \in 0 .. Len(dst.items) - 1 |-> dst.items[i + 1]])
        [] node.kind = "obj" /\ dst.kind = "obj" -> DiffMap(d, start, ops, id, dst.map)
        [] OTHER -> {Failed(ops)}

\* diff_node: the patches that may come out, the empty one for a failure.
DiffNode(d, start, id, dst) == {r.ops : r \in DiffAny(d, start, << >>, id, dst)}
=============================================================================
