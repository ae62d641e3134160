--------------------------- MODULE JsonSnapshots ----------------------------
(* Snapshots as JSON: the compact and the verbose format. *)
EXTENDS BinarySnapshots

(***************************************************************************)
(* Snapshots in the compact JSON format (codec/structural/compact.rs), of  *)
(* documents with a logical clock.  A node is a tuple; its timestamps are  *)
(* relative to the clock table, or absolute where the table cannot.        *)
(***************************************************************************)
\* encode_ts
CompactStamp(clock, stamp) ==
  IF stamp.sid = SystemSid \/ stamp.time > Reference(clock, stamp.sid)
  THEN [absolute |-> stamp]
  ELSE [relative |-> Relative(clock, stamp)]

Zero == <<0>>

\* encode_node.  A constant that is undefined has a fourth element; a missing
\* child is left out of an obj and of a chunk of an arr, 0 in a vec, and null
\* in a val (which decode refuses).
RECURSIVE CompactNode(_, _, _)
CompactNode(index, clock, id) ==
  LET node == index[id]
      stamp == CompactStamp(clock, id)
      Stamp(t) == CompactStamp(clock, t)
      Child(child) == IF child \in DOMAIN index THEN CompactNode(index, clock, child) ELSE Zero
      Nodes(ids) == LET found == SelectSeq(ids, LAMBDA child : child \in DOMAIN index)
                    IN  [i \in DOMAIN found |-> Child(found[i])]
  IN  CASE node = Con("undefined") -> <<"con", stamp, 0, 0>>
        [] node.kind = "con" /\ node.value # "undefined" -> <<"con", stamp, node.value>>
        [] node.kind = "val" -> <<"val", stamp, Child(node.val)>>
        [] node.kind = "obj" ->
             <<"obj", stamp, [k \in FoundKeys(node, index) |-> Child(node.map[k])]>>
        [] node.kind = "vec" ->
             <<"vec", stamp, [i \in 1 .. Size(node) |->
                IF i - 1 \in DOMAIN node.map THEN Child(node.map[i - 1]) ELSE Zero]>>
        [] node.kind = "arr" -> <<"arr", stamp, WriteRuns(node, Stamp, Nodes)>>
        [] node.kind \in {"str", "bin"} -> <<node.kind, stamp, WriteRuns(node, Stamp, Same)>>

\* encode and encode_root; the table has the sessions of the ids in the tree.
CompactEncode(m) ==
  [table |-> Table(m.clock, m.index, m.root),
   root |-> IF HasRoot(m)
            THEN CompactNode(m.index, m.clock, m.root) ELSE Zero]
-----------------------------------------------------------------------------
\* decode_ts
CompactTs(table, stamp) ==
  IF "absolute" \in DOMAIN stamp THEN stamp.absolute ELSE DecodeId(table, stamp.relative)

\* decode_str, decode_bin, decode_arr
CompactRun(table, written) ==
  ReadRuns(written[1], written[3], LAMBDA stamp : CompactTs(table, stamp),
           LAMBDA item : IF written[1] = "arr" THEN CompactTs(table, item[2]) ELSE item)

\* decode_node_into: the nodes of a subtree.
RECURSIVE CompactRead(_, _)
CompactRead(table, written) ==
  LET type == written[1]
      Id(child) == CompactTs(table, child[2])
      node == CASE type = "con" -> Con(IF Len(written) > 3 THEN "undefined" ELSE written[3])
                [] type = "val" -> [kind |-> "val", val |-> Id(written[3])]
                [] type = "obj" ->
                     [kind |-> "obj", map |-> [k \in DOMAIN written[3] |-> Id(written[3][k])]]
                [] type = "vec" ->
                     [kind |-> "vec",
                      map |-> [k \in {i - 1 : i \in {j \in DOMAIN written[3] :
                                                     written[3][j] # Zero}} |->
                                 Id(written[3][k + 1])]]
                [] type \in {"str", "bin", "arr"} -> CompactRun(table, written)
      below == CASE type = "val" -> {written[3]}
                 [] type = "obj" -> Range(written[3])
                 [] type = "vec" -> Range(written[3]) \ {Zero}
                 [] type = "arr" -> Values(written[3])
                 [] OTHER -> {}
  IN  {<<Id(written), node>>} \cup UNION {CompactRead(table, w) : w \in below}

\* decode
CompactDecode(data) ==
  [root |-> IF data.root = Zero THEN Undefined ELSE CompactTs(data.table, data.root[2]),
   index |-> IF data.root = Zero THEN << >> ELSE IndexOf(CompactRead(data.table, data.root)),
   clock |-> DecodedClock(data.table)]

-----------------------------------------------------------------------------
(***************************************************************************)
(* Snapshots in the verbose JSON format (codec/structural/verbose.rs), of  *)
(* documents with a logical clock.  Timestamps are absolute.               *)
(***************************************************************************)
VerboseUndefined == [type |-> "con", id |-> Undefined, value |-> "undefined"]
VerboseNull == [type |-> "null"]

\* encode_clock: the own session, then an entry per peer.
VerboseClock(clock) ==
  [own |-> clock.sid, time |-> clock.time,
   peers |-> [p \in {q \in Sids : clock.peers[q] # NoPeer} |-> clock.peers[p]]]

\* encode_node.  Missing are left out of an obj and of a chunk of an arr, null
\* in a vec and undefined in a val.
RECURSIVE VerboseNode(_, _)
VerboseNode(index, id) ==
  LET node == index[id]
      Nodes(ids) ==
        LET found == SelectSeq(ids, LAMBDA child : child \in DOMAIN index)
        IN  [i \in DOMAIN found |-> VerboseNode(index, found[i])]
  IN  CASE node.kind = "con" -> [type |-> "con", id |-> id, value |-> node.value]
        [] node.kind = "val" ->
             [type |-> "val", id |-> id,
              value |-> IF node.val \in DOMAIN index THEN VerboseNode(index, node.val)
                                                     ELSE VerboseUndefined]
        [] node.kind = "obj" ->
             [type |-> "obj", id |-> id,
              map |-> [k \in FoundKeys(node, index) |-> VerboseNode(index, node.map[k])]]
        [] node.kind = "vec" ->
             [type |-> "vec", id |-> id,
              map |-> [i \in 1 .. Size(node) |->
                         IF i - 1 \in FoundKeys(node, index)
                         THEN VerboseNode(index, node.map[i - 1]) ELSE VerboseNull]]
        [] node.kind = "arr" ->
             [type |-> "arr", id |-> id, chunks |-> WriteRuns(node, Same, Nodes)]
        [] OTHER -> [type |-> node.kind, id |-> id, chunks |-> WriteRuns(node, Same, Same)]

\* encode and encode_val_root
VerboseEncode(m) ==
  [time |-> VerboseClock(m.clock),
   root |-> IF HasRoot(m)
            THEN VerboseNode(m.index, m.root) ELSE VerboseUndefined]
-----------------------------------------------------------------------------
\* decode_str, decode_bin, decode_arr
VerboseRun(written) ==
  ReadRuns(written.type, written.chunks, Same,
           LAMBDA item : IF written.type = "arr" THEN item.id ELSE item)

\* decode_node: the nodes of a subtree.
RECURSIVE VerboseRead(_)
VerboseRead(written) ==
  LET type == written.type
      node == CASE type = "con" -> Con(written.value)
                [] type = "val" -> [kind |-> "val", val |-> written.value.id]
                [] type = "obj" -> [kind |-> "obj", map |-> [k \in DOMAIN written.map |-> written.map[k].id]]
                [] type = "vec" ->
                     [kind |-> "vec",
                      map |-> [k \in {i - 1 : i \in {j \in DOMAIN written.map :
                                                     written.map[j] # VerboseNull}} |->
                                 written.map[k + 1].id]]
                [] OTHER -> VerboseRun(written)
      below == CASE type = "val" -> {written.value}
                 [] type \in {"obj", "vec"} -> ToSet(written.map) \ {VerboseNull}
                 [] type = "arr" -> Values(written.chunks)
                 [] OTHER -> {}
  IN  {<<written.id, node>>} \cup UNION {VerboseRead(w) : w \in below}

\* decode_clock: every peer is observed.
VerboseClockRead(time) ==
  FoldSet(LAMBDA p, clock : Observe(clock, Ts(p, time.peers[p]), 1),
          NewClock(time.own, time.time), DOMAIN time.peers)

\* decode and decode_root
VerboseDecode(data) ==
  [root |-> data.root.id, index |-> IndexOf(VerboseRead(data.root)),
   clock |-> VerboseClockRead(data.time)]
=============================================================================
