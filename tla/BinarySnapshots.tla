-------------------------- MODULE BinarySnapshots ---------------------------
(* Snapshots of documents with a logical clock: the clock tables, and the
   binary, the indexed and the sidecar format. *)
EXTENDS Nodes

(***************************************************************************)
(* The clock tables of snapshots (json_crdt_patch/codec/clock.rs) and what *)
(* the formats of json_crdt/codec have in common.  A table lists sessions  *)
(* with a reference time each; the index a session gets in it is           *)
(* represented by the session itself, index 0 by the system session.       *)
(***************************************************************************)
\* The time the entry of a session holds: its own last timestamp, what was
\* observed of a peer, or as much as could have been.
Reference(clock, sid) ==
  IF sid \in Sids \ {clock.sid} /\ clock.peers[sid] # NoPeer
  THEN clock.peers[sid] ELSE clock.time - 1

\* id(0, 0), whose first byte is 0.
TimeTravel == [sid |-> SystemSid, diff |-> 0]

\* append gives the distance from the entry, ts_logical writes it.
Relative(clock, stamp) ==
  IF stamp.time <= Reference(clock, stamp.sid)
  THEN [sid |-> stamp.sid, diff |-> Reference(clock, stamp.sid) - stamp.time]
  ELSE TimeTravel

\* The sessions of the ids a tree holds: those of its nodes and chunks.
SessionsBelow(index, root) ==
  LET nodes == Tree(index, root)
  IN  {id.sid : id \in nodes} \cup
      {chunk.id.sid : chunk \in UNION {ToSet(index[id].chunks) :
         id \in {n \in nodes : index[n].kind \in {"str", "bin", "arr"}}}}

\* to_json, after every id of the tree was appended: the own session comes
\* first, a session has an entry only when the tree has an id of it.
Table(clock, index, root) ==
  [own |-> clock.sid,
   time |-> [sid \in {clock.sid} \cup SessionsBelow(index, root) |-> Reference(clock, sid)]]

\* ClockDecoder::new and push_tuple for the other entries.
DecodedClock(table) ==
  FoldSet(LAMBDA sid, clock : Observe(clock, Ts(sid, table.time[sid]), 1),
          NewClock(table.own, table.time[table.own] + 1),
          DOMAIN table.time \ {table.own})

\* decode_id
DecodeId(table, rel) ==
  IF rel.sid = SystemSid THEN Ts(SystemSid, rel.diff)
  ELSE Ts(rel.sid, table.time[rel.sid] - rel.diff)
-----------------------------------------------------------------------------
\* A stamp or item that is written as it is.
Same(x) == x

\* What a live chunk holds.
Content(node, chunk) == [i \in 1 .. chunk.span |-> node.data[At(chunk.id, i - 1)]]

\* The chunks of a node as they are written: a span for a deleted chunk, the
\* content for a live one.
WriteRuns(node, Stamp(_), Write(_)) ==
  [i \in DOMAIN node.chunks |->
     LET chunk == node.chunks[i]
     IN  IF chunk.deleted
         THEN [id |-> Stamp(chunk.id), deleted |-> TRUE, span |-> chunk.span]
         ELSE [id |-> Stamp(chunk.id), deleted |-> FALSE,
               value |-> Write(Content(node, chunk))]]

\* A str, bin or arr node from its runs: push_chunk, which sets no link, for
\* each of them.
ReadRuns(kind, runs, Stamp(_), Item(_)) ==
  LET chunks == [i \in DOMAIN runs |->
        Chunk(Stamp(runs[i].id),
              IF runs[i].deleted THEN runs[i].span ELSE Len(runs[i].value),
              runs[i].deleted, NoLink)]
  IN  [kind |-> kind, chunks |-> chunks,
       data |-> [slot \in ToSet(View(chunks)) |->
                   LET i == FindById(chunks, slot)
                   IN  Item(runs[i].value[slot.time - chunks[i].id.time + 1])]]

\* The values of the live runs.
Values(runs) == UNION {ToSet(runs[i].value) : i \in {j \in DOMAIN runs : ~runs[j].deleted}}

\* The index of nodes that were read, as pairs of an id and a node.
IndexOf(read) == [id \in {pair[1] : pair \in read} |->
                    (CHOOSE pair \in read : pair[1] = id)[2]]

\* encode_root writes a tree; a root that is undefined or missing has none.
HasRoot(m) == m.root # Undefined /\ m.root.time # 0 /\ m.root \in DOMAIN m.index

\* The entries of an obj or vec whose node the index has.
FoundKeys(node, index) == {k \in DOMAIN node.map : node.map[k] \in DOMAIN index}

-----------------------------------------------------------------------------
(***************************************************************************)
(* Snapshots in the binary format (codec/structural/binary.rs), of         *)
(* documents with a logical clock: the tree of nodes, then the clock table.*)
(* Nothing is written for a missing child of a val, obj or arr, and what   *)
(* follows is then misread, so a document is written here only when no     *)
(* node misses a child (see Document!SnapshotWhole).                       *)
(***************************************************************************)
\* The byte 0 stands for a missing root or element, and so is an id(0, 0) read
\* there.
NoNode == [id |-> TimeTravel]
IsNode(written) == written.id # TimeTravel

\* encode_node_logical
RECURSIVE BinaryNode(_, _, _)
BinaryNode(index, clock, id) ==
  LET node == index[id]
      Stamp(t) == Relative(clock, t)
      Child(child) == BinaryNode(index, clock, child)
      Nodes(ids) == [i \in DOMAIN ids |-> Child(ids[i])]
  IN  [id |-> Stamp(id), major |-> node.kind,
       body |->
         CASE node.kind = "con" -> node.value
           [] node.kind = "val" -> Child(node.val)
           [] node.kind = "obj" -> [k \in DOMAIN node.map |-> Child(node.map[k])]
           [] node.kind = "vec" ->
                [i \in 1 .. Size(node) |->
                   IF i - 1 \in FoundKeys(node, index) THEN Child(node.map[i - 1]) ELSE NoNode]
           [] node.kind = "arr" -> WriteRuns(node, Stamp, Nodes)
           [] node.kind \in {"str", "bin"} -> WriteRuns(node, Stamp, Same)]

\* encode_logical and encode_root_logical
BinaryEncode(m) ==
  [table |-> Table(m.clock, m.index, m.root),
   tree |-> IF HasRoot(m)
            THEN BinaryNode(m.index, m.clock, m.root) ELSE NoNode]
-----------------------------------------------------------------------------
\* decode_node_logical: the nodes of a subtree.
RECURSIVE BinaryRead(_, _)
BinaryRead(table, written) ==
  LET major == written.major
      body == written.body
      Id(child) == DecodeId(table, child.id)
      Stamp(rel) == DecodeId(table, rel)
      node == CASE major = "con" -> Con(body)
                [] major = "val" -> [kind |-> "val", val |-> Id(body)]
                [] major = "obj" -> [kind |-> "obj", map |-> [k \in DOMAIN body |-> Id(body[k])]]
                [] major = "vec" ->
                     [kind |-> "vec",
                      map |-> [k \in {i - 1 : i \in {j \in DOMAIN body : IsNode(body[j])}} |->
                                 Id(body[k + 1])]]
                [] major = "arr" -> ReadRuns(major, body, Stamp, Id)
                [] major \in {"str", "bin"} -> ReadRuns(major, body, Stamp, Same)
      below == CASE major = "val" -> {body}
                 [] major \in {"obj", "vec"} -> {w \in Range(body) : IsNode(w)}
                 [] major = "arr" -> Values(body)
                 [] OTHER -> {}
  IN  {<<Id(written), node>>} \cup UNION {BinaryRead(table, w) : w \in below}

\* decode_logical and decode_root_logical
BinaryDecode(data) ==
  [root |-> IF IsNode(data.tree) THEN DecodeId(data.table, data.tree.id) ELSE Undefined,
   index |-> IF IsNode(data.tree) THEN IndexOf(BinaryRead(data.table, data.tree)) ELSE << >>,
   clock |-> DecodedClock(data.table)]

-----------------------------------------------------------------------------
(***************************************************************************)
(* Snapshots in the indexed format (codec/indexed/binary.rs): one field    *)
(* per node of the index, also of those that the root does not reach.      *)
(* Timestamps hold the index of their session in the clock table, which    *)
(* lists every peer, and the time as it is.                                *)
(***************************************************************************)
\* ClockTable::from_clock
IndexedTable(clock) ==
  [own |-> clock.sid,
   time |-> [sid \in {clock.sid} \cup {p \in Sids : clock.peers[p] # NoPeer} |->
               Reference(clock, sid)]]

\* write_ts_indexed: a session the table misses is written as the own one.
IndexedStamp(table, stamp) ==
  IF stamp.sid \in DOMAIN table.time THEN stamp ELSE Ts(table.own, stamp.time)

\* encode_node; what a node names need not be in the index.
IndexedNode(table, node) ==
  LET Stamp(t) == IndexedStamp(table, t)
  IN  CASE node.kind = "con" -> node
        [] node.kind = "val" -> [kind |-> "val", val |-> Stamp(node.val)]
        [] node.kind \in {"obj", "vec"} ->
             [node EXCEPT !.map = [k \in DOMAIN @ |-> Stamp(@[k])]]
        [] node.kind = "arr" ->
             [kind |-> "arr", chunks |-> WriteRuns(node, Stamp,
                LAMBDA ids : [i \in DOMAIN ids |-> Stamp(ids[i])])]
        [] node.kind \in {"str", "bin"} ->
             [kind |-> node.kind, chunks |-> WriteRuns(node, Stamp, Same)]

\* encode: the nodes of sessions in the table, under their ids.
IndexedEncode(m) ==
  LET table == IndexedTable(m.clock)
      named == {id \in DOMAIN m.index : id.sid \in DOMAIN table.time}
  IN  [table |-> table,
       root |-> IF m.root # Undefined /\ m.root.time # 0
                THEN <<IndexedStamp(table, m.root)>> ELSE << >>,
       nodes |-> [id \in named |-> IndexedNode(table, m.index[id])]]

\* decode_node
IndexedRead(node) ==
  IF node.kind \in {"str", "bin", "arr"}
  THEN ReadRuns(node.kind, node.chunks, Same, Same) ELSE node

\* decode
IndexedDecode(fields) ==
  [root |-> IF fields.root = << >> THEN Undefined ELSE fields.root[1],
   index |-> [id \in DOMAIN fields.nodes |-> IndexedRead(fields.nodes[id])],
   clock |-> DecodedClock(fields.table)]

-----------------------------------------------------------------------------
(***************************************************************************)
(* Snapshots in the sidecar format (codec/sidecar/binary.rs): `view` is    *)
(* the plain value of the document, `meta` the ids and the shape of its    *)
(* nodes.  Both are read side by side, so they must not get out of step:   *)
(* as in the binary format, no node may miss a child.                           *)
(***************************************************************************)
NoMeta == [id |-> TimeTravel]
IsMeta(meta) == meta.id # TimeTravel

\* What encode_node writes to `view`: one string for all of a text, the values
\* of an arr without its chunks.
RECURSIVE SidecarView(_, _)
SidecarView(index, id) ==
  LET node == index[id]
      Child(child) == SidecarView(index, child)
      slots == Slots(node)
  IN  CASE node.kind = "con" -> node
        [] node.kind = "val" -> Child(node.val)
        [] node.kind = "obj" -> ObjectOf([k \in DOMAIN node.map |-> Child(node.map[k])])
        [] node.kind = "vec" ->
             ArrayOf([i \in 1 .. Size(node) |->
                IF i - 1 \in FoundKeys(node, index) THEN Child(node.map[i - 1]) ELSE Null])
        [] node.kind = "str" -> TextOf([i \in DOMAIN slots |-> node.data[slots[i]]])
        [] node.kind = "bin" -> BytesOf([i \in DOMAIN slots |-> node.data[slots[i]]])
        [] node.kind = "arr" -> ArrayOf([i \in DOMAIN slots |-> Child(node.data[slots[i]])])

\* What encode_node writes to `meta`: per chunk its id, whether it is deleted
\* and its span, and behind the chunks of an arr their nodes.
RECURSIVE SidecarMeta(_, _, _)
SidecarMeta(index, clock, id) ==
  LET node == index[id]
      Child(child) == SidecarMeta(index, clock, child)
      runs == [i \in DOMAIN node.chunks |->
                 [id |-> Relative(clock, node.chunks[i].id),
                  deleted |-> node.chunks[i].deleted, span |-> node.chunks[i].span]]
  IN  [id |-> Relative(clock, id), major |-> node.kind,
       body |->
         CASE node.kind = "con" -> << >>
           [] node.kind = "val" -> Child(node.val)
           [] node.kind = "obj" -> [k \in DOMAIN node.map |-> Child(node.map[k])]
           [] node.kind = "vec" ->
                [i \in 1 .. Size(node) |->
                   IF i - 1 \in FoundKeys(node, index) THEN Child(node.map[i - 1]) ELSE NoMeta]
           [] node.kind \in {"str", "bin"} -> runs
           [] node.kind = "arr" ->
                [runs |-> runs,
                 items |-> [i \in DOMAIN Slots(node) |-> Child(node.data[Slots(node)[i]])]]]

\* encode and encode_root
SidecarEncode(m) ==
  [table |-> Table(m.clock, m.index, m.root),
   view |-> IF HasRoot(m) THEN SidecarView(m.index, m.root) ELSE Null,
   meta |-> IF HasRoot(m) THEN SidecarMeta(m.index, m.clock, m.root) ELSE NoMeta]
-----------------------------------------------------------------------------
\* skip(offset).take(span)
Take(content, offset, span) == SubSeq(content, offset + 1, Min({offset + span, Len(content)}))

\* Mutant of Spans: deleted chunks take a part of the content too.
SpansOfAll(runs) == FoldLeft(LAMBDA sum, run : sum + run.span, 0, runs)

\* The length of the content that these chunks take.
Spans(runs) == FoldLeft(LAMBDA sum, run : IF run.deleted THEN sum ELSE sum + run.span, 0, runs)

\* decode_str, decode_bin, decode_arr: every live chunk takes its span from the
\* content, from where the one before stopped.
TakeRuns(kind, runs, content, Stamp(_)) ==
  ReadRuns(kind,
    [i \in DOMAIN runs |->
       IF runs[i].deleted THEN runs[i]
       ELSE [id |-> runs[i].id, deleted |-> FALSE,
             value |-> Take(content, Spans(SubSeq(runs, 1, i - 1)), runs[i].span)]],
    Stamp, Same)

\* decode_node: the nodes of a subtree.
RECURSIVE SidecarRead(_, _, _)
SidecarRead(table, view, meta) ==
  LET major == meta.major
      body == meta.body
      Stamp(rel) == DecodeId(table, rel)
      Id(child) == Stamp(child.id)
      node == CASE major = "con" -> view
                [] major = "val" -> [kind |-> "val", val |-> Id(body)]
                [] major = "obj" -> [kind |-> "obj", map |-> [k \in DOMAIN body |-> Id(body[k])]]
                [] major = "vec" ->
                     [kind |-> "vec",
                      map |-> [k \in {i - 1 : i \in {j \in DOMAIN body : IsMeta(body[j])}} |->
                                 Id(body[k + 1])]]
                [] major \in {"str", "bin"} -> TakeRuns(major, body, view.text, Stamp)
                [] major = "arr" ->
                     TakeRuns("arr", body.runs, [i \in DOMAIN body.items |-> Id(body.items[i])], Stamp)
      below == CASE major = "val" -> {<<view, body>>}
                 [] major = "obj" -> {<<view.map[k], body[k]>> : k \in DOMAIN body}
                 [] major = "vec" -> {<<view.items[i], body[i]>> : i \in {j \in DOMAIN body : IsMeta(body[j])}}
                 [] major = "arr" -> {<<view.items[i], body.items[i]>> : i \in DOMAIN body.items}
                 [] OTHER -> {}
  IN  {<<Id(meta), node>>} \cup UNION {SidecarRead(table, w[1], w[2]) : w \in below}

\* decode and decode_root
SidecarDecode(data) ==
  [root |-> IF IsMeta(data.meta) THEN DecodeId(data.table, data.meta.id) ELSE Undefined,
   index |-> IF IsMeta(data.meta)
             THEN IndexOf(SidecarRead(data.table, data.view, data.meta)) ELSE << >>,
   clock |-> DecodedClock(data.table)]
=============================================================================
