------------------------------ MODULE PatchOps ------------------------------
(* Finished patches: the formats they are sent in, and what is done with them. *)
EXTENDS Nodes

(***************************************************************************)
(* Patches in the formats of json_crdt_patch/codec: verbose and compact    *)
(* JSON, compact JSON as CBOR, and binary.  All write the id of the patch  *)
(* only, and every decoder puts the operations through a PatchBuilder that *)
(* starts there.  A patch is the sequence of its operations; what is       *)
(* written of one is a record with tuples in place of its timestamps.      *)
(***************************************************************************)
PatchCodecs == {"verbose", "compact", "compact-binary", "binary"}

\* SESSION::SERVER
ServerSid == 1

Span(ops) == FoldLeft(LAMBDA n, op : n + SpanOf(op), 0, ops)

\* An operation without its id, every timestamp and every span rewritten.
Rewritten(op, To(_), SpanTo(_)) ==
  [field \in DOMAIN op \ {"id"} |->
     CASE field \in {"obj", "after", "val"} -> To(op[field])
       [] field = "entries" -> [k \in DOMAIN op.entries |-> To(op.entries[k])]
       [] field = "vals" /\ op.op = "ins_arr" -> [i \in DOMAIN op.vals |-> To(op.vals[i])]
       [] field = "what" -> [i \in DOMAIN op.what |-> SpanTo(op.what[i])]
       [] OTHER -> op[field]]

\* Mutant of Build: every operation ticks the clock once.
BuildByOnes(id, ops) ==
  [i \in DOMAIN ops |->
     [field \in DOMAIN ops[i] \cup {"id"} |->
        IF field = "id" THEN At(id, i - 1) ELSE ops[i][field]]]

\* PatchBuilder: every operation ticks the clock by its span.
Build(id, ops) ==
  [i \in DOMAIN ops |->
     [field \in DOMAIN ops[i] \cup {"id"} |->
        IF field = "id" THEN At(id, Span(SubSeq(ops, 1, i - 1))) ELSE ops[i][field]]]

\* The decoders of JSON pass over insertions without content, but for those
\* into an arr.
HasContent(op) ==
  CASE op.op \in {"ins_obj", "ins_vec"} -> DOMAIN op.entries # {}
    [] op.op \in {"ins_str", "ins_bin"} -> op.vals # << >>
    [] OTHER -> TRUE

\* A Nop of one tick is written without its length.
NopWritten(op) == IF op.op = "nop" /\ op.len <= 1 THEN [op |-> "nop"] ELSE op
NopRead(op) == IF op.op = "nop" /\ "len" \notin DOMAIN op THEN [op |-> "nop", len |-> 1] ELSE op

Writes(op, value) == op.op = "new" /\ op.node = Con(value)
-----------------------------------------------------------------------------
\* encode_ts, encode_tss and decode_id of the verbose format: only timestamps
\* of the server have no session.
VerboseTs(ts) == IF ts.sid = ServerSid THEN <<ts.time>> ELSE <<ts.sid, ts.time>>
VerboseTsRead(written) ==
  IF Len(written) = 1 THEN Ts(ServerSid, written[1]) ELSE Ts(written[1], written[2])
VerboseTss(span) == <<span.sid, span.time, span.span>>
VerboseTssRead(written) == [sid |-> written[1], time |-> written[2], span |-> written[3]]

\* encode: pack_to_json writes a constant that is undefined as null.
VerbosePatch(ops) ==
  [id |-> <<ops[1].id.sid, ops[1].id.time>>,
   ops |-> [i \in DOMAIN ops |->
              IF Writes(ops[i], "undefined") THEN [op |-> "new", node |-> Con("null")]
              ELSE NopWritten(Rewritten(ops[i], VerboseTs, VerboseTss))]]

\* decode
VerbosePatchRead(patch) ==
  LET read == [i \in DOMAIN patch.ops |->
                 NopRead(Rewritten(patch.ops[i], VerboseTsRead, VerboseTssRead))]
  IN  Build(VerboseTsRead(patch.id), SelectSeq(read, HasContent))
-----------------------------------------------------------------------------
\* encode_ts and encode_tss of the compact format: what the session of the
\* patch issued has no session.
CompactTs(ts, sid) == IF ts.sid = sid THEN <<ts.time>> ELSE <<ts.sid, ts.time>>
CompactTss(span, sid) ==
  IF span.sid = sid THEN <<span.time, span.span>> ELSE <<span.sid, span.time, span.span>>

\* decode_id and decode_tss
CompactTsRead(written, sid) ==
  IF Len(written) = 1 THEN Ts(sid, written[1]) ELSE Ts(written[1], written[2])
CompactTssRead(written, sid) ==
  IF Len(written) = 3 THEN VerboseTssRead(written)
                      ELSE [sid |-> sid, time |-> written[1], span |-> written[2]]

\* encode: a constant that is undefined has no value.
CompactPatch(ops) ==
  LET sid == ops[1].id.sid
      Op(op) == Rewritten(op, LAMBDA ts : CompactTs(ts, sid), LAMBDA s : CompactTss(s, sid))
  IN  [id |-> VerboseTs(ops[1].id),
       ops |-> [i \in DOMAIN ops |->
                  IF Writes(ops[i], "undefined") THEN [op |-> "new"]
                  ELSE NopWritten(Op(ops[i]))]]

\* decode
CompactPatchRead(patch) ==
  LET id == VerboseTsRead(patch.id)
      Op(op) == Rewritten(op, LAMBDA w : CompactTsRead(w, id.sid), LAMBDA w : CompactTssRead(w, id.sid))
      read == [i \in DOMAIN patch.ops |->
                 IF patch.ops[i] = [op |-> "new"] THEN New(id, Con("undefined"))
                 ELSE NopRead(Op(patch.ops[i]))]
  IN  Build(id, SelectSeq(read, HasContent))
-----------------------------------------------------------------------------
\* A length of up to seven is in the three low bits of the opcode, a longer
\* one behind it.  (The decoder reads a length behind 0 as well, which nobody
\* wrote for an operation without content: no caller makes one.)
ShortLength == 7
LengthOf(op) ==
  CASE op.op \in {"ins_obj", "ins_vec"} -> Cardinality(DOMAIN op.entries)
    [] op.op \in {"ins_str", "ins_bin", "ins_arr"} -> Len(op.vals)
    [] op.op = "del" -> Len(op.what)
    [] op.op = "nop" -> op.len
    [] OTHER -> 0

\* Encoder::encode_id: a bit says whether the session follows the time.
BinaryTs(ts, sid) ==
  IF ts.sid = sid THEN <<0, ts.time>> ELSE <<1, ts.time, ts.sid>>
BinaryTsRead(written, sid) ==
  Ts(IF written[1] = 0 THEN sid ELSE written[3], written[2])

\* encode_tss and decode_tss
BinaryTss(span, sid) == BinaryTs(Ts(span.sid, span.time), sid) \o <<span.span>>
BinaryTssRead(written, sid) ==
  LET ts == BinaryTsRead(written, sid)
  IN  [sid |-> ts.sid, time |-> ts.time, span |-> Last(written)]

\* Encoder::encode and encode_operation
BinaryPatch(ops) ==
  LET sid == ops[1].id.sid
      Op(op) == Rewritten(op, LAMBDA ts : BinaryTs(ts, sid), LAMBDA s : BinaryTss(s, sid))
  IN  [sid |-> sid, time |-> ops[1].id.time,
       ops |-> [i \in DOMAIN ops |->
                  LET length == LengthOf(ops[i])
                  IN  [op |-> Op(ops[i]), low |-> IF length <= ShortLength THEN length ELSE 0,
                       follows |-> IF length > ShortLength THEN <<length>> ELSE << >>]]]

\* The first items of content of an operation.
FirstOf(op, length) ==
  CASE op.op \in {"ins_str", "ins_bin", "ins_arr"} -> [op EXCEPT !.vals = SubSeq(@, 1, length)]
    [] op.op = "del" -> [op EXCEPT !.what = SubSeq(@, 1, length)]
    [] op.op = "nop" -> [op EXCEPT !.len = length]
    [] OTHER -> op

\* Decoder::read_patch and decode_operation
BinaryPatchRead(patch) ==
  LET Op(w) ==
        Rewritten(FirstOf(w.op, IF w.low = 0 THEN w.follows[1] ELSE w.low),
                  LAMBDA t : BinaryTsRead(t, patch.sid), LAMBDA s : BinaryTssRead(s, patch.sid))
  IN  Build(Ts(patch.sid, patch.time), [i \in DOMAIN patch.ops |-> Op(patch.ops[i])])
-----------------------------------------------------------------------------
\* A patch written and read.  CBOR gives compact JSON back as it was.
Carried(ops, codec) ==
  CASE codec = "verbose" -> VerbosePatchRead(VerbosePatch(ops))
    [] codec = "binary"  -> BinaryPatchRead(BinaryPatch(ops))
    [] OTHER             -> CompactPatchRead(CompactPatch(ops))

-----------------------------------------------------------------------------
(***************************************************************************)
(* What is done with finished patches: rebasing one, a Batch or the batch  *)
(* of a log, combining and compacting them (json_crdt_patch), and the      *)
(* formats they are sent in.  A patch is the sequence of its operations.   *)
(***************************************************************************)
\* Patch::rewrite_time: every timestamp `ts` of the patch becomes To(ts).
RewriteOp(op, To(_)) ==
  [field \in DOMAIN op |->
     CASE field \in {"id", "obj", "after", "val"} -> To(op[field])
       [] field = "entries" -> [k \in DOMAIN op.entries |-> To(op.entries[k])]
       [] field = "vals" /\ op.op = "ins_arr" -> [i \in DOMAIN op.vals |-> To(op.vals[i])]
       [] field = "what" ->
            [i \in DOMAIN op.what |->
               LET span == op.what[i]
                   to == To(Ts(span.sid, span.time))
               IN  [span EXCEPT !.sid = to.sid, !.time = to.time]]
       [] OTHER -> op[field]]

\* Mutant of Rebase: the timestamps of other sessions are shifted, too.
RebaseAllSessions(ops, time, from) ==
  LET To(ts) == IF ts.time >= from THEN At(ts, time - ops[1].id.time) ELSE ts
  IN  [i \in DOMAIN ops |-> RewriteOp(ops[i], To)]

\* Patch::rebase: what the session issued from `from` on is shifted.
Rebase(ops, time, from) ==
  LET id == ops[1].id
      To(ts) == IF ts.sid = id.sid /\ ts.time >= from THEN At(ts, time - id.time) ELSE ts
  IN  [i \in DOMAIN ops |-> RewriteOp(ops[i], To)]

\* The times at which the patches start when they follow each other.
Starts(patches, time) ==
  [i \in DOMAIN patches |-> time + Span(FlattenSeq(SubSeq(patches, 1, i - 1)))]

\* Batch::rebase and Log::rebase_batch, in which each patch shifts what it
\* issued itself.
RebaseBatch(patches, time) ==
  [i \in DOMAIN patches |->
     Rebase(patches[i], Starts(patches, time)[i], patches[1][1].id.time)]
RebaseEach(patches, time) ==
  [i \in DOMAIN patches |->
     Rebase(patches[i], Starts(patches, time)[i], patches[i][1].id.time)]

\* The end of a patch, from its first timestamp and its span.
EndOf(ops) == ops[1].id.time + Span(ops)

\* Patches may be combined if they follow each other in time.
CanCombine(patches) ==
  \A i \in 1 .. Len(patches) - 1 :
    /\ patches[i][1].id.sid = patches[i + 1][1].id.sid
    /\ EndOf(patches[i]) <= patches[i + 1][1].id.time

\* Mutant of Combine: gaps are not filled.
CombineWithGaps(patches) == FlattenSeq(patches)

\* combine: a Nop fills the time between two patches.
Combine(patches) ==
  FoldLeft(LAMBDA all, ops :
    IF all = << >> THEN ops
    ELSE LET gap == ops[1].id.time - EndOf(all)
         IN  IF gap = 0 THEN all \o ops
             ELSE Append(all, Nop(At(all[1].id, Span(all)), gap)) \o ops,
    << >>, patches)

\* Mutant of Appends: an insertion anywhere in the same text.
AppendsAnywhere(op, next) ==
  op.op = "ins_str" /\ next.op = "ins_str" /\ op.obj = next.obj
    /\ op.id.time + Len(op.vals) = next.id.time

\* compact compares `after` with the last timestamp of the operation before,
\* but its session with that of the `after` before.
Appends(op, next) ==
  /\ op.op = "ins_str" /\ next.op = "ins_str"
  /\ op.id.time + Len(op.vals) = next.id.time
  /\ op.obj = next.obj
  /\ op.id.time + Len(op.vals) = next.after.time + 1
  /\ op.after.sid = next.after.sid

\* compact: an insertion that appends to the one before becomes part of it.
Compact(ops) ==
  FoldLeft(LAMBDA all, op :
    IF all # << >> /\ Appends(Last(all), op)
    THEN Append(Front(all), [Last(all) EXCEPT !.vals = @ \o op.vals])
    ELSE Append(all, op), << >>, ops)
-----------------------------------------------------------------------------
\* The timestamps an operation refers to.
Refs(op) ==
  LET Of(field) == IF field \in DOMAIN op THEN <<op[field]>> ELSE << >>
  IN  Of("obj") \o Of("after") \o Of("val")
        \o (IF op.op \in {"ins_obj", "ins_vec"}
            THEN LET keys == SetToSeq(DOMAIN op.entries)
                 IN  [i \in DOMAIN keys |-> op.entries[keys[i]]] ELSE << >>)
        \o (IF op.op = "ins_arr" THEN op.vals ELSE << >>)
        \o (IF op.op = "del"
            THEN [i \in DOMAIN op.what |-> Ts(op.what[i].sid, op.what[i].time)] ELSE << >>)

\* What a reference means among `ops`: the operation that issued the timestamp
\* and how far behind its start, or the timestamp itself.
Meaning(ops, ts) ==
  LET issuer == {i \in DOMAIN ops : ts \in Interval(ops[i].id, SpanOf(ops[i]))}
  IN  IF issuer = {} THEN <<0, ts.sid, ts.time>>
      ELSE LET i == Min(issuer) IN <<i, 0, ts.time - ops[i].id.time>>

Meanings(ops) ==
  [i \in DOMAIN ops |->
     [j \in DOMAIN Refs(ops[i]) |-> Meaning(ops, Refs(ops[i])[j])]]
=============================================================================
