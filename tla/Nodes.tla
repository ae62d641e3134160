------------------------------- MODULE Nodes --------------------------------
(***************************************************************************)
(* A JSON CRDT document as a value: the root register and the index of     *)
(* nodes (con, val, obj, vec, str, bin, arr) of json_crdt/nodes/mod.rs,    *)
(* and what each operation of a patch does to it (Model::apply_operation   *)
(* with its garbage collection).  The modules that keep documents in their *)
(* state, Document, Log and Authoring, are built on these operators.       *)
(***************************************************************************)
EXTENDS Rga

\* JSON values.  A text is a sequence of letters, an array one of values.
Scalar(value) == [kind |-> "con", value |-> value]
TextOf(letters) == [kind |-> "str", text |-> letters]
BytesOf(bytes) == [kind |-> "bin", text |-> bytes]
ArrayOf(items) == [kind |-> "arr", items |-> items]
ObjectOf(map) == [kind |-> "obj", map |-> map]
Null == Scalar("null")

\* Nodes.  The `map` of an obj or vec holds the keys that were written (a vec
\* counts from 0); the items of an arr, str or bin are chunks of slots, `data`
\* is the node id or the letter each slot holds.
Con(value) == [kind |-> "con", value |-> value]
Val == [kind |-> "val", val |-> Origin]
Obj == [kind |-> "obj", map |-> << >>]
Vec == [kind |-> "vec", map |-> << >>]
Arr == [kind |-> "arr", chunks |-> << >>, data |-> << >>]
Str == [kind |-> "str", chunks |-> << >>, data |-> << >>]
Bin == [kind |-> "bin", chunks |-> << >>, data |-> << >>]

Set(f, x, v) == [y \in DOMAIN f \cup {x} |-> IF y = x THEN v ELSE f[y]]

Slots(node) == View(node.chunks)
LiveSlots(node) == ToSet(Slots(node))

\* The elements of a vec up to its last written one.
Size(node) == IF DOMAIN node.map = {} THEN 0 ELSE Max(DOMAIN node.map) + 1

\* CrdtNode::child_ids
Children(node) ==
  CASE node.kind = "val" -> {node.val} \ {Origin}
    [] node.kind \in {"obj", "vec"} -> {node.map[k] : k \in DOMAIN node.map}
    [] node.kind = "arr" -> {node.data[slot] : slot \in LiveSlots(node)}
    [] OTHER -> {}

\* gc_tree: the node, if the index has it, and everything below it; nodes of
\* the system session stay.
RECURSIVE Tree(_, _)
Tree(index, id) ==
  IF id \notin DOMAIN index \/ id.sid = SystemSid THEN {}
  ELSE {id} \cup UNION {Tree(index, child) : child \in Children(index[id])}

Collect(index, ids) ==
  LET gone == UNION {Tree(index, id) : id \in ids}
  IN  [id \in DOMAIN index \ gone |-> index[id]]

Has(d, id, kinds) == id \in DOMAIN d.index /\ d.index[id].kind \in kinds

Update(d, id, node) == [d EXCEPT !.index[id] = node]

\* The new node takes the place of the old one, then `ids` are collected.
UpdateAndCollect(d, id, node, ids) ==
  LET new == Update(d, id, node) IN [new EXCEPT !.index = Collect(@, ids)]

\* Model::new
Empty == [root |-> Undefined, index |-> << >>]
-----------------------------------------------------------------------------
\* One operator per operation of Model::apply_operation: document to document.

\* Mutant of Create: a node that is there already is created anew.
CreateAgain(d, op) == [d EXCEPT !.index = Set(@, op.id, op.node)]

\* NewCon, NewVal, NewObj, NewVec, NewStr, NewBin, NewArr
Create(d, op) ==
  IF op.id \in DOMAIN d.index THEN d
  ELSE [d EXCEPT !.index = Set(@, op.id, op.node)]

\* Mutant of SetRootRegister: the value that arrives last wins.
SetRootLastArrival(d, op) ==
  [root |-> op.val, index |-> Collect(d.index, {d.root} \ {op.val})]

\* InsVal on the root: RootNode::set
SetRootRegister(d, op) ==
  IF Less(d.root, op.val)
  THEN [root |-> op.val, index |-> Collect(d.index, {d.root})] ELSE d

\* InsVal on a val node: ValNode::set
SetVal(d, op) ==
  IF Has(d, op.obj, {"val"}) /\ Less(d.index[op.obj].val, op.val)
  THEN LET old == d.index[op.obj]
       IN  UpdateAndCollect(d, op.obj, [old EXCEPT !.val = op.val], {old.val})
  ELSE d

\* Mutant of Put: a value is collected for every key written, won or lost.
PutCollectingAll(d, op) ==
  IF Has(d, op.obj, {"obj", "vec"})
  THEN LET old == d.index[op.obj]
           map == old.map
           wins == {k \in DOMAIN op.entries :
                      k \in DOMAIN map => Less(map[k], op.entries[k])}
       IN  UpdateAndCollect(d, op.obj,
             [old EXCEPT !.map = [k \in DOMAIN map \cup wins |->
                IF k \in wins THEN op.entries[k] ELSE map[k]]],
             {map[k] : k \in DOMAIN op.entries \cap DOMAIN map})
  ELSE d

\* InsObj and InsVec: ObjNode::put or VecNode::put for every entry that is
\* younger than the node, then the values that were replaced are collected.
Put(d, op) ==
  IF Has(d, op.obj, {"obj", "vec"})
  THEN LET old == d.index[op.obj]
           map == old.map
           wins == {k \in DOMAIN op.entries :
                      /\ op.obj.time < op.entries[k].time
                      /\ k \in DOMAIN map => Less(map[k], op.entries[k])}
       IN  UpdateAndCollect(d, op.obj,
             [old EXCEPT !.map = [k \in DOMAIN map \cup wins |->
                IF k \in wins THEN op.entries[k] ELSE map[k]]],
             {map[k] : k \in wins \cap DOMAIN map})
  ELSE d

\* ins of an RGA node: the slots of `content` from op.id on, unless they came
\* before.
Ins(node, after, id, content) ==
  LET fresh == {slot \in Interval(id, Len(content)) : Holding(node.chunks, slot) = {}}
  IN  [node EXCEPT
        !.chunks = Insert(@, after, id, Len(content)),
        !.data = [slot \in DOMAIN @ \cup fresh |->
                    IF slot \in fresh THEN content[slot.time - id.time + 1] ELSE @[slot]]]

\* InsStr and InsBin
InsText(d, op) ==
  IF Has(d, op.obj, {"str", "bin"})
  THEN Update(d, op.obj, Ins(d.index[op.obj], op.after, op.id, op.vals)) ELSE d

\* InsArr: ArrNode::ins of the values that are younger than the node.
InsArr(d, op) ==
  LET vals == SelectSeq(op.vals, LAMBDA val : op.obj.time < val.time)
  IN  IF Has(d, op.obj, {"arr"}) /\ vals # << >>
      THEN Update(d, op.obj, Ins(d.index[op.obj], op.after, op.id, vals)) ELSE d

\* Mutants of UpdArr: the value that arrives last wins; the value that is
\* collected is the new one.
UpdArrLastArrival(d, op) ==
  IF Has(d, op.obj, {"arr"}) /\ op.after \in LiveSlots(d.index[op.obj])
  THEN LET old == d.index[op.obj]
       IN  UpdateAndCollect(d, op.obj, [old EXCEPT !.data[op.after] = op.val],
                            {old.data[op.after]} \ {op.val})
  ELSE d
UpdArrCollectingNew(d, op) ==
  IF /\ Has(d, op.obj, {"arr"})
     /\ op.after \in LiveSlots(d.index[op.obj])
     /\ Less(d.index[op.obj].data[op.after], op.val)
  THEN UpdateAndCollect(d, op.obj,
         [d.index[op.obj] EXCEPT !.data[op.after] = op.val], {op.val})
  ELSE d

\* UpdArr: ArrNode::upd
UpdArr(d, op) ==
  IF /\ Has(d, op.obj, {"arr"})
     /\ op.after \in LiveSlots(d.index[op.obj])
     /\ Less(d.index[op.obj].data[op.after], op.val)
  THEN LET old == d.index[op.obj]
       IN  UpdateAndCollect(d, op.obj, [old EXCEPT !.data[op.after] = op.val],
                            {old.data[op.after]})
  ELSE d

\* Del: the slots go, and with those of an arr the values of all of them.
DelSlots(d, op) ==
  IF Has(d, op.obj, {"str", "bin", "arr"})
  THEN LET node == d.index[op.obj]
           covered == UNION {Interval(Ts(t.sid, t.time), t.span) : t \in ToSet(op.what)}
           old == {node.data[slot] : slot \in covered \cap LiveSlots(node)}
       IN  UpdateAndCollect(d, op.obj, [node EXCEPT !.chunks = Delete(@, op.what)],
                            IF node.kind = "arr" THEN old ELSE {})
  ELSE d

ApplyOperation(d, op) ==
  CASE op.op = "new"     -> Create(d, op)
    [] op.op = "ins_val" -> IF op.obj = Origin THEN SetRootRegister(d, op) ELSE SetVal(d, op)
    [] op.op \in {"ins_obj", "ins_vec"} -> Put(d, op)
    [] op.op \in {"ins_str", "ins_bin"} -> InsText(d, op)
    [] op.op = "ins_arr" -> InsArr(d, op)
    [] op.op = "upd_arr" -> UpdArr(d, op)
    [] op.op = "del"     -> DelSlots(d, op)
    [] op.op = "nop"     -> d

\* apply_patch, for the operations of the patch.
ApplyOps(d, ops) == FoldLeft(ApplyOperation, d, ops)
-----------------------------------------------------------------------------
\* Operations, as PatchBuilder makes them.
New(id, node) == [op |-> "new", id |-> id, node |-> node]
InsVal(id, obj, val) == [op |-> "ins_val", id |-> id, obj |-> obj, val |-> val]
InsObj(id, obj, entries) ==
  [op |-> "ins_obj", id |-> id, obj |-> obj, entries |-> entries]
InsVec(id, obj, entries) ==
  [op |-> "ins_vec", id |-> id, obj |-> obj, entries |-> entries]
InsStr(id, obj, after, letters) ==
  [op |-> "ins_str", id |-> id, obj |-> obj, after |-> after, vals |-> letters]
InsBin(id, obj, after, bytes) ==
  [op |-> "ins_bin", id |-> id, obj |-> obj, after |-> after, vals |-> bytes]
InsArrOp(id, obj, after, vals) ==
  [op |-> "ins_arr", id |-> id, obj |-> obj, after |-> after, vals |-> vals]
UpdArrOp(id, obj, after, val) ==
  [op |-> "upd_arr", id |-> id, obj |-> obj, after |-> after, val |-> val]
Del(id, obj, what) == [op |-> "del", id |-> id, obj |-> obj, what |-> what]
Nop(id, len) == [op |-> "nop", id |-> id, len |-> len]

At(id, n) == Ts(id.sid, id.time + n)

\* Op::span: the timestamps an operation takes.
SpanOf(op) ==
  CASE op.op \in {"ins_str", "ins_bin", "ins_arr"} -> Len(op.vals)
    [] op.op = "nop" -> op.len
    [] OTHER -> 1

\* Patch::next_time, 0 for a patch without operations.
NextTime(ops) ==
  IF ops = << >> THEN 0 ELSE LET op == Last(ops) IN op.id.time + SpanOf(op)

\* The operations `ops` take, in timestamps (none of them has a gap).
TicksOf(ops) == IF ops = << >> THEN 0 ELSE NextTime(ops) - ops[1].id.time
-----------------------------------------------------------------------------
\* CrdtNode::view: the JSON value a node shows.  An obj leaves out keys that
\* hold undefined or nothing; a vec shows null for them.
RECURSIVE ViewOf(_, _)
ViewOf(d, id) ==
  IF id \notin DOMAIN d.index THEN Null
  ELSE LET node == d.index[id]
       IN  CASE node.kind = "con" -> IF node.value = "undefined" THEN Null ELSE node
             [] node.kind = "val" -> ViewOf(d, node.val)
             [] node.kind = "obj" ->
                  LET shown == {k \in DOMAIN node.map :
                        node.map[k] \in DOMAIN d.index /\
                        d.index[node.map[k]] # Con("undefined")}
                  IN  ObjectOf([k \in shown |-> ViewOf(d, node.map[k])])
             [] node.kind = "vec" ->
                  ArrayOf([i \in 1 .. Size(node) |->
                    IF i - 1 \in DOMAIN node.map THEN ViewOf(d, node.map[i - 1]) ELSE Null])
             [] node.kind = "str" -> TextOf([i \in DOMAIN Slots(node) |-> node.data[Slots(node)[i]]])
             [] node.kind = "bin" -> BytesOf([i \in DOMAIN Slots(node) |-> node.data[Slots(node)[i]]])
             [] node.kind = "arr" ->
                  ArrayOf([i \in DOMAIN Slots(node) |-> ViewOf(d, node.data[Slots(node)[i]])])

\* Model::view
ViewOfRoot(d) == ViewOf(d, d.root)

-----------------------------------------------------------------------------
(***************************************************************************)
(* The operations that the editing calls of ModelApi (json_crdt/model/api) *)
(* put in a builder whose next timestamp is `id`.                          *)
(***************************************************************************)
(***************************************************************************)
(* What ModelApi builds for a JSON value: json wraps a scalar in a val     *)
(* node, const_or_json does not.  The first operation creates the node     *)
(* that stands for the value, so the value has the id the building starts  *)
(* at; the values inside are built one after the other behind it.          *)
(***************************************************************************)
\* The keys of a map in the order they are built.
KeySeq(map) == SetToSeq(DOMAIN map)

\* The values built one after the other from `id` on: their operations and
\* the id of each.
Sequence(id, values, Build(_, _)) ==
  FoldLeft(LAMBDA built, value :
             LET start == At(id, TicksOf(built.ops))
             IN  [ops |-> built.ops \o Build(start, value),
                  ids |-> Append(built.ids, start)],
           [ops |-> << >>, ids |-> << >>], values)

RECURSIVE Json(_, _)
Json(id, value) ==
  LET InObject(start, v) == IF v.kind = "con" THEN <<New(start, v)>> ELSE Json(start, v)
  IN
  CASE value.kind = "con" ->
         <<New(id, Val), New(At(id, 1), value), InsVal(At(id, 2), id, At(id, 1))>>
    [] value.kind = "str" ->
         <<New(id, Str)>> \o (IF value.text = << >> THEN << >>
                              ELSE <<InsStr(At(id, 1), id, id, value.text)>>)
    [] value.kind = "arr" ->
         LET built == Sequence(At(id, 1), value.items, Json)
             end == At(id, 1 + TicksOf(built.ops))
         IN  <<New(id, Arr)>> \o built.ops
               \o (IF value.items = << >> THEN << >>
                   ELSE <<InsArrOp(end, id, id, built.ids)>>)
    [] value.kind = "obj" ->
         LET keys == KeySeq(value.map)
             built == Sequence(At(id, 1), [i \in DOMAIN keys |-> value.map[keys[i]]], InObject)
             end == At(id, 1 + TicksOf(built.ops))
             entries == [k \in DOMAIN value.map |->
                           built.ids[CHOOSE i \in DOMAIN keys : keys[i] = k]]
         IN  <<New(id, Obj)>> \o built.ops
               \o (IF keys = << >> THEN << >> ELSE <<InsObj(end, id, entries)>>)

ConstOrJson(id, value) ==
  IF value.kind = "con" THEN <<New(id, value)>> ELSE Json(id, value)
-----------------------------------------------------------------------------
\* The operations of an edit.
SetRootOps(id, value) ==
  LET ops == ConstOrJson(id, value)
  IN  Append(ops, InsVal(At(id, TicksOf(ops)), Origin, id))

ObjSetOps(id, obj, key, value) ==
  LET ops == ConstOrJson(id, value)
  IN  Append(ops, InsObj(At(id, TicksOf(ops)), obj, [k \in {key} |-> id]))

VecSetOps(id, vec, index, value) ==
  LET ops == ConstOrJson(id, value)
  IN  Append(ops, InsVec(At(id, TicksOf(ops)), vec, [i \in {index} |-> id]))

ArrInsOps(id, arr, after, value) ==
  LET ops == Json(id, value)
  IN  Append(ops, InsArrOp(At(id, TicksOf(ops)), arr, after, <<id>>))

ArrUpdOps(id, arr, slot, value) ==
  LET ops == Json(id, value)
  IN  Append(ops, UpdArrOp(At(id, TicksOf(ops)), arr, slot, id))
=============================================================================
