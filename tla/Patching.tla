------------------------------ MODULE Patching ------------------------------
(***************************************************************************)
(* JSON Patch on a JSON CRDT model (json_crdt/json_patch_apply.rs), and a  *)
(* JSON value and a model that get the same patches: the model is to show  *)
(* what the value is, operation after operation.  Each operation becomes   *)
(* edits of ModelApi, replace and move two of them.  The state of the      *)
(* model is a record of its document `doc` and the next `time` of its      *)
(* clock; a part of an operation that fails keeps what the parts before it *)
(* did.                                                                    *)
(***************************************************************************)
EXTENDS JsonPatch

CONSTANT Me

ASSUME CrdtPatchAssumption == Me \in Sids

\* unwrap_val, and what find_path does in front of every step
RECURSIVE Unwrapped(_, _)
Unwrapped(d, id) == IF Has(d, id, {"val"}) THEN Unwrapped(d, d.index[id].val) ELSE id

Nowhere == Undefined

\* Mutant of StepTo: a val node is not looked through.
StepToWrapped(d, id, step) ==
  LET node == d.index[id]
  IN  CASE Has(d, id, {"obj"}) /\ step \in DOMAIN node.map -> node.map[step]
        [] Has(d, id, {"arr"}) /\ IsIndexBelow(step, Len(Slots(node))) ->
             node.data[Slots(node)[Index[step] + 1]]
        [] OTHER -> Nowhere

\* One step of find_path
StepTo(d, id, step) ==
  LET at == Unwrapped(d, id)
      node == d.index[at]
  IN  CASE Has(d, at, {"obj"}) /\ step \in DOMAIN node.map -> node.map[step]
        [] Has(d, at, {"arr"}) /\ IsIndexBelow(step, Len(Slots(node))) ->
             node.data[Slots(node)[Index[step] + 1]]
        [] Has(d, at, {"vec"}) /\ step \in DOMAIN Index /\ Index[step] \in DOMAIN node.map ->
             node.map[Index[step]]
        [] OTHER -> Nowhere

\* find_path from the root, and unwrap_val of what it finds
Find(d, path) == Unwrapped(d, FoldLeft(LAMBDA id, step : StepTo(d, id, step), d.root, path))
-----------------------------------------------------------------------------
\* One operator per operation that is one edit: what the edit builds from the
\* model's clock on, [ok, ops].
Start(s) == Ts(Me, s.time)
Fails == Failed(<< >>)

\* Mutant of InsertInArr: behind the slot at `index`
InsertInArrBehind(s, arr, index, value) ==
  LET slots == Slots(s.doc.index[arr])
  IN  IF index > Len(slots) THEN Fails
      ELSE Done(ArrInsOps(Start(s), arr, IF index = Len(slots) THEN arr ELSE slots[index + 1], value))

\* ModelApi::arr_ins: behind the slot before `index`
InsertInArr(s, arr, index, value) ==
  LET slots == Slots(s.doc.index[arr])
  IN  IF index > Len(slots) THEN Fails
      ELSE Done(ArrInsOps(Start(s), arr, IF index = 0 THEN arr ELSE slots[index], value))

CrdtAdd(s, path, value) ==
  IF path = << >> THEN Done(SetRootOps(Start(s), value))
  ELSE LET parent == Find(s.doc, Front(path))
           key == Last(path)
           isArr == Has(s.doc, parent, {"arr"})
       IN  CASE Has(s.doc, parent, {"obj"}) -> Done(ObjSetOps(Start(s), parent, key, value))
             [] isArr /\ key \in DOMAIN Index \cup {"-"} ->
                  InsertInArr(s, parent,
                    IF key = "-" THEN Len(Slots(s.doc.index[parent])) ELSE Index[key], value)
             [] OTHER -> Fails

\* A key stays in its object and holds undefined.
CrdtRemove(s, path) ==
  IF path = << >> THEN Done(SetRootOps(Start(s), Null))
  ELSE LET parent == Find(s.doc, Front(path))
           node == s.doc.index[parent]
           key == Last(path)
       IN  CASE Has(s.doc, parent, {"obj"}) /\ key \in DOMAIN node.map ->
                  Done(<<New(Start(s), Con("undefined")),
                         InsObj(At(Start(s), 1), parent, key :> Start(s))>>)
             [] Has(s.doc, parent, {"arr"}) /\ IsIndexBelow(key, Len(Slots(node))) ->
                  Done(<<Del(Start(s), parent, FindInterval(node.chunks, Index[key], 1))>>)
             [] OTHER -> Fails

\* get_json; what is nowhere has no view.
CrdtGet(s, path) ==
  LET id == Find(s.doc, path) IN IF id \in DOMAIN s.doc.index THEN ViewOf(s.doc, id) ELSE Missing

CrdtTest(s, path, value) ==
  IF CrdtGet(s, path) # Missing /\ CrdtGet(s, path) = value THEN Done(<< >>) ELSE Fails

CrdtStrIns(s, path, pos, text) ==
  LET id == Find(s.doc, path)
      slots == Slots(s.doc.index[id])
  IN  IF ~Has(s.doc, id, {"str"}) \/ text = << >> \/ pos > Len(slots) THEN Fails
      ELSE Done(<<InsStr(Start(s), id, IF pos = 0 THEN id ELSE slots[pos], text)>>)

\* By its length, or else by its text; a deletion is cut at the end of the text.
CrdtStrDel(s, op) ==
  LET path == op.path
      pos == op.pos
      len == CASE "len" \in DOMAIN op -> op.len
               [] "len" \notin DOMAIN op /\ "text" \in DOMAIN op -> Len(op.text)
               [] OTHER -> 0
      id == Find(s.doc, path)
      node == s.doc.index[id]
      rest == Len(Slots(node)) - pos
      n == IF len < rest THEN len ELSE rest
  IN  CASE ~Has(s.doc, id, {"str"}) -> Fails
        [] Has(s.doc, id, {"str"}) /\ n <= 0 -> Done(<< >>)
        [] OTHER -> Done(<<Del(Start(s), id, FindInterval(node.chunks, pos, n))>>)

Built(s, op) ==
  CASE op.op = "add" -> CrdtAdd(s, op.path, op.value)
    [] op.op = "remove" -> CrdtRemove(s, op.path)
    [] op.op = "test" -> CrdtTest(s, op.path, op.value)
    [] op.op = "str_ins" -> CrdtStrIns(s, op.path, op.pos, op.text)
    [] op.op = "str_del" -> CrdtStrDel(s, op)
    [] OTHER -> Fails

\* ModelApi::apply of what was built
Edited(s, built) ==
  [ok |-> built.ok, doc |-> ApplyOps(s.doc, built.ops), time |-> Larger(s.time, NextTime(built.ops))]
-----------------------------------------------------------------------------
\* The operations that others make up, in this order.
Nothing == <<[op |-> "invalid"]>>

CrdtReplace(path, value) == <<RemoveOp(path), AddOp(path, value)>>

\* Mutant of CrdtCopy: a move
CrdtCopyByMove(s, path, from) == <<RemoveOp(from), AddOp(path, CrdtGet(s, from))>>

CrdtCopy(s, path, from) ==
  IF CrdtGet(s, from) = Missing THEN Nothing ELSE <<AddOp(path, CrdtGet(s, from))>>

\* Mutant of CrdtMove: the value comes before it goes.
CrdtMoveEarly(s, path, from) ==
  IF (IsPrefix(from, path) /\ from # path) \/ CrdtGet(s, from) = Missing THEN Nothing
  ELSE <<AddOp(path, CrdtGet(s, from)), RemoveOp(from)>>

CrdtMove(s, path, from) ==
  IF (IsPrefix(from, path) /\ from # path) \/ CrdtGet(s, from) = Missing THEN Nothing
  ELSE <<RemoveOp(from), AddOp(path, CrdtGet(s, from))>>

Parts(s, op) ==
  CASE op.op = "replace" -> CrdtReplace(op.path, op.value)
    [] op.op = "copy" -> CrdtCopy(s, op.path, op.from)
    [] op.op = "move" -> CrdtMove(s, op.path, op.from)
    [] OTHER -> <<op>>

\* apply_op
CrdtPatched(s, op) ==
  FoldLeft(LAMBDA r, part : IF r.ok THEN Edited(r, Built(r, part)) ELSE r,
           [ok |-> TRUE, doc |-> s.doc, time |-> s.time], Parts(s, op))

\* JsonPatch::apply: what came before the operation that fails stays.
CrdtPatchedAll(s, ops) ==
  FoldLeft(LAMBDA r, op : IF r.ok THEN CrdtPatched(r, op) ELSE r,
           [ok |-> TRUE, doc |-> s.doc, time |-> s.time], ops)

-----------------------------------------------------------------------------
CONSTANTS Documents,   \* the values to start from
          Targets,     \* values that a diff leads to
          Paths, Sources, Values, Texts,
          MaxSteps     \* the bound on operations

VARIABLES json,        \* the value
          model,       \* the document and the time of the model
          steps        \* how many operations were applied

vars == <<json, model, steps>>

\* The operations that have one meaning for values and models alike, and those
\* that only values know: predicates on a text, a number or anything, and more
\* edits.
Ops ==
  LET Pos == 0 .. 2
      Deletion(p, pos, text, len) ==
        [op |-> "str_del", path |-> p, pos |-> pos, text |-> text, len |-> len]
      Lengths == {<<1>>, <<2>>}
      Test(p, v, not) == [op |-> "test", path |-> p, value |-> v, not |-> not]
  IN  {AddOp(p, v) : p \in Paths, v \in Values}
        \cup {RemoveOp(p) : p \in Paths}
        \cup {ReplaceOp(p, v) : p \in Paths, v \in Values}
        \cup {[op |-> o, path |-> p, from |-> q] : o \in {"move", "copy"}, p \in Paths, q \in Sources}
        \cup {Test(p, v, FALSE) : p \in Paths, v \in Values}
        \cup {StrInsOp(p, pos, t) : p \in Paths, pos \in Pos, t \in Texts}
        \cup {Deletion(p, pos, << >>, len) : p \in Paths, pos \in Pos, len \in Lengths}
        \cup {Deletion(p, pos, <<t>>, << >>) : p \in Paths, pos \in Pos, t \in Texts}

Conditions ==
  LET Asked(name, p, v, cased) == [op |-> name, path |-> p, value |-> v, ignore_case |-> cased]
      With1(name, p, v) == [op |-> name, path |-> p, value |-> v]
      Simple == [op : {"defined", "undefined"}, path : Paths]
      Both(p, not) ==
        <<[op |-> "defined", path |-> p], [op |-> "test", path |-> p, value |-> Scalar("1"), not |-> not]>>
  IN  Simple
        \cup {Asked(name, p, t, cased) : name \in {"contains", "starts", "ends", "matches"},
                                          p \in Paths, t \in Texts, cased \in BOOLEAN}
        \cup {[op |-> "test", path |-> p, value |-> v, not |-> TRUE] : p \in Paths, v \in Values}
        \cup {With1(name, p, 1) : name \in {"less", "more"}, p \in Paths}
        \cup {With1("in", p, <<Scalar("1"), v>>) : p \in Paths, v \in Values}
        \cup {With1("type", p, type) : p \in Paths, type \in {"string", "integer", "array"}}
        \cup {[op |-> "test_type", path |-> p, type |-> types] :
                p \in Paths, types \in {<<"null", "object">>}}
        \cup {[op |-> "test_string", path |-> p, pos |-> pos, text |-> t, not |-> not] :
                p \in Paths, pos \in 0 .. 1, t \in Texts, not \in BOOLEAN}
        \cup {[op |-> "test_string_len", path |-> p, len |-> 1, not |-> not] :
                p \in Paths, not \in BOOLEAN}
        \cup {[op |-> name, path |-> from, apply |-> Both(p, not)] :
                name \in {"and", "or", "not"}, from \in Sources, p \in Paths, not \in BOOLEAN}

Edits ==
  LET Props == {"b" :> Null @@ "c" :> Scalar("1")}
  IN  [op : {"flip"}, path : Paths]
        \cup [op : {"str_del"}, path : Paths, pos : {0}, text : {<< >>, <<<<"x">>>>}, len : {<< >>, <<2>>}]
        \cup [op : {"inc"}, path : Paths, inc : {1}]
        \cup [op : {"extend"}, path : Paths, props : Props, delete_null : BOOLEAN]
        \cup [op : {"split", "merge"}, path : Paths, pos : {0, 1}, props : {<< >>} \cup {<<p>> : p \in Props}]

Init ==
  /\ json \in Documents
  /\ model = [doc |-> ApplyOps(Empty, SetRootOps(Ts(Me, 1), json)),
              time |-> NextTime(SetRootOps(Ts(Me, 1), json))]
  /\ steps = 0

\* An operation that both accept: the value gets it from a codec, the model as
\* the object that to_json makes of it.
Patch(op) ==
  /\ steps < MaxSteps
  /\ \E carried \in {Carried(codec, op) : codec \in JsonPatchCodecs} :
     \E r \in {Patched(json, carried)}, s \in {CrdtPatched(model, ToJson(op))} :
       /\ r.ok /\ s.ok
       /\ json' = r.doc
       /\ model' = [doc |-> s.doc, time |-> s.time]
  /\ steps' = steps + 1

Objects(ops) == [i \in DOMAIN ops |-> ToJson(ops[i])]

\* The whole patch of a diff.
PatchToward(target) ==
  /\ steps < MaxSteps
  /\ \E ops \in PatchTo(<< >>, json, target) \ {<< >>} :
       \E r \in {PatchedAll(json, ops)}, s \in {CrdtPatchedAll(model, Objects(ops))} :
         /\ r.ok
         /\ json' = r.doc
         /\ model' = [doc |-> s.doc, time |-> s.time]
  /\ steps' = steps + 1

Stop == steps = MaxSteps /\ UNCHANGED vars

Next ==
  \/ \E op \in Ops : Patch(op)
  \/ \E target \in Targets : PatchToward(target)
  \/ Stop

Spec == Init /\ [][Next]_vars
-----------------------------------------------------------------------------
\* The model shows the value, whatever operations and diffs came before.
ShowsJson == ViewOfRoot(model.doc) = json

\* A key on the way was removed from its object, which the model still has.
ThroughRemoved(path) ==
  \E n \in 1 .. Len(path) :
    LET id == Find(model.doc, SubSeq(path, 1, n))
    IN  id \in DOMAIN model.doc.index /\ model.doc.index[id] = Con("undefined")

\* Where json_patch_apply.rs departs from json_patch/apply.rs on purpose:
\* removing the root leaves null, a value may be moved to where it is, text
\* insertions are not moved to the end and deletions are cut there, and what
\* a removed key shows is null.
Departs(op) ==
  \/ op.op = "remove" /\ op.path = << >>
  \/ op.op = "move" /\ (op.from = op.path \/ op.from = << >>)
  \/ op.op \in {"str_ins", "str_del"}
  \/ ThroughRemoved(op.path)
  \/ op.op \in {"move", "copy"} /\ ThroughRemoved(op.from)

\* Both accept the same operations, and come to the same by those that both
\* accept, also by one that departs.
AgreesWithValues ==
  \A op \in Ops : \A r \in {Patched(json, op)}, s \in {CrdtPatched(model, ToJson(op))} :
    /\ ~Departs(op) => (r.ok <=> s.ok)
    /\ r.ok /\ s.ok => ViewOfRoot(s.doc) = r.doc

\* Where the array forms lose something: paths inside and, or and not, which
\* they take for paths from the root, as apply.rs does not.
Misread(op) == op.op \in {"and", "or", "not"} /\ op.path # << >>

\* What arrives in another shape, of the operations that validate.rs lets pass.
Arrivals(ops) ==
  LET sound == {op \in ops : Valid(ToJson(op), TRUE) /\ ~Misread(op)}
      changed == {a \in sound \X JsonPatchCodecs : Carried(a[2], a[1]) # a[1]}
  IN  {[sent |-> a[1], read |-> Carried(a[2], a[1])] : a \in changed}
AllArrivals == Arrivals(Ops) \cup Arrivals(Conditions) \cup Arrivals(Edits)

\* An operation does the same to a value whichever codec it came through.
CodecsAgree ==
  \A a \in AllArrivals : Patched(json, a.read) = Patched(json, a.sent)

\* An operation that fails leaves the model as it was, but for a move, which
\* has removed the value already when it finds no place for it.
FailuresLeaveNothing ==
  \A op \in Ops : \A s \in {CrdtPatched(model, ToJson(op))} :
    ~s.ok => \/ s.doc = model.doc
             \/ op.op = "move" /\ s.doc = CrdtPatched(model, RemoveOp(op.from)).doc

\* A diff of two values leads from one to the other, applied to the value and
\* to the model: every operation finds what the operations before it left.
DiffReaches ==
  \A target \in Targets : \A ops \in PatchTo(<< >>, json, target) :
    /\ PatchedAll(json, ops) = Ok(target)
    /\ \A s \in {CrdtPatchedAll(model, Objects(ops))} : s.ok /\ ViewOfRoot(s.doc) = target
=============================================================================
