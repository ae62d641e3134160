----------------------------- MODULE JsonPatch ------------------------------
(* JSON Patch on plain values: predicates, operations, the diff and the codecs. *)
EXTENDS Diff
(***************************************************************************)
(* JSON values, paths into them, and the predicates of JSON Patch          *)
(* (json_patch/apply.rs, json_patch/types.rs).  Steps of a path are        *)
(* strings, as in the code.  Numbers are named by what they print: "1" is  *)
(* an integer and "1.0" a float, which are not equal.  The pattern of      *)
(* `matches` is one without special characters.                            *)
(***************************************************************************)
\* A step that parses as an index.
Index == "0" :> 0 @@ "1" :> 1 @@ "2" :> 2 @@ "3" :> 3 @@ "4" :> 4 @@ "5" :> 5
StepOf(i) == CHOOSE step \in DOMAIN Index : Index[step] = i

IsIndexBelow(step, n) == step \in DOMAIN Index /\ Index[step] < n

Missing == [kind |-> "missing"]
Child(v, step) ==
  CASE v.kind = "obj" /\ step \in DOMAIN v.map -> v.map[step]
    [] v.kind = "arr" /\ IsIndexBelow(step, Len(v.items)) -> v.items[Index[step] + 1]
    [] OTHER -> Missing

\* get_at, by the JSON pointer of the path
Get(doc, path) == FoldLeft(Child, doc, path)

\* The document with `v` for the value at `path`, which is there.
RECURSIVE With(_, _, _)
With(doc, path, v) ==
  IF path = << >> THEN v
  ELSE LET step == Head(path)
           child == With(Child(doc, step), Tail(path), v)
       IN  IF doc.kind = "obj" THEN ObjectOf([doc.map EXCEPT ![step] = child])
           ELSE ArrayOf([doc.items EXCEPT ![Index[step] + 1] = child])

Floats == "0.0" :> 0 @@ "1.0" :> 1 @@ "2.0" :> 2 @@ "3.0" :> 3 @@ "4.0" :> 4 @@ "5.0" :> 5
FloatOf(n) == Scalar(CHOOSE f \in DOMAIN Floats : Floats[f] = n)
NumberOf == Index @@ Floats

Booleans == {Scalar("true"), Scalar("false")}
IsText(v) == v.kind = "str"
IsNumber(v) == v.kind = "con" /\ v.value \in DOMAIN NumberOf

Small == "X" :> "x" @@ "Y" :> "y"
Lowered(text) == [i \in DOMAIN text |-> IF text[i] \in DOMAIN Small THEN Small[text[i]] ELSE text[i]]

TypesOf(v) ==
  CASE IsText(v) -> {"string"}
    [] IsNumber(v) -> {"number", "integer"}   \* no number here has a fraction
    [] v \in Booleans -> {"boolean"}
    [] v = Null -> {"null"}
    [] v.kind = "obj" -> {"object"}
    [] v.kind = "arr" -> {"array"}
    [] OTHER -> {}

\* A text, and what is looked for in it.
Looks(op, text, value) ==
  CASE op = "starts" -> IsPrefix(value, text)
    [] op = "ends" -> IsSuffix(value, text)
    [] OTHER -> \E i \in 0 .. Len(text) - Len(value) : SubSeq(text, i + 1, i + Len(value)) = value

\* test_predicate: the predicates in and, or and not start from their value.
\* What is missing satisfies nothing but `undefined`.
RECURSIVE Holds(_, _)
Holds(doc, op) ==
  LET v == Get(doc, op.path)
      Satisfied == {i \in DOMAIN op.apply : Holds(v, op.apply[i])}
      Cased(text) == IF op.ignore_case THEN Lowered(text) ELSE text
  IN  CASE op.op = "undefined" -> v = Missing
        [] op.op # "undefined" /\ v = Missing -> FALSE
        [] op.op = "defined" -> TRUE
        [] op.op = "test" -> (v = op.value) # op.not
        [] op.op \in {"contains", "matches", "starts", "ends"} ->
             IsText(v) /\ Looks(op.op, Cased(v.text), Cased(op.value))
        [] op.op = "in" -> \E i \in DOMAIN op.value : op.value[i] = v
        [] op.op = "less" -> IsNumber(v) /\ NumberOf[v.value] < op.value
        [] op.op = "more" -> IsNumber(v) /\ NumberOf[v.value] > op.value
        [] op.op = "type" -> op.value \in TypesOf(v)
        [] op.op = "test_type" -> \E i \in DOMAIN op.type : op.type[i] \in TypesOf(v)
        [] op.op = "test_string" ->
             /\ IsText(v)
             /\ (/\ Len(v.text) >= op.pos + Len(op.text)
                 /\ SubSeq(v.text, op.pos + 1, op.pos + Len(op.text)) = op.text) # op.not
        [] op.op = "test_string_len" -> IsText(v) /\ (Len(v.text) >= op.len) # op.not
        [] op.op = "and" -> Satisfied = DOMAIN op.apply
        [] op.op = "or" -> Satisfied # {}
        [] op.op = "not" -> Satisfied = {}
        [] OTHER -> FALSE

-----------------------------------------------------------------------------
(***************************************************************************)
(* JSON Patch on plain JSON values (json_patch/apply.rs) and the patch     *)
(* that leads from one value to another (json_patch_diff).  What an        *)
(* operation may leave out is a sequence of at most one element.  An       *)
(* operation that fails may have changed the document before, so an        *)
(* outcome has a document either way.                                      *)
(***************************************************************************)
Ok(doc) == [ok |-> TRUE, doc |-> doc]
Refused(doc) == [ok |-> FALSE, doc |-> doc]

Without(map, key) == [k \in DOMAIN map \ {key} |-> map[k]]
-----------------------------------------------------------------------------
\* One operator per operation: `parent` is what its last step selects from.
Parent(doc, path) == Get(doc, Front(path))
InParent(doc, path, v) == Ok(With(doc, Front(path), v))

ApplyAdd(doc, path, value) ==
  IF path = << >> THEN Ok(value)
  ELSE LET parent == Parent(doc, path)
           key == Last(path)
       IN  CASE parent.kind = "obj" ->
                  InParent(doc, path, ObjectOf(Set(parent.map, key, value)))
             [] parent.kind = "arr" /\ key = "-" ->
                  InParent(doc, path, ArrayOf(Append(parent.items, value)))
             [] parent.kind = "arr" /\ IsIndexBelow(key, Len(parent.items) + 1) ->
                  InParent(doc, path, ArrayOf(InsertAt(parent.items, Index[key] + 1, value)))
             [] OTHER -> Refused(doc)

ApplyRemove(doc, path) ==
  IF path = << >> \/ Get(doc, path) = Missing THEN Refused(doc)
  ELSE LET parent == Parent(doc, path)
           key == Last(path)
       IN  InParent(doc, path,
             IF parent.kind = "obj" THEN ObjectOf(Without(parent.map, key))
             ELSE ArrayOf(RemoveAt(parent.items, Index[key] + 1)))

\* The value goes into an object before its key is found missing.
ApplyReplace(doc, path, value) ==
  CASE path = << >> -> Ok(value)
    [] path # << >> /\ Get(doc, path) # Missing -> Ok(With(doc, path, value))
    [] path # << >> /\ Get(doc, path) = Missing /\ Parent(doc, path).kind = "obj" ->
         Refused(ApplyAdd(doc, path, value).doc)
    [] OTHER -> Refused(doc)

ApplyCopy(doc, path, from) ==
  IF Get(doc, from) = Missing THEN Refused(doc) ELSE ApplyAdd(doc, path, Get(doc, from))

\* What was removed is lost if it cannot be added.
ApplyMove(doc, path, from) ==
  IF IsPrefix(from, path) \/ ~ApplyRemove(doc, from).ok THEN Refused(doc)
  ELSE ApplyAdd(ApplyRemove(doc, from).doc, path, Get(doc, from))

ApplyTest(doc, op) == IF Holds(doc, op) THEN Ok(doc) ELSE Refused(doc)

\* An insertion behind the end goes to the end.
ApplyStrIns(doc, path, pos, text) ==
  LET target == Get(doc, path)
      at == IF pos < Len(target.text) THEN pos ELSE Len(target.text)
  IN  IF target.kind # "str" THEN Refused(doc)
      ELSE Ok(With(doc, path, TextOf(SubSeq(target.text, 1, at) \o text
                                       \o SubSeq(target.text, at + 1, Len(target.text)))))

\* By its text, or else by its length.
ApplyStrDel(doc, path, pos, text, optionalLen) ==
  LET target == Get(doc, path)
      len == CASE text # << >> -> Len(text[1])
               [] text = << >> /\ optionalLen # << >> -> optionalLen[1]
               [] OTHER -> 0
  IN  IF target.kind # "str" \/ pos + len > Len(target.text) THEN Refused(doc)
      ELSE Ok(With(doc, path, TextOf(SubSeq(target.text, 1, pos)
                                       \o SubSeq(target.text, pos + len + 1, Len(target.text)))))

\* What comes of a number is a float.
ApplyInc(doc, path, inc) ==
  LET target == Get(doc, path)
  IN  IF IsNumber(target) THEN Ok(With(doc, path, FloatOf(NumberOf[target.value] + inc)))
      ELSE Refused(doc)

ApplyFlip(doc, path) ==
  LET target == Get(doc, path)
  IN  IF target \in Booleans THEN Ok(With(doc, path, CHOOSE b \in Booleans : b # target))
      ELSE Refused(doc)

Extended(map, props) == props @@ map

ApplyExtend(doc, path, props, deleteNull) ==
  LET target == Get(doc, path)
      gone == {k \in DOMAIN props : deleteNull /\ props[k] = Null}
      all == Extended(target.map, props)
  IN  IF target.kind = "obj" THEN Ok(With(doc, path, ObjectOf(Restrict(all, DOMAIN all \ gone))))
      ELSE Refused(doc)

\* The text at an index of an array is split in two, an object is doubled; the
\* properties go to the right half, which they make an object.
ApplySplit(doc, path, pos, props) ==
  LET v == Get(doc, path)
      parent == Parent(doc, path)
      at == IF pos < Len(v.text) THEN pos ELSE Len(v.text)
      left == IF v.kind = "str" THEN TextOf(SubSeq(v.text, 1, at)) ELSE v
      rest == IF v.kind = "str" THEN TextOf(SubSeq(v.text, at + 1, Len(v.text))) ELSE v
      map == IF v.kind = "str" THEN "text" :> rest ELSE v.map
      right == IF props = << >> THEN rest ELSE ObjectOf(Extended(map, props[1]))
      i == Index[Last(path)] + 1
  IN  IF path = << >> \/ parent.kind # "arr" \/ v.kind \notin {"str", "obj"} THEN Refused(doc)
      ELSE InParent(doc, path,
             ArrayOf(SubSeq(parent.items, 1, i - 1) \o <<left, right>>
                       \o SubSeq(parent.items, i + 1, Len(parent.items))))

\* The neighbour on the right goes away before the two are compared.
ApplyMerge(doc, path) ==
  LET parent == Parent(doc, path)
      i == Index[Last(path)] + 1
      left == parent.items[i]
      right == parent.items[i + 1]
      shorter == ArrayOf(RemoveAt(parent.items, i + 1))
      Merged(v) == InParent(doc, path, ArrayOf([shorter.items EXCEPT ![i] = v]))
  IN  CASE path = << >> -> Refused(doc)
        [] path # << >> /\ ~(/\ parent.kind = "arr"
                             /\ IsIndexBelow(Last(path), Len(parent.items) - 1)) -> Refused(doc)
        [] OTHER ->
             CASE left.kind = "str" /\ right.kind = "str" -> Merged(TextOf(left.text \o right.text))
               [] left.kind = "obj" /\ right.kind = "obj" ->
                    Merged(ObjectOf([k \in DOMAIN left.map \cup DOMAIN right.map |->
                      IF k \in DOMAIN right.map THEN right.map[k] ELSE left.map[k]]))
               [] OTHER -> Refused(With(doc, Front(path), shorter))

\* apply_op
Patched(doc, op) ==
  CASE op.op = "add" -> ApplyAdd(doc, op.path, op.value)
    [] op.op = "remove" -> ApplyRemove(doc, op.path)
    [] op.op = "replace" -> ApplyReplace(doc, op.path, op.value)
    [] op.op = "copy" -> ApplyCopy(doc, op.path, op.from)
    [] op.op = "move" -> ApplyMove(doc, op.path, op.from)
    [] op.op = "str_ins" -> ApplyStrIns(doc, op.path, op.pos, op.text)
    [] op.op = "str_del" -> ApplyStrDel(doc, op.path, op.pos, op.text, op.len)
    [] op.op = "flip" -> ApplyFlip(doc, op.path)
    [] op.op = "inc" -> ApplyInc(doc, op.path, op.inc)
    [] op.op = "extend" -> ApplyExtend(doc, op.path, op.props, op.delete_null)
    [] op.op = "split" -> ApplySplit(doc, op.path, op.pos, op.props)
    [] op.op = "merge" -> ApplyMerge(doc, op.path)
    [] OTHER -> ApplyTest(doc, op)

\* apply_ops stops at the first operation that fails.
PatchedAll(doc, ops) ==
  FoldLeft(LAMBDA r, op : IF r.ok THEN Patched(r.doc, op) ELSE r, Ok(doc), ops)
-----------------------------------------------------------------------------
AddOp(path, value) == [op |-> "add", path |-> path, value |-> value]
RemoveOp(path) == [op |-> "remove", path |-> path, old_value |-> << >>]
ReplaceOp(path, value) == [op |-> "replace", path |-> path, value |-> value, old_value |-> << >>]
StrInsOp(path, pos, text) == [op |-> "str_ins", path |-> path, pos |-> pos, text |-> text]
StrDelOp(path, pos, len) ==
  [op |-> "str_del", path |-> path, pos |-> pos, text |-> << >>, len |-> <<len>>]

\* diff_str of one script: from the first gap between kept letters to the
\* last, at the position in the text as it is by then.
StrPatch(path, src, dst, kept) ==
  LET stops == <<<<0, 0>>>> \o SetToSortSeq(kept, LAMBDA p, q : p[1] < q[1])
                 \o <<<<Len(src) + 1, Len(dst) + 1>>>>
      Gap(g) ==
        LET from == stops[g]
            to == stops[g + 1]
            text == SubSeq(dst, from[2] + 1, to[2] - 1)
            del == to[1] - from[1] - 1
        IN  (IF del = 0 THEN << >> ELSE <<StrDelOp(path, from[2], del)>>)
              \o (IF text = << >> THEN << >> ELSE <<StrInsOp(path, from[2], text)>>)
  IN  FlattenSeq([g \in 1 .. Len(stops) - 1 |-> Gap(g)])

Joined(left, right) == {a \o b : a \in left, b \in right}
JoinedAll(parts) == FoldLeft(Joined, {<< >>}, parts)

RECURSIVE PatchTo(_, _, _)

\* Where the element of the `k`-th step of a walk is by then, and a mutant that
\* forgets what came and went before.
IndexInSource(walk, k) == Cardinality({i \in 1 .. k - 1 : walk[i] \in {"both", "del"}})
IndexByThen(walk, k) == Cardinality({i \in 1 .. k - 1 : walk[i] \in {"both", "ins"}})

\* diff_arr along one walk: an element goes, comes or is patched at the index
\* it has by then.
ArrPatch(path, src, dst, walk) ==
  LET Count(k, steps) == Cardinality({i \in 1 .. k : walk[i] \in steps})
      Step(k) ==
        LET at == Append(path, StepOf(IndexByThen(walk, k)))
            i == Count(k, {"both", "del"})
            j == Count(k, {"both", "ins"})
        IN  CASE walk[k] = "del" -> {<<RemoveOp(at)>>}
              [] walk[k] = "ins" -> {<<AddOp(at, dst[j])>>}
              [] walk[k] = "both" -> PatchTo(at, src[i], dst[j])
  IN  JoinedAll([k \in DOMAIN walk |-> Step(k)])

\* diff_at_path: the patches that make `src` at `path` look like `dst`.
PatchTo(path, src, dst) ==
  CASE src = dst -> {<< >>}
    [] src # dst /\ src.kind = "str" /\ dst.kind = "str" ->
         {StrPatch(path, src.text, dst.text, kept) : kept \in Matchings(src.text, dst.text)}
    [] src # dst /\ src.kind = "obj" /\ dst.kind = "obj" ->
         LET gone == KeySeq(Restrict(src.map, DOMAIN src.map \ DOMAIN dst.map))
             keys == KeySeq(dst.map)
         IN  Joined({[i \in DOMAIN gone |-> RemoveOp(Append(path, gone[i]))]},
               JoinedAll([i \in DOMAIN keys |->
                 LET at == Append(path, keys[i])
                 IN  IF keys[i] \in DOMAIN src.map
                     THEN PatchTo(at, src.map[keys[i]], dst.map[keys[i]])
                     ELSE {<<AddOp(at, dst.map[keys[i]])>>}]))
    [] src # dst /\ src.kind = "arr" /\ dst.kind = "arr" ->
         UNION {ArrPatch(path, src.items, dst.items, walk) :
                  walk \in Walks[Len(src.items), Len(dst.items)]}
    [] OTHER -> {<<ReplaceOp(path, dst)>>}

(***************************************************************************)
(* How a JSON Patch operation is written and read (json_patch/codec/): as  *)
(* an object with the fields of RFC 6902 (json.rs), as an array that       *)
(* begins with an opcode (compact.rs), and as that array in MessagePack    *)
(* (binary.rs); and what validate.rs says of the object.                   *)
(***************************************************************************)
JsonPatchCodecs == {"json", "compact", "binary"}

\* The fields behind the path, in the order of the array.  A flag that is not
\* set and an optional field that is not there are left out, which only the
\* last field may be.
Required(names) == [i \in DOMAIN names |-> [name |-> names[i], kind |-> "required"]]
Flagged(names, flag) == Append(Required(names), [name |-> flag, kind |-> "flag"])
Optional(names, name) == Append(Required(names), [name |-> name, kind |-> "optional"])
Layout ==
  [op \in {"contains", "starts", "ends", "matches"} |-> Flagged(<<"value">>, "ignore_case")]
  @@ [op \in {"add", "in", "less", "more", "type"} |-> Required(<<"value">>)]
  @@ [op \in {"flip", "defined", "undefined"} |-> Required(<< >>)]
  @@ [op \in {"split", "merge"} |-> Optional(<<"pos">>, "props")]
  @@ [op \in {"and", "or", "not"} |-> <<[name |-> "apply", kind |-> "apply"]>>]
  @@ [op \in {"copy", "move"} |-> <<[name |-> "from", kind |-> "path"]>>]
  @@ "remove" :> Optional(<< >>, "old_value")
  @@ "replace" :> Optional(<<"value">>, "old_value")
  @@ "test" :> Flagged(<<"value">>, "not")
  @@ "str_ins" :> Required(<<"pos", "text">>)
  @@ "inc" :> Required(<<"inc">>)
  @@ "extend" :> Flagged(<<"props">>, "delete_null")
  @@ "test_type" :> Required(<<"type">>)
  @@ "test_string" :> Flagged(<<"pos", "text">>, "not")
  @@ "test_string_len" :> Flagged(<<"len">>, "not")

Unreadable == [op |-> "unreadable"]
-----------------------------------------------------------------------------
\* Steps of a path that are digits become numbers, and numbers are read as
\* what they print.
Digits == Index @@ "01" :> 1
Tokens(path) ==
  [i \in DOMAIN path |->
     IF path[i] \in DOMAIN Digits THEN [number |-> Digits[path[i]]] ELSE [text |-> path[i]]]
PathOf(tokens) ==
  [i \in DOMAIN tokens |->
     IF "number" \in DOMAIN tokens[i] THEN StepOf(tokens[i].number) ELSE tokens[i].text]

\* encode_op and op_to_pack_value: the path of a predicate in and, or and not
\* is written without as many steps as its parent's path has, and read behind
\* that path.
IsPredicate(op) ==
  op.op \notin {"add", "remove", "replace", "copy", "move", "str_ins", "str_del", "flip", "inc",
                "split", "merge", "extend"}

RECURSIVE Array(_, _, _)
Array(codec, op, parent) ==
  LET path == IF IsPredicate(op) THEN SubSeq(op.path, Len(parent) + 1, Len(op.path)) ELSE op.path
      Written(field) ==
        CASE field.kind = "required" -> <<op[field.name]>>
          [] field.kind = "optional" -> op[field.name]
          [] field.kind = "flag" -> IF op[field.name] THEN <<1>> ELSE << >>
          [] field.kind = "path" -> <<Tokens(op[field.name])>>
          [] field.kind = "apply" ->
               <<[i \in DOMAIN op.apply |-> Array(codec, op.apply[i], op.path)]>>
      Zero == IF codec = "binary" THEN <<0>> ELSE << >>
  IN  <<op.op, Tokens(path)>> \o
        CASE op.op = "str_del" /\ op.text # << >> -> <<op.pos, op.text[1]>>
          [] op.op = "str_del" /\ op.text = << >> ->
               <<op.pos, 0, IF op.len = << >> THEN Zero ELSE op.len>>
          [] OTHER -> FlattenSeq([i \in DOMAIN Layout[op.op] |-> Written(Layout[op.op][i])])

\* A field that may be missing at the end, and a mutant that never finds it.
NeverAt(array, i) == << >>
MaybeAt(array, i) == IF i <= Len(array) THEN <<array[i]>> ELSE << >>
FlagAt(array, i) == i <= Len(array) /\ array[i] # 0

StrDelOf(array) ==
  [op |-> "str_del", path |-> PathOf(array[2]), pos |-> array[3],
   text |-> IF Len(array) < 5 THEN <<array[4]>> ELSE << >>,
   len |-> IF Len(array) < 5 THEN << >> ELSE array[5]]

\* decode_op and decode_pack_op
RECURSIVE OfArray(_, _)
OfArray(array, parent) ==
  LET layout == Layout[array[1]]
      path == parent \o PathOf(array[2])
      Read(i) ==
        CASE layout[i].kind = "required" -> array[i + 2]
          [] layout[i].kind = "optional" -> MaybeAt(array, i + 2)
          [] layout[i].kind = "flag" -> FlagAt(array, i + 2)
          [] layout[i].kind = "path" -> PathOf(array[i + 2])
          [] layout[i].kind = "apply" ->
               [n \in DOMAIN array[i + 2] |-> OfArray(array[i + 2][n], path)]
  IN  CASE array[1] = "str_del" /\ Len(array) = 5 /\ array[5] = << >> -> Unreadable
        [] array[1] = "str_del" /\ ~(Len(array) = 5 /\ array[5] = << >>) -> StrDelOf(array)
        [] OTHER -> [op |-> array[1], path |-> path]
                    @@ [f \in {layout[i].name : i \in DOMAIN layout} |->
                          Read(CHOOSE i \in DOMAIN layout : layout[i].name = f)]
-----------------------------------------------------------------------------
StrDelLayout ==
  <<[name |-> "pos", kind |-> "required"], [name |-> "text", kind |-> "optional"],
    [name |-> "len", kind |-> "optional"]>>
FieldsOf(name) == IF name = "str_del" THEN StrDelLayout ELSE Layout[name]

\* to_json: the object has the fields that say something.
RECURSIVE ToJson(_)
ToJson(op) ==
  LET fields == FieldsOf(op.op)
      Says(field) ==
        CASE field.kind = "flag" -> op[field.name]
          [] field.kind = "optional" -> op[field.name] # << >>
          [] OTHER -> TRUE
      Written(field) ==
        CASE field.kind = "optional" -> op[field.name][1]
          [] field.kind = "apply" -> [i \in DOMAIN op.apply |-> ToJson(op.apply[i])]
          [] OTHER -> op[field.name]
      FieldNamed(name) == CHOOSE field \in Range(fields) : field.name = name
  IN  [op |-> op.op, path |-> op.path]
      @@ [name \in {field.name : field \in {x \in Range(fields) : Says(x)}} |->
            Written(FieldNamed(name))]

\* from_json
RECURSIVE FromJson(_)
FromJson(json) ==
  LET fields == FieldsOf(json.op)
      Read(field) ==
        LET there == field.name \in DOMAIN json
        IN  CASE field.kind = "flag" -> there /\ json[field.name]
              [] field.kind = "optional" -> IF there THEN <<json[field.name]>> ELSE << >>
              [] field.kind = "apply" -> [i \in DOMAIN json.apply |-> FromJson(json.apply[i])]
              [] OTHER -> json[field.name]
  IN  [op |-> json.op, path |-> json.path]
      @@ [name \in {field.name : field \in Range(fields)} |->
            Read(CHOOSE field \in Range(fields) : field.name = name)]

\* The array in compact JSON and in MessagePack; values survive both.
Compact(op) == Array("compact", op, << >>)
OfCompact(array) == OfArray(array, << >>)
Pack(op) == Array("binary", op, << >>)
OfPack(array) == OfArray(array, << >>)

\* The operation as it arrives.
Carried(codec, op) ==
  CASE codec = "json" -> FromJson(ToJson(op))
    [] codec = "compact" -> OfCompact(Compact(op))
    [] codec = "binary" -> OfPack(Pack(op))

\* The validators of single operations, of an object with the fields of its
\* operation
ValidFields(json) ==
  CASE json.op = "move" -> ~IsStrictPrefix(json.from, json.path)
    [] json.op = "str_del" -> {"text", "len"} \cap DOMAIN json # {}
    [] json.op = "merge" -> json.pos >= 1
    [] json.op = "test_type" -> json.type # << >>
    [] OTHER -> TRUE

\* validate_operation and validate_predicate_operation
RECURSIVE Valid(_, _)
Valid(json, allowMatches) ==
  CASE json.op = "matches" -> allowMatches
    [] json.op \in {"and", "or", "not"} ->
         /\ json.apply # << >>
         /\ \A i \in DOMAIN json.apply : /\ IsPredicate(json.apply[i])
                                         /\ Valid(json.apply[i], allowMatches)
    [] OTHER -> ValidFields(json)
=============================================================================
