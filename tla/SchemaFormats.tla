--------------------------- MODULE SchemaFormats ----------------------------
(* Formats of json-pack that both ends know a schema of: Avro, XDR and the
   messages of ONC RPC. *)
EXTENDS PackValues

(* Apache Avro: AvroSchemaEncoder, AvroSchemaDecoder and the validator both   *)
(* ask first. A schema is a record whose field t names its type; the name of  *)
(* a record, an enum or a fixed is its full name. Values are AvroValues: the  *)
(* kinds of PackValues, "long" and "double" beside "int" and "float" (an f32),*)
(* "record" and "map" (pairs), "enum" (symbol), "fixed" and "union". A number *)
(* in variable length is one token, <<"var", n>>.                             *)
Numeric(v) == v.k \in {"int", "long", "float", "double"}
Whole(v) == v.k \in {"int", "long"}
NamedTypes == {"record", "enum", "fixed"}
Primitives == {"null", "boolean", "int", "long", "float", "double", "bytes", "string"}
AvroField(v, name) == SelectSeq(v.pairs, LAMBDA p : p[1] = name)

---------------------------------------------------------------------------
\* AvroSchemaValidator

\* The full names known after a schema, or {"invalid"}: a name is declared once
\* and referred to after it was. Children a schema looks at, in their order.
ChildrenOf(s) ==
  CASE s.t = "record" -> [i \in DOMAIN s.fields |-> s.fields[i].type]
    [] s.t = "union" -> s.types
    [] s.t = "array" -> <<s.items>>
    [] s.t = "map" -> <<s.values>>
    [] OTHER -> << >>
TypeName(s) == IF s.t = "ref" THEN s.name ELSE s.t
AllDiffer(seq) == Cardinality(ToSet(seq)) = Len(seq)
RECURSIVE NamesAfter(_, _)
NamesAfter(named, s) ==
  LET own == IF s.t \in NamedTypes THEN {s.name} ELSE {}
      after == FoldLeft(LAMBDA known, child : IF known = {"invalid"} THEN known ELSE NamesAfter(known, child),
                        named \cup own, ChildrenOf(s))
      valid == CASE s.t = "ref" -> s.name \in Primitives \cup named
                 [] s.t = "union" -> s.types # << >> /\ AllDiffer([i \in DOMAIN s.types |-> TypeName(s.types[i])])
                 [] s.t = "record" -> AllDiffer([i \in DOMAIN s.fields |-> s.fields[i].name])
                 [] s.t = "enum" -> /\ s.symbols # << >> /\ AllDiffer(s.symbols)
                                    /\ s.default \in ToSet(s.symbols) \cup {"none"}
                 [] OTHER -> TRUE
  IN  IF valid /\ own \cap named = {} THEN after ELSE {"invalid"}
ValidSchema(s) == NamesAfter({}, s) # {"invalid"}

\* collect_named: every declared type by its name
RECURSIVE Declared(_)
Declared(s) ==
  (IF s.t \in NamedTypes THEN {s} ELSE {})
    \cup UNION {Declared(ChildrenOf(s)[i]) : i \in DOMAIN ChildrenOf(s)}
HasName(types, name) == \E t \in types : t.name = name
Resolved(types, s) == IF s.t = "ref" /\ HasName(types, s.name) THEN CHOOSE t \in types : t.name = s.name ELSE s
\* the validator knows a primitive type by its name too
Named(types, s) == IF s.t = "ref" /\ s.name \in Primitives THEN [t |-> s.name] ELSE Resolved(types, s)

\* validate_value_against_schema: numbers are compared as f64s; a default is
\* taken for valid
RECURSIVE Conforms(_, _, _)
Conforms(types, v, s) ==
  LET number == IF Whole(v) THEN AsFloat(v.n) ELSE [k |-> "float", f |-> v.f]
  IN  CASE s.t = "union" -> IF v.k = "union" THEN v.index < Len(s.types) /\ Conforms(types, v.val, Named(types, s.types[v.index + 1]))
                            ELSE \E i \in DOMAIN s.types : Conforms(types, v, Named(types, s.types[i]))
        [] s.t \in {"null", "enum", "array", "map", "fixed", "bytes", "record"} /\ v.k # s.t -> FALSE
        [] s.t = "boolean" -> v.k = "bool"
        [] s.t = "string" -> v.k = "str"
        [] s.t = "int" -> Numeric(v) /\ Integral(number) /\ Fits(number.f \div 2, 31)
        [] s.t = "long" -> Numeric(v) /\ Integral(number)
        [] s.t \in {"float", "double"} -> Numeric(v)
        [] s.t = "record" -> \A i \in DOMAIN s.fields :
             LET f == AvroField(v, s.fields[i].name)
             IN  IF f = << >> THEN s.fields[i].default # << >> ELSE Conforms(types, f[1][2], Named(types, s.fields[i].type))
        [] s.t = "enum" -> v.symbol \in ToSet(s.symbols)
        [] s.t = "array" -> \A i \in DOMAIN v.items : Conforms(types, v.items[i], Named(types, s.items))
        [] s.t = "map" -> \A i \in DOMAIN v.pairs : Conforms(types, v.pairs[i][2], Named(types, s.values))
        [] s.t = "fixed" -> Len(v.bytes) = s.size
        [] s.t = "ref" -> FALSE
        [] OTHER -> TRUE

---------------------------------------------------------------------------
\* AvroEncoder, and AvroSchemaEncoder's write_value: what is written before a
\* value is refused stays written.
Var(n) == <<<<"var", n>>>>
ZigZag(n) == IF n >= 0 THEN 2 * n ELSE -2 * n - 1
ZagZig(m) == IF m % 2 = 0 THEN m \div 2 ELSE -((m + 1) \div 2)
\* the nearest f32, in halves
NearestF32(f) ==
  LET In(x) == f <= Limit(24) * x /\ -f <= Limit(24) * x
      s == CHOOSE x \in {2 ^ i : i \in 0 .. 12} : In(x) /\ (x = 1 \/ ~In(x \div 2))
  IN  s * ((f + s \div 2) \div s)
AsDouble(v) == IF Whole(v) THEN AsFloat(v.n).f ELSE v.f
AvroStr(t) == Var(Len(Utf8(t))) \o Raw(Utf8(t))

\* value_matches_schema: what a value is written as, without its index
RECURSIVE Matches(_, _, _)
Matches(types, v, s) ==
  CASE s.t = "union" -> IF v.k = "union" THEN v.index < Len(s.types) /\ Matches(types, v.val, Resolved(types, s.types[v.index + 1]))
                        ELSE \E i \in DOMAIN s.types : Matches(types, v, Resolved(types, s.types[i]))
    [] s.t \in {"null", "enum", "array", "map", "fixed", "bytes", "record"} /\ v.k # s.t -> FALSE
    [] s.t = "boolean" -> v.k = "bool"
    [] s.t = "string" -> v.k = "str"
    [] s.t = "int" -> Whole(v) /\ Fits(v.n, 31)
    [] s.t = "long" -> Whole(v)
    [] s.t \in {"float", "double"} -> Numeric(v)
    [] s.t = "record" -> \A i \in DOMAIN s.fields :
         LET f == AvroField(v, s.fields[i].name)
         IN  IF f = << >> THEN s.fields[i].default # << >> ELSE Matches(types, f[1][2], Resolved(types, s.fields[i].type))
    [] s.t = "enum" -> v.symbol \in ToSet(s.symbols)
    [] s.t = "array" -> \A i \in DOMAIN v.items : Matches(types, v.items[i], Resolved(types, s.items))
    [] s.t = "map" -> \A i \in DOMAIN v.pairs : Matches(types, v.pairs[i][2], Resolved(types, s.values))
    [] s.t = "fixed" -> Len(v.bytes) = s.size
    [] OTHER -> s.t # "ref"

RECURSIVE Written(_, _, _)
\* write_value; a default stands for a missing field
Written(types, v, s) ==
  LET Each(n, W(_)) == FoldLeft(LAMBDA w, i : Following(w, W(i)), Wrote(<< >>), [i \in 1 .. n |-> i])
      FieldValue(i) == LET f == AvroField(v, s.fields[i].name) IN IF f = << >> THEN s.fields[i].default ELSE <<f[1][2]>>
  IN  CASE s.t = "union" /\ v.k = "union" ->
             IF v.index < Len(s.types) THEN Adding(Var(ZigZag(v.index)), Written(types, v.val, Resolved(types, s.types[v.index + 1])))
             ELSE Refused
        [] s.t = "union" /\ v.k # "union" ->
             LET fits == SelectSeq([j \in DOMAIN s.types |-> j], LAMBDA j : Matches(types, v, Resolved(types, s.types[j])))
             IN  IF fits = << >> THEN Refused
                 ELSE Adding(Var(ZigZag(fits[1] - 1)), Written(types, v, Resolved(types, s.types[fits[1]])))
        [] s.t \in {"null", "enum", "array", "map", "fixed", "bytes", "record"} /\ v.k # s.t -> Refused
        [] s.t = "null" -> Wrote(<< >>)
        [] s.t = "boolean" -> IF v.k = "bool" THEN Wrote(Var(IF v.b THEN 1 ELSE 0)) ELSE Refused
        [] s.t = "int" -> IF Whole(v) /\ Fits(v.n, 31) THEN Wrote(Var(ZigZag(v.n))) ELSE Refused
        [] s.t = "long" -> IF Whole(v) THEN Wrote(Var(ZigZag(v.n))) ELSE Refused
        [] s.t = "float" -> IF Numeric(v) THEN Wrote(<<<<"float", 32, NearestF32(AsDouble(v))>>>>) ELSE Refused
        [] s.t = "double" -> IF Numeric(v) THEN Wrote(<<<<"float", 64, AsDouble(v)>>>>) ELSE Refused
        [] s.t = "bytes" -> Wrote(Var(Len(v.bytes)) \o Raw(v.bytes))
        [] s.t = "string" -> IF v.k = "str" THEN Wrote(AvroStr(v.text)) ELSE Refused
        [] s.t = "record" -> Each(Len(s.fields), LAMBDA i :
             IF FieldValue(i) = << >> THEN Refused ELSE Written(types, FieldValue(i)[1], Resolved(types, s.fields[i].type)))
        [] s.t = "enum" -> IF Contains(s.symbols, v.symbol)
             THEN Wrote(Var(ZigZag((CHOOSE i \in DOMAIN s.symbols : s.symbols[i] = v.symbol) - 1))) ELSE Refused
        [] s.t = "array" -> Following(Adding(Var(Len(v.items)), Each(Len(v.items), LAMBDA i : Written(types, v.items[i], Resolved(types, s.items)))),
                                      Wrote(Var(0)))
        [] s.t = "map" -> Following(Adding(Var(Len(v.pairs)), Each(Len(v.pairs), LAMBDA i :
                                      Adding(AvroStr(v.pairs[i][1]), Written(types, v.pairs[i][2], Resolved(types, s.values))))),
                                    Wrote(Var(0)))
        [] s.t = "fixed" -> IF Len(v.bytes) = s.size THEN Wrote(Raw(v.bytes)) ELSE Refused
        [] OTHER -> Refused
\* encode: checked, then written; flush only comes after success
AvroEncode(s, v) ==
  LET types == Declared(s)
  IN  IF ValidSchema(s) /\ Conforms(types, v, Named(types, s)) THEN Written(types, v, Resolved(types, s)) ELSE Refused

---------------------------------------------------------------------------
\* AvroDecoder: five bytes hold 35 bits of a u32, ten all of a u64
TakeVar(tokens, w) ==
  IF tokens = << >> \/ tokens[1][1] # "var" \/ (w = 32 /\ tokens[1][2] > Limit(40)) THEN Fail
  ELSE Got(AsUnsigned(tokens[1][2], w), Tail(tokens))
TakeCounted(tokens, Take(_, _)) == Then(TakeVar(tokens, 32), LAMBDA n, rest : Take(rest, n))
TakeAvroString(tokens) == TakeCounted(tokens, TakeText)
TakeAvroKey(tokens) == Then(TakeAvroString(tokens), LAMBDA key, rest : IF key = Proto THEN Fail ELSE Got(key, rest))
\* read_array_value, read_map_value: blocks of items until one is empty
ReadBlocks(Item(_), tokens) ==
  LET Ended(at) == at # << >> /\ TakeVar(at, 32) = Got(0, Tail(at))
  IN  As(Until(Ended, tokens, LAMBDA at : TakeCounted(at, LAMBDA rest, n : Many(n, rest, Item))), FlattenSeq)
\* an index among so many
TakeIndex(n, tokens) ==
  Then(TakeVar(tokens, 32), LAMBDA m, rest : IF ZagZig(m) \in 0 .. n - 1 THEN Got(ZagZig(m), rest) ELSE Fail)

\* read_value of AvroSchemaDecoder; a reference that no type has is an error
RECURSIVE ReadValue(_, _, _)
ReadValue(types, s, tokens) ==
  LET Counted(k) == As(TakeVar(tokens, IF k = "long" THEN 64 ELSE 32), LAMBDA m : [k |-> k, n |-> ZagZig(m)])
      Child(child, at) == ReadValue(types, Resolved(types, child), at)
      Fields == FoldLeft(LAMBDA r, field : Then(r, LAMBDA pairs, rest :
                           As(Child(field.type, rest), LAMBDA v : Append(pairs, <<field.name, v>>))),
                         Got(<< >>, tokens), s.fields)
  IN  CASE s.t = "null" -> Got(Null, tokens)
        [] s.t = "boolean" -> As(TakeVar(tokens, 32), LAMBDA b : Bool(b # 0))
        [] s.t \in {"int", "long"} -> Counted(s.t)
        [] s.t = "float" -> As(TakeFloat(tokens, 32), LAMBDA f : [k |-> "float", f |-> f])
        [] s.t = "double" -> As(TakeFloat(tokens, 64), LAMBDA f : [k |-> "double", f |-> f])
        [] s.t = "bytes" -> As(TakeCounted(tokens, TakeRaw), Bytes)
        [] s.t = "string" -> As(TakeAvroString(tokens), Str)
        [] s.t = "record" -> As(Fields, LAMBDA pairs : [k |-> "record", pairs |-> pairs])
        [] s.t = "enum" -> As(TakeIndex(Len(s.symbols), tokens), LAMBDA i : [k |-> "enum", symbol |-> s.symbols[i + 1]])
        [] s.t = "array" -> As(ReadBlocks(LAMBDA at : Child(s.items, at), tokens), Arr)
        [] s.t = "map" -> As(ReadBlocks(LAMBDA at : Pairing(TakeAvroKey, LAMBDA v : Child(s.values, v), at), tokens),
                             LAMBDA pairs : [k |-> "map", pairs |-> pairs])
        [] s.t = "fixed" -> As(TakeRaw(tokens, s.size), LAMBDA b : [k |-> "fixed", bytes |-> b])
        [] s.t = "union" -> Then(TakeIndex(Len(s.types), tokens), LAMBDA i, rest :
             As(Child(s.types[i + 1], rest), LAMBDA v : [k |-> "union", index |-> i, val |-> v]))
        [] OTHER -> Fail
AvroRead(s, tokens) == IF ValidSchema(s) THEN ReadValue(Declared(s), Resolved(Declared(s), s), tokens) ELSE Fail

-----------------------------------------------------------------------------
(* XDR: XdrSchemaEncoder, XdrSchemaDecoder and XdrSchemaValidator. A schema   *)
(* is a record whose field t names its type. A maximal size is a number, or   *)
(* `None`. Values are XdrValues: "int" and "uint" of 32 bits, "hyper" and     *)
(* "uhyper" of 64, "float", "double", "bool", "bytes", "str", "array",        *)
(* "struct" (pairs), "union" (disc, val), "optional" (val, of at most one     *)
(* element) and "enum" (name). A discriminant is <<"int", n>>, <<"bool", b>>  *)
(* or <<"str", t>>.                                                           *)
None == -1
WithinMax(n, max) == max = None \/ n <= max

---------------------------------------------------------------------------
\* XdrSchemaValidator
Differ(seq) == Cardinality(ToSet(seq)) = Len(seq)
RECURSIVE XdrValidSchema(_), XdrConforms(_, _)
XdrValidSchema(s) ==
  CASE s.t = "enum" -> Differ([i \in DOMAIN s.entries |-> s.entries[i][2]])
    [] s.t \in {"array", "varray", "optional"} -> XdrValidSchema(s.of)
    [] s.t = "struct" -> /\ Differ([i \in DOMAIN s.fields |-> s.fields[i][1]])
                         /\ \A i \in DOMAIN s.fields : XdrValidSchema(s.fields[i][2])
    [] s.t = "union" -> /\ s.arms # << >> /\ Differ([i \in DOMAIN s.arms |-> s.arms[i][1]])
                        /\ \A i \in DOMAIN s.arms : XdrValidSchema(s.arms[i][2])
                        /\ \A d \in ToSet(s.default) : XdrValidSchema(d)
    [] OTHER -> TRUE
\* the kind of value a type asks for
KindOf(t) ==
  CASE t \in {"opaque", "vopaque"} -> "bytes" [] t = "varray" -> "array" [] t = "quadruple" -> "double" [] OTHER -> t
\* The first element that has the key, and the schema of an arm: of the
\* discriminant, or the default; none, or one.
Keyed(seq, Is(_)) == SelectSeq(seq, LAMBDA e : Is(e[1]))
ArmOf(s, Is(_)) == LET found == Keyed(s.arms, Is) IN IF found # << >> THEN <<found[1][2]>> ELSE s.default
XdrConforms(v, s) ==
  IF s.t = "const" THEN TRUE
  ELSE IF v.k # KindOf(s.t) THEN FALSE
  ELSE CASE s.t = "enum" -> \E i \in DOMAIN s.entries : s.entries[i][1] = v.name
         [] s.t = "opaque" -> Len(v.bytes) = s.size
         [] s.t = "vopaque" -> WithinMax(Len(v.bytes), s.max)
         [] s.t = "str" -> WithinMax(Len(Utf8(v.text)), s.max)
         [] s.t = "array" -> Len(v.items) = s.size /\ \A i \in DOMAIN v.items : XdrConforms(v.items[i], s.of)
         [] s.t = "varray" -> WithinMax(Len(v.items), s.max) /\ \A i \in DOMAIN v.items : XdrConforms(v.items[i], s.of)
         [] s.t = "struct" -> \A i \in DOMAIN s.fields :
              LET f == Keyed(v.pairs, LAMBDA name : name = s.fields[i][1])
              IN  f # << >> /\ XdrConforms(f[1][2], s.fields[i][2])
         [] s.t = "union" -> LET arm == ArmOf(s, LAMBDA d : d = v.disc) IN arm # << >> /\ XdrConforms(v.val, arm[1])
         [] s.t = "optional" -> v.val # << >> => XdrConforms(v.val[1], s.of)
         [] OTHER -> TRUE

---------------------------------------------------------------------------
\* XdrEncoder: data fills words of four bytes
Padding(n) == [i \in 1 .. ((4 - (n % 4)) % 4) |-> <<"byte", "00">>]
Opaque(bytes) == Raw(bytes) \o Padding(Len(bytes))
U32(n) == <<<<"num", 32, AsUnsigned(n, 32)>>>>
VarOpaque(bytes) == U32(Len(bytes)) \o Opaque(bytes)

\* write_value: what is written before a value is refused stays written.
RECURSIVE XdrWritten(_, _)
XdrWritten(v, s) ==
  LET Each(n, W(_)) == FoldLeft(LAMBDA w, i : Following(w, W(i)), Wrote(<< >>), [i \in 1 .. n |-> i])
      Items == Each(Len(v.items), LAMBDA i : XdrWritten(v.items[i], s.of))
      Bit(b) == U32(IF b THEN 1 ELSE 0)
  IN  IF s.t \in {"void", "const"} THEN Wrote(<< >>)
      ELSE IF s.t = "quadruple" \/ v.k # KindOf(s.t) THEN Refused
      ELSE CASE s.t \in {"int", "uint"} -> Wrote(U32(v.n))
             [] s.t \in {"hyper", "uhyper"} -> Wrote(<<<<"num", 64, AsUnsigned(v.n, 64)>>>>)
             [] s.t = "float" -> Wrote(<<<<"float", 32, v.f>>>>)
             [] s.t = "double" -> Wrote(<<<<"float", 64, v.f>>>>)
             [] s.t = "bool" -> Wrote(Bit(v.b))
             [] s.t = "enum" -> LET e == Keyed(s.entries, LAMBDA name : name = v.name)
                                IN  IF e = << >> THEN Refused ELSE Wrote(U32(e[1][2]))
             [] s.t = "opaque" -> IF Len(v.bytes) = s.size THEN Wrote(Opaque(v.bytes)) ELSE Refused
             [] s.t = "vopaque" -> IF WithinMax(Len(v.bytes), s.max) THEN Wrote(VarOpaque(v.bytes)) ELSE Refused
             [] s.t = "str" -> LET b == Utf8(v.text) IN IF WithinMax(Len(b), s.max) THEN Wrote(VarOpaque(b)) ELSE Refused
             [] s.t = "array" -> IF Len(v.items) = s.size THEN Items ELSE Refused
             [] s.t = "varray" -> IF WithinMax(Len(v.items), s.max) THEN Adding(U32(Len(v.items)), Items) ELSE Refused
             [] s.t = "struct" -> Each(Len(s.fields), LAMBDA i :
                  LET f == Keyed(v.pairs, LAMBDA name : name = s.fields[i][1])
                  IN  IF f = << >> THEN Refused ELSE XdrWritten(f[1][2], s.fields[i][2]))
             [] s.t = "union" ->
                  LET arm == ArmOf(s, LAMBDA d : d = v.disc)
                  IN  IF v.disc[1] = "str" \/ arm = << >> THEN Refused
                      ELSE Adding(IF v.disc[1] = "bool" THEN Bit(v.disc[2]) ELSE U32(v.disc[2]), XdrWritten(v.val, arm[1]))
             [] s.t = "optional" -> IF v.val = << >> THEN Wrote(Bit(FALSE)) ELSE Adding(Bit(TRUE), XdrWritten(v.val[1], s.of))

---------------------------------------------------------------------------
\* XdrDecoder
TakePadded(tokens, n) ==
  Then(TakeRaw(tokens, n), LAMBDA bytes, rest : As(TakeRaw(rest, Len(Padding(n))), LAMBDA pad : bytes))
\* a length, when it is a legal one, and what has it
TakeLength(tokens, max, Take(_, _)) ==
  Then(TakeNum(tokens, 32), LAMBDA n, rest : Then(Take(rest, n), LAMBDA v, after : IF WithinMax(n, max) THEN Got(v, after) ELSE Fail))
TakeInt(tokens) == As(TakeNum(tokens, 32), LAMBDA n : AsSigned(n, 31))
TakeString(tokens, max) ==
  Then(TakeLength(tokens, max, TakePadded), LAMBDA bytes, rest : IF IsUtf8(bytes) THEN Got(Str(TextOf(bytes)), rest) ELSE Fail)

\* read_value of XdrSchemaDecoder: a discriminant is read as a number, a
\* number that is no enum's is its own name
RECURSIVE XdrRead(_, _)
XdrRead(s, tokens) ==
  LET Array(items) == [k |-> "array", items |-> items]
      Items(at, n) == Many(n, at, LAMBDA here : XdrRead(s.of, here))
      Names(n) == SelectSeq(s.entries, LAMBDA entry : entry[2] = n)
      IsDisc(d, n) == CASE d[1] = "int" -> d[2] = n [] d[1] = "bool" -> (IF d[2] THEN 1 ELSE 0) = n [] OTHER -> FALSE
      Numbered(k, r) == As(r, LAMBDA n : [k |-> k, n |-> n])
      Fields == FoldLeft(LAMBDA r, field : Then(r, LAMBDA pairs, rest :
                           As(XdrRead(field[2], rest), LAMBDA v : Append(pairs, <<field[1], v>>))),
                         Got(<< >>, tokens), s.fields)
      InArm(n, arm, rest) ==
        IF arm = << >> THEN Fail
        ELSE As(XdrRead(arm[1], rest), LAMBDA v : [k |-> "union", disc |-> <<"int", n>>, val |-> v])
  IN  CASE s.t = "void" -> Got([k |-> "void"], tokens)
        [] s.t = "const" -> Got([k |-> "int", n |-> s.n], tokens)
        [] s.t = "quadruple" -> Fail
        [] s.t = "int" -> Numbered("int", TakeInt(tokens))
        [] s.t = "uint" -> Numbered("uint", TakeNum(tokens, 32))
        [] s.t = "hyper" -> Numbered("hyper", As(TakeNum(tokens, 64), LAMBDA n : AsSigned(n, 63)))
        [] s.t = "uhyper" -> Numbered("uhyper", TakeNum(tokens, 64))
        [] s.t = "float" -> As(TakeFloat(tokens, 32), LAMBDA f : [k |-> "float", f |-> f])
        [] s.t = "double" -> As(TakeFloat(tokens, 64), LAMBDA f : [k |-> "double", f |-> f])
        [] s.t = "bool" -> As(TakeNum(tokens, 32), LAMBDA b : Bool(b # 0))
        [] s.t = "enum" -> As(TakeInt(tokens), LAMBDA n :
             [k |-> "enum", name |-> IF Names(n) = << >> THEN ToString(n) ELSE Names(n)[1][1]])
        [] s.t = "opaque" -> As(TakePadded(tokens, s.size), Bytes)
        [] s.t = "vopaque" -> As(TakeLength(tokens, s.max, TakePadded), Bytes)
        [] s.t = "str" -> TakeString(tokens, s.max)
        [] s.t = "array" -> As(Items(tokens, s.size), Array)
        [] s.t = "varray" -> As(TakeLength(tokens, s.max, Items), Array)
        [] s.t = "struct" -> As(Fields, LAMBDA pairs : [k |-> "struct", pairs |-> pairs])
        [] s.t = "union" -> Then(TakeInt(tokens), LAMBDA n, rest : InArm(n, ArmOf(s, LAMBDA d : IsDisc(d, n)), rest))
        [] s.t = "optional" -> Then(TakeNum(tokens, 32), LAMBDA n, rest :
             IF n = 0 THEN Got([k |-> "optional", val |-> << >>], rest)
             ELSE As(XdrRead(s.of, rest), LAMBDA v : [k |-> "optional", val |-> <<v>>]))

-----------------------------------------------------------------------------
(* ONC RPC messages: RpcMessageEncoder and RpcMessageDecoder. A call has      *)
(* credentials and parameters, an accepted reply a verifier and results, a    *)
(* rejected reply a reason. An optional field is a sequence of at most one    *)
(* element. Parameters and results are what is left of the message.           *)
U32s(ns) == [i \in DOMAIN ns |-> <<"num", 32, ns[i]>>]
RpcVersion == 2
MaxAuth == 5   \* bound: 400 bytes
\* bytes up to a multiple of four
Pad(n) == [i \in 1 .. ((4 - (n % 4)) % 4) |-> <<"byte", "00">>]
AuthFlavors == 0 .. 6
Auth(flavor, body) == [flavor |-> flavor, body |-> body]

\* write_opaque_auth: a body that is too long is refused before it is written
WriteAuth(auth) ==
  IF Len(auth.body) > MaxAuth THEN [ok |-> FALSE, out |-> << >>]
  ELSE Wrote(U32s(<<auth.flavor, Len(auth.body)>>) \o Raw(auth.body) \o Pad(Len(auth.body)))
\* write_message: what came before the refusal stays in the writer.
Flat(opt) == FlattenSeq(opt)
RpcEncode(m) ==
  CASE m.k = "call" ->
         Adding(U32s(<<m.xid, 0, RpcVersion>> \o m.proc), Following(WriteAuth(m.cred), Following(WriteAuth(m.verf), Wrote(Raw(m.params)))))
    [] m.k = "accepted" ->
         Adding(U32s(<<m.xid, 1, 0>>), Following(WriteAuth(m.verf), Wrote(U32s(<<m.stat>> \o Flat(m.mismatch)) \o Raw(Flat(m.results)))))
    [] m.k = "rejected" ->
         Wrote(U32s(<<m.xid, 1, 1, m.stat>> \o (IF m.stat = 0 THEN Flat(m.mismatch) ELSE Flat(m.auth))))

---------------------------------------------------------------------------
TakeU32(tokens) == TakeNum(tokens, 32)
TakeU32s(tokens, n) == Many(n, tokens, TakeU32)
Optional(seq) == IF seq = << >> THEN << >> ELSE <<seq>>
ReadBody(flavor, n, tokens) ==
  Then(TakeRaw(tokens, n), LAMBDA body, rest : As(TakeRaw(rest, Len(Pad(n))), LAMBDA pad : Auth(flavor, body)))
ReadAuth(tokens) ==
  Then(TakeU32s(tokens, 2), LAMBDA head, rest :
    IF head[1] \in AuthFlavors /\ head[2] <= MaxAuth THEN ReadBody(head[1], head[2], rest) ELSE Fail)
\* rest()
RestOf(tokens) == TakeRaw(tokens, Len(tokens))

RpcReadCall(xid, tokens) ==
  Then(TakeU32s(tokens, 4), LAMBDA numbers, at : Then(Many(2, at, ReadAuth), LAMBDA auths, left :
    As(RestOf(left), LAMBDA params :
         [k |-> "call", xid |-> xid, proc |-> Tail(numbers), cred |-> auths[1], verf |-> auths[2], params |-> params])))
\* mismatch_info is there when the status is PROG_MISMATCH
RpcReadAccepted(xid, tokens) ==
  LET Info(stat, rest) == IF stat \in 0 .. 5 THEN As(TakeU32s(rest, IF stat = 2 THEN 2 ELSE 0), LAMBDA info : <<stat, info>>) ELSE Fail
  IN  Then(ReadAuth(tokens), LAMBDA verf, at : Then(Then(TakeU32(at), Info), LAMBDA parts, left :
        As(RestOf(left), LAMBDA results :
             [k |-> "accepted", xid |-> xid, verf |-> verf, stat |-> parts[1],
              mismatch |-> Optional(parts[2]), results |-> Optional(results)])))
RpcReadRejected(xid, tokens) ==
  LET Rejected(stat, mismatch, auth) == [k |-> "rejected", xid |-> xid, stat |-> stat, mismatch |-> mismatch, auth |-> auth]
  IN  Then(TakeU32(tokens), LAMBDA stat, rest :
        CASE stat = 0 -> As(TakeU32s(rest, 2), LAMBDA versions : Rejected(0, <<versions>>, << >>))
          [] stat = 1 -> Then(TakeU32(rest), LAMBDA why, left : IF why \in 0 .. 14 THEN Got(Rejected(1, << >>, <<<<why>>>>), left) ELSE Fail)
          [] OTHER -> Fail)
RpcReadReply(xid, stat, tokens) ==
  CASE stat = 0 -> RpcReadAccepted(xid, tokens) [] stat = 1 -> RpcReadRejected(xid, tokens) [] OTHER -> Fail
RpcRead(tokens) ==
  Then(TakeU32s(tokens, 2), LAMBDA head, rest :
    CASE head[2] = 0 -> RpcReadCall(head[1], rest)
      [] head[2] = 1 -> Then(TakeU32(rest), LAMBDA stat, at : RpcReadReply(head[1], stat, at))
      [] OTHER -> Fail)
=============================================================================
