---------------------------- MODULE JsonFormats -----------------------------
(* Formats of json-pack: JSON, BSON and EJSON, which writes BSON as JSON. *)
EXTENDS PackValues

(* JSON: JsonEncoder with its stable and DAG forms, JsonDecoder,             *)
(* JsonDecoderDag and JsonDecoderPartial, and the wrapping of binary data.   *)
(* A bracket, a separator, a word or a sign is <<"octet", it>>, a digit of a *)
(* number <<"digit", d>>, a string its bytes between quotes. Of the          *)
(* characters, "data:", "undef", "msgpack:" and "ext=" stand for the data    *)
(* URIs they begin or are.                                                   *)
Mark(name) == <<<<"octet", name>>>>
Quote == <<<<"byte", "quote">>>>

\* what serde_json escapes: a quote, a backslash, a line feed and the byte 0
Escapes == [b \in {"quote", "bs", "nl", "00"} |->
             CASE b = "nl" -> "n" [] b = "00" -> "u0000" [] OTHER -> b]
Escaped(bytes) ==
  FlattenSeq([i \in DOMAIN bytes |-> IF bytes[i] \in DOMAIN Escapes THEN <<"bs", Escapes[bytes[i]]>> ELSE <<bytes[i]>>])
JsonQuoted(text) == Quote \o Raw(Escaped(Utf8(text))) \o Quote

\* A number in JSON: its sign, its digits and, as floats are halves here, its
\* fraction. format_float: 1e308 for infinity; without a fraction, digits only.
RECURSIVE DigitTokens(_)
DigitTokens(n) == (IF n >= 10 THEN DigitTokens(n \div 10) ELSE << >>) \o <<<<"digit", n % 10>>>>
SignOf(n) == IF n < 0 THEN Mark("-") ELSE << >>
WholeTokens(n) == SignOf(n) \o DigitTokens(IF n < 0 THEN -n ELSE n)
FloatTokens(v) ==
  IF Integral(v) THEN WholeTokens(v.f \div 2)
  ELSE SignOf(v.f) \o DigitTokens((IF v.f < 0 THEN -v.f ELSE v.f) \div 2) \o Mark(".") \o DigitTokens(5)
JsonNumber(v) ==
  CASE ~IsFloat(v) -> WholeTokens(v.n)
    [] v = Special("nan") -> Mark("null")
    [] v = Special("inf") -> DigitTokens(1) \o Mark("e") \o DigitTokens(308)
    [] OTHER -> FloatTokens(v)

Separated(parts) == FlattenSeq([i \in DOMAIN parts |-> (IF i > 1 THEN Mark(",") ELSE << >>) \o parts[i]])
JsonField(key, tokens) == JsonQuoted(key) \o Mark(":") \o tokens
\* {"/": ...}
DagTag(tokens) == Mark("{") \o JsonField(<<"/">>, tokens) \o Mark("}")
FewerBefore(p, q) == \/ Len(p[1]) < Len(q[1])
                     \/ Len(p[1]) = Len(q[1]) /\ KeyBefore(p, q)

\* enc is "json", "stable" or "dag"
RECURSIVE JsonEncode(_, _)
JsonEncode(enc, v) ==
  LET Sorted == IF enc = "json" THEN v.pairs ELSE SortSeq(v.pairs, FewerBefore)
  IN  CASE v.k \in {"null", "ext", "blob"} -> Mark("null")
        [] v.k = "undefined" -> JsonQuoted(<<"undef">>)
        [] v.k = "bool" -> Mark(IF v.b THEN "true" ELSE "false")
        [] IsNumber(v) -> JsonNumber(v)
        [] v.k = "bytes" /\ enc = "dag" ->
             DagTag(Mark("{") \o JsonField(<<"bytes">>, JsonQuoted(Base64(v.bytes))) \o Mark("}"))
        [] v.k = "bytes" -> JsonQuoted(DataUri(v.bytes))
        [] v.k = "str" -> JsonQuoted(v.text)
        [] v.k = "arr" -> Mark("[") \o Separated([i \in DOMAIN v.items |-> JsonEncode(enc, v.items[i])]) \o Mark("]")
        [] v.k = "obj" -> Mark("{")
             \o Separated([i \in DOMAIN Sorted |-> JsonField(Sorted[i][1], JsonEncode(enc, Sorted[i][2])) ]) \o Mark("}")

---------------------------------------------------------------------------
JsonAt(tokens, name) == tokens # << >> /\ tokens[1] = <<"octet", name>>
JsonAtQuote(tokens) == tokens # << >> /\ tokens[1] = <<"byte", "quote">>
\* find_ending_quote: the first quote behind an even number of backslashes
Slashes(tokens, i) ==
  Cardinality({j \in 1 .. i - 1 : \A l \in j .. i - 1 : tokens[l] = <<"byte", "bs">>})
EndQuotes(tokens) == {i \in DOMAIN tokens : tokens[i] = <<"byte", "quote">> /\ Slashes(tokens, i) % 2 = 0}
RECURSIVE Unescaped(_)
Unescaped(bytes) ==
  CASE bytes = << >> -> Got(<< >>, << >>)
    [] bytes[1] # "bs" -> As(Unescaped(Tail(bytes)), LAMBDA b : <<bytes[1]>> \o b)
    [] OTHER -> LET from == {b \in DOMAIN Escapes : Len(bytes) > 1 /\ Escapes[b] = bytes[2]}
                IN  IF from = {} THEN Fail
                    ELSE As(Unescaped(After(bytes, 2)), LAMBDA b : <<CHOOSE x \in from : TRUE>> \o b)
\* the bytes between the quotes, as they stand
JsonRaw(tokens) ==
  LET ends == EndQuotes(Tail(tokens))
      n == CHOOSE i \in ends : \A j \in ends : i <= j
  IN  IF ~JsonAtQuote(tokens) \/ ends = {} THEN Fail
      ELSE Then(TakeRaw(Tail(tokens), n - 1), LAMBDA bytes, rest : Got(bytes, Tail(rest)))
JsonString(tokens) ==
  Then(JsonRaw(tokens), LAMBDA raw, rest : Then(Unescaped(raw), LAMBDA bytes, none :
    IF IsUtf8(bytes) THEN Got(TextOf(bytes), rest) ELSE Fail))
\* read_key; `__proto__` is no key
JsonKey(tokens) ==
  Then(JsonString(tokens), LAMBDA key, rest :
    IF key # Proto /\ JsonAt(rest, ":") THEN Got(key, Tail(rest)) ELSE Fail)

\* A string that begins like a data URI is data or fails.
JsonStr(tokens) ==
  Then(JsonRaw(tokens), LAMBDA raw, rest :
    CASE raw # << >> /\ raw[1] = "data:" -> IF IsBase64(Tail(raw)) THEN Got(Bytes(FromBase64(Tail(raw))), rest) ELSE Fail
      [] raw = <<"undef">> -> Got(Undefined, rest)
      [] OTHER -> As(JsonString(tokens), Str))
\* read_num takes what it finds: a sign, digits, a point with digits, an
\* exponent (no encoder writes a sign in it). A text that is cut in its digits is
\* read as the digits that came. f64 wants a digit in front of the exponent, and
\* one in it.
\* bound: exponents count up to MaxExponent, so that 1e308 is 1000000
MaxExponent == 6
AtNumber(tokens) == tokens # << >> /\ (tokens[1][1] = "digit" \/ JsonAt(tokens, "-"))
RECURSIVE TakeDigits(_)
TakeDigits(tokens) ==
  IF tokens = << >> \/ tokens[1][1] # "digit" THEN Got(<< >>, tokens)
  ELSE As(TakeDigits(Tail(tokens)), LAMBDA digits : <<tokens[1][2]>> \o digits)
Optionally(name, tokens) ==
  IF JsonAt(tokens, name) THEN As(TakeDigits(Tail(tokens)), LAMBDA digits : <<digits>>) ELSE Got(<< >>, tokens)
Counting(digits) == FoldLeft(LAMBDA n, d : 10 * n + d, 0, digits)
\* Of(n, rest) is what an integer becomes; the only fraction that is written is 5.
TakeNumber(tokens, Of(_, _)) ==
  LET minus == JsonAt(tokens, "-")
      Signum(n) == IF minus THEN -n ELSE n
      Read(whole, fraction, exponent, rest) ==
        LET halves == 2 * Counting(whole) + (IF fraction = <<<<5>>>> THEN 1 ELSE 0)
            power == IF exponent = << >> THEN 0 ELSE Counting(exponent[1])
        IN  CASE (whole = << >> /\ fraction \in {<< >>, <<<< >>>>}) \/ exponent = <<<< >>>> -> Fail
              [] fraction = << >> /\ exponent = << >> -> Of(Signum(Counting(whole)), rest)
              [] OTHER -> Got(Float(Signum(halves * 10 ^ (IF power < MaxExponent THEN power ELSE MaxExponent))), rest)
  IN  Then(TakeDigits(IF minus THEN Tail(tokens) ELSE tokens), LAMBDA whole, at :
        Then(Optionally(".", at), LAMBDA fraction, behind :
          Then(Optionally("e", behind), LAMBDA exponent, rest : Read(whole, fraction, exponent, rest))))
\* an i64, a u64 or an i128, no larger one
JsonInteger(n, rest) ==
  CASE Fits(n, 63) -> Got(Integer(n), rest)
    [] 0 <= n /\ n <= Limit(64) -> Got(UInteger(n), rest)
    [] Fits(n, 127) -> Got(BigInt(n), rest)
    [] OTHER -> Fail

\* JsonDecoderDag's shapes: {"/": {"bytes": "<base64>"}} and {"/": "<cid>"}
NoShape == [ok |-> TRUE, v |-> "none"]
Try(r, F(_, _)) == IF r.ok THEN F(r.v, r.rest) ELSE NoShape
OrElse(shape, r) == IF shape = NoShape THEN r ELSE shape
DagRead(tokens) ==
  LET Closed(rest, n) == Len(rest) >= n /\ \A i \in 1 .. n : rest[i] = <<"octet", "}">>
      Closing(r, n, Of(_, _)) == Try(r, LAMBDA raw, rest : IF Closed(rest, n) THEN Of(raw, After(rest, n)) ELSE NoShape)
      Data(raw, rest) == IF IsBase64(raw) THEN Got(Bytes(FromBase64(raw)), rest) ELSE Fail
      Cid(raw, rest) == IF IsUtf8(raw) THEN Got(Str(TextOf(raw)), rest) ELSE Fail
      KeyAt(at) == IF JsonAt(at, "{") THEN JsonKey(Tail(at)) ELSE Fail
      InTag(at) ==
        IF JsonAtQuote(at) THEN Closing(JsonRaw(at), 1, Cid)
        ELSE Try(KeyAt(at), LAMBDA key, rest :
               IF key = <<"bytes">> /\ JsonAtQuote(rest) THEN Closing(JsonRaw(rest), 2, Data) ELSE NoShape)
  IN  Try(KeyAt(tokens), LAMBDA key, rest : IF key = <<"/">> THEN InTag(rest) ELSE NoShape)

\* What stands up to a bracket, parted by commas; one may stand before the first.
JsonParts(close, tokens, R(_)) ==
  LET Ended(at) == JsonAt(at, close)
      Part(at) == IF JsonAt(at, ",") THEN R(Tail(at)) ELSE IF Len(at) = Len(tokens) THEN R(at) ELSE Fail
  IN  Until(Ended, tokens, Part)
RECURSIVE JsonRead(_, _)
\* dec is "json" or "dag"
JsonRead(dec, tokens) ==
  OrElse(IF dec = "dag" THEN DagRead(tokens) ELSE NoShape,
    CASE tokens = << >> -> Fail
      [] JsonAtQuote(tokens) -> JsonStr(tokens)
      [] JsonAt(tokens, "[") -> As(JsonParts("]", Tail(tokens), LAMBDA at : JsonRead(dec, at)), Arr)
      [] JsonAt(tokens, "{") -> As(JsonParts("}", Tail(tokens), LAMBDA at : Pairing(JsonKey, LAMBDA v : JsonRead(dec, v), at)), Obj)
      [] JsonAt(tokens, "null") -> Got(Null, Tail(tokens))
      [] JsonAt(tokens, "true") \/ JsonAt(tokens, "false") -> Got(Bool(tokens[1][2] = "true"), Tail(tokens))
      [] AtNumber(tokens) -> TakeNumber(tokens, JsonInteger)
      [] OTHER -> Fail)

---------------------------------------------------------------------------
\* JsonDecoderPartial: what could be read of a text that breaks off. Behind a
\* part that could not be read nothing continues an array or an object.
\* Taking(r, F): r's value, then F of what follows; nothing when r failed.
Taking(r, F(_, _)) == IF r.ok THEN F(r.v, r.rest) ELSE Got(<< >>, << >>)
RECURSIVE JsonPartial(_), PartialItems(_, _), PartialPairs(_)
PartialItems(first, tokens) ==
  LET From(at) == Taking(JsonPartial(at), LAMBDA item, rest : As(PartialItems(FALSE, rest), LAMBDA items : <<item>> \o items))
  IN  CASE JsonAt(tokens, "]") -> Got(<< >>, Tail(tokens))
        [] tokens = << >> \/ (~first /\ ~JsonAt(tokens, ",")) -> Got(<< >>, tokens)
        [] OTHER -> From(IF JsonAt(tokens, ",") THEN Tail(tokens) ELSE tokens)
PartialPairs(tokens) ==
  LET Valued(key, at) ==
        CASE key = Proto -> Fail
          [] key # Proto /\ ~JsonAt(at, ":") -> Got(<< >>, << >>)
          [] OTHER -> Taking(JsonPartial(Tail(at)), LAMBDA item, rest : As(PartialPairs(rest), LAMBDA pairs : <<<<key, item>>>> \o pairs))
  IN  CASE JsonAt(tokens, "}") -> Got(<< >>, Tail(tokens))
        [] JsonAt(tokens, ",") -> PartialPairs(Tail(tokens))
        [] OTHER -> Taking(JsonString(tokens), Valued)
JsonPartial(tokens) ==
  CASE JsonAt(tokens, "[") -> As(PartialItems(TRUE, Tail(tokens)), Arr)
    [] JsonAt(tokens, "{") -> As(PartialPairs(Tail(tokens)), Obj)
    [] OTHER -> JsonRead("json", tokens)

---------------------------------------------------------------------------
\* wrap_binary and unwrap_binary: data as texts in a JSON value
RECURSIVE WrapBinary(_), UnwrapBinary(_)
WrapBinary(v) ==
  CASE v.k \in {"null", "undefined", "special"} -> Null
    [] v.k = "bytes" -> Str(DataUri(v.bytes))
    [] v.k = "blob" -> Str(<<"msgpack:">> \o Base64([i \in DOMAIN v.tokens |-> v.tokens[i][2]]))
    [] v.k = "ext" -> Str(<<"ext=", ToString(v.tag), ",">> \o (IF v.val.k = "bytes" THEN Base64(v.val.bytes) ELSE << >>))
    [] v.k = "arr" -> Arr([i \in DOMAIN v.items |-> WrapBinary(v.items[i])])
    [] v.k = "obj" -> Obj([i \in DOMAIN v.pairs |-> <<v.pairs[i][1], WrapBinary(v.pairs[i][2])>>])
    [] OTHER -> v
UnwrapText(text) ==
  LET Starts(c, n) == Len(text) >= n /\ text[1] = c /\ IsBase64(After(text, n))
      Data(n) == FromBase64(After(text, n))
  IN  CASE Starts("data:", 1) -> Bytes(Data(1))
        [] Starts("msgpack:", 1) -> Blob(Raw(Data(1)))
        [] Starts("ext=", 3) /\ text[3] = "," -> Ext(CHOOSE n \in 0 .. Limit(16) : ToString(n) = text[2], Bytes(Data(3)))
        [] OTHER -> Str(text)
UnwrapBinary(v) ==
  CASE v.k = "str" -> UnwrapText(v.text)
    [] v.k = "arr" -> Arr([i \in DOMAIN v.items |-> UnwrapBinary(v.items[i])])
    [] v.k = "obj" -> Obj([i \in DOMAIN v.pairs |-> <<v.pairs[i][1], UnwrapBinary(v.pairs[i][2])>>])
    [] OTHER -> OfJson(v)

-----------------------------------------------------------------------------
(* BSON: BsonEncoder and BsonDecoder on BsonValue, of which the kinds that   *)
(* other formats share are PackValues and the rest are [k |-> "bson", ...]:  *)
(* an object id, a date, a regular expression, a pointer, code, a symbol,    *)
(* code with a scope, a timestamp, a decimal and the two ends of the order.  *)
(* Every number but the first bytes of an id is little-endian, which the     *)
(* tokens do not show. Lengths count bytes.                                  *)
BsonOf(type, parts) == [k |-> "bson", type |-> type, parts |-> parts]
BsonMark(type) == <<<<"octet", type>>>>
BsonNum(w, n) == <<<<"num", w, n>>>>

\* write_cstring stops at a zero byte of the text; write_string counts its own.
CString(text) ==
  LET bytes == Utf8(text)
      ends == {i \in DOMAIN bytes : bytes[i] = "00"}
  IN  Raw(IF ends = {} THEN bytes ELSE SubSeq(bytes, 1, (CHOOSE i \in ends : \A j \in ends : i <= j) - 1) \o << >>)
      \o <<<<"byte", "00">>>>
LongString(text) == BsonNum(32, Len(Utf8(text)) + 1) \o Raw(Utf8(text)) \o <<<<"byte", "00">>>>
\* write_document: the size includes itself and the byte behind the fields
BsonSized(body) == BsonNum(32, SizeOf(body) + 5) \o body \o <<<<"octet", "end">>>>

Digits == <<<<"0">>, <<"1">>, <<"2">>, <<"3">>>>   \* the keys of an array
BsonType(v) ==
  CASE IsFloat(v) -> "double" [] v.k = "str" -> "string" [] v.k = "obj" -> "document" [] v.k = "arr" -> "array"
    [] v.k = "bytes" -> "binary" [] v.k = "bson" -> v.type
    [] v.k = "int" -> IF Fits(v.n, 31) THEN "int32" ELSE "int64"
    [] OTHER -> v.k

RECURSIVE BsonFields(_), BsonValue(_)
BsonFields(pairs) ==
  BsonSized(FlattenSeq([i \in DOMAIN pairs |->
    BsonMark(BsonType(pairs[i][2])) \o CString(pairs[i][1]) \o BsonValue(pairs[i][2])]))
\* code with a scope: its own size, the code, the scope
BsonScoped(code, scope) ==
  LET body == LongString(code) \o BsonFields(scope) IN BsonNum(32, SizeOf(body) + 4) \o body
BsonValue(v) ==
  LET type == BsonType(v)
  IN  CASE type = "double" -> <<<<"float", 64, v>>>>
        [] type = "string" -> LongString(v.text)
        [] type = "document" -> BsonFields(v.pairs)
        [] type = "array" -> BsonFields([i \in DOMAIN v.items |-> <<Digits[i], v.items[i]>>])
        [] type = "binary" -> BsonNum(32, Len(v.bytes)) \o BsonNum(8, 0) \o Raw(v.bytes)
        [] type = "bool" -> BsonNum(8, IF v.b THEN 1 ELSE 0)
        [] type \in {"int32", "int64"} -> BsonNum(IF type = "int32" THEN 32 ELSE 64, v.n)
        [] type = "id" -> BsonNum(32, v.parts[1]) \o BsonNum(40, v.parts[2]) \o BsonNum(24, v.parts[3])
        [] type = "date" -> BsonNum(64, v.parts[1])
        [] type = "timestamp" -> BsonNum(32, v.parts[1]) \o BsonNum(32, v.parts[2])
        [] type = "regex" -> CString(v.parts[1]) \o CString(v.parts[2])
        [] type \in {"code", "symbol"} -> LongString(v.parts[1])
        [] type = "scoped" -> BsonScoped(v.parts[1], v.parts[2])
        [] OTHER -> << >>   \* null, undefined, minkey, maxkey
\* encode takes the fields of a document
BsonEncode(v) == BsonFields(v.pairs)

---------------------------------------------------------------------------
\* read_cstring: up to the next zero byte
TakeCString(tokens) ==
  LET ends == {i \in DOMAIN tokens : tokens[i] = <<"byte", "00">>}
      n == CHOOSE i \in ends : \A j \in ends : i <= j
  IN  IF ends = {} THEN Fail ELSE Then(TakeText(tokens, n - 1), LAMBDA text, rest : Got(text, Tail(rest)))
\* read_string: the length counts the zero byte, which is not looked at
TakeBsonString(tokens) ==
  Then(TakeNum(tokens, 32), LAMBDA n, at :
    IF n = 0 THEN Got(<< >>, at) ELSE Then(TakeText(at, n - 1), LAMBDA text, rest : Got(text, Tail(rest))))
\* a sequence of numbers of these widths
RECURSIVE TakeNums(_, _)
TakeNums(tokens, widths) ==
  IF widths = << >> THEN Got(<< >>, tokens)
  ELSE Then(TakeNum(tokens, widths[1]), LAMBDA n, rest : As(TakeNums(rest, Tail(widths)), LAMBDA more : <<n>> \o more))

RECURSIVE BsonRead(_), BsonReadFields(_), BsonElement(_, _)
\* read_document: a buffer shorter than the size says is refused at once
BsonRead(tokens) ==
  Then(TakeNum(tokens, 32), LAMBDA size, rest : IF size - 4 <= SizeOf(rest) THEN As(BsonReadFields(rest), Obj) ELSE Fail)
BsonReadFields(tokens) ==
  CASE tokens = << >> \/ tokens[1][1] # "octet" -> Fail
    [] tokens[1][2] = "end" -> Got(<< >>, Tail(tokens))
    [] OTHER -> Then(TakeCString(Tail(tokens)), LAMBDA key, at : Then(BsonElement(tokens[1][2], at), LAMBDA val, rest :
                  As(BsonReadFields(rest), LAMBDA fields : <<<<key, val>>>> \o fields)))
\* read_array sorts by the index that the key is
IndexOf(key) == CHOOSE i \in DOMAIN Digits : Digits[i] = key
BsonElement(type, tokens) ==
  LET Kind(parts) == BsonOf(type, parts)
  IN  CASE type = "double" -> TakeFloat(tokens, 64)
        [] type = "string" -> As(TakeBsonString(tokens), Str)
        [] type = "document" -> BsonRead(tokens)
        [] type = "array" -> As(BsonRead(tokens), LAMBDA d : Arr(
             LET s == SortSeq(d.pairs, LAMBDA p, q : IndexOf(p[1]) < IndexOf(q[1])) IN [i \in DOMAIN s |-> s[i][2]]))
        [] type = "binary" -> Then(TakeNums(tokens, <<32, 8>>), LAMBDA head, rest : As(TakeRaw(rest, head[1]), Bytes))
        [] type = "bool" -> As(TakeNum(tokens, 8), LAMBDA n : Bool(n = 1))
        [] type = "int32" -> As(TakeNum(tokens, 32), Integer)
        [] type = "int64" -> As(TakeNum(tokens, 64), Integer)
        [] type = "id" -> As(TakeNums(tokens, <<32, 40, 24>>), Kind)
        [] type = "date" -> As(TakeNums(tokens, <<64>>), Kind)
        [] type = "timestamp" -> As(TakeNums(tokens, <<32, 32>>), Kind)
        [] type = "regex" -> Then(TakeCString(tokens), LAMBDA pattern, rest :
                               As(TakeCString(rest), LAMBDA flags : Kind(<<pattern, flags>>)))
        [] type \in {"code", "symbol"} -> As(TakeBsonString(tokens), LAMBDA t : Kind(<<t>>))
        [] type = "scoped" -> Then(TakeNum(tokens, 32), LAMBDA size, at : Then(TakeBsonString(at), LAMBDA code, rest :
                                As(BsonRead(rest), LAMBDA scope : Kind(<<code, scope.pairs>>))))
        [] type \in {"minkey", "maxkey"} -> Got(Kind(<< >>), tokens)
        [] type = "null" -> Got(Null, tokens)
        [] type = "undefined" -> Got(Undefined, tokens)
        [] OTHER -> Fail

-----------------------------------------------------------------------------
(* EJSON, JSON with BSON's types in wrapper objects: EjsonEncoder, canonical *)
(* and relaxed, and EjsonDecoder. An EjsonValue that JSON has is a           *)
(* PackValue; the others are Typed(type, parts). A wrapper's key is one      *)
(* character of a text, and a text that spells a number, an id or a date is  *)
(* the one token <<"spelled", it>> between quotes.                           *)
Typed(type, parts) == [k |-> "bson", type |-> type, parts |-> parts]
IsTyped(v, type) == v.k = "bson" /\ v.type = type
Wrap(key, tokens) == Mark("{") \o JsonField(<<key>>, tokens) \o Mark("}")
Spelled(it) == Quote \o <<<<"spelled", it>>>> \o Quote

\* format_number: what is not finite is no JSON
Decimal(v) ==
  IF v.k = "special" THEN Mark("NaN") ELSE FloatTokens(v)
Finite(v) == v.k # "special"
LongOf(v) == IF v.k = "float" THEN Integer(Saturated(v.f \div 2, -Limit(63) - 1, Limit(63))) ELSE v
\* write_number_as_ejson: a number of JavaScript
NumberTokens(canonical, v) ==
  CASE ~Finite(v) \/ (canonical /\ ~Integral(v)) -> Wrap("$numberDouble", Spelled(v))
    [] ~canonical -> Decimal(v)
    [] Fits(v.f \div 2, 31) -> Wrap("$numberInt", Spelled(LongOf(v)))
    [] OTHER -> Wrap("$numberLong", Spelled(LongOf(v)))

---------------------------------------------------------------------------
\* The calendar. A date is <<days, milliseconds of the day>>; days count from
\* 1970-01-01. Both ways count years from March, in eras of 400 years.
CivilFromDays(days) ==
  LET z == days + 719468
      era == z \div 146097
      doe == z - era * 146097
      yoe == (doe - doe \div 1460 + doe \div 36524 - doe \div 146096) \div 365
      doy == doe - (365 * yoe + yoe \div 4 - yoe \div 100)
      mp == (5 * doy + 2) \div 153
      month == mp + (IF mp < 10 THEN 3 ELSE -9)
  IN  <<yoe + era * 400 + (IF month <= 2 THEN 1 ELSE 0), month, doy - (153 * mp + 2) \div 5 + 1>>
DaysFromCivil(year, month, day) ==
  LET y == IF month <= 2 THEN year - 1 ELSE year
      m == IF month <= 2 THEN month + 9 ELSE month - 3
      era == y \div 400
      yoe == y - era * 400
      doy == (153 * m + 2) \div 5 + day - 1
      doe == yoe * 365 + yoe \div 4 - yoe \div 100 + doy
  IN  era * 146097 + doe - 719468
\* an ISO text for the years 1970 to 9999, else a number
DateTokens(canonical, date) ==
  LET civil == CivilFromDays(date[1])
  IN  Wrap("$date", IF ~canonical /\ civil[1] \in 1970 .. 9999
                    THEN Spelled(Typed("iso", <<civil, date[2]>>))
                    ELSE Wrap("$numberLong", Spelled(Typed("ms", date))))

---------------------------------------------------------------------------
Fields(pairs) == Mark("{") \o Separated(pairs) \o Mark("}")
\* {:08x}{:010x}{:06x}: a part that is too wide makes a longer text
IdTokens(parts) == Wrap("$oid", Spelled(Typed("hex", parts)))
\* The scope of code is BSON: bson_to_ejson_value.
RECURSIVE OfBson(_), EjsonEncode(_, _)
OfBson(v) ==
  CASE v.k = "int" -> Typed(IF Fits(v.n, 31) THEN "int32" ELSE "int64", <<v.n>>)
    [] IsFloat(v) -> Typed("double", <<v>>)
    [] v.k = "arr" -> Arr([i \in DOMAIN v.items |-> OfBson(v.items[i])])
    [] v.k = "obj" -> Obj([i \in DOMAIN v.pairs |-> <<v.pairs[i][1], OfBson(v.pairs[i][2])>>])
    [] v.k = "undefined" \/ (v.k = "bson" /\ v.type \notin {"id", "binary", "date", "symbol", "timestamp"}) -> Null
    [] OTHER -> v
TypedTokens(canonical, type, parts) ==
  LET one == IF parts = << >> THEN Null ELSE parts[1]
      Field(key, tokens) == JsonField(<<key>>, tokens)
  IN  CASE type = "number" -> NumberTokens(canonical, one)
        [] type = "int32" -> IF canonical THEN Wrap("$numberInt", Spelled(Integer(one))) ELSE Decimal(AsFloat(one))
        [] type = "int64" -> IF canonical THEN Wrap("$numberLong", Spelled(Integer(one))) ELSE Decimal(AsFloat(one))
        [] type = "double" -> IF canonical \/ ~Finite(one) THEN Wrap("$numberDouble", Spelled(one)) ELSE Decimal(one)
        [] type = "decimal" -> Wrap("$numberDecimal", Spelled(Integer(0)))
        [] type = "binary" -> Wrap("$binary", Fields(<<Field("base64", JsonQuoted(Base64(parts[2]))),
                                                       Field("subType", Spelled(Integer(one)))>>))
        [] type = "id" -> IdTokens(parts)
        [] type = "code" -> Wrap("$code", JsonQuoted(one))
        [] type = "scoped" -> Fields(<<Field("$code", JsonQuoted(one)),
                                       Field("$scope", EjsonEncode(canonical, OfBson(Obj(parts[2]))))>>)
        [] type = "symbol" -> Wrap("$symbol", JsonQuoted(one))
        [] type = "timestamp" -> Wrap("$timestamp", Fields(<<Field("t", WholeTokens(one)), Field("i", WholeTokens(parts[2]))>>))
        [] type = "regex" -> Wrap("$regularExpression", Fields(<<Field("pattern", JsonQuoted(one)), Field("options", JsonQuoted(parts[2]))>>))
        [] type = "pointer" -> Wrap("$dbPointer", Fields(<<Field("$ref", JsonQuoted(one)), Field("$id", IdTokens(parts[2]))>>))
        [] type = "date" -> DateTokens(canonical, parts)
        [] type \in {"minkey", "maxkey"} -> Wrap(IF type = "minkey" THEN "$minKey" ELSE "$maxKey", WholeTokens(1))
EjsonEncode(canonical, v) ==
  CASE v.k = "null" -> Mark("null")
    [] v.k = "undefined" -> Wrap("$undefined", Mark("true"))
    [] v.k = "bool" -> Mark(IF v.b THEN "true" ELSE "false")
    [] v.k = "int" -> WholeTokens(v.n)
    [] IsFloat(v) -> Decimal(v)
    [] v.k = "str" -> JsonQuoted(v.text)
    [] v.k = "arr" -> Mark("[") \o Separated([i \in DOMAIN v.items |-> EjsonEncode(canonical, v.items[i])]) \o Mark("]")
    [] v.k = "obj" -> Fields([i \in DOMAIN v.pairs |-> JsonField(v.pairs[i][1], EjsonEncode(canonical, v.pairs[i][2]))])
    [] v.k = "bson" -> TypedTokens(canonical, v.type, v.parts)

---------------------------------------------------------------------------
\* Wrappers. An object with such a key has no other, but for code with a scope.
Wrappers == {"$oid", "$numberInt", "$numberLong", "$numberDouble", "$numberDecimal", "$binary", "$uuid", "$code",
             "$symbol", "$timestamp", "$regularExpression", "$dbPointer", "$date", "$minKey", "$maxKey", "$undefined"}
Field2(pairs, a, b) == Len(pairs) = 2 /\ {pairs[1][1], pairs[2][1]} = {<<a>>, <<b>>}
FieldOf(pairs, key) == (CHOOSE p \in {pairs[1], pairs[2]} : p[1] = <<key>>)[2]
IsSpelled(v, k) == v.k = "spelled" /\ v.it.k = k
SpelledNumber(v) == v.k = "spelled" /\ IsNumber(v.it)
FloatOf(v) == IF v.k = "int" THEN AsFloat(v.n) ELSE v

\* ejson_to_bson_value
RECURSIVE ToBson(_)
ToBson(v) ==
  CASE v.k = "arr" -> Arr([i \in DOMAIN v.items |-> ToBson(v.items[i])])
    [] v.k = "obj" -> Obj([i \in DOMAIN v.pairs |-> <<v.pairs[i][1], ToBson(v.pairs[i][2])>>])
    [] v.k = "bson" /\ v.type \in {"int32", "int64"} -> Integer(v.parts[1])
    [] v.k = "bson" /\ v.type = "double" -> v.parts[1]
    [] v.k = "undefined" \/ (v.k = "bson" /\ v.type \notin {"id", "binary", "date", "symbol", "timestamp"}) -> Null
    [] OTHER -> v

Yes(v) == Got(v, << >>)
NumberOf(key, x) ==
  CASE key = "$numberInt" -> IF IsSpelled(x, "int") /\ Fits(x.it.n, 31) THEN Yes(Typed("int32", <<x.it.n>>)) ELSE Fail
    [] key = "$numberLong" /\ x.k = "spelled" /\ IsTyped(x.it, "ms") -> Yes(Typed("int64", x.it.parts))
    [] key = "$numberLong" ->   \* read as a float first
         IF SpelledNumber(x) /\ x.it.k = "int" THEN Yes(Typed("int64", <<LongOf(AsFloat(x.it.n)).n>>)) ELSE Fail
    [] key = "$numberDouble" -> IF SpelledNumber(x) THEN Yes(Typed("double", <<FloatOf(x.it)>>)) ELSE Fail
    [] key = "$numberDecimal" -> IF x.k \in {"spelled", "str"} THEN Yes(Typed("decimal", << >>)) ELSE Fail
DateOf(x) ==
  CASE x.k = "spelled" /\ IsTyped(x.it, "iso") ->
         Yes(Typed("date", <<DaysFromCivil(x.it.parts[1][1], x.it.parts[1][2], x.it.parts[1][3]), x.it.parts[2]>>))
    [] IsTyped(x, "int64") -> Yes(Typed("date", x.parts))
    [] OTHER -> Fail
BinaryOf(pairs) ==
  LET data == FieldOf(pairs, "base64")
      type == FieldOf(pairs, "subType")
  IN  IF Field2(pairs, "base64", "subType") /\ data.k = "str" /\ IsBase64(data.text) /\ IsSpelled(type, "int")
      THEN Yes(Typed("binary", <<type.it.n, FromBase64(data.text)>>)) ELSE Fail
\* parse_object_id: 24 digits, each part as wide as its field
IdOf(x) ==
  IF x.k = "spelled" /\ IsTyped(x.it, "hex") /\ x.it.parts[2] <= Limit(40) /\ x.it.parts[3] <= Limit(24)
  THEN Yes(Typed("id", x.it.parts)) ELSE Fail
Unwrapped(key, x) ==
  LET Two(a, b, ka, kb) == x.k = "obj" /\ Field2(x.pairs, a, b) /\ FieldOf(x.pairs, a).k = ka /\ FieldOf(x.pairs, b).k = kb
      A(a) == FieldOf(x.pairs, a)
  IN  CASE key \in {"$numberInt", "$numberLong", "$numberDouble", "$numberDecimal"} -> NumberOf(key, x)
        [] key = "$oid" -> IdOf(x)
        [] key = "$binary" /\ x.k = "obj" -> BinaryOf(x.pairs)
        [] key = "$uuid" /\ IsSpelled(x, "bytes") -> Yes(Typed("binary", <<4, x.it.bytes>>))
        [] key \in {"$code", "$symbol"} /\ x.k = "str" -> Yes(Typed(IF key = "$code" THEN "code" ELSE "symbol", <<x.text>>))
        [] key = "$timestamp" /\ Two("t", "i", "int", "int") ->
             IF A("t").n >= 0 /\ A("i").n >= 0
             THEN Yes(Typed("timestamp", <<AsSigned(A("t").n, 31), AsSigned(A("i").n, 31)>>)) ELSE Fail
        [] key = "$regularExpression" /\ Two("pattern", "options", "str", "str") ->
             Yes(Typed("regex", <<A("pattern").text, A("options").text>>))
        [] key = "$dbPointer" /\ Two("$ref", "$id", "str", "bson") ->
             IF A("$id").type = "id" THEN Yes(Typed("pointer", <<A("$ref").text, A("$id").parts>>)) ELSE Fail
        [] key = "$date" -> DateOf(x)
        [] key \in {"$minKey", "$maxKey"} /\ x = Integer(1) -> Yes(Typed(IF key = "$minKey" THEN "minkey" ELSE "maxkey", << >>))
        [] key = "$undefined" /\ x = Bool(TRUE) -> Yes(Undefined)
        [] OTHER -> Fail

\* transform_ejson_object. What a nested object became does not change again.
Transformed(pairs) ==
  LET wrapping == {i \in DOMAIN pairs : \E w \in Wrappers : pairs[i][1] = <<w>>}
  IN  CASE wrapping = {} -> Yes(Obj(pairs))
        [] Len(pairs) = 1 -> Unwrapped(pairs[1][1][1], pairs[1][2])
        [] Field2(pairs, "$code", "$scope") ->
             IF FieldOf(pairs, "$code").k = "str" /\ FieldOf(pairs, "$scope").k = "obj"
             THEN Yes(Typed("scoped", <<FieldOf(pairs, "$code").text, ToBson(FieldOf(pairs, "$scope")).pairs>>)) ELSE Fail
        [] OTHER -> Fail

RECURSIVE EjsonRead(_)
EjsonString(tokens) ==
  IF Len(tokens) >= 3 /\ tokens[2][1] = "spelled" /\ JsonAtQuote(After(tokens, 2))
  THEN Got([k |-> "spelled", it |-> tokens[2][2]], After(tokens, 3))
  ELSE As(JsonString(tokens), Str)
EjsonRead(tokens) ==
  LET Object(pairs, rest) == Then(Transformed(pairs), LAMBDA obj, none : Got(obj, rest))
  IN  CASE tokens = << >> -> Fail
        [] JsonAtQuote(tokens) -> EjsonString(tokens)
        [] AtNumber(tokens) -> TakeNumber(tokens, LAMBDA n, rest : Got(IF Fits(n, 63) THEN Integer(n) ELSE AsFloat(n), rest))
        [] JsonAt(tokens, "[") -> As(JsonParts("]", Tail(tokens), EjsonRead), Arr)
        [] JsonAt(tokens, "{") -> Then(JsonParts("}", Tail(tokens), LAMBDA at : Pairing(JsonKey, EjsonRead, at)), Object)
        [] JsonAt(tokens, "null") -> Got(Null, Tail(tokens))
        [] JsonAt(tokens, "true") \/ JsonAt(tokens, "false") -> Got(Bool(tokens[1][2] = "true"), Tail(tokens))
        [] OTHER -> Fail
=============================================================================
