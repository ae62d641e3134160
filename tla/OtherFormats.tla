---------------------------- MODULE OtherFormats ----------------------------
(* Formats of json-pack: UBJSON, Bencode, Ion, SSH, compression tables and RESP. *)
EXTENDS PackValues

(* UBJSON: UbjsonEncoder and UbjsonDecoder. A marker is <<"octet", name>>.   *)
UbMark(name) == <<<<"octet", name>>>>
UbNum(name, w, n) == <<<<"octet", name>>, <<"num", w, n>>>>
UbInt(n) ==
  CASE n >= 0 /\ n <= Limit(8) -> UbNum("U", 8, n)
    [] Fits(n, 7) -> UbNum("i", 8, n)
    [] Fits(n, 15) -> UbNum("I", 16, n)
    [] Fits(n, 31) -> UbNum("l", 32, n)
    [] OTHER -> UbNum("L", 64, n)
\* write_str_length_and_bytes: a byte for the length unless four bytes a
\* character might not fit
UbText(text) ==
  LET bytes == Utf8(text)
  IN  (IF 4 * Len(text) < Limit(8) THEN UbNum("U", 8, Len(bytes)) ELSE UbNum("l", 32, Len(bytes))) \o Raw(bytes)

RECURSIVE UbEncode(_)
UbEncode(v) ==
  CASE v.k \in {"null", "ext", "blob"} -> UbMark("Z")
    [] v.k = "undefined" -> UbMark("N")
    [] v.k = "bool" -> UbMark(IF v.b THEN "T" ELSE "F")
    [] v.k = "int" -> UbInt(v.n)
    [] v.k = "uint" -> UbInt(AsSigned(v.n, 63))
    [] v.k = "bigint" -> UbInt(Saturated(v.n, -Limit(63) - 1, Limit(63)))
    [] IsFloat(v) -> UbMark("D") \o <<<<"float", 64, v>>>>
    [] v.k = "bytes" -> UbMark("[") \o UbMark("$") \o UbMark("U") \o UbMark("#") \o UbInt(Len(v.bytes)) \o Raw(v.bytes)
    [] v.k = "str" -> UbMark("S") \o UbText(v.text)
    [] v.k = "arr" -> UbMark("[") \o FlattenSeq([i \in DOMAIN v.items |-> UbEncode(v.items[i])]) \o UbMark("]")
    [] v.k = "obj" -> UbMark("{")
         \o FlattenSeq([i \in DOMAIN v.pairs |-> UbText(v.pairs[i][1]) \o UbEncode(v.pairs[i][2])]) \o UbMark("}")

UbAt(tokens, name) == tokens # << >> /\ tokens[1][1] = "octet" /\ tokens[1][2] = name
UbWidths == [name \in {"U", "i"} |-> 8] @@ [name \in {"I"} |-> 16] @@ [name \in {"l"} |-> 32] @@ [name \in {"L"} |-> 64]
\* the byte and the count of a typed array: <<type, count, rest>>, either missing
UbType(tokens) == IF UbAt(tokens, "$") /\ Len(tokens) > 1 THEN <<tokens[2][2], After(tokens, 2)>> ELSE <<"", tokens>>

RECURSIVE UbRead(_)
\* a length is a value of its own; a negative one is a huge usize
UbLength(tokens) ==
  Then(UbRead(tokens), LAMBDA v, rest : IF v.k \in {"int", "uint"} THEN Got(v.n, rest) ELSE Fail)
UbTakeText(tokens) == Then(UbLength(tokens), LAMBDA n, at : TakeText(at, n))
UbKey(tokens) == Then(UbTakeText(tokens), LAMBDA key, rest : IF key = Proto THEN Fail ELSE Got(key, rest))
\* read_arr: `$U#` is data; a count makes raw data of the type's word size,
\* which nothing closes; otherwise items up to the bracket.
UbArray(tokens) ==
  LET type == UbType(tokens)
      Word(t) == CASE t = "I" -> 2 [] t \in {"l", "d"} -> 4 [] t \in {"D", "L"} -> 8 [] OTHER -> 1
      Data(n, at) == IF type[1] = "U" THEN As(TakeRaw(at, n), Bytes)
                     ELSE As(TakeRaw(UbType(at)[2], n * Word(UbType(at)[1])), LAMBDA b : Ext(0, Bytes(b)))
  IN  IF UbAt(type[2], "#") THEN Then(UbLength(Tail(type[2])), Data)
      ELSE As(Until(LAMBDA here : UbAt(here, "]"), type[2], UbRead), Arr)
UbRead(tokens) ==
  IF tokens = << >> \/ tokens[1][1] # "octet" THEN Fail
  ELSE LET mark == tokens[1][2]
           rest == Tail(tokens)
       IN  CASE mark = "Z" -> Got(Null, rest)
             [] mark = "N" -> Got(Undefined, rest)
             [] mark \in {"T", "F"} -> Got(Bool(mark = "T"), rest)
             [] mark \in DOMAIN UbWidths -> As(TakeNum(rest, UbWidths[mark]), Integer)
             [] mark \in {"d", "D"} -> TakeFloat(rest, IF mark = "d" THEN 32 ELSE 64)
             [] mark = "S" -> As(UbTakeText(rest), Str)
             [] mark = "[" -> UbArray(rest)
             [] mark = "{" -> As(Until(LAMBDA here : UbAt(here, "}"), rest, LAMBDA here : Pairing(UbKey, UbRead, here)), Obj)
             [] OTHER -> Fail

-----------------------------------------------------------------------------
(* Bencode with the extensions of this code: BencodeEncoder, BencodeDecoder. *)
(* A decimal number is one token <<"num", 0, n>>.                            *)
BenMark(c) == <<<<"octet", c>>>>
BenNum(n) == BenMark("i") \o <<<<"num", 0, n>>>> \o BenMark("e")
BenBytes(bytes) == <<<<"num", 0, Len(bytes)>>>> \o BenMark(":") \o Raw(bytes)

\* write_float: rounded, away from zero at a half, NaN to 0, kept in an i64
BenRounded(v) ==
  CASE v = Special("nan") -> 0
    [] v.k = "special" -> Limit(63)
    [] v.f >= 0 -> (v.f + 1) \div 2
    [] OTHER -> -((1 - v.f) \div 2)

RECURSIVE BenEncode(_)
BenEncode(v) ==
  LET Sorted == SortSeq(v.pairs, KeyBefore)
  IN  CASE v.k \in {"null", "ext", "blob"} -> BenMark("n")
        [] v.k = "undefined" -> BenMark("u")
        [] v.k = "bool" -> BenMark(IF v.b THEN "t" ELSE "f")
        [] v.k \in {"int", "uint", "bigint"} -> BenNum(v.n)
        [] IsFloat(v) -> BenNum(BenRounded(v))
        [] v.k = "bytes" -> BenBytes(v.bytes)
        [] v.k = "str" -> BenBytes(Utf8(v.text))
        [] v.k = "arr" -> BenMark("l") \o FlattenSeq([i \in DOMAIN v.items |-> BenEncode(v.items[i])]) \o BenMark("e")
        [] v.k = "obj" -> BenMark("d")
             \o FlattenSeq([i \in DOMAIN Sorted |-> BenBytes(Utf8(Sorted[i][1])) \o BenEncode(Sorted[i][2])]) \o BenMark("e")

BenAt(tokens, c) == tokens # << >> /\ tokens[1][1] = "octet" /\ tokens[1][2] = c
\* read_bin: a length, a colon and so many bytes
BenTake(tokens) == Then(TakeNum(tokens, 0), LAMBDA n, at : IF BenAt(at, ":") THEN TakeRaw(Tail(at), n) ELSE Fail)
BenKey(tokens) ==
  Then(BenTake(tokens), LAMBDA key, rest : IF IsUtf8(key) /\ TextOf(key) # Proto THEN Got(TextOf(key), rest) ELSE Fail)
BenAtEnd(tokens) == BenAt(tokens, "e")
\* read_num: an i64, else a big integer
BenInteger(tokens) ==
  Then(TakeNum(tokens, 0), LAMBDA n, rest :
    IF BenAtEnd(rest) THEN Got(IF Fits(n, 63) THEN Integer(n) ELSE BigInt(n), Tail(rest)) ELSE Fail)
RECURSIVE BenRead(_)
BenRead(tokens) ==
  CASE tokens = << >> -> Fail
    [] tokens[1][1] = "num" -> As(BenTake(tokens), Bytes)
    [] BenAt(tokens, "i") -> BenInteger(Tail(tokens))
    [] BenAt(tokens, "d") -> As(Until(BenAtEnd, Tail(tokens), LAMBDA here : Pairing(BenKey, BenRead, here)), Obj)
    [] BenAt(tokens, "l") -> As(Until(BenAtEnd, Tail(tokens), BenRead), Arr)
    [] BenAt(tokens, "t") \/ BenAt(tokens, "f") -> Got(Bool(tokens[1][2] = "t"), Tail(tokens))
    [] BenAt(tokens, "n") -> Got(Null, Tail(tokens))
    [] BenAt(tokens, "u") -> Got(Undefined, Tail(tokens))
    [] OTHER -> Fail

-----------------------------------------------------------------------------
(* Ion: IonEncoder, IonDecoder and the table of symbols that keys become. A  *)
(* descriptor is <<"octet", type, n>>: n is a length, 14 when a VUint with   *)
(* the length follows, 15 for null. The longest length a descriptor holds    *)
(* (13) is scaled down to 5, the 127 of a VUint's first byte to Limit(7).    *)
Ivm == <<<<"octet", "ivm", 0>>>>   \* ION_BVM, four bytes
\* SYSTEM_SYMBOLS from 1 on
SystemSymbols == <<<<"$ion">>, <<"$ion_1_0">>, <<"$ion_symbol_table">>, <<"name">>, <<"version">>, <<"imports">>,
                   <<"symbols">>, <<"max_id">>, <<"$ion_shared_symbol_table">>>>

\* IonSymbols: the user's symbols follow the system's; none is there twice.
AddSymbol(user, text) == IF Contains(SystemSymbols \o user, text) THEN user ELSE Append(user, text)
SymbolId(user, text) == CHOOSE i \in DOMAIN (SystemSymbols \o user) : (SystemSymbols \o user)[i] = text
\* collect_symbols: the keys of a value in the order of the encoder's walk
RECURSIVE Keys(_)
Keys(v) ==
  CASE v.k = "obj" -> FlattenSeq([i \in DOMAIN v.pairs |-> <<v.pairs[i][1]>> \o Keys(v.pairs[i][2])])
    [] v.k = "arr" -> FlattenSeq([i \in DOMAIN v.items |-> Keys(v.items[i])])
    [] OTHER -> << >>
UserSymbols(v) == FoldLeft(AddSymbol, << >>, Keys(v))

---------------------------------------------------------------------------
Descriptor(type, n) == <<<<"octet", type, n>>>>
VUint(n) == <<<<"num", IF n <= Limit(7) THEN 8 ELSE 16, n>>>>
Short == 5
Content(type, tokens) ==
  LET n == SizeOf(tokens)
  IN  (IF n <= Short THEN Descriptor(type, n) ELSE Descriptor(type, 14) \o VUint(n)) \o tokens
\* uint_byte_len: as few bytes as hold the number
ByteLen(n) == CHOOSE l \in 1 .. 8 : n <= Limit(8 * l) /\ (l > 1 => n > Limit(8 * (l - 1)))
Magnitude(type, n) ==
  IF n = 0 THEN Descriptor("uint", 0) ELSE Descriptor(type, ByteLen(n)) \o <<<<"num", 8 * ByteLen(n), n>>>>
IonInt(n) ==
  CASE n > Limit(64) \/ -n > Limit(64) -> Descriptor("null", 15)
    [] n >= 0 -> Magnitude("uint", n)
    [] OTHER -> Magnitude("nint", -n)

RECURSIVE IonValue(_, _)
IonValue(user, v) ==
  CASE v.k \in {"null", "undefined", "ext", "blob"} -> Descriptor("null", 15)
    [] v.k = "bool" -> Descriptor("bool", IF v.b THEN 1 ELSE 0)
    [] v.k \in {"int", "uint", "bigint"} -> IonInt(v.n)
    [] IsFloat(v) -> Descriptor("float", 8) \o <<<<"float", 64, v>>>>
    [] v.k = "str" -> Content("string", Raw(Utf8(v.text)))
    [] v.k = "bytes" -> Content("binary", Raw(v.bytes))
    [] v.k = "arr" -> Content("list", FlattenSeq([i \in DOMAIN v.items |-> IonValue(user, v.items[i])]))
    [] v.k = "obj" -> Content("struct",
         FlattenSeq([i \in DOMAIN v.pairs |-> VUint(SymbolId(user, v.pairs[i][1])) \o IonValue(user, v.pairs[i][2])]))

\* write_symbol_table: an annotation of a struct with the list of symbols
SymbolTable(user) ==
  LET list == Content("list", FlattenSeq([i \in DOMAIN user |-> Content("string", Raw(Utf8(user[i])))]))
      id == VUint(SymbolId(<< >>, <<"$ion_symbol_table">>))
  IN  Content("anno", VUint(SizeOf(id)) \o id \o Content("struct", VUint(SymbolId(<< >>, <<"symbols">>)) \o list))

IonEncode(v) ==
  LET user == UserSymbols(v)
  IN  Ivm \o (IF user = << >> THEN << >> ELSE SymbolTable(user)) \o IonValue(user, v)

---------------------------------------------------------------------------
TakeVUint(tokens) ==
  IF tokens = << >> \/ tokens[1][1] # "num" THEN Fail ELSE Got(tokens[1][3], Tail(tokens))
\* the length in the descriptor or behind it; the content must be there
TakeSize(n, tokens) ==
  Then(IF n = 14 THEN TakeVUint(tokens) ELSE Got(n, tokens), LAMBDA size, rest :
    IF size <= SizeOf(rest) THEN Got(size, rest) ELSE Fail)
IonNum(n, tokens, Of(_)) ==
  CASE n = 15 -> Got(Null, tokens)
    [] n = 0 -> Got(Of(0), tokens)
    [] OTHER -> As(TakeNum(tokens, 8 * n), Of)
Negated(n) == IF n <= Limit(63) + 1 THEN Integer(-n) ELSE BigInt(-n)

RECURSIVE IonVal(_, _), IonItems(_, _, _), IonFields(_, _, _), IonNotes(_, _)
\* Items and fields up to the end of the content, which none may pass.
Used(tokens, rest) == SizeOf(tokens) - SizeOf(rest)
IonItems(user, left, tokens) ==
  IF left <= 0 THEN IF left = 0 THEN Got(<< >>, tokens) ELSE Fail
  ELSE Then(IonVal(user, tokens), LAMBDA item, rest :
         As(IonItems(user, left - Used(tokens, rest), rest), LAMBDA items : <<item>> \o items))
IonFields(user, left, tokens) ==
  LET symbols == SystemSymbols \o user
  IN  IF left <= 0 THEN IF left = 0 THEN Got(<< >>, tokens) ELSE Fail
      ELSE Then(TakeVUint(tokens), LAMBDA id, at :
             Then(IF id \in DOMAIN symbols THEN IonVal(user, at) ELSE Fail, LAMBDA val, rest :
               As(IonFields(user, left - Used(tokens, rest), rest), LAMBDA fields : <<<<symbols[id], val>>>> \o fields)))
\* the annotations, of which only the length matters
IonNotes(left, tokens) ==
  IF left <= 0 THEN IF left = 0 THEN Got(0, tokens) ELSE Fail
  ELSE Then(TakeVUint(tokens), LAMBDA id, rest : IonNotes(left - Used(tokens, rest), rest))
IonWrapped(user, n, tokens) ==
  IF n < 3 THEN Fail
  ELSE Then(IF n = 14 THEN TakeVUint(tokens) ELSE Got(n, tokens), LAMBDA size, at : Then(TakeVUint(at), LAMBDA notes, from :
         Then(IonNotes(notes, from), LAMBDA none, rest : IonVal(user, rest))))
IonVal(user, tokens) ==
  IF tokens = << >> \/ tokens[1][1] # "octet" THEN Fail
  ELSE LET type == tokens[1][2]
           n == tokens[1][3]
           rest == Tail(tokens)
           Sized(F(_, _)) == Then(TakeSize(n, rest), F)
           Hidden(size, at) == Then(Skipped(at, size), LAMBDA none, next : IonVal(user, next))
       IN  CASE type = "anno" -> IonWrapped(user, n, rest)
             [] n = 15 -> Got(Null, rest)
             [] type = "null" -> As(Sized(Hidden), LAMBDA v : Null)
             [] type = "bool" -> IF n <= 1 THEN Got(Bool(n = 1), rest) ELSE Fail
             [] type = "uint" -> IonNum(n, rest, UInteger)
             [] type = "nint" -> IF n = 0 THEN Fail ELSE IonNum(n, rest, Negated)
             [] type = "float" -> IF n = 0 THEN Got(Float(0), rest)
                                  ELSE IF n \in {4, 8} THEN TakeFloat(rest, 8 * n) ELSE Fail
             [] type = "string" -> Sized(LAMBDA size, at : As(TakeText(at, size), Str))
             [] type = "binary" -> Sized(LAMBDA size, at : As(TakeRaw(at, size), Bytes))
             [] type = "list" -> Sized(LAMBDA size, at : As(IonItems(user, size, at), Arr))
             [] type = "struct" -> Sized(LAMBDA size, at : As(IonFields(user, size, at), Obj))
             [] OTHER -> Fail

\* read_symbol_table: the texts of the first field `symbols`
TableSymbols(v) ==
  LET lists == IF v.k = "obj" THEN SelectSeq(v.pairs, LAMBDA p : p[1] = <<"symbols">>) ELSE << >>
      items == IF lists # << >> /\ lists[1][2].k = "arr" THEN lists[1][2].items ELSE << >>
      texts == SelectSeq(items, LAMBDA item : item.k = "str")
  IN  FoldLeft(AddSymbol, << >>, [i \in DOMAIN texts |-> texts[i].text])
IonRead(tokens) ==
  LET body == IF tokens # << >> THEN Tail(tokens) ELSE << >>
      annotated == body # << >> /\ body[1][1] = "octet" /\ body[1][2] = "anno"
  IN  CASE tokens = << >> \/ tokens[1] # Ivm[1] -> Fail
        [] annotated -> Then(IonVal(<< >>, body), LAMBDA table, rest : IonVal(TableSymbols(table), rest))
        [] OTHER -> IonVal(<< >>, body)

-----------------------------------------------------------------------------
(* The SSH wire format: SshEncoder, SshDecoder and JsonPackMpint. A reader   *)
(* must know what comes: `type` names the decoder's method. The bits of a    *)
(* byte are scaled as Limit(8) is: four, three of them ASCII.                *)
\* write_ascii_str keeps seven bits of each byte.
Seven(byte) == CASE byte = "c3" -> "C" [] byte = "a9" -> "paren" [] byte = "ff" -> "del" [] OTHER -> byte
SshCounted(tokens) == <<<<"num", 32, Len(tokens)>>>> \o tokens
Joined(names) ==
  FlattenSeq([i \in DOMAIN names |-> (IF i > 1 THEN <<",">> ELSE << >>) \o Utf8(names[i].text)])
SshUint(n) == IF 0 <= n /\ n <= Limit(32) THEN <<<<"num", 32, n>>>> ELSE <<<<"num", 64, AsUnsigned(n, 64)>>>>

\* what write_any takes; an array is a list of names
SshTakes(v) ==
  \/ v.k \in {"bool", "int", "uint", "str", "bytes"}
  \/ v.k = "arr" /\ \A i \in DOMAIN v.items : v.items[i].k = "str"
SshEncode(v) ==
  CASE v.k = "bool" -> <<<<"num", 8, IF v.b THEN 1 ELSE 0>>>>
    [] v.k \in {"int", "uint"} -> SshUint(v.n)
    [] v.k = "str" -> SshCounted(Raw(Utf8(v.text)))
    [] v.k = "bytes" -> SshCounted(Raw(v.bytes))
    [] v.k = "arr" -> LET b == Joined(v.items) IN SshCounted(Raw([i \in DOMAIN b |-> Seven(b[i])]))

\* how the other side asks for what was written
SshType(v) ==
  CASE v.k = "bool" -> "boolean" [] v.k = "str" -> "str" [] v.k = "bytes" -> "bin_str" [] v.k = "arr" -> "name_list"
    [] OTHER -> IF 0 <= v.n /\ v.n <= Limit(32) THEN "uint32" ELSE "uint64"
\* read_name_list: no text is no name; a comma always parts two
Parted(bytes) ==
  LET At == <<0>> \o SelectSeq([i \in DOMAIN bytes |-> i], LAMBDA i : bytes[i] = ",") \o <<Len(bytes) + 1>>
  IN  IF bytes = << >> THEN << >> ELSE [j \in 1 .. Len(At) - 1 |-> Str(SubSeq(bytes, At[j] + 1, At[j + 1] - 1))]
SshRead(type, tokens) ==
  LET n == TakeNum(tokens, 32)
      raw == IF n.ok THEN TakeRaw(n.rest, n.v) ELSE Fail
  IN  CASE type = "boolean" -> As(TakeNum(tokens, 8), LAMBDA b : Bool(b # 0))
        [] type = "uint32" -> As(n, UInteger)
        [] type = "uint64" -> As(TakeNum(tokens, 64), UInteger)
        [] type = "bin_str" -> As(raw, Bytes)
        [] type = "str" -> IF n.ok THEN As(TakeText(n.rest, n.v), Str) ELSE Fail
        [] type = "name_list" -> As(raw, LAMBDA b : Arr(Parted(b)))

---------------------------------------------------------------------------
\* JsonPackMpint: the digits of a number in two's complement, as few as keep
\* its sign.
Digit == Limit(8) + 1
Signed(digit) == digit >= Digit \div 2
RECURSIVE DigitsOf(_), ValueOf(_)
DigitsOf(n) == IF n = 0 THEN << >> ELSE DigitsOf(n \div Digit) \o <<n % Digit>>
ValueOf(digits) == IF digits = << >> THEN 0 ELSE ValueOf(Front(digits)) * Digit + Last(digits)
RECURSIVE Stripped(_)
Stripped(digits) ==
  IF Len(digits) > 1 /\ digits[1] = Digit - 1 /\ Signed(digits[2]) THEN Stripped(Tail(digits)) ELSE digits
\* Mutant of FromI128: a number whose first digit looks negative stays as it is.
FromI128Unsigned(n) ==
  IF n >= 0 THEN DigitsOf(n) ELSE Stripped(DigitsOf(Digit ^ (Len(DigitsOf(-2 * n)) + 1) + n))
\* from_i128: `-n` has a bit more for the sign
FromI128(n) ==
  LET d == DigitsOf(n)
  IN  CASE n < 0 -> Stripped(DigitsOf(Digit ^ Len(DigitsOf(-2 * n)) + n))
        [] d # << >> /\ Signed(d[1]) -> <<0>> \o d
        [] OTHER -> d
ToI128(digits) ==
  IF digits # << >> /\ Signed(digits[1]) THEN ValueOf(digits) - Digit ^ Len(digits) ELSE ValueOf(digits)
MpintTokens(n) == LET d == FromI128(n) IN SshCounted([i \in DOMAIN d |-> <<"num", 8, d[i]>>])
MpintRead(tokens) ==
  LET n == TakeNum(tokens, 32)
  IN  IF n.ok /\ n.v <= Len(n.rest)
      THEN Got(ToI128([i \in 1 .. n.v |-> n.rest[i][3]]), After(n.rest, n.v)) ELSE Fail

-----------------------------------------------------------------------------
(* CompressionTable and DecompressionTable: the literals of a value in a     *)
(* table, integers as the differences of their order, and the value with     *)
(* indices in place of its literals.                                         *)
IsInt(v) == v.k \in {"int", "uint", "bigint"}
\* walk: the literals of a value, keys and tags among them; data is passed by
RECURSIVE Literals(_)
Literals(v) ==
  CASE v.k = "obj" -> FlattenSeq([i \in DOMAIN v.pairs |-> <<Str(v.pairs[i][1])>> \o Literals(v.pairs[i][2])])
    [] v.k = "arr" -> FlattenSeq([i \in DOMAIN v.items |-> Literals(v.items[i])])
    [] v.k = "ext" -> <<Integer(v.tag)>> \o Literals(v.val)
    [] v.k \in {"bytes", "blob"} -> << >>
    [] OTHER -> <<v>>

\* literal_sort_key; the texts of floats sort before others here, by value
SortKey(v) ==
  CASE v.k = "str" -> v.text
    [] v.k = "bool" -> <<IF v.b THEN "true" ELSE "false">>
    [] v.k = "special" -> <<v.s>>
    [] OTHER -> <<v.k>>
LiteralBefore(a, b) ==
  IF a.k = "float" \/ b.k = "float" THEN a.k = "float" /\ (b.k = "float" => a.f < b.f)
  ELSE Before(SortKey(a), SortKey(b))
\* SortSeq does not keep the order of equal elements: what was added first.
RECURSIVE Inserted(_, _)
Inserted(sorted, v) ==
  IF sorted # << >> /\ LiteralBefore(v, Last(sorted)) THEN Append(Inserted(Front(sorted), v), Last(sorted))
  ELSE Append(sorted, v)
Distinct(seq) == FoldLeft(LAMBDA acc, v : IF Contains(acc, v) THEN acc ELSE Append(acc, v), << >>, seq)
\* create fails for an integer that no i64 holds.
IntegersOf(v) == {l.n : l \in {l \in ToSet(Literals(v)) : IsInt(l)}}
HasTable(v) == \A n \in IntegersOf(v) : Fits(n, 63)
Ascending(set) == SetToSortSeq(set, LAMBDA a, b : a < b)
Others(v) == FoldLeft(Inserted, << >>, Distinct(SelectSeq(Literals(v), LAMBDA l : ~IsInt(l))))

\* finalize
TableOf(v) ==
  LET ints == Ascending(IntegersOf(v))
  IN  [i \in DOMAIN ints |-> Integer(IF i = 1 THEN ints[i] ELSE ints[i] - ints[i - 1])] \o Others(v)
\* get_index, counted from 0
EntriesOf(v) == LET ints == Ascending(IntegersOf(v)) IN [i \in DOMAIN ints |-> Integer(ints[i])] \o Others(v)
IndexIn(entries, l) ==
  LET e == IF IsInt(l) THEN Integer(l.n) ELSE l IN (CHOOSE i \in DOMAIN entries : entries[i] = e) - 1

\* compress; data has no place in a table
RECURSIVE Compressible(_), Compressed(_, _)
Compressible(v) ==
  CASE v.k = "obj" -> \A i \in DOMAIN v.pairs : Compressible(v.pairs[i][2])
    [] v.k = "arr" -> \A i \in DOMAIN v.items : Compressible(v.items[i])
    [] v.k = "ext" -> Compressible(v.val)
    [] OTHER -> v.k \notin {"bytes", "blob"}
IndexText(i) == <<ToString(i)>>
Compressed(entries, v) ==
  CASE v.k = "obj" ->
         LET by == SortSeq([i \in DOMAIN v.pairs |-> <<IndexIn(entries, Str(v.pairs[i][1])), v.pairs[i][2]>>],
                           LAMBDA p, q : p[1] < q[1])
         IN  Obj([i \in DOMAIN by |-> <<IndexText(by[i][1]), Compressed(entries, by[i][2])>>])
    [] v.k = "arr" -> Arr([i \in DOMAIN v.items |-> Compressed(entries, v.items[i])])
    [] v.k = "ext" -> Ext(IndexIn(entries, Integer(v.tag)), Compressed(entries, v.val))
    [] OTHER -> Integer(IndexIn(entries, v))

---------------------------------------------------------------------------
\* import_table: a table that starts with an integer starts with a run of them.
Import(table) ==
  LET run == {i \in DOMAIN table : \A j \in 1 .. i : table[j].k = "int"}
      Sum(i) == FoldLeft(LAMBDA n, e : n + e.n, 0, SubSeq(table, 1, i))
  IN  [i \in DOMAIN table |-> IF i \in run THEN Integer(Sum(i)) ELSE table[i]]
TextOfInt(text, n) == CHOOSE i \in 0 .. n - 1 : IndexText(i) = text
\* literal_to_key: here every key was a text
RECURSIVE Decompressed(_, _)
Decompressed(table, v) ==
  CASE v.k \in {"int", "uint"} -> table[v.n + 1]
    [] v.k = "obj" -> Obj([i \in DOMAIN v.pairs |->
         <<table[TextOfInt(v.pairs[i][1], Len(table)) + 1].text, Decompressed(table, v.pairs[i][2])>>])
    [] v.k = "arr" -> Arr([i \in DOMAIN v.items |-> Decompressed(table, v.items[i])])
    [] v.k = "ext" -> Ext(table[v.tag + 1].n, Decompressed(table, v.val))
    [] OTHER -> v

(* RESP3: RespEncoder, RespEncoderLegacy, RespDecoder. A type's byte is the   *)
(* octet it is written with; the digits of a number are one token, <<"dec",   *)
(* n>>, and those of a float <<"decf", f>>; \r and \n are octets. A reader    *)
(* that runs out of input answers `End`; a streaming decoder then waits.      *)
CONSTANT OverflowChecks   \* overflow panics (the dev profile), else it wraps
ASSUME OverflowIsOneOfTwo == OverflowChecks \in BOOLEAN
End == [ok |-> FALSE, end |-> TRUE]
R == <<"octet", "cr">>
Octet(c) == <<"octet", c>>
Line(c, tokens) == <<Octet(c)>> \o tokens \o <<R, Octet("lf")>>
Dec(n) == <<<<"dec", n>>>>
Counted(c, n, tokens) == Line(c, Dec(n)) \o tokens
Data(bytes) == Raw(bytes) \o <<R, Octet("lf")>>

\* bound: 64 bytes of a simple string are four
IsSimple(bytes) == Len(bytes) < 4 /\ ~Contains(bytes, "nl")
Verbatim(bytes) == Counted("=", Len(bytes) + 4, Raw(<<"t", "x", "t", ":">>) \o Data(bytes))
RespStr(t) == LET b == Utf8(t) IN IF IsSimple(b) THEN Line("+", Raw(b)) ELSE Verbatim(b)
RespBulk(bytes) == Counted("$", Len(bytes), Data(bytes))
RespNull == Line("_", << >>)

\* write_any; an extension is a push, attributes or a verbatim string
RECURSIVE RespEncode(_)
RespItems(items) == FlattenSeq([i \in DOMAIN items |-> RespEncode(items[i])])
RespPairs(pairs) == FlattenSeq([i \in DOMAIN pairs |-> RespStr(pairs[i][1]) \o RespEncode(pairs[i][2])])
RespEncode(v) ==
  CASE v.k = "bool" -> Line("#", Raw(<<IF v.b THEN "t" ELSE "f">>))
    [] v.k = "int" -> Line(":", Dec(v.n))
    [] v.k = "uint" -> Line(":", Dec(AsSigned(v.n, 63)))
    [] v.k = "bigint" -> Line("(", Dec(v.n))
    [] IsFloat(v) -> Line(",", <<<<"decf", v>>>>)
    [] v.k = "str" -> RespStr(v.text)
    [] v.k = "bytes" -> RespBulk(v.bytes)
    [] v.k = "arr" -> Counted("*", Len(v.items), RespItems(v.items))
    [] v.k = "obj" -> Counted("%", Len(v.pairs), RespPairs(v.pairs))
    [] v.k = "ext" /\ v.tag = 1 /\ v.val.k = "arr" -> Counted(">", Len(v.val.items), RespItems(v.val.items))
    [] v.k = "ext" /\ v.tag = 2 /\ v.val.k = "obj" -> Counted("|", Len(v.val.pairs), RespPairs(v.val.pairs))
    [] v.k = "ext" /\ v.tag = 3 /\ v.val.k = "str" -> Verbatim(Utf8(v.val.text))
    [] OTHER -> RespNull
\* write_cmd: the name and the arguments of a command
RespCmd(args) == Counted("*", Len(args), FlattenSeq([i \in DOMAIN args |-> RespBulk(Utf8(args[i]))]))

\* RespEncoderLegacy: RESP2 has no null but -1, no object but a list of its keys
\* and values, no number but an i64 that a double holds.
LegacyStr(t) == LET b == Utf8(t) IN IF IsSimple(b) THEN Line("+", Raw(b)) ELSE RespBulk(b)
LegacyNumber(v) ==
  IF v.k = "float" /\ Integral(v) /\ Fits(v.f \div 2, 53) THEN Line(":", Dec(v.f \div 2)) ELSE Line("+", <<<<"decf", v>>>>)
RECURSIVE LegacyEncode(_)
LegacyItem(v) == IF v = Null THEN Line("$", Dec(-1)) ELSE LegacyEncode(v)
LegacyArr(items) == Counted("*", Len(items), FlattenSeq([i \in DOMAIN items |-> LegacyItem(items[i])]))
LegacyObj(pairs) ==
  Counted("*", 2 * Len(pairs), FlattenSeq([i \in DOMAIN pairs |-> LegacyStr(pairs[i][1]) \o LegacyItem(pairs[i][2])]))
LegacyEncode(v) ==
  CASE v.k = "bool" -> Line("+", Raw(IF v.b THEN <<"TRUE">> ELSE <<"FALSE">>))
    [] v.k = "int" -> LegacyNumber(AsFloat(v.n))
    [] v.k = "uint" -> IF Fits(v.n, 63) THEN Line(":", Dec(v.n)) ELSE Line("+", Dec(v.n))
    [] v.k = "bigint" -> Line("+", Dec(v.n))
    [] IsFloat(v) -> LegacyNumber(v)
    [] v.k = "str" -> LegacyStr(v.text)
    [] v.k = "bytes" -> RespBulk(v.bytes)
    [] v.k = "arr" -> LegacyArr(v.items)
    [] v.k = "obj" -> LegacyObj(v.pairs)
    [] v.k = "ext" /\ v.tag = 1 /\ v.val.k = "arr" -> LegacyArr(v.val.items)
    [] v.k = "ext" /\ v.tag = 2 /\ v.val.k = "obj" -> LegacyObj(v.val.pairs)
    [] v.k = "ext" /\ v.tag = 3 /\ v.val.k = "str" -> LegacyStr(v.val.text)
    [] OTHER -> Line("*", Dec(-1))

---------------------------------------------------------------------------
\* RespDecoder. What stands before \r, with the two octets that end it.
TakeLine(tokens) ==
  LET ends == {i \in DOMAIN tokens : tokens[i] = R}
      at == CHOOSE i \in ends : \A j \in ends : i <= j
  IN  IF ends = {} \/ (ends # {} /\ at + 1 > Len(tokens)) THEN End
      ELSE Got(SubSeq(tokens, 1, at - 1), After(tokens, at + 1))
TakeDec(tokens) == As(TakeLine(tokens), LAMBDA line : line[1][2])
\* so many bytes and the end of the line
TakeData(tokens, n) ==
  IF n + 2 > Len(tokens) THEN End ELSE Got([i \in 1 .. n |-> tokens[i][2]], After(tokens, n + 2))
\* A text that was written as a number is read as characters: one of them here.
Chars(line) == [i \in DOMAIN line |-> IF line[i][1] = "byte" THEN line[i][2] ELSE "digits"]
IsNil(tokens) == tokens # << >> /\ tokens[1] = <<"dec", -1>>

\* read_int: the digits are added up in an i64 and then negated, which for the
\* least i64 overflows twice. Wrapping, it is the least i64 again.
RespInteger(n, rest) == IF n < -Limit(63) /\ OverflowChecks THEN Fail ELSE Got(Integer(n), rest)

RECURSIVE RespRead(_, _)
RespReadItems(utf8, n, tokens) == Many(n, tokens, LAMBDA at : RespRead(utf8, at))
\* A key that is no text is the text of the value.
RespReadPairs(utf8, n, tokens) ==
  LET Key(v) == IF v.k = "str" THEN v.text ELSE <<"debug">>
  IN  As(RespReadItems(utf8, 2 * n, tokens), LAMBDA kv : [i \in 1 .. n |-> <<Key(kv[2 * i - 1]), kv[2 * i]>>])
RespRead(utf8, tokens) ==
  LET CountedBy(Take(_, _)) == Then(TakeDec(Tail(tokens)), LAMBDA n, rest : Take(rest, n))
      Text(r) == Then(r, LAMBDA b, rest : IF IsUtf8(b) THEN Got(Str(TextOf(b)), rest) ELSE Fail)
      Binary(b) == IF utf8 /\ IsUtf8(b) THEN Str(TextOf(b)) ELSE Bytes(b)
      Items(rest, n) == RespReadItems(utf8, n, rest)
      Pairs(rest, n) == RespReadPairs(utf8, n, rest)
      OnLine(F(_)) == As(TakeLine(Tail(tokens)), F)
      Is(c) == tokens[1] = Octet(c)
  IN  CASE tokens = << >> -> End
        [] Is(":") -> Then(TakeDec(Tail(tokens)), RespInteger)
        [] Is("(") -> As(TakeDec(Tail(tokens)), BigInt)
        [] Is(",") -> OnLine(LAMBDA l : l[1][2])
        [] Is("+") \/ Is("-") -> OnLine(LAMBDA l : Str(TextOf(Chars(l))))
        [] Is("#") -> OnLine(LAMBDA l : Bool(l[1][2] = "t"))
        [] Is("_") \/ ((Is("$") \/ Is("*")) /\ IsNil(Tail(tokens))) -> OnLine(LAMBDA l : Null)
        [] Is("$") /\ ~IsNil(Tail(tokens)) -> As(CountedBy(TakeData), Binary)
        [] Is("!") -> Text(CountedBy(TakeData))
        [] Is("=") -> Text(As(CountedBy(TakeData), LAMBDA b : After(b, 4)))
        [] Is("~") \/ (Is("*") /\ ~IsNil(Tail(tokens))) -> As(CountedBy(Items), Arr)
        [] Is(">") -> As(CountedBy(Items), LAMBDA items : Ext(1, Arr(items)))
        [] Is("%") -> As(CountedBy(Pairs), Obj)
        [] Is("|") -> As(CountedBy(Pairs), LAMBDA pairs : Ext(2, Obj(pairs)))
        [] OTHER -> Fail

\* skip_any: lines, lengths and counts
RECURSIVE RespSkip(_)
RespSkip(tokens) ==
  LET c == tokens[1][2]
      Passing(Take(_, _)) == Then(TakeDec(Tail(tokens)), LAMBDA n, rest : As(Take(rest, n), LAMBDA v : 0))
  IN  CASE tokens = << >> -> End
        [] tokens # << >> /\ (c \in {":", ",", "+", "(", "-", "#", "_"} \/ (c \in {"$", "*"} /\ IsNil(Tail(tokens)))) ->
             As(TakeLine(Tail(tokens)), LAMBDA l : 0)
        [] tokens # << >> /\ c \in {"$", "!", "="} /\ ~IsNil(Tail(tokens)) -> Passing(TakeData)
        [] tokens # << >> /\ c \in {"*", "~", ">", "%", "|"} /\ (c = "*" => ~IsNil(Tail(tokens))) ->
             Passing(LAMBDA rest, n : Many(IF c \in {"%", "|"} THEN 2 * n ELSE n, rest, RespSkip))
        [] OTHER -> Fail
\* read_cmd: bulk strings, the first of them the name, in capitals
Upper(text) == [i \in DOMAIN text |-> CASE text[i] = "a" -> "A" [] text[i] = "b" -> "B" [] OTHER -> text[i]]
RespReadCmd(tokens) ==
  LET AreBytes(args) == \A i \in DOMAIN args : args[i].k = "bytes"
      Named(args) == [args EXCEPT ![1] = Bytes(Utf8(Upper(TextOf(@.bytes))))]
  IN  CASE tokens = << >> \/ Len(tokens) = 1 -> End
        [] tokens # << >> /\ (tokens[1] # Octet("*") \/ (Len(tokens) > 1 /\ IsNil(Tail(tokens)))) -> Fail
        [] OTHER -> Then(TakeDec(Tail(tokens)), LAMBDA n, at : IF n = 0 THEN Fail
                      ELSE Then(RespReadItems(FALSE, n, at), LAMBDA args, rest :
                             IF AreBytes(args) /\ IsUtf8(args[1].bytes) THEN Got(Named(args), rest) ELSE Fail))
=============================================================================
