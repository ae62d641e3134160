---------------------------- MODULE CborMsgPack -----------------------------
(* Formats of json-pack: CBOR and MessagePack. *)
EXTENDS PackValues

(* CBOR: the encoders CborEncoderFast, CborEncoder, CborEncoderStable and    *)
(* CborEncoderDag, the decoders CborDecoder and CborDecoderDag, skipping and *)
(* validation. A head byte is <<"octet", major, minor>>; the largest minor   *)
(* that is a number itself (23) is scaled down to 5.                         *)
CborEncoders == {"fast", "full", "stable", "dag", "streamed", "json"}

Tiny == Limit(5)
MinorOf(w) == CASE w = 8 -> 24 [] w = 16 -> 25 [] w = 32 -> 26 [] w = 64 -> 27
WidthFor(n) == CASE n <= Limit(8) -> 8 [] n <= Limit(16) -> 16 [] n <= Limit(32) -> 32 [] OTHER -> 64
\* write_u_integer, encode_nint and the headers: the shortest form of n
HeadOfWidth(major, w, n) == << <<"octet", major, MinorOf(w)>>, <<"num", w, n>> >>
HeadOf(major, n) == IF n <= Tiny THEN << <<"octet", major, n>> >> ELSE HeadOfWidth(major, WidthFor(n), n)

\* write_str: the header is chosen for four bytes a character before the bytes
\* are counted; the stable encoders count first.
CborText(enc, text) ==
  LET bytes == Utf8(text)
      guess == 4 * Len(text)
  IN  (CASE enc \in {"stable", "dag"} -> HeadOf(3, Len(bytes))
         [] guess <= Tiny -> << <<"octet", 3, Len(bytes)>> >>
         [] OTHER -> HeadOfWidth(3, WidthFor(guess), Len(bytes))) \o Raw(bytes)

CborInt(n) == IF n >= 0 THEN HeadOf(0, n) ELSE HeadOf(1, -1 - n)
\* write_big_int: too large a number is cut to u64::MAX, too small a one wraps
CborBig(n) ==
  CASE n > Limit(64) -> HeadOfWidth(0, 64, Limit(64))
    [] n < -Limit(63) - 1 -> HeadOfWidth(1, 64, AsUnsigned(-1 - n, 64))
    [] OTHER -> CborInt(n)
CborFloat(enc, v) ==
  CASE enc = "dag" /\ v.k = "special" -> << <<"octet", 7, 22>> >>
    [] enc \in {"full", "stable", "json"} /\ FitsF32(v) -> << <<"octet", 7, 26>>, <<"float", 32, v>> >>
    [] OTHER -> << <<"octet", 7, 27>>, <<"float", 64, v>> >>

\* write_start_arr, write_start_obj, write_start_str and write_start_bin with
\* what a caller writes up to write_end: a text in one chunk a character
CborEnd == <<"octet", 7, 31>>
Streamed(major, parts) == <<<<"octet", major, 31>>>> \o FlattenSeq(parts) \o <<CborEnd>>

RECURSIVE CborEncode(_, _)
CborEncode(enc, v) ==
  LET Pair(p) == CborText(enc, p[1]) \o CborEncode(enc, p[2])
      Sorted == IF enc \in {"stable", "dag"} THEN SortSeq(v.pairs, ShorterBefore) ELSE v.pairs
  IN  CASE v.k = "null" -> << <<"octet", 7, 22>> >>
        [] v.k = "undefined" -> << <<"octet", 7, IF enc = "full" THEN 23 ELSE 22>> >>
        [] v.k = "bool" -> << <<"octet", 7, IF v.b THEN 21 ELSE 20>> >>
        [] v.k \in {"int", "uint"} -> CborInt(v.n)
        [] v.k = "bigint" -> CborBig(v.n)
        [] IsFloat(v) -> CborFloat(enc, v)
        [] v.k = "bytes" /\ enc = "streamed" ->
             Streamed(2, [i \in DOMAIN v.bytes |-> HeadOf(2, 1) \o Raw(<<v.bytes[i]>>)])
        [] v.k = "bytes" -> HeadOf(2, Len(v.bytes)) \o Raw(v.bytes)
        [] v.k = "str" /\ enc = "streamed" ->
             Streamed(3, [i \in DOMAIN v.text |-> CborText("fast", <<v.text[i]>>)])
        [] v.k = "str" -> CborText(enc, v.text)
        [] v.k = "arr" /\ enc = "streamed" -> Streamed(4, [i \in DOMAIN v.items |-> CborEncode(enc, v.items[i])])
        [] v.k = "arr" -> HeadOf(4, Len(v.items)) \o FlattenSeq([i \in DOMAIN v.items |-> CborEncode(enc, v.items[i])])
        [] v.k = "obj" /\ enc = "streamed" -> Streamed(5, [i \in DOMAIN v.pairs |-> Pair(v.pairs[i])])
        [] v.k = "obj" -> HeadOf(5, Len(v.pairs)) \o FlattenSeq([i \in DOMAIN Sorted |-> Pair(Sorted[i])])
        [] v.k = "ext" -> (IF enc = "dag" /\ v.tag # Limit(8) THEN << >> ELSE HeadOf(6, v.tag)) \o CborEncode(enc, v.val)
        [] v.k = "blob" -> v.tokens

---------------------------------------------------------------------------
IsOctet(tokens) == tokens # << >> /\ tokens[1][1] = "octet"
AtEnd(tokens) == IsOctet(tokens) /\ tokens[1] = CborEnd

\* read_uint and read_minor_len: the number in the head or behind it
CborNum(minor, rest) ==
  CASE minor < 24 -> Got(minor, rest)
    [] minor \in 24 .. 27 -> TakeNum(rest, CASE minor = 24 -> 8 [] minor = 25 -> 16 [] minor = 26 -> 32 [] minor = 27 -> 64)
    [] OTHER -> Fail

\* read_bin, read_str: one run of bytes, or chunks of the same major up to the
\* break; a chunk has a length of its own.
CborData(major, minor, rest) ==
  Then(CborNum(minor, rest), LAMBDA n, at : IF major = 3 THEN TakeText(at, n) ELSE TakeRaw(at, n))
CborRun(major, minor, rest) ==
  LET Chunk(here) == IF ~IsOctet(here) \/ here[1][2] # major THEN Fail ELSE CborData(major, here[1][3], Tail(here))
  IN  IF minor = 31 THEN As(Until(AtEnd, rest, Chunk), FlattenSeq) ELSE CborData(major, minor, rest)

\* A key that is not a text becomes one; here every such key is the empty text.
RECURSIVE CborRead(_)
CborKey(tokens) ==
  IF IsOctet(tokens) /\ tokens[1][2] = 3
  THEN Then(CborData(3, tokens[1][3], Tail(tokens)), LAMBDA key, rest : IF key = Proto THEN Fail ELSE Got(key, rest))
  ELSE As(CborRead(tokens), LAMBDA v : << >>)

\* n items, or those up to the break
CborMany(minor, rest, R(_)) == IF minor = 31 THEN Until(AtEnd, rest, R) ELSE Then(CborNum(minor, rest), LAMBDA n, at : Many(n, at, R))
\* read_tkn: words and floats; an unknown word is a blob
CborTkn(minor, rest) ==
  CASE minor \in {20, 21} -> Got(Bool(minor = 21), rest)
    [] minor = 22 -> Got(Null, rest)
    [] minor = 23 -> Got(Undefined, rest)
    [] minor <= 19 -> Got(Blob(<< <<"num", 8, minor>> >>), rest)
    [] minor = 24 -> As(TakeNum(rest, 8), LAMBDA n : Blob(<< <<"num", 8, n>> >>))
    [] minor \in 25 .. 27 -> TakeFloat(rest, CASE minor = 25 -> 16 [] minor = 26 -> 32 [] OTHER -> 64)
    [] OTHER -> Fail
CborRead(tokens) ==
  IF ~IsOctet(tokens) THEN Fail
  ELSE LET major == tokens[1][2]
           minor == tokens[1][3]
           rest == Tail(tokens)
       IN  CASE major = 0 -> As(CborNum(minor, rest), LAMBDA n : IF n <= Limit(63) THEN Integer(n) ELSE UInteger(n))
             [] major = 1 -> As(CborNum(minor, rest), LAMBDA n : IF -1 - n >= -Limit(63) - 1 THEN Integer(-1 - n) ELSE BigInt(-1 - n))
             [] major = 2 -> As(CborRun(2, minor, rest), Bytes)
             [] major = 3 -> As(CborRun(3, minor, rest), Str)
             [] major = 4 -> As(CborMany(minor, rest, CborRead), Arr)
             [] major = 5 -> As(CborMany(minor, rest, LAMBDA here : Pairing(CborKey, CborRead, here)), Obj)
             [] major = 6 -> Then(CborNum(minor, rest), LAMBDA tag, at : As(CborRead(at), LAMBDA v : Ext(tag, v)))
             [] OTHER -> CborTkn(minor, rest)

\* CborDecoderDag: tags other than 42 (here Limit(8)) fall away, but inside of
\* arrays, objects and values the base decoder reads on and keeps them.
RECURSIVE CborDagRead(_)
CborDagRead(tokens) ==
  IF ~IsOctet(tokens) \/ tokens[1][2] # 6 THEN CborRead(tokens)
  ELSE Then(CborNum(tokens[1][3], Tail(tokens)), LAMBDA tag, at :
         As(CborDagRead(at), LAMBDA v : IF tag = Limit(8) THEN Ext(tag, v) ELSE v))

---------------------------------------------------------------------------
\* skip_any, with which validate measures a value without reading it.
RECURSIVE CborSkip(_)
CborSkip(tokens) ==
  IF ~IsOctet(tokens) THEN Fail
  ELSE LET major == tokens[1][2]
           minor == tokens[1][3]
           rest == Tail(tokens)
           Chunk(here) == IF IsOctet(here) /\ here[1][2] = major THEN CborSkip(here) ELSE Fail
           \* a break may stand for a key, and not for a value
           Value(here) == IF minor = 31 /\ AtEnd(here) THEN Fail ELSE CborSkip(here)
           Pair(here) == Then(CborSkip(here), LAMBDA key, at : Value(at))
       IN  CASE major \in {0, 1} -> CborNum(minor, rest)
             [] major \in {2, 3} /\ minor = 31 -> Until(AtEnd, rest, Chunk)
             [] major \in {2, 3} /\ minor # 31 -> Then(CborNum(minor, rest), LAMBDA n, at : Skipped(at, n))
             [] major = 4 -> CborMany(minor, rest, CborSkip)
             [] major = 5 -> CborMany(minor, rest, Pair)
             [] major = 6 -> Then(CborNum(minor, rest), LAMBDA tag, at : CborSkip(at))
             [] minor <= 23 -> Got(0, rest)
             [] minor \in 24 .. 27 -> Skipped(rest, CASE minor = 24 -> 1 [] minor = 25 -> 2 [] minor = 26 -> 4 [] OTHER -> 8)
             [] OTHER -> Fail

-----------------------------------------------------------------------------
(* MessagePack: MsgPackEncoderFast (MsgPackEncoder is the same) and its      *)
(* stable form, MsgPackDecoder with skip_any, find_path and read_level. A    *)
(* head byte that holds a number is <<"octet", class, n>>, another           *)
(* <<"octet", name>>.                                                        *)
MsgOctet(name) == <<<<"octet", name>>>>
MsgFix(class, n) == <<<<"octet", class, n>>>>
MsgNum(name, w, n) == <<<<"octet", name>>, <<"num", w, n>>>>

MsgFloat(v) == <<<<"octet", "float64">>, <<"float", 64, v>>>>
\* u32_int, n32_int: what has more than 32 bits is written as a float
MsgInt(n) ==
  CASE n >= 0 /\ n <= Limit(7) -> MsgFix("fixint", n)
    [] n >= 0 /\ n <= Limit(16) -> MsgNum("uint16", 16, n)
    [] n >= 0 /\ n <= Limit(32) -> MsgNum("uint32", 32, n)
    [] n >= 0 -> MsgFloat(AsFloat(n))
    [] n >= -Limit(5) - 1 -> MsgFix("fixint", n)
    [] n >= -Limit(15) - 1 -> MsgNum("int16", 16, n)
    [] n >= -Limit(31) - 1 -> MsgNum("int32", 32, n)
    [] OTHER -> MsgFloat(AsFloat(n))

\* write_str reserves a header for four bytes a character.
MsgText(text) ==
  LET bytes == Utf8(text)
      guess == 4 * Len(text)
  IN  (CASE guess <= Limit(5) -> MsgFix("fixstr", Len(bytes))
         [] guess <= Limit(8) -> MsgNum("str8", 8, Len(bytes))
         [] guess <= Limit(16) -> MsgNum("str16", 16, Len(bytes))
         [] OTHER -> MsgNum("str32", 32, Len(bytes))) \o Raw(bytes)
MsgHead(fix, wide, n) ==
  CASE n <= Limit(4) -> MsgFix(fix, n)
    [] n <= Limit(16) -> MsgNum(wide \o "16", 16, n)
    [] OTHER -> MsgNum(wide \o "32", 32, n)
MsgBin(bytes) ==
  (IF Len(bytes) <= Limit(8) THEN MsgNum("bin8", 8, Len(bytes)) ELSE MsgNum("bin16", 16, Len(bytes))) \o Raw(bytes)
\* encode_ext: data only, and a tag of one byte; another value goes without it
MsgExt(tag, bytes) ==
  (IF Len(bytes) \in {1, 2, 4} THEN MsgFix("fixext", Len(bytes)) ELSE MsgNum("ext8", 8, Len(bytes)))
  \o <<<<"num", 8, tag % (Limit(8) + 1)>>>> \o Raw(bytes)

RECURSIVE MsgEncode(_, _)
MsgEncode(stable, v) ==
  LET Sorted == IF stable THEN SortSeq(v.pairs, KeyBefore) ELSE v.pairs
  IN  CASE v.k = "null" -> MsgOctet("nil")
        [] v.k = "undefined" -> MsgOctet("c1")
        [] v.k = "bool" -> MsgOctet(IF v.b THEN "true" ELSE "false")
        [] v.k \in {"int", "uint"} -> MsgInt(v.n)
        [] v.k = "bigint" -> MsgFloat(AsFloat(v.n))
        [] IsFloat(v) -> MsgFloat(v)
        [] v.k = "bytes" -> MsgBin(v.bytes)
        [] v.k = "str" -> MsgText(v.text)
        [] v.k = "arr" -> MsgHead("fixarr", "arr", Len(v.items)) \o FlattenSeq([i \in DOMAIN v.items |-> MsgEncode(stable, v.items[i])])
        [] v.k = "obj" -> MsgHead("fixmap", "map", Len(v.pairs))
             \o FlattenSeq([i \in DOMAIN Sorted |-> MsgText(Sorted[i][1]) \o MsgEncode(stable, Sorted[i][2])])
        [] v.k = "ext" -> IF v.val.k = "bytes" THEN MsgExt(v.tag, v.val.bytes) ELSE MsgEncode(FALSE, v.val)
        [] v.k = "blob" -> v.tokens

---------------------------------------------------------------------------
\* The heads that a number follows, and its bits.
MsgWidth == [name \in {"bin8", "ext8", "str8", "uint8", "int8"} |-> 8]
            @@ [name \in {"bin16", "ext16", "str16", "uint16", "int16", "arr16", "map16"} |-> 16]
            @@ [name \in {"bin32", "ext32", "str32", "uint32", "int32", "arr32", "map32"} |-> 32]
            @@ [name \in {"uint64", "int64"} |-> 64]
\* what a head is: its class and the number in it or behind it
MsgClass(name) ==
  CASE name \in {"fixstr", "str8", "str16", "str32"} -> "str"
    [] name \in {"fixarr", "arr16", "arr32"} -> "arr"
    [] name \in {"fixmap", "map16", "map32"} -> "map"
    [] name \in {"bin8", "bin16", "bin32"} -> "bin"
    [] name \in {"fixext", "ext8", "ext16", "ext32"} -> "ext"
    [] name \in {"fixint", "uint8", "uint16", "uint32", "int8", "int16", "int32", "int64"} -> "int"
    [] OTHER -> name
MsgTakeHead(tokens) ==
  IF tokens = << >> \/ tokens[1][1] # "octet" THEN Fail
  ELSE IF Len(tokens[1]) = 3 THEN Got(tokens[1][3], Tail(tokens))
  ELSE IF tokens[1][2] \in DOMAIN MsgWidth THEN TakeNum(Tail(tokens), MsgWidth[tokens[1][2]])
  ELSE Got(0, Tail(tokens))

\* read_key: only a text is a key
MsgKey(tokens) ==
  Then(MsgTakeHead(tokens), LAMBDA n, at : IF MsgClass(tokens[1][2]) = "str" THEN TakeText(at, n) ELSE Fail)
MsgOwnKey(tokens) == Then(MsgKey(tokens), LAMBDA key, rest : IF key = Proto THEN Fail ELSE Got(key, rest))

MsgReadExt(n, tokens) == Then(TakeNum(tokens, 8), LAMBDA tag, at : As(TakeRaw(at, n), LAMBDA b : Ext(tag, Bytes(b))))
RECURSIVE MsgRead(_)
MsgRead(tokens) ==
  Then(MsgTakeHead(tokens), LAMBDA n, rest :
    LET class == MsgClass(tokens[1][2])
    IN  CASE class = "int" -> Got(Integer(n), rest)
          [] class = "uint64" -> Got(UInteger(n), rest)
          [] class = "str" -> As(TakeText(rest, n), Str)
          [] class = "bin" -> As(TakeRaw(rest, n), Bytes)
          [] class = "arr" -> As(Many(n, rest, MsgRead), Arr)
          [] class = "map" -> As(Many(n, rest, LAMBDA here : Pairing(MsgOwnKey, MsgRead, here)), Obj)
          [] class = "ext" -> MsgReadExt(n, rest)
          [] class \in {"float32", "float64"} -> TakeFloat(rest, IF class = "float32" THEN 32 ELSE 64)
          [] class = "nil" -> Got(Null, rest)
          [] class = "c1" -> Got(Undefined, rest)
          [] OTHER -> Got(Bool(class = "true"), rest))

---------------------------------------------------------------------------
\* skip_any: containers by their parts, the rest by the bytes its head tells
RECURSIVE MsgSkip(_)
MsgSkip(tokens) ==
  LET class == MsgClass(tokens[1][2])
      Counted(F(_, _)) == Then(MsgTakeHead(tokens), F)
  IN  IF tokens = << >> \/ tokens[1][1] # "octet" THEN Fail
      ELSE CASE class \in {"str", "bin"} -> Counted(LAMBDA n, rest : Skipped(rest, n))
             [] class = "ext" -> Counted(LAMBDA n, rest : Skipped(rest, n + 1))
             [] class = "arr" -> Counted(LAMBDA n, rest : Many(n, rest, MsgSkip))
             [] class = "map" -> Counted(LAMBDA n, rest : Many(2 * n, rest, MsgSkip))
             [] class \in {"float32", "float64"} -> Skipped(Tail(tokens), IF class = "float32" THEN 4 ELSE 8)
             [] tokens[1][2] \in DOMAIN MsgWidth -> Skipped(Tail(tokens), MsgWidth[tokens[1][2]] \div 8)
             [] OTHER -> Got(0, Tail(tokens))

\* find_path: the tokens behind the head of the value a path leads to
RECURSIVE MsgFindKey(_, _, _), MsgFind(_, _)
MsgFindKey(n, key, tokens) ==
  IF n = 0 THEN Fail
  ELSE Then(MsgKey(tokens), LAMBDA k, at :
         IF k = key THEN Got(0, at) ELSE Then(MsgSkip(at), LAMBDA v, rest : MsgFindKey(n - 1, key, rest)))
\* a step of a path is a key or an index
MsgStep(step, tokens) ==
  Then(MsgTakeHead(tokens), LAMBDA n, at :
    CASE step.by = "key" /\ MsgClass(tokens[1][2]) = "map" -> MsgFindKey(n, step.key, at)
      [] step.by = "index" /\ MsgClass(tokens[1][2]) = "arr" /\ step.index < n -> Many(step.index, at, MsgSkip)
      [] OTHER -> Fail)
MsgFind(path, tokens) ==
  IF path = << >> THEN Got(0, tokens) ELSE Then(MsgStep(path[1], tokens), LAMBDA v, at : MsgFind(Tail(path), at))

\* read_level: nested arrays and objects stay encoded
MsgPrimitive(tokens) ==
  IF tokens # << >> /\ tokens[1][1] = "octet" /\ MsgClass(tokens[1][2]) \in {"arr", "map"}
  THEN Then(MsgSkip(tokens), LAMBDA v, rest : Got(Blob(SubSeq(tokens, 1, Len(tokens) - Len(rest))), rest))
  ELSE MsgRead(tokens)
MsgReadLevel(tokens) ==
  Then(MsgTakeHead(tokens), LAMBDA n, at :
    CASE MsgClass(tokens[1][2]) = "map" -> As(Many(n, at, LAMBDA here : Pairing(MsgKey, MsgPrimitive, here)), Obj)
      [] MsgClass(tokens[1][2]) = "arr" -> As(Many(n, at, MsgPrimitive), Arr)
      [] OTHER -> MsgRead(tokens))
=============================================================================
