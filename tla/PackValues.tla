----------------------------- MODULE PackValues -----------------------------
(* PackValue, what every format of json-pack encodes and decodes, and what a *)
(* buffer of encoded bytes looks like to the formats: a sequence of tokens,  *)
(* one for each field a writer writes and a reader reads at once. A token is *)
(* a tuple whose first element says what it is:                              *)
(*   <<"octet", ...>>  a head byte, spelled by the format                    *)
(*   <<"num", w, n>>   a number of w bits     <<"float", w, f>>  a float     *)
(*   <<"byte", b>>     one byte of a text or of binary data                  *)
(*                                                                           *)
(* Bounds. The limits of the code are scaled down so that a few numbers and  *)
(* short texts reach every branch; their order is kept. See Limit.           *)
EXTENDS Integers, Sequences, FiniteSets, SequencesExt

\* The largest number of so many bits: unsigned, or of an i64 (and 63 bits), an
\* f64's integers (53) and an f32's (24).
Limit(bits) ==
  CASE bits = 4 -> 1 [] bits = 5 -> 5 [] bits = 7 -> 7 [] bits = 8 -> 15 [] bits = 15 -> 31
    [] bits = 16 -> 63 [] bits = 24 -> 256 [] bits = 31 -> 511 [] bits = 32 -> 1023
    [] bits = 40 -> 2047 [] bits = 48 -> 16383 [] bits = 53 -> 32768 [] bits = 56 -> 65535 [] bits = 63 -> 131071 [] bits = 64 -> 262143 [] bits = 127 -> 524287

Fits(n, bits) == -Limit(bits) - 1 <= n /\ n <= Limit(bits)
\* `as u64`, `as i64`
AsUnsigned(n, bits) == n % (Limit(bits) + 1)
AsSigned(n, bits) == LET m == n % (2 * (Limit(bits) + 1)) IN
                     IF m > Limit(bits) THEN m - 2 * (Limit(bits) + 1) ELSE m

Null == [k |-> "null"]
Undefined == [k |-> "undefined"]
Bool(b) == [k |-> "bool", b |-> b]
Integer(n) == [k |-> "int", n |-> n]        \* fits an i64
UInteger(n) == [k |-> "uint", n |-> n]
BigInt(n) == [k |-> "bigint", n |-> n]  \* an i128
Float(f) == [k |-> "float", f |-> f]    \* f halves
Special(s) == [k |-> "special", s |-> s] \* "nan", "inf"
Bytes(b) == [k |-> "bytes", bytes |-> b]
Str(t) == [k |-> "str", text |-> t]
Arr(items) == [k |-> "arr", items |-> items]
Obj(pairs) == [k |-> "obj", pairs |-> pairs]
Ext(tag, v) == [k |-> "ext", tag |-> tag, val |-> v]
Blob(tokens) == [k |-> "blob", tokens |-> tokens]

IsFloat(v) == v.k \in {"float", "special"}
IsNumber(v) == v.k \in {"int", "uint", "bigint"} \/ IsFloat(v)
Integral(v) == v.k = "float" /\ v.f % 2 = 0

\* The integer as an f64, which keeps Limit(53); ties go up here.
Step(n) == CHOOSE s \in {1, 2, 4, 8, 16} : \A r \in {1, 2, 4, 8, 16} :
             LET In(x) == n <= Limit(53) * x /\ -n <= Limit(53) * x IN In(s) /\ (In(r) => s <= r)
AsFloat(n) == LET s == Step(n) IN Float(2 * s * ((n + s \div 2) \div s))
\* is_float32, is_f32_roundtrip: NaN is not equal to itself
FitsF32(v) == \/ v = Special("inf")
              \/ v.k = "float" /\ v.f <= Limit(24) /\ -v.f <= Limit(24)
\* u64 or i64 of a float: the nearest in range
Saturated(n, low, high) == IF n < low THEN low ELSE IF n > high THEN high ELSE n

---------------------------------------------------------------------------
\* UTF-8: characters of one and two bytes, a quote, a line feed and the byte 0;
\* "ff" stands for bytes that no text has.
TwoBytes == [c \in {"e'"} |-> <<"c3", "a9">>]
RECURSIVE Utf8(_), TextOf(_)
Utf8(text) ==
  IF text = << >> THEN << >>
  ELSE (IF text[1] \in DOMAIN TwoBytes THEN TwoBytes[text[1]] ELSE <<text[1]>>) \o Utf8(Tail(text))
IsUtf8(bytes) ==
  \A i \in DOMAIN bytes : CASE bytes[i] = "c3" -> i < Len(bytes) /\ bytes[i + 1] = "a9"
                            [] bytes[i] = "a9" -> i > 1 /\ bytes[i - 1] = "c3"
                            [] OTHER -> bytes[i] # "ff"
TextOf(bytes) ==
  CASE bytes = << >> -> << >>
    [] bytes # << >> /\ bytes[1] = "c3" -> <<"e'">> \o TextOf(SubSeq(bytes, 3, Len(bytes)))
    [] OTHER -> <<bytes[1]>> \o TextOf(Tail(bytes))

AnyByte == {"00", "nl", "quote", "bs", "$", "/", "0", "1", "_", "a", "b", "c3", "a9", "ff"}

\* The order of bytes, and of texts by their bytes.
Rank(b) == CASE b = "00" -> 0 [] b = "nl" -> 1 [] b = "quote" -> 2 [] b = "$" -> 3 [] b = "/" -> 4 [] b = "0" -> 5 [] b = "1" -> 6 [] b = "_" -> 7
     [] b = "a" -> 7 [] b = "b" -> 8 [] b = "e" -> 9 [] b = "a9" -> 10 [] b = "c3" -> 11 [] OTHER -> 12
Before(a, b) ==
  \/ Len(a) < Len(b) /\ a = SubSeq(b, 1, Len(a))
  \/ \E i \in DOMAIN a : /\ i <= Len(b) /\ SubSeq(a, 1, i - 1) = SubSeq(b, 1, i - 1)
                         /\ Rank(a[i]) < Rank(b[i])
KeyBefore(p, q) == Before(Utf8(p[1]), Utf8(q[1]))
ShorterBefore(p, q) == \/ Len(Utf8(p[1])) < Len(Utf8(q[1]))
                       \/ Len(Utf8(p[1])) = Len(Utf8(q[1])) /\ KeyBefore(p, q)
Proto == <<"_", "_">>   \* "__proto__", which no decoder takes for a key

---------------------------------------------------------------------------
\* Writing, where it may be refused: what was written stays in the writer.
Wrote(out) == [ok |-> TRUE, out |-> out]
Refused == [ok |-> FALSE, out |-> << >>]
Adding(first, rest) == [ok |-> rest.ok, out |-> first \o rest.out]
Following(w, next) == IF w.ok THEN Adding(w.out, next) ELSE w

---------------------------------------------------------------------------
\* Reading: a reader answers what it read and what is left, or fails.
Fail == [ok |-> FALSE]
Got(v, rest) == [ok |-> TRUE, v |-> v, rest |-> rest]
As(r, F(_)) == IF r.ok THEN Got(F(r.v), r.rest) ELSE r
Then(r, F(_, _)) == IF r.ok THEN F(r.v, r.rest) ELSE r
\* n values one after another, those up to an end, and a key with its value
Many(n, tokens, R(_)) ==
  LET f[i \in 0 .. n] == IF i = 0 THEN Got(<< >>, tokens)
                          ELSE Then(f[i - 1], LAMBDA vs, rest : As(R(rest), LAMBDA v : Append(vs, v)))
  IN  f[n]
Until(Ended(_), tokens, R(_)) ==
  LET f[left \in 0 .. Len(tokens)] ==
        LET here == SubSeq(tokens, Len(tokens) - left + 1, Len(tokens))
        IN  IF Ended(here) THEN Got(<< >>, Tail(here))
            ELSE Then(R(here), LAMBDA v, rest : As(f[Len(rest)], LAMBDA vs : <<v>> \o vs))
  IN  f[Len(tokens)]
Pairing(K(_), R(_), tokens) == Then(K(tokens), LAMBDA key, at : As(R(at), LAMBDA v : <<key, v>>))

Raw(bytes) == [i \in DOMAIN bytes |-> <<"byte", bytes[i]>>]
After(tokens, n) == SubSeq(tokens, n + 1, Len(tokens))
\* the next n bytes, as data and as a text; a negative n is a huge usize
RECURSIVE TakeRaw(_, _)
TakeRaw(tokens, n) ==
  CASE n = 0 -> Got(<< >>, tokens)
    [] n < 0 \/ n > Len(tokens) -> Fail
    [] OTHER -> IF tokens[1][1] # "byte" THEN Fail
                ELSE As(TakeRaw(Tail(tokens), n - 1), LAMBDA bytes : <<tokens[1][2]>> \o bytes)
TakeText(tokens, n) == Then(TakeRaw(tokens, n), LAMBDA bytes, rest : IF IsUtf8(bytes) THEN Got(TextOf(bytes), rest) ELSE Fail)
\* one number of w bits
TakeNum(tokens, w) ==
  IF tokens = << >> \/ tokens[1][1] # "num" \/ tokens[1][2] # w THEN Fail ELSE Got(tokens[1][3], Tail(tokens))
TakeFloat(tokens, w) ==
  IF tokens = << >> \/ tokens[1][1] # "float" \/ tokens[1][2] # w THEN Fail ELSE Got(tokens[1][3], Tail(tokens))
\* bytes of a token and of tokens
Width(token) == IF token[1] \in {"num", "float"} THEN token[2] \div 8 ELSE 1
RECURSIVE SizeOf(_)
SizeOf(tokens) == IF tokens = << >> THEN 0 ELSE Width(tokens[1]) + SizeOf(Tail(tokens))
\* n bytes are skipped whatever they are
RECURSIVE Skipped(_, _)
Skipped(tokens, n) ==
  CASE n = 0 -> Got(0, tokens)
    [] tokens = << >> \/ Width(tokens[1]) > n -> Fail
    [] OTHER -> Skipped(Tail(tokens), n - Width(tokens[1]))

---------------------------------------------------------------------------
\* What a value is in JSON: From<PackValue> for Value, and pack_to_json.
\* A character of base64 stands for the byte it holds.
Base64(bytes) == [i \in DOMAIN bytes |-> "64" \o bytes[i]]
IsBase64(chars) == \A i \in DOMAIN chars : \E b \in AnyByte : chars[i] = "64" \o b
FromBase64(chars) == [i \in DOMAIN chars |-> CHOOSE b \in AnyByte : chars[i] = "64" \o b]
\* `data:application/octet-stream;base64,` is one character here.
DataUri(bytes) == <<"data:">> \o Base64(bytes)
RECURSIVE JsonOf(_)
JsonOf(v) ==
  CASE v.k \in {"null", "undefined", "blob", "special"} -> Null
    [] v.k = "bytes" -> Str(DataUri(v.bytes))
    [] v.k = "bigint" -> IF Fits(v.n, 63) THEN Integer(v.n) ELSE Null
    [] v.k = "arr" -> Arr([i \in DOMAIN v.items |-> JsonOf(v.items[i])])
    [] v.k = "obj" -> Obj([i \in DOMAIN v.pairs |-> <<v.pairs[i][1], JsonOf(v.pairs[i][2])>>])
    [] v.k = "ext" -> JsonOf(v.val)
    [] OTHER -> v

\* From<Value> for PackValue: a number is an i64, else a u64, else a float.
RECURSIVE OfJson(_)
OfJson(v) ==
  CASE v.k = "uint" /\ Fits(v.n, 63) -> Integer(v.n)
    [] v.k = "arr" -> Arr([i \in DOMAIN v.items |-> OfJson(v.items[i])])
    [] v.k = "obj" -> Obj([i \in DOMAIN v.pairs |-> <<v.pairs[i][1], OfJson(v.pairs[i][2])>>])
    [] OTHER -> v

=============================================================================
