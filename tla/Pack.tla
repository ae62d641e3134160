--------------------------------- MODULE Pack --------------------------------
(* The formats of json-pack: for each, how a value is encoded, read and passed *)
(* by. A schema's value travels as [k |-> "avro" or "xdr", schema, val]; both  *)
(* ends know the schema. An encoder that refuses a value leaves what it had    *)
(* written in its writer, and sends it with the next value.                    *)
EXTENDS CborMsgPack, OtherFormats, JsonFormats, SchemaFormats


\* [ok, out]: what an encoder answers, or has written when it fails
Encoded(f, v) ==
  LET Ok(out) == [ok |-> TRUE, out |-> out]
  IN  CASE f \in CborEncoders -> Ok(CborEncode(f, v))
        [] f = "msgpack" -> Ok(MsgEncode(FALSE, v))
        [] f = "msgpack-stable" -> Ok(MsgEncode(TRUE, v))
        [] f = "ubjson" -> Ok(UbEncode(v))
        [] f = "bencode" -> Ok(BenEncode(v))
        [] f = "bson" -> Ok(BsonEncode(v))
        [] f = "ion" -> Ok(IonEncode(v))
        [] f = "text" -> Ok(JsonEncode("json", v))
        [] f = "text-stable" -> Ok(JsonEncode("stable", v))
        [] f = "text-dag" -> Ok(JsonEncode("dag", v))
        [] f = "wrapped" -> Ok(<<<<"json", WrapBinary(v)>>>>)
        [] f = "ejson" -> Ok(EjsonEncode(TRUE, v))
        [] f = "ejson-relaxed" -> Ok(EjsonEncode(FALSE, v))
        [] f = "resp" -> Ok(RespEncode(v))
        [] f = "resp-legacy" -> Ok(LegacyEncode(v))
        [] f = "command" -> Ok(RespCmd(v.args))
        [] f = "ssh" -> Ok(SshEncode(v))
        [] f = "mpint" -> Ok(MpintTokens(v.n))
        [] f = "table" -> Ok(CborEncode("fast", Arr(<<Arr(TableOf(v)), Compressed(EntriesOf(v), v)>>)))
        [] f = "avro" -> AvroEncode(v.schema, v.val)
        [] f = "xdr" -> XdrWritten(v.val, v.schema)
        [] f = "rpc" -> RpcEncode(v)

\* what the other end reads; it knows what kind of value was sent
ReadAs(f, sent, tokens) ==
  LET WithSchema(r) == As(r, LAMBDA v : [sent EXCEPT !.val = v])
  IN  CASE f = "dag" -> CborDagRead(tokens)
        [] f \in CborEncoders \ {"dag"} -> CborRead(tokens)
        [] f \in {"msgpack", "msgpack-stable"} -> MsgRead(tokens)
        [] f = "ubjson" -> UbRead(tokens)
        [] f = "bencode" -> BenRead(tokens)
        [] f = "bson" -> BsonRead(tokens)
        [] f = "ion" -> IonRead(tokens)
        [] f \in {"text", "text-stable"} -> JsonRead("json", tokens)
        [] f = "text-dag" -> JsonRead("dag", tokens)
        [] f = "wrapped" -> IF tokens = << >> THEN Fail ELSE Got(UnwrapBinary(tokens[1][2]), Tail(tokens))
        [] f \in {"ejson", "ejson-relaxed"} -> EjsonRead(tokens)
        [] f \in {"resp", "resp-legacy"} -> RespRead(FALSE, tokens)
        [] f = "command" -> As(RespReadCmd(tokens), LAMBDA args : [sent EXCEPT !.args = [i \in DOMAIN args |-> TextOf(args[i].bytes)]])
        [] f = "ssh" -> SshRead(SshType(sent), tokens)
        [] f = "mpint" -> As(MpintRead(tokens), BigInt)
        [] f = "table" -> As(CborRead(tokens), LAMBDA v : Decompressed(Import(v.items[1].items), v.items[2]))
        [] f = "avro" -> WithSchema(AvroRead(sent.schema, tokens))
        [] f = "xdr" -> WithSchema(XdrRead(sent.schema, tokens))
        [] f = "rpc" -> RpcRead(tokens)

SkipAs(f, sent, tokens) ==
  CASE f \in CborEncoders -> CborSkip(tokens)
    [] f \in {"msgpack", "msgpack-stable"} -> MsgSkip(tokens)
    [] f \in {"resp", "resp-legacy"} -> RespSkip(tokens)
    [] OTHER -> ReadAs(f, sent, tokens)

\* what has a schema, whose defaults a reader gets and whose order; and what is
\* read as it was written
Schematic == {"avro", "xdr"}
Exact == {"rpc", "command"}
RECURSIVE TakesKind(_, _)
TakesKind(f, v) ==
  CASE v.k = "arr" -> \A i \in DOMAIN v.items : TakesKind(f, v.items[i])
    [] v.k = "obj" -> \A i \in DOMAIN v.pairs : TakesKind(f, v.pairs[i][2])
    [] f = "bson" -> v.k \notin {"uint", "bigint", "ext", "blob"}
    [] f \in {"ejson", "ejson-relaxed"} -> v.k \in {"null", "undefined", "bool", "int", "float", "special", "str", "bson"}
    [] OTHER -> v.k # "bson"
Takes(f, v) ==
  CASE f = "rpc" -> v.k \in {"call", "accepted", "rejected"}
    [] f \in {"avro", "xdr", "command"} -> v.k = f
    [] f = "mpint" -> v.k \in {"int", "bigint"}
    [] f = "ssh" -> v.k \in {"bool", "int", "uint", "str", "bytes", "arr"} /\ SshTakes(v)
    [] v.k \in {"avro", "xdr", "command", "call", "accepted", "rejected"} -> FALSE
    [] f = "table" -> TakesKind(f, v) /\ HasTable(v) /\ Compressible(v)
    [] OTHER -> TakesKind(f, v) /\ (f = "bson" => v.k = "obj")
=============================================================================
