------------------------------ MODULE MCChannel ------------------------------
(* Values of every kind, at the limits of the formats' integers.               *)
EXTENDS Channel

MCScalars ==
  {Null, Undefined, Bool(TRUE), Bool(FALSE), Str(<< >>), Str(<<"a">>), Str(<<"e'", "quote">>), Str(<<"bs", "nl", "00">>),
   Str(<<"a", "b", "e'", "e'">>), Float(1), Float(-3), Float(6), Float(2 * Limit(24) + 1), Special("nan"), Special("inf"),
   Bytes(<< >>), Bytes(<<"ff", "00">>)}
  \cup {Integer(n) : n \in UNION {{Limit(b), Limit(b) + 1, -Limit(b) - 1, -Limit(b) - 2} : b \in {5, 7, 8, 15, 16, 31, 32}} \cup {Limit(63), -Limit(63) - 1}}
  \cup {UInteger(Limit(63) + 1), UInteger(Limit(64)), UInteger(1), BigInt(5), BigInt(Limit(64) + 1), BigInt(-Limit(64) - 3)}
  \cup {Ext(3, Bytes(<<"a">>)), Ext(Limit(8), Str(<<"a">>)), Ext(1, Ext(2, Null)), Ext(3, Str(<<"a">>)), Ext(1, Arr(<<Null>>))}

Pair(k, v) == <<k, v>>
MCTrees ==
  {Obj(<<Pair(<<"name">>, Obj(<<Pair(<<"a">>, Integer(1))>>)), Pair(<<"a">>, Null)>>), Str(<<"a","a","a","a","a","a","a","a","a">>),
   Arr(<< >>), Obj(<< >>), Arr(<<Integer(1), Str(<<"a">>)>>), Arr(<<Str(<<"a">>), Str(<<"b", "b">>)>>),
   Arr(<<Obj(<<Pair(<<"a">>, Null)>>), Arr(<<Undefined>>)>>),
   Arr(<<Integer(5), Integer(-2), Str(<<"b">>), Integer(1), Str(<<"a">>), Ext(5, Str(<<"a">>)), Bool(TRUE)>>),
   Obj(<<Pair(<<"b", "b">>, Integer(1)), Pair(<<"a">>, Arr(<<Bool(TRUE)>>)), Pair(<<"e'">>, Ext(1, Str(<<"b">>)))>>),
   Obj(<<Pair(<<"b">>, Bytes(<<"a", "b">>)), Pair(<<"a">>, Float(5))>>)}

\* Avro: a record with a default, an enum, a fixed, a list of itself
T(t) == [t |-> t]
Field(name, type, default) == [name |-> name, type |-> type, default |-> default]
AvInt(n) == [k |-> "int", n |-> n]
AvUnion(i, v) == [k |-> "union", index |-> i, val |-> v]
Tags == [t |-> "enum", name |-> "Tag", symbols |-> <<"x", "y">>, default |-> "none"]
Pairs4 == [t |-> "fixed", name |-> "Two", size |-> 2]
Rec == [t |-> "record", name |-> "Rec", fields |->
         <<Field("n", T("long"), <<AvInt(5)>>), Field("tag", Tags, << >>),
           Field("next", [t |-> "union", types |-> <<T("null"), [t |-> "ref", name |-> "Rec"], T("string")>>], << >>)>>]
RecValue(n, tag, next) == [k |-> "record", pairs |-> <<<<"next", next>>, <<"tag", [k |-> "enum", symbol |-> tag]>>>> \o n]
AvroMessage(s, v) == [k |-> "avro", schema |-> s, val |-> v]
MCAvro ==
  {AvroMessage(T("int"), AvInt(n)) : n \in {-1, Limit(31), -Limit(31) - 1}}
  \cup {AvroMessage(T("long"), [k |-> "long", n |-> n]) : n \in {Limit(63), -Limit(63) - 1, 1}}
  \cup {AvroMessage(T("double"), AvInt(3)), AvroMessage(T("float"), [k |-> "double", f |-> 5]),
        AvroMessage(T("bytes"), Bytes(<<"ff">>)), AvroMessage(T("boolean"), Bool(FALSE)), AvroMessage(Pairs4, [k |-> "fixed", bytes |-> <<"a", "ff">>]),
        AvroMessage([t |-> "array", items |-> T("string")], Arr(<<Str(<<"a">>), Str(<< >>)>>)),
        AvroMessage([t |-> "map", values |-> T("int")], [k |-> "map", pairs |-> <<<<<<"a">>, AvInt(2)>>>>]),
        AvroMessage(Rec, RecValue(<< >>, "y", Null)),
        AvroMessage(Rec, RecValue(<<<<"n", AvInt(-7)>>>>, "x", RecValue(<< >>, "x", Str(<<"b">>)))),
        AvroMessage([t |-> "union", types |-> <<T("string"), T("double"), T("null")>>], AvUnion(1, [k |-> "double", f |-> 1]))}
\* refused when the first field has been written
MCAvroSpoiling ==
  AvroMessage([t |-> "record", name |-> "R", fields |-> <<Field("a", T("string"), << >>), Field("b", T("long"), << >>)>>],
              [k |-> "record", pairs |-> <<<<"a", Str(<<"a">>)>>, <<"b", [k |-> "double", f |-> 4]>>>>])

X(t) == [t |-> t]
XMax(t, max) == [t |-> t, max |-> max]
XdrMessage(s, v) == [k |-> "xdr", schema |-> s, val |-> v]
XNum(k, n) == [k |-> k, n |-> n]
Choice == [t |-> "union", arms |-> <<<<<<"int", 1>>, XMax("str", 4)>>, <<<<"int", 2>>, X("void")>>>>, default |-> <<X("hyper")>>]
XUnion(d, v) == [k |-> "union", disc |-> d, val |-> v]
MCXdr ==
  {XdrMessage(X("int"), XNum("int", -1)), XdrMessage(X("uint"), XNum("uint", Limit(32))), XdrMessage(X("hyper"), XNum("hyper", -Limit(63) - 1)),
   XdrMessage(X("uhyper"), XNum("uhyper", Limit(64))), XdrMessage(X("double"), [k |-> "double", f |-> 3]), XdrMessage(X("bool"), Bool(TRUE)),
   XdrMessage([t |-> "enum", entries |-> <<<<"x", 3>>, <<"y", -1>>>>], [k |-> "enum", name |-> "y"]),
   XdrMessage([t |-> "opaque", size |-> 3], Bytes(<<"a", "ff", "b">>)), XdrMessage(XMax("vopaque", 2), Bytes(<<"a">>)),
   XdrMessage(XMax("str", 5), Str(<<"e'", "a">>)),
   XdrMessage([t |-> "varray", of |-> X("bool"), max |-> -1], [k |-> "array", items |-> <<Bool(TRUE), Bool(FALSE)>>]),
   XdrMessage([t |-> "array", of |-> X("int"), size |-> 2], [k |-> "array", items |-> <<XNum("int", 1), XNum("int", 2)>>]),
   XdrMessage([t |-> "struct", fields |-> <<<<"a", XMax("str", 3)>>, <<"b", [t |-> "optional", of |-> X("int")]>>>>],
              [k |-> "struct", pairs |-> <<<<"b", [k |-> "optional", val |-> <<XNum("int", 4)>>]>>, <<"a", Str(<<"b">>)>>>>]),
   XdrMessage([t |-> "optional", of |-> X("int")], [k |-> "optional", val |-> << >>]),
   XdrMessage(Choice, XUnion(<<"int", 1>>, Str(<<"a", "b", "a">>))), XdrMessage(Choice, XUnion(<<"int", 7>>, XNum("hyper", 9))),
   XdrMessage(Choice, XUnion(<<"int", 2>>, [k |-> "void"]))}

NoAuth == [flavor |-> 0, body |-> << >>]
Sys(n) == [flavor |-> 1, body |-> [i \in 1 .. n |-> "a"]]
RpcCall(cred, params) == [k |-> "call", xid |-> 7, proc |-> <<100, 3, 1>>, cred |-> cred, verf |-> NoAuth, params |-> params]
MCRpc ==
  {RpcCall(NoAuth, << >>), RpcCall(Sys(3), <<"a", "b">>),
   [k |-> "accepted", xid |-> 7, verf |-> NoAuth, stat |-> 0, mismatch |-> << >>, results |-> <<<<"b">>>>],
   [k |-> "accepted", xid |-> 7, verf |-> Sys(1), stat |-> 2, mismatch |-> <<<<2, 3>>>>, results |-> << >>],
   [k |-> "rejected", xid |-> 7, stat |-> 0, mismatch |-> <<<<2, 2>>>>, auth |-> << >>],
   [k |-> "rejected", xid |-> 7, stat |-> 1, mismatch |-> << >>, auth |-> <<<<4>>>>]}
Command(args) == [k |-> "command", args |-> args]

Selfmade == {"fast", "full", "stable", "dag", "streamed", "json", "msgpack", "msgpack-stable", "ubjson", "bencode", "bson", "ion",
             "text", "text-stable", "text-dag", "wrapped", "ejson", "ejson-relaxed", "resp", "resp-legacy", "table", "ssh"}
MCMessages ==
  [direct |-> {m \in Selfmade \X (MCScalars \cup MCTrees) : Takes(m[1], m[2])}
              \cup ({"mpint"} \X {Integer(n) : n \in {0, 1, 7, 8, 15, 16, -1, -8, -9, -16, -17, 127, 128, -128, -129}})
              \cup ({"avro"} \X MCAvro) \cup ({"xdr"} \X MCXdr)
              \cup ({"rpc"} \X MCRpc) \cup ({"command"} \X {Command(<<<<"A", "B">>, <<"e'">>>>)}),
   resp |-> ({"resp"} \X {Str(<<"nl">>), Arr(<<Bytes(<<"a">>), Obj(<<Pair(<<"a">>, Integer(12))>>)>>), Null, Ext(2, Obj(<<Pair(<<"b">>, Bool(TRUE))>>))})
            \cup ({"command"} \X {Command(<<<<"a", "b">>, <<"a", "nl">>>>)}),
   rm |-> ({"rpc"} \X {RpcCall(Sys(6), << >>), RpcCall(NoAuth, << >>), [k |-> "rejected", xid |-> 7, stat |-> 1, mismatch |-> << >>, auth |-> <<<<4>>>>],
                       [k |-> "accepted", xid |-> 7, verf |-> Sys(1), stat |-> 2, mismatch |-> <<<<2, 3>>>>, results |-> << >>]}),
   ws |-> ({"fast"} \X {Arr(<<Integer(1), Null>>)}) \cup ({"avro"} \X {MCAvroSpoiling, AvroMessage(T("int"), AvInt(-1))})]
MCCarriers == {"direct", "resp", "rm", "ws"}
MCMaxSent == [direct |-> 1, resp |-> 3, rm |-> 3, ws |-> 2]
MCMaxRefused == [direct |-> 0, resp |-> 0, rm |-> 1, ws |-> 1]
MCMaxWaiting == [direct |-> 40, resp |-> 40, rm |-> 7, ws |-> 6]
MCMasks == {0, 7}
=============================================================================
