------------------------------- MODULE Channel -------------------------------
(* Values on their way from one end to the other: encoded, carried in parts of *)
(* any size, and decoded from what has arrived. A carrier is a whole message   *)
(* ("direct"), a stream of RESP values ("resp"), of RM records ("rm") or of    *)
(* WebSocket frames ("ws"). A receiver may look at any moment.                 *)
EXTENDS Pack, Frames

CONSTANTS Carriers,
          Messages,     \* for each carrier, the pairs <<format, value>> it is given
          MaxSent,      \* bound: for each carrier, the messages sent
          MaxRefused,   \* bound: for each carrier, the values an encoder refused
          MaxChunk,     \* bound: tokens that arrive at once on a stream
          MaxWaiting,   \* bound: for each carrier, tokens the receiver has not read
          Masks

VARIABLES carrier,
          left,      \* what refused values left in the sender's writer
          refused,   \* how many values were refused
          sent,      \* the messages that were sent, and what was left before each
          coming,    \* the tokens on their way
          receiver,  \* the state of the decoder of the carrier
          got        \* what the receiver answered, message after message

vars == <<carrier, left, refused, sent, coming, receiver, got>>

\* A message decoder has what arrived, RespStreamingDecoder a buffer and an
\* offset. A WebSocket end keeps the frame it reads and the message so far; it
\* is torn when a header was asked for too early, and closed after a close.
NewReceiver(c) ==
  CASE c = "direct" -> << >>
    [] c = "resp" -> [buffer |-> << >>, offset |-> 0]
    [] c = "rm" -> NewRm
    [] c = "ws" -> [octets |-> NewOctets, frame |-> << >>, message |-> << >>, pings |-> << >>, torn |-> FALSE, closed |-> FALSE]
Init ==
  /\ carrier \in Carriers
  /\ left = << >> /\ refused = 0 /\ sent = << >> /\ coming = << >> /\ got = << >>
  /\ receiver = NewReceiver(carrier)

\* A WebSocket sender may part a message in two frames, with a ping between
\* them, and closes after the last message.
WsMessage(out, mask, cut) ==
  CASE cut = 0 /\ mask = 0 -> WsFastHeader(Len(out)) \o out
    [] cut = 0 /\ mask # 0 -> WsData(TRUE, Binary, out, mask)
    [] OTHER -> WsData(FALSE, Binary, SubSeq(out, 1, cut), mask) \o WsPing(<<<<"byte", "a">>>>)
                  \o WsData(TRUE, Continuation, After(out, cut), mask)
Accepted(m, out) ==
  /\ sent' = Append(sent, [format |-> m[1], value |-> m[2], before |-> left])
  /\ left' = << >>
  /\ CASE carrier = "rm" -> coming' = coming \o RmRecord(out)
       [] carrier = "ws" ->
            \E mask \in Masks, cut \in {0, Len(out) \div 2} :
              coming' = coming \o WsMessage(out, mask, cut)
                          \o (IF Len(sent') = MaxSent["ws"] THEN WsClose(1000, << >>) ELSE << >>)
       [] OTHER -> coming' = coming \o out
  /\ UNCHANGED refused
NotAccepted(out) ==
  /\ refused < MaxRefused[carrier]
  /\ refused' = refused + 1 /\ left' = out
  /\ UNCHANGED <<sent, coming>>
Send(m) ==
  /\ Len(sent) < MaxSent[carrier]
  /\ \E e \in {Encoded(m[1], m[2])} : IF e.ok THEN Accepted(m, left \o e.out) ELSE NotAccepted(left \o e.out)
  /\ UNCHANGED <<carrier, receiver, got>>

\* All was sent and answered, or the frames are torn: nothing else is the end.
Torn == carrier = "ws" /\ receiver.torn
Done == ((Len(sent) = MaxSent[carrier] /\ coming = << >> /\ Len(got) = Len(sent)) \/ Torn) /\ UNCHANGED vars

\* n tokens arrive as one chunk.
Waiting ==
  CASE carrier = "direct" -> Len(receiver)
    [] carrier = "resp" -> Len(receiver.buffer) - receiver.offset
    [] carrier = "rm" -> Size(receiver.reader)
    [] carrier = "ws" -> OctetSize(receiver.octets)
Arrive(n) ==
  /\ n <= Len(coming) /\ (carrier = "direct" => n = 1) /\ ~Torn
  /\ Waiting + n <= MaxWaiting[carrier]
  /\ LET chunk == SubSeq(coming, 1, n)
     IN  receiver' = CASE carrier = "direct" -> receiver \o chunk
                       [] carrier = "resp" -> [receiver EXCEPT !.buffer = @ \o chunk]
                       [] carrier = "rm" -> RmPush(receiver, chunk)
                       [] carrier = "ws" -> [receiver EXCEPT !.octets = PushChunk(@, chunk)]
  /\ coming' = After(coming, n)
  /\ UNCHANGED <<carrier, left, refused, sent, got>>

Due == sent[Len(got) + 1]
Answer(r) == got' = Append(got, IF r.ok THEN r.v ELSE [k |-> "error"])
Keep == UNCHANGED <<carrier, left, refused, sent, coming>>

\* a whole message
Decode ==
  /\ carrier = "direct" /\ Len(got) < Len(sent) /\ coming = << >>
  /\ Answer(ReadAs(Due.format, Due.value, receiver))
  /\ receiver' = << >>
  /\ Keep

\* RespStreamingDecoder::read and read_cmd: it starts from the offset again
\* whenever the value has not all arrived; compact drops what was read once it
\* is half of the buffer.
Compacted(buffer, offset) ==
  CASE offset = Len(buffer) -> [buffer |-> << >>, offset |-> 0]
    [] offset # Len(buffer) /\ 2 * offset >= Len(buffer) -> [buffer |-> After(buffer, offset), offset |-> 0]
    [] OTHER -> [buffer |-> buffer, offset |-> offset]
ReadStream ==
  /\ carrier = "resp" /\ Len(got) < Len(sent) /\ receiver.offset < Len(receiver.buffer)
  /\ \E r \in {ReadAs(Due.format, Due.value, After(receiver.buffer, receiver.offset))} :
       /\ r # End
       /\ Answer(r)
       /\ receiver' = IF r.ok THEN Compacted(receiver.buffer, Len(receiver.buffer) - Len(r.rest)) ELSE receiver
  /\ Keep

\* RmRecordDecoder::read_record, and the message in the record
ReadRecord ==
  /\ carrier = "rm"
  /\ LET r == RmRead(receiver)
     IN  /\ r.d # receiver
         /\ receiver' = r.d
         /\ IF r.record = << >> THEN UNCHANGED got ELSE Answer(ReadAs(Due.format, Due.value, r.record[1]))
  /\ Keep

\* The receiver asks for a header, before it has arrived perhaps.
ReadHeader ==
  /\ carrier = "ws" /\ receiver.frame = << >> /\ ~receiver.torn /\ ~receiver.closed
  /\ LET r == WsReadHeader(receiver.octets)
     IN  /\ r.o # receiver.octets
         /\ receiver' = [receiver EXCEPT
              !.octets = r.o, !.torn = r.lost,
              !.frame = IF r.kind \in {"data", "close"} THEN <<r.header>> ELSE << >>,
              !.pings = IF r.kind = "control" THEN Append(@, r.data) ELSE @]
  /\ UNCHANGED got /\ Keep
\* data of the frame, as far as it has arrived; the last frame ends the message
ReadData ==
  /\ carrier = "ws" /\ receiver.frame # << >> /\ receiver.frame[1].opcode < MinControl
  /\ LET h == receiver.frame[1]
         unread == IF "remaining" \in DOMAIN h THEN h.remaining ELSE h.length
         r == WsReadData(receiver.octets, h, unread)
         message == receiver.message \o r.data
         over == r.remaining = 0
     IN  /\ r.o # receiver.octets \/ over
         /\ receiver' = [receiver EXCEPT
              !.octets = r.o,
              !.frame = IF over THEN << >>
                        ELSE <<[fin |-> h.fin, opcode |-> h.opcode, length |-> h.length, mask |-> h.mask, remaining |-> r.remaining]>>,
              !.message = IF over /\ h.fin THEN << >> ELSE message]
         /\ IF over /\ h.fin THEN Answer(ReadAs(Due.format, Due.value, message)) ELSE UNCHANGED got
  /\ Keep
\* the data of a close, once it is there
ReadClose ==
  /\ carrier = "ws" /\ receiver.frame # << >> /\ receiver.frame[1].opcode = Close
  /\ OctetSize(receiver.octets) >= receiver.frame[1].length
  /\ LET r == WsReadClose(receiver.octets, receiver.frame[1])
     IN  r.ok /\ receiver' = [receiver EXCEPT !.octets = r.o, !.frame = << >>, !.closed = TRUE]
  /\ UNCHANGED got /\ Keep

Next ==
  \/ \E m \in Messages[carrier] : Send(m)
  \/ \E n \in 1 .. MaxChunk : Arrive(n)
  \/ Decode \/ ReadStream \/ ReadRecord \/ ReadHeader \/ ReadData \/ ReadClose
  \/ Done
Spec == Init /\ [][Next]_vars

---------------------------------------------------------------------------
\* A value JSON has, in numbers that every format holds.
RECURSIVE Plain(_), Sorted(_)
Plain(v) == \/ v.k \in {"null", "bool", "str"} \/ (v.k = "int" /\ Fits(v.n, 31))
            \/ v.k = "arr" /\ \A i \in DOMAIN v.items : Plain(v.items[i])
            \/ v.k = "obj" /\ \A i \in DOMAIN v.pairs : v.pairs[i][1] # Proto /\ Plain(v.pairs[i][2])
\* keys in their order, numbers of one kind
Sorted(v) ==
  CASE v.k = "arr" -> Arr([i \in DOMAIN v.items |-> Sorted(v.items[i])])
    [] v.k = "obj" -> Obj(SortSeq([i \in DOMAIN v.pairs |-> <<v.pairs[i][1], Sorted(v.pairs[i][2])>>], KeyBefore))
    [] v.k \in {"uint", "bigint"} -> Integer(v.n)
    [] v.k = "float" /\ Integral(v) -> Integer(v.f \div 2)
    [] OTHER -> v
Same(a, b) == Sorted(a) = Sorted(b)


\* What a format is known to change, to lose or to refuse. EJSON writes NaN and
\* the infinities as no JSON, and where overflow panics no RESP integer is the
\* least i64; JSON text, as a number or a word no number comes back from twice;
\* bencode has no texts, RESP2 no booleans, no objects and no long texts, and SSH
\* no sign.
Unreadable(f, v) ==
  \/ f \in {"ejson", "ejson-relaxed"} /\ v.k = "special"
  \/ f = "resp" /\ OverflowChecks /\ v.k \in {"int", "uint"} /\ AsSigned(v.n, 63) < -Limit(63)
Unstable(f, v) == f \in {"text", "text-stable", "text-dag"} /\ v.k = "special"
RECURSIVE Keeps(_, _)
Keeps(f, v) ==
  /\ Plain(v)
  /\ f = "bencode" => v.k # "str"
  /\ f = "resp-legacy" => v.k \notin {"bool", "obj"} /\ (v.k = "str" => IsSimple(Utf8(v.text)))
  /\ f = "ssh" /\ v.k = "int" => v.n >= 0
  /\ v.k = "arr" => \A i \in DOMAIN v.items : Keeps(f, v.items[i])
  /\ v.k = "obj" => \A i \in DOMAIN v.pairs : Keeps(f, v.pairs[i][2])

\* The message is read completely and passed by completely; what was read is
\* written and read as itself again.
Complete(r) == r.ok /\ r.rest = << >>
Again(f, v, e) == e.ok /\ ReadAs(f, v, e.out) = Got(v, << >>)
Holds(f, v, back) ==
  CASE f \in Exact -> back = v
    [] f \in Schematic -> Encoded(f, back) = Encoded(f, v)
    [] OTHER -> /\ Keeps(f, v) => Same(back, v)
                /\ Takes(f, back) /\ ~Unstable(f, v) => Again(f, back, Encoded(f, back))
\* MessagePackDecoder's other ways to a value: each part by its path, and level
\* by level.
RECURSIVE Finds(_, _, _)
Finds(path, v, tokens) ==
  /\ \E at \in {MsgFind(path, tokens)} : at.ok /\ As(MsgRead(at.rest), LAMBDA w : w = v).v
  /\ v.k = "arr" => \A i \in DOMAIN v.items : Finds(Append(path, [by |-> "index", index |-> i - 1]), v.items[i], tokens)
  /\ v.k = "obj" => \A i \in DOMAIN v.pairs : Finds(Append(path, [by |-> "key", key |-> v.pairs[i][1]]), v.pairs[i][2], tokens)
Opened(v) ==
  LET Open(w) == IF w.k = "blob" THEN MsgRead(w.tokens).v ELSE w
  IN  CASE v.k = "arr" -> Arr([i \in DOMAIN v.items |-> Open(v.items[i])])
        [] v.k = "obj" -> Obj([i \in DOMAIN v.pairs |-> <<v.pairs[i][1], Open(v.pairs[i][2])>>])
        [] OTHER -> v
LevelsAgree(v, tokens) == Finds(<< >>, v, tokens) /\ Opened(MsgReadLevel(tokens).v) = v
\* What JsonDecoderPartial makes of a text is the beginning of the value; a number
\* that comes last may be the beginning of its digits.
RECURSIVE Begins(_, _)
Begins(part, whole) ==
  LET Starts(parts, wholes) ==
        /\ Len(parts) <= Len(wholes)
        /\ \A i \in DOMAIN parts : IF i < Len(parts) THEN parts[i] = wholes[i] ELSE Begins(parts[i], wholes[i])
  IN  CASE part.k = "arr" /\ whole.k = "arr" -> Starts(part.items, whole.items)
        [] part.k = "obj" /\ whole.k = "obj" ->
             /\ \A i \in DOMAIN part.pairs : i <= Len(whole.pairs) /\ part.pairs[i][1] = whole.pairs[i][1]
             /\ Starts([i \in DOMAIN part.pairs |-> part.pairs[i][2]], [i \in DOMAIN whole.pairs |-> whole.pairs[i][2]])
        [] IsNumber(part) /\ IsNumber(whole) -> IsPrefix(JsonNumber(part), JsonNumber(whole))
        [] OTHER -> part = whole
ReadsPart(v, tokens) == \E r \in {JsonPartial(tokens)} : r.ok => Begins(r.v, JsonRead("json", Encoded("text", v).out).v)

ReadsBack(f, v, tokens) ==
  /\ Complete(SkipAs(f, v, tokens))
  /\ \E r \in {ReadAs(f, v, tokens)} :
       /\ Complete(r) /\ Holds(f, v, r.v)
       /\ f = "msgpack" => LevelsAgree(r.v, tokens)

\* A bare number in a JSON text does not say where it ends: all that has come of
\* it is digits, or what stands between digits.
NumberComing(f, tokens) ==
  /\ f \in {"text", "text-stable", "text-dag", "ejson", "ejson-relaxed"}
  /\ \A i \in DOMAIN tokens : tokens[i][1] = "digit" \/ tokens[i][2] \in {"-", ".", "e"}

\* A message that has come is read back, or refused where its format is known
\* to; of one that is still coming the decoder answers no value, in every format:
\* encoder.rs and decoder.rs of cbor, msgpack, ubjson, bencode, bson, ion, json,
\* ejson, resp, ssh, avro and xdr agree on where a value ends. Two exceptions: an
\* RPC message does not say where it ends, which RM is for, and neither does a
\* JSON text that is a number. JsonDecoderPartial answers the beginning of what
\* is coming.
Transcodes ==
  carrier = "direct" /\ Len(sent) = 1 /\ got = << >> =>
    LET f == sent[1].format
        v == sent[1].value
    IN  /\ f = "text" => ReadsPart(v, receiver)
        /\ CASE coming = << >> /\ ~Unreadable(f, v) -> ReadsBack(f, v, receiver)
             [] coming # << >> /\ (f = "rpc" \/ NumberComing(f, receiver)) -> TRUE
             [] OTHER -> ~ReadAs(f, v, receiver).ok

\* In whatever parts a stream of messages arrives, and whenever the receiver
\* looks, it answers what a decoder of each whole message answers, in the order
\* they were sent (resp/streaming_decoder.rs, rm/decoder.rs, ws/decoder.rs).
\* Two exceptions: a message that follows a refused one in the same writer; and
\* a WebSocket end that asked for a header before it had all come.
StreamsAgree ==
  carrier # "direct" =>
    /\ Len(got) <= Len(sent)
    /\ \A i \in DOMAIN got : sent[i].before = << >> =>
         got[i] = ReadAs(sent[i].format, sent[i].value, Encoded(sent[i].format, sent[i].value).out).v
=============================================================================
