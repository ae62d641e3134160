-------------------------------- MODULE Frames -------------------------------
(* Buffers, and messages that arrive on a stream in parts.                    *)
EXTENDS Integers, SequencesExt

(* The buffers of the crate json_joy_buffers. A Writer is a vector of cells    *)
(* with the position of the last flush and its cursor; it grows by moving what *)
(* was not flushed to the front of a larger vector. A StreamingReader is a     *)
(* Writer that others push to, read from a distance dx after the flushed part. *)
(* Cells hold tokens: one is written and read at once.                         *)
CONSTANT AllocSize   \* the cells of a new writer
ASSUME AllocSizeAssumption == AllocSize \in Nat \ {0}

NewWriter == [uint8 |-> [i \in 0 .. AllocSize - 1 |-> "none"], len |-> AllocSize, x0 |-> 0, x |-> 0]
\* what was written and not flushed
Pending(w) == [i \in 1 .. w.x - w.x0 |-> w.uint8[w.x0 + i - 1]]

\* grow: the pending cells come first
Grow(w, size) ==
  [uint8 |-> [i \in 0 .. size - 1 |-> IF i < w.x - w.x0 THEN w.uint8[w.x0 + i] ELSE "none"],
   len |-> size, x0 |-> 0, x |-> w.x - w.x0]
\* ensure_capacity
EnsureCapacity(w, capacity) ==
  LET remaining == w.len - w.x
      needed == w.len - w.x0 + capacity - remaining
  IN  IF remaining >= capacity THEN w ELSE Grow(w, IF needed <= AllocSize THEN AllocSize ELSE 2 * needed)
\* u8, u16, .., buf: room is made, then the cell is written
Write(w, token) ==
  LET e == EnsureCapacity(w, 1) IN [e EXCEPT !.uint8[e.x] = token, !.x = e.x + 1]
WriteAll(w, tokens) == LET f[i \in 0 .. Len(tokens)] == IF i = 0 THEN w ELSE Write(f[i - 1], tokens[i]) IN f[Len(tokens)]

---------------------------------------------------------------------------
\* StreamingReader: positions are of the writer, dx counts from its flush.
NewReader == [writer |-> NewWriter, dx |-> 0]
Size(r) == r.writer.x - (r.writer.x0 + r.dx)
\* peek, u8, u32, buf of the next n cells, which must be there
Peeked(r, i) == r.writer.uint8[r.writer.x0 + r.dx + i - 1]
Unread(r) == [i \in 1 .. Size(r) |-> Peeked(r, i)]
Skip(r, n) == [r EXCEPT !.dx = r.dx + n]
Consume(r) == [writer |-> [r.writer EXCEPT !.x0 = r.writer.x0 + r.dx], dx |-> 0]

(* Messages on a stream: the records of RM (RmRecordEncoder, RmRecordDecoder)  *)
(* over a StreamingReader, and the frames of WebSocket (WsFrameEncoder,        *)
(* WsFrameDecoder) over a StreamingOctetReader, which keeps the chunks it was  *)
(* given. A token counts as one byte here.                                     *)
\* Bounds: 0x7fffffff bytes of a fragment, 125 of a short WebSocket payload and
\* 65535 of a middle one.
MaxFragment == 3
MaxShort == 3
MaxMiddle == 6

\* StreamingOctetReader: x is a position in the first chunk.
NewOctets == [chunks |-> << >>, x |-> 0, size |-> 0]
OctetSize(o) == o.size - o.x
PushChunk(o, chunk) == [o EXCEPT !.chunks = Append(o.chunks, chunk), !.size = o.size + Len(chunk)]
\* the cell i after the next one, and skip_unsafe
RECURSIVE CellAt(_, _, _), SkipCells(_, _)
CellAt(chunks, x, i) ==
  IF x + i <= Len(chunks[1]) THEN chunks[1][x + i] ELSE CellAt(Tail(chunks), 0, x + i - Len(chunks[1]))
OctetsUnread(o) == [i \in 1 .. OctetSize(o) |-> CellAt(o.chunks, o.x, i)]
SkipCells(o, n) ==
  IF n = 0 \/ o.chunks = << >> THEN o
  ELSE LET left == Len(o.chunks[1]) - o.x
       IN  IF left > n THEN [o EXCEPT !.x = o.x + n]
           ELSE SkipCells([chunks |-> Tail(o.chunks), x |-> 0, size |-> o.size - Len(o.chunks[1])], n - left)

---------------------------------------------------------------------------
\* write_record: fragments, the last of them marked
RmHeader(fin, n) == <<<<"rm", fin, n>>>>
RmRecord(tokens) ==
  LET count == IF tokens = << >> THEN 1 ELSE (Len(tokens) + MaxFragment - 1) \div MaxFragment
      Part(i) == SubSeq(tokens, (i - 1) * MaxFragment + 1, IF i = count THEN Len(tokens) ELSE i * MaxFragment)
  IN  FlattenSeq([i \in 1 .. count |-> RmHeader(i = count, Len(Part(i))) \o Part(i)])

\* RmRecordDecoder
NewRm == [reader |-> NewReader, fragments |-> << >>]
RmPush(d, tokens) == [d EXCEPT !.reader.writer = WriteAll(@, tokens)]
\* read_record: a fragment that has not all arrived is left; one that is not
\* the last answers nothing; a record of nothing is none
RmRead(d) ==
  LET header == Peeked(d.reader, 1)
      chunk == SubSeq(Unread(d.reader), 2, header[3] + 1)
      record == d.fragments \o chunk
      after == Skip(Consume(Skip(d.reader, 1)), header[3])
  IN  IF Size(d.reader) < 1 THEN [d |-> d, record |-> << >>]
      ELSE IF Size(d.reader) - 1 < header[3] THEN [d |-> d, record |-> << >>]
      ELSE IF header[2] THEN [d |-> [reader |-> after, fragments |-> << >>],
                              record |-> IF record = << >> THEN << >> ELSE <<record>>]
      ELSE [d |-> [reader |-> after, fragments |-> record], record |-> << >>]

---------------------------------------------------------------------------
\* The opcodes, and write_hdr: the mask 0 is none
Continuation == 0
Binary == 2
Close == 8
Ping == 9
Pong == 10
MinControl == 8
WsHeader(fin, opcode, n, mask) ==
  LET l7 == CASE n <= MaxShort -> n [] n > MaxShort /\ n <= MaxMiddle -> 126 [] OTHER -> 127
  IN  <<<<"ws", fin, opcode>>, <<"len", mask # 0, l7>>>>
        \o (CASE l7 = 126 -> <<<<"num", 16, n>>>> [] l7 = 127 -> <<<<"num", 32, 0>>, <<"num", 32, n>>>> [] OTHER -> << >>)
        \o (IF mask # 0 THEN <<<<"mask", mask>>>> ELSE << >>)
\* write_data_msg_hdr_fast: the header of a whole binary message
WsFastHeader(n) == WsHeader(TRUE, Binary, n, 0)
\* write_buf_xor, and its inverse: byte i of the mask, over and over
Masked(tokens, mask) ==
  IF mask = 0 THEN tokens ELSE [i \in DOMAIN tokens |-> <<"xor", mask, (i - 1) % 4, tokens[i]>>]
Unmasked(cells, mask, offset) ==
  LET Is(cell, i) == Len(cell) = 4 /\ cell[1] = "xor" /\ cell[2] = mask /\ cell[3] = (offset + i - 1) % 4
  IN  IF mask = 0 THEN cells
      ELSE [i \in DOMAIN cells |-> IF Is(cells[i], i) THEN cells[i][4] ELSE <<"garbage">>]
WsPing(data) == WsHeader(TRUE, Ping, Len(data), 0) \o data
\* write_close: no code and no reason is no payload
WsClose(code, reason) ==
  IF code = 0 /\ reason = << >> THEN WsHeader(TRUE, Close, 0, 0)
  ELSE WsHeader(TRUE, Close, 1 + Len(reason), 0) \o <<<<"num", 16, code>>>> \o reason
WsData(fin, opcode, tokens, mask) == WsHeader(fin, opcode, Len(tokens), mask) \o Masked(tokens, mask)

\* read_frame_header. It takes what it reads: when the rest of a header, or the
\* data of a ping, has not arrived, what was read is lost.
NoFrame(o, lost) == [o |-> o, kind |-> "none", lost |-> lost]
WsReadHeader(o) ==
  LET cells == OctetsUnread(o)
      l7 == cells[2][3]
      width == CASE l7 = 126 -> 1 [] l7 = 127 -> 2 [] OTHER -> 0
      masked == cells[2][2]
      head == 2 + width + (IF masked THEN 1 ELSE 0)
      n == IF width = 0 THEN l7 ELSE cells[2 + width][3]
      header == [fin |-> cells[1][2], opcode |-> cells[1][3], length |-> n, mask |-> IF masked THEN cells[head][2] ELSE 0]
      after == SkipCells(o, head)
      data == SubSeq(cells, head + 1, head + n)
  IN  IF Len(cells) < 2 THEN NoFrame(o, FALSE)
      ELSE IF cells[1][1] # "ws" \/ cells[2][1] # "len" THEN [o |-> o, kind |-> "garbled", lost |-> TRUE]
      ELSE IF Len(cells) < 2 + width THEN NoFrame(SkipCells(o, 2), TRUE)
      ELSE IF Len(cells) < head THEN NoFrame(SkipCells(o, 2 + width), TRUE)
      ELSE CASE header.opcode < MinControl -> [o |-> after, kind |-> "data", lost |-> FALSE, header |-> header]
             [] header.opcode = Close -> [o |-> after, kind |-> "close", lost |-> FALSE, header |-> header]
             [] header.opcode \in {Ping, Pong} ->
                  IF n > MaxShort THEN [o |-> after, kind |-> "error", lost |-> FALSE]
                  ELSE IF Len(cells) < head + n THEN NoFrame(after, TRUE)
                  ELSE [o |-> SkipCells(after, n), kind |-> "control", lost |-> FALSE, header |-> header,
                        data |-> Unmasked(data, header.mask, 0)]
             [] OTHER -> [o |-> after, kind |-> "error", lost |-> FALSE]
\* Mutant of WsReadData: the mask starts again with every part.
WsReadDataFromStart(o, header, remaining) ==
  LET size == IF OctetSize(o) < remaining THEN OctetSize(o) ELSE remaining
  IN  [o |-> SkipCells(o, size), remaining |-> remaining - size,
       data |-> Unmasked(SubSeq(OctetsUnread(o), 1, size), header.mask, 0)]
\* read_frame_data: what has arrived of the frame
WsReadData(o, header, remaining) ==
  LET size == IF OctetSize(o) < remaining THEN OctetSize(o) ELSE remaining
  IN  [o |-> SkipCells(o, size), remaining |-> remaining - size,
       data |-> Unmasked(SubSeq(OctetsUnread(o), 1, size), header.mask, header.length - remaining)]
\* read_close_frame_data: the code, then the reason
WsReadClose(o, header) ==
  LET cells == SubSeq(OctetsUnread(o), 1, header.length)
  IN  IF header.length > MaxShort THEN [ok |-> FALSE]
      ELSE IF header.length = 0 THEN [ok |-> TRUE, o |-> o, code |-> 0, reason |-> << >>]
      ELSE [ok |-> TRUE, o |-> SkipCells(o, header.length), code |-> Unmasked(<<cells[1]>>, header.mask, 0)[1][3],
            reason |-> Unmasked(Tail(cells), header.mask, 1)]
=============================================================================
