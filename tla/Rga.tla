-------------------------------- MODULE Rga --------------------------------
(***************************************************************************)
(* The replicated growable array under str, bin and arr nodes, from        *)
(* json_crdt/nodes/rga.rs, as operators on the sequence of its chunks in   *)
(* document order (the in-order walk of the position tree).  The id tree   *)
(* is the lookup of a chunk by the timestamps it covers.  A chunk holds a  *)
(* run of items with consecutive timestamps; its content is left out, as   *)
(* an item is named by its timestamp.                                      *)
(***************************************************************************)
EXTENDS Clock, SequencesExt

\* `link` is the field `s`: the first timestamp of the chunk that continues
\* the run after this one.
NoLink == Ts(SystemSid, 0)

Chunk(id, span, deleted, link) ==
  [id |-> id, span |-> span, deleted |-> deleted, link |-> link]

NewChunk(id, span) == Chunk(id, span, FALSE, NoLink)

\* The time after the last item of the chunk.
NextTick(c) == c.id.time + c.span

Covers(c, t) ==
  c.id.sid = t.sid /\ c.id.time <= t.time /\ t.time < NextTick(c)

\* find_by_id
Holding(rga, t) == {i \in DOMAIN rga : Covers(rga[i], t)}
FindById(rga, t) == CHOOSE i \in Holding(rga, t) : TRUE

\* The place of the chunk that starts at `t`.
StartsAt(rga, t) == {i \in DOMAIN rga : rga[i].id = t}
PlaceOf(rga, t) == CHOOSE i \in StartsAt(rga, t) : TRUE

Replace(rga, i, pieces) ==
  SubSeq(rga, 1, i - 1) \o pieces \o SubSeq(rga, i + 1, Len(rga))

\* Mutant of Split: the left part is not linked to the right part.
SplitUnlinked(c, at) ==
  << [c EXCEPT !.span = at],
     Chunk(Ts(c.id.sid, c.id.time + at), c.span - at, c.deleted, c.link) >>

\* alloc_split_chunk and the links its callers set: [0, at) and [at, span).
Split(c, at) ==
  LET right == Ts(c.id.sid, c.id.time + at)
  IN  << [c EXCEPT !.span = at, !.link = right],
         Chunk(right, c.span - at, c.deleted, c.link) >>
-----------------------------------------------------------------------------
(***************************************************************************)
(* insert_after_ref: from the chunk at `left`, pass over every chunk that  *)
(* is later than the new one.  A chunk without a link that the new one     *)
(* continues is linked to it; the new chunk is folded into the last chunk  *)
(* passed when it continues that one and that one is live.  The mutants of *)
(* Stops compare times only, and do not recognise the chunk itself.        *)
(***************************************************************************)
StopsByTime(right, new) == right.id = new.id \/ right.id.time < new.id.time
StopsAtOlder(right, new) == Less(right.id, new.id)

Stops(right, new) == \/ right.id = new.id
                     \/ Less(right.id, new.id)

Continues(c, new, ref) ==
  /\ c.id.sid = new.id.sid
  /\ NextTick(c) = new.id.time
  /\ NextTick(c) - 1 = ref.time

InsertAfterRef(rga, new, ref, left) ==
  LET last == Min({j \in left .. Len(rga) :
                     j = Len(rga) \/ Stops(rga[j + 1], new)})
      exists == last < Len(rga) /\ rga[last + 1].id = new.id
      open == {j \in left .. last : rga[j].link = NoLink}
      isSplit == open # {} /\ Continues(rga[Max(open)], new, ref)
      linked == [j \in DOMAIN rga |->
                   IF j \in open /\ Continues(rga[j], new, ref)
                   THEN [rga[j] EXCEPT !.link = new.id] ELSE rga[j]]
  IN  IF exists
      THEN IF isSplit THEN [linked EXCEPT ![last].link = NoLink] ELSE linked
      ELSE IF isSplit /\ ~rga[last].deleted
      THEN [linked EXCEPT ![last].span = @ + new.span, ![last].link = NoLink]
      ELSE InsertAt(linked, last + 1, new)

\* ins_after_root
InsAfterRoot(rga, new, after) ==
  IF rga = << >> THEN <<new>>
  ELSE IF Less(rga[1].id, new.id) THEN <<new>> \o rga
  ELSE IF Covers(rga[1], new.id) THEN rga
  ELSE InsertAfterRef(rga, new, after, 1)

\* ins_after_chunk, for the item at `offset` of the chunk at i.
InsAfterChunk(rga, new, after, i) ==
  LET at == rga[i]
      offset == after.time - at.id.time
      needsSplit == offset + 1 < at.span
      halves == Split(at, offset + 1)
  IN  IF needsSplit /\ Covers(at, new.id) THEN rga
      ELSE IF needsSplit /\ (new.id.time > after.time + 1 \/ new.id.sid > after.sid)
      THEN Replace(rga, i, <<halves[1], new, halves[2]>>)
      ELSE InsertAfterRef(rga, new, after, i)

\* insert: a reference no chunk covers (the node's own id) means the front.
Insert(rga, after, id, span) ==
  LET new == NewChunk(id, span)
  IN  IF after = Origin \/ Holding(rga, after) = {}
      THEN InsAfterRoot(rga, new, after)
      ELSE InsAfterChunk(rga, new, after, FindById(rga, after))
-----------------------------------------------------------------------------
\* A live chunk when its items t1 .. t2 are deleted: what is behind t2 is split
\* off, then what is in front of t1, and the last piece of the rest is deleted.
TailPart(c, t2) ==
  IF t2 < NextTick(c) - 1 THEN Split(c, t2 - c.id.time + 1) ELSE <<c>>
FrontPart(c, t1) == IF t1 > c.id.time THEN Split(c, t1 - c.id.time) ELSE <<c>>
LastDead(pieces) == [pieces EXCEPT ![Len(pieces)].deleted = TRUE]

Cut(c, t1, t2) ==
  LET tail == TailPart(c, t2)
  IN  LastDead(FrontPart(tail[1], t1)) \o Tail(tail)

\* The chunk at i loses the items t1 .. t2, if it has any of them to show.
CutAt(rga, i, t1, t2) ==
  IF rga[i].deleted \/ t1 >= NextTick(rga[i]) THEN rga
  ELSE Replace(rga, i, Cut(rga[i], t1, t2))

\* The walk after the chunk at i was cut: it goes on along the link.
Onward(walk, i, cut, t2) ==
  LET ends == t2 < NextTick(walk.rga[i]) \/ cut[i].link = NoLink
  IN  [rga |-> cut, from |-> IF ends THEN walk.from ELSE cut[i].link, on |-> ~ends]

\* The walk of delete_span along the links: a turn of its loop on the chunk
\* that starts at `from`, which at the end is the chunk the walk stopped on.
DeleteTurn(walk, t1, t2) ==
  LET i == PlaceOf(walk.rga, walk.from)
  IN  IF walk.on THEN Onward(walk, i, CutAt(walk.rga, i, t1, t2), t2) ELSE walk

\* Every turn but the first starts later than t1, and later than the one before.
DeleteWalk(rga, from, t1, t2) ==
  LET turn[n \in 0 .. t2 - t1 + 2] ==
        IF n = 0 THEN [rga |-> rga, from |-> from, on |-> TRUE]
        ELSE DeleteTurn(turn[n - 1], t1, t2)
  IN  turn[t2 - t1 + 2]

\* merge_tombstones
Mergeable(rga, i) ==
  /\ i \in 1 .. Len(rga) - 1
  /\ rga[i].deleted /\ rga[i + 1].deleted
  /\ rga[i + 1].id = Ts(rga[i].id.sid, NextTick(rga[i]))

\* Mutant of MergeTombstones: the link of the right chunk is lost.
MergeKeepingLink(rga, i) ==
  IF Mergeable(rga, i)
  THEN RemoveAt([rga EXCEPT ![i].span = @ + rga[i + 1].span], i + 1)
  ELSE rga

MergeTombstones(rga, i) ==
  IF Mergeable(rga, i)
  THEN RemoveAt([rga EXCEPT ![i].span = @ + rga[i + 1].span,
                            ![i].link = rga[i + 1].link], i + 1)
  ELSE rga

\* The loop of merge_tombstones2: a turn at the chunk that starts at `from`.
MergeTurn(walk, last) ==
  LET rga == walk.rga
      i == PlaceOf(rga, walk.from)
  IN  CASE ~walk.on -> walk
        [] walk.on /\ Mergeable(rga, i) -> [walk EXCEPT !.rga = MergeTombstones(rga, i)]
        [] walk.on /\ ~Mergeable(rga, i) /\ i < Len(rga) /\ rga[i + 1].id # last
             /\ rga[i].link # NoLink -> [walk EXCEPT !.from = rga[i].link]
        [] OTHER ->
             [walk EXCEPT !.on = FALSE,
                          !.rga = IF i < Len(rga) /\ rga[i + 1].id = last
                                  THEN MergeTombstones(rga, i + 1) ELSE rga]

\* A turn leaves fewer chunks behind the one it starts at, or is the last.
MergeWalk(rga, from, last) ==
  LET turn[n \in 0 .. Len(rga)] ==
        IF n = 0 THEN [rga |-> rga, from |-> from, on |-> TRUE]
        ELSE MergeTurn(turn[n - 1], last)
  IN  turn[Len(rga)].rga

\* merge_tombstones2 ends with the chunk in front of the first one.
MergeInFront(rga, start) ==
  LET i == PlaceOf(rga, start)
  IN  IF i > 1 THEN MergeTombstones(rga, i - 1) ELSE rga

MergeTombstones2(walk, start) ==
  MergeInFront(MergeWalk(walk.rga, start, walk.from), start)

\* delete_span: nothing happens when no chunk covers the first timestamp.
DeleteSpan(rga, tss) ==
  IF Holding(rga, Ts(tss.sid, tss.time)) = {} THEN rga
  ELSE LET start == rga[FindById(rga, Ts(tss.sid, tss.time))].id
       IN  MergeTombstones2(DeleteWalk(rga, start, tss.time, tss.time + tss.span - 1), start)

\* delete
Delete(rga, spans) ==
  LET after[k \in 0 .. Len(spans)] ==
        IF k = 0 THEN rga ELSE DeleteSpan(after[k - 1], spans[k])
  IN  after[Len(spans)]
-----------------------------------------------------------------------------
\* push_chunk for every chunk of a snapshot: all of a chunk but its link.
Decoded(rga) == [i \in DOMAIN rga |-> [rga[i] EXCEPT !.link = NoLink]]

\* The items of a chunk, and those of the array, in document order.
RunOf(c) ==
  [k \in 1 .. c.span |-> [id |-> Ts(c.id.sid, c.id.time + k - 1), live |-> ~c.deleted]]

Items(rga) == FlattenSeq([i \in DOMAIN rga |-> RunOf(rga[i])])

\* iter_live: the timestamps of the visible items.
LiveIds(c) ==
  IF c.deleted THEN << >> ELSE [k \in 1 .. c.span |-> Ts(c.id.sid, c.id.time + k - 1)]

View(rga) == FlattenSeq([i \in DOMAIN rga |-> LiveIds(rga[i])])

\* find_interval: the timestamp spans of the live items pos+1 .. pos+len, one
\* for each live chunk they are in.
FindInterval(rga, pos, len) ==
  LET spans(i) ==
        LET before == Len(View(SubSeq(rga, 1, i - 1)))
            from == Larger(pos, before) - before
            to == Min({pos + len - before, rga[i].span})
        IN  IF rga[i].deleted \/ to <= from THEN << >>
            ELSE <<[sid |-> rga[i].id.sid, time |-> rga[i].id.time + from,
                    span |-> to - from]>>
  IN  FlattenSeq([i \in DOMAIN rga |-> spans(i)])
=============================================================================
