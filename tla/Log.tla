--------------------------------- MODULE Log --------------------------------
(***************************************************************************)
(* Histories of a document, from json_crdt/log.rs: each session keeps a    *)
(* baseline, the patches applied since in the order of their ids, and the  *)
(* model they lead to.  Patches arrive in another order than that of their *)
(* ids; replays and undo go by the ids.  The document is one str node; a   *)
(* letter is named by the item it was first typed as, so that a text that  *)
(* undo brings back under new ids reads the same.                          *)
(***************************************************************************)
EXTENDS Rga

CONSTANTS Author,    \* the session that wrote the text of the baseline
          InitLen,   \* its letters
          MaxPatches,  \* bound: patches issued
          MaxAdvances  \* bound: advances of a baseline

ASSUME LogAssumption == Author \in Sids /\ InitLen \in Nat /\ MaxPatches \in Nat

VARIABLES start,     \* session -> the chunks start() returns
          patches,   \* session -> the patches recorded and not yet baked
          end,       \* session -> the chunks of the end model
          time,      \* session -> the next timestamp of the end model's clock
          baked,     \* session -> ids of the patches in its baseline
          issued,    \* every patch issued
          advances   \* advances so far

vars == <<start, patches, end, time, baked, issued, advances>>

StrId == Ts(Author, 1)
FirstTime == 3
Baseline == IF InitLen = 0 THEN << >> ELSE <<NewChunk(Ts(Author, FirstTime), InitLen)>>

\* Patches of one operation; `data` are the letters of an insertion.
InsStr(id, after, data, deps) ==
  [kind |-> "ins", id |-> id, after |-> after, data |-> data, span |-> Len(data), deps |-> deps]
Del(id, what, deps) ==
  [kind |-> "del", id |-> id, what |-> what, span |-> 1, deps |-> deps]

ApplyPatch(chunks, patch) ==
  IF patch.kind = "ins" THEN Insert(chunks, patch.after, patch.id, patch.span)
                        ELSE Delete(chunks, patch.what)

\* The map of patches iterates by time, then by session.
Earliest(set) == CHOOSE p \in set : \A q \in set : ~Less(q.id, p.id)

ReplayTurn(done) ==
  LET next == Earliest(done.rest)
  IN  [chunks |-> ApplyPatch(done.chunks, next), rest |-> done.rest \ {next}]

Replay(chunks, set) ==
  LET turn[n \in 0 .. Cardinality(set)] ==
        IF n = 0 THEN [chunks |-> chunks, rest |-> set] ELSE ReplayTurn(turn[n - 1])
  IN  turn[Cardinality(set)].chunks

\* replay_to_end
ReplayToEnd(s) == Replay(start[s], patches[s])

\* replay_to(ts, false)
ReplayTo(s, ts) == Replay(start[s], {p \in patches[s] : Less(p.id, ts)})
-----------------------------------------------------------------------------
\* The letters of an item: that of the insertion that made it, or of the
\* baseline.
LetterOf(id) ==
  LET made == {p \in issued : p.kind = "ins" /\ id \in Interval(p.id, p.span)}
  IN  IF made = {} THEN id
      ELSE LET p == CHOOSE p \in made : TRUE IN p.data[id.time - p.id.time + 1]

Letters(ids) == [k \in DOMAIN ids |-> LetterOf(ids[k])]
Text(chunks) == Letters(View(chunks))

\* prev_id: the item in front of `id`, or the node itself.
PrevId(chunks, id) ==
  LET items == Items(chunks)
      before == {i \in DOMAIN items : i < Len(items) /\ items[i + 1].id = id}
  IN  IF before = {} THEN StrId ELSE items[CHOOSE i \in before : TRUE].id

Take(c, offset, n) == [k \in 1 .. n |-> Ts(c.id.sid, c.id.time + offset + k - 1)]
Minus(a, b) == IF a < b THEN 0 ELSE a - b

(***************************************************************************)
(* A turn of the loop of span_view_str, with `left` items to go.  On the   *)
(* first chunk `left` goes down by the items taken, and then by the whole  *)
(* chunk again.                                                            *)
(***************************************************************************)
SpanTurn(chunks, walk, isFirst) ==
  LET c == chunks[walk.at]
      taken == IF c.deleted THEN << >>
               ELSE Take(c, walk.offset, Min({Minus(c.span, walk.offset), walk.left}))
      enough == ~c.deleted /\ IF isFirst THEN c.span >= walk.left + walk.offset
                                         ELSE c.span > walk.left
      left == IF isFirst /\ ~c.deleted
              THEN Minus(Minus(walk.left, Minus(c.span, walk.offset)), c.span)
              ELSE Minus(walk.left, c.span)
      ends == enough \/ left = 0 \/ c.link = NoLink
  IN  IF ~walk.on THEN walk
      ELSE [taken |-> walk.taken \o taken, left |-> left, offset |-> 0, on |-> ~ends,
            at |-> IF ends THEN walk.at ELSE PlaceOf(chunks, c.link)]

SpanWalk(chunks, i, offset, span) ==
  LET turn[n \in 0 .. Len(chunks)] ==
        IF n = 0 THEN [taken |-> << >>, left |-> span, offset |-> offset, on |-> TRUE, at |-> i]
        ELSE SpanTurn(chunks, turn[n - 1], n = 1)
  IN  turn[Len(chunks)].taken

SpanView(chunks, tss) ==
  LET first == Ts(tss.sid, tss.time)
  IN  IF Holding(chunks, first) = {} THEN << >>
      ELSE LET i == FindById(chunks, first)
           IN  SpanWalk(chunks, i, tss.time - chunks[i].id.time, tss.span)
-----------------------------------------------------------------------------
Init ==
  /\ start = [s \in Sids |-> Baseline]
  /\ patches = [s \in Sids |-> {}]
  /\ end = [s \in Sids |-> Baseline]
  /\ time = [s \in Sids |-> FirstTime + InitLen]
  /\ baked = [s \in Sids |-> {}]
  /\ issued = {}
  /\ advances = 0

\* Log::apply: the end model takes the patch, the history records it.
Apply(s, patch) ==
  /\ end' = [end EXCEPT ![s] = ApplyPatch(@, patch)]
  /\ time' = [time EXCEPT ![s] = Larger(@, patch.id.time + patch.span)]
  /\ patches' = [patches EXCEPT ![s] = @ \cup {patch}]
  /\ UNCHANGED <<start, baked, advances>>

MayIssue == Cardinality(issued) < MaxPatches
Issue(s, patch) ==
  /\ Apply(s, patch)
  /\ issued' = issued \cup {patch}

Applied(s) == baked[s] \cup {p.id : p \in patches[s]}

NextTs(s) == Ts(s, time[s])

Type(s, index) ==
  LET after == IF index = 0 THEN StrId ELSE View(end[s])[index]
  IN  Issue(s, InsStr(NextTs(s), after, <<NextTs(s)>>, Applied(s)))

Erase(s, index, length) ==
  Issue(s, Del(NextTs(s), FindInterval(end[s], index, length), Applied(s)))

Receive(s, patch) ==
  /\ patch.deps \subseteq Applied(s)
  /\ Apply(s, patch)
  /\ UNCHANGED issued

\* Mutant of UndoPatch: the text comes back in front of all.
UndoPatchAtFront(s, patch) ==
  IF patch.kind = "ins"
  THEN {Del(NextTs(s), <<[sid |-> patch.id.sid, time |-> patch.id.time,
                          span |-> patch.span]>>, Applied(s))}
  ELSE LET before == ReplayTo(s, patch.id)
           restored == FlattenSeq([k \in DOMAIN patch.what |-> SpanView(before, patch.what[k])])
       IN  IF restored = << >> THEN {}
           ELSE {InsStr(NextTs(s), StrId, Letters(restored), Applied(s))}

\* undo(patch): an insertion is deleted; what a deletion hid is read off a
\* replay and inserted again, all of it behind the item in front of its first.
UndoPatch(s, patch) ==
  IF patch.kind = "ins"
  THEN {Del(NextTs(s), <<[sid |-> patch.id.sid, time |-> patch.id.time,
                          span |-> patch.span]>>, Applied(s))}
  ELSE LET before == ReplayTo(s, patch.id)
           restored == FlattenSeq([k \in DOMAIN patch.what |-> SpanView(before, patch.what[k])])
           first == Ts(patch.what[1].sid, patch.what[1].time)
       IN  IF restored = << >> THEN {}
           ELSE {InsStr(NextTs(s), PrevId(before, first), Letters(restored), Applied(s))}

\* The undo patch is built and applied at once.
Undo(s, patch) ==
  /\ MayIssue
  /\ patch \in patches[s]
  /\ \E undo \in UndoPatch(s, patch) : Issue(s, undo)

\* Mutant of Advanced: the patch at `ts` itself is lost.
AdvancedBefore(s, ts) == ReplayTo(s, ts)

\* The baseline of advance_to(ts): the patches up to and with `ts` are baked.
Advanced(s, ts) == Replay(start[s], {p \in patches[s] : ~Less(ts, p.id)})

AdvanceTo(s, ts) ==
  /\ advances < MaxAdvances
  /\ advances' = advances + 1
  /\ start' = [start EXCEPT ![s] = Advanced(s, ts)]
  /\ patches' = [patches EXCEPT ![s] = {p \in @ : Less(ts, p.id)}]
  /\ baked' = [baked EXCEPT ![s] = @ \cup {p.id : p \in {q \in patches[s] : ~Less(ts, q.id)}}]
  /\ UNCHANGED <<end, time, issued>>

Next ==
  \E s \in Sids :
    \/ /\ MayIssue
       /\ \E index \in 0 .. Len(View(end[s])) :
            \/ Type(s, index)
            \/ \E length \in 1 .. Len(View(end[s])) - index : Erase(s, index, length)
    \/ \E patch \in issued : Receive(s, patch) \/ Undo(s, patch)
    \/ \E ts \in {p.id : p \in patches[s]} : AdvanceTo(s, ts)

Spec == Init /\ [][Next]_vars
-----------------------------------------------------------------------------
\* Replaying the history in the order of ids gives the end model, whatever
\* order the patches arrived in and whatever part of them was baked.
ReplayIsEnd == \A s \in Sids : Items(ReplayToEnd(s)) = Items(end[s])

\* Undoing a patch that came after all others of the log brings the text back
\* as it was, whatever order the others came in, also when part is baked.
UndoRestores ==
  [][\A s \in Sids : \A patch \in patches[s] :
       /\ Applied(s) = patch.deps \cup {patch.id}
       /\ patch.id \notin baked[s]
       /\ issued # issued'
       /\ Undo(s, patch)
       => Text(end[s])' = Text(ReplayTo(s, patch.id))]_vars

\* "Build an undo patch for `patch` against the current end state"
\* (log.rs:314): every letter a deletion hid shows again after its undo.
UndoRestoresAll ==
  [][\A s \in Sids : \A patch \in patches[s] :
       Undo(s, patch) /\ patch.kind = "del" =>
         LET before == ReplayTo(s, patch.id)
             hid == {id \in ToSet(View(before)) :
                       \E k \in DOMAIN patch.what :
                         LET tss == patch.what[k]
                         IN  id \in Interval(Ts(tss.sid, tss.time), tss.span)}
         IN  {LetterOf(id) : id \in hid} \subseteq ToSet(Text(end[s])')]_vars
=============================================================================
