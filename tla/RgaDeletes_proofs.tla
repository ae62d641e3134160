-------------------------- MODULE RgaDeletes_proofs --------------------------
(***************************************************************************)
(* Proofs about the operators of Rga, continued: what delete_span and the  *)
(* merges of tombstones do to the items and the links, what the spans of   *)
(* find_interval cover, and where the links lead.                          *)
(***************************************************************************)
EXTENDS Rga_proofs

(***************************************************************************)
(* Deletions.  The items of W are hidden, all others are as they were.     *)
(***************************************************************************)
Hide(items, W) ==
  [p \in DOMAIN items |->
     IF items[p].id \in W THEN [id |-> items[p].id, live |-> FALSE] ELSE items[p]]

\* Hiding keeps the list and its names.
LEMMA HideFacts ==
  ASSUME NEW items \in Seq(ItemType), NEW W
  PROVE  /\ Hide(items, W) \in Seq(ItemType) /\ Len(Hide(items, W)) = Len(items)
         /\ DOMAIN Hide(items, W) = DOMAIN items
         /\ \A p \in DOMAIN items : Hide(items, W)[p].id = items[p].id
         /\ Names(Hide(items, W)) = Names(items)
<1> DEFINE n == Len(items)
           hidden == Hide(items, W)
<1>1. n \in Nat /\ DOMAIN items = 1 .. n /\ \A p \in 1 .. n : items[p] \in ItemType
  OBVIOUS
<1>2. DOMAIN hidden = 1 .. n
      /\ \A p \in 1 .. n : hidden[p] = IF items[p].id \in W
                                       THEN [id |-> items[p].id, live |-> FALSE] ELSE items[p]
  BY <1>1 DEF Hide
<1>3. hidden = [p \in 1 .. n |-> hidden[p]]
  BY <1>1 DEF Hide
<1> HIDE DEF n, hidden
<1>4. \A p \in 1 .. n : hidden[p] \in ItemType /\ hidden[p].id = items[p].id
  <2> SUFFICES ASSUME NEW p \in 1 .. n PROVE hidden[p] \in ItemType /\ hidden[p].id = items[p].id
    OBVIOUS
  <2>1. items[p] \in ItemType /\ items[p].id \in Timestamp
    BY <1>1 DEF ItemType
  <2>2. [id |-> items[p].id, live |-> FALSE] \in ItemType
    BY <2>1 DEF ItemType
  <2>3. [id |-> items[p].id, live |-> FALSE].id = items[p].id
    OBVIOUS
  <2>4. hidden[p] = [id |-> items[p].id, live |-> FALSE] \/ hidden[p] = items[p]
    BY <1>2
  <2> QED
    BY <2>1, <2>2, <2>3, <2>4
<1>5. hidden \in [1 .. n -> ItemType]
  BY <1>2, <1>3, <1>4
<1>6. hidden \in Seq(ItemType) /\ Len(hidden) = n
  BY <1>1, <1>5
<1>7. Names(hidden) = Names(items)
  BY <1>1, <1>2, <1>4 DEF Names
<1> QED
  BY <1>1, <1>2, <1>4, <1>6, <1>7 DEF hidden, n

\* Two lists that are the same at each place.
LEMMA SameAtAll ==
  ASSUME NEW a \in Seq(ItemType), NEW b \in Seq(ItemType), Len(a) = Len(b),
         \A p \in 1 .. Len(a) : a[p] = b[p]
  PROVE  a = b
BY SeqEqual

\* Hiding twice hides both sets.
LEMMA HideAgain ==
  ASSUME NEW items \in Seq(ItemType), NEW V, NEW W
  PROVE  Hide(Hide(items, V), W) = Hide(items, V \cup W)
<1> DEFINE once == Hide(items, V)
           twice == Hide(once, W)
           both == Hide(items, V \cup W)
<1>1. once \in Seq(ItemType) /\ Len(once) = Len(items) /\ both \in Seq(ItemType) /\ Len(both) = Len(items)
  BY HideFacts
<1> HIDE DEF once, both
<1>2. twice \in Seq(ItemType) /\ Len(twice) = Len(items)
  BY <1>1, HideFacts
<1>3. ASSUME NEW p \in 1 .. Len(items) PROVE twice[p] = both[p]
  <2>1. p \in DOMAIN items /\ p \in DOMAIN once
    BY <1>1
  <2>2. /\ items[p].id \in V => once[p] = [id |-> items[p].id, live |-> FALSE]
        /\ items[p].id \notin V => once[p] = items[p]
    BY <2>1 DEF Hide, once
  <2>3. once[p].id = items[p].id
    BY <2>2
  <2>4. /\ once[p].id \in W => twice[p] = [id |-> once[p].id, live |-> FALSE]
        /\ once[p].id \notin W => twice[p] = once[p]
    BY <2>1 DEF Hide
  <2>5. /\ items[p].id \in V \cup W => both[p] = [id |-> items[p].id, live |-> FALSE]
        /\ items[p].id \notin V \cup W => both[p] = items[p]
    BY <2>1 DEF Hide, both
  <2> QED
    BY <2>2, <2>3, <2>4, <2>5
<1> HIDE DEF twice
<1>4. twice = both
  BY <1>1, <1>2, <1>3, SameAtAll
<1> QED
  BY <1>4 DEF twice, once, both

\* Hiding what is hidden already changes nothing.
LEMMA HideNothing ==
  ASSUME NEW items \in Seq(ItemType), NEW W,
         \A p \in DOMAIN items : items[p].id \in W => items[p].live = FALSE
  PROVE  Hide(items, W) = items
<1> DEFINE hidden == Hide(items, W)
<1>1. hidden \in Seq(ItemType) /\ Len(hidden) = Len(items)
  BY HideFacts
<1>2. ASSUME NEW p \in 1 .. Len(items) PROVE hidden[p] = items[p]
  <2>1. p \in DOMAIN items
    OBVIOUS
  <2>2. items[p] = [id |-> items[p].id, live |-> items[p].live]
    <3>1. items[p] \in ItemType
      BY <2>1
    <3> QED
      BY <3>1 DEF ItemType
  <2>3. hidden[p] = IF items[p].id \in W THEN [id |-> items[p].id, live |-> FALSE] ELSE items[p]
    BY <2>1 DEF Hide
  <2>4. items[p].id \in W => items[p].live = FALSE
    BY <2>1
  <2> HIDE DEF hidden
  <2> QED
    BY <2>2, <2>3, <2>4
<1> HIDE DEF hidden
<1>3. hidden = items
  BY <1>1, <1>2, SameAtAll
<1> QED
  BY <1>3 DEF hidden

\* Only the names that are there matter.
LEMMA HideSame ==
  ASSUME NEW items \in Seq(ItemType), NEW V, NEW W, V \cap Names(items) = W \cap Names(items)
  PROVE  Hide(items, V) = Hide(items, W)
<1> DEFINE a == Hide(items, V)
           b == Hide(items, W)
<1>1. a \in Seq(ItemType) /\ b \in Seq(ItemType) /\ Len(a) = Len(items) /\ Len(b) = Len(items)
  BY HideFacts
<1>2. ASSUME NEW p \in 1 .. Len(items) PROVE a[p] = b[p]
  <2>1. p \in DOMAIN items
    OBVIOUS
  <2>2. items[p].id \in Names(items)
    BY <2>1 DEF Names
  <2>3. items[p].id \in V <=> items[p].id \in W
    BY <2>2
  <2> QED
    BY <2>1, <2>3 DEF Hide, a, b
<1> HIDE DEF a, b
<1>3. a = b
  BY <1>1, <1>2, SameAtAll
<1> QED
  BY <1>3 DEF a, b

\* Hiding in a concatenation hides in both parts.
LEMMA HideOfConcat ==
  ASSUME NEW a \in Seq(ItemType), NEW b \in Seq(ItemType), NEW W
  PROVE  Hide(a \o b, W) = Hide(a, W) \o Hide(b, W)
<1> DEFINE ab == a \o b
           ha == Hide(a, W)
           hb == Hide(b, W)
           left == Hide(ab, W)
           right == ha \o hb
<1>1. /\ ab \in Seq(ItemType) /\ Len(ab) = Len(a) + Len(b)
      /\ \A k \in 1 .. Len(a) + Len(b) : ab[k] = IF k <= Len(a) THEN a[k] ELSE b[k - Len(a)]
  BY ConcatProperties
<1>2. ha \in Seq(ItemType) /\ Len(ha) = Len(a) /\ hb \in Seq(ItemType) /\ Len(hb) = Len(b)
      /\ Len(a) \in Nat /\ Len(b) \in Nat
  BY HideFacts
<1> HIDE DEF ab, ha, hb
<1>3. /\ right \in Seq(ItemType) /\ Len(right) = Len(ha) + Len(hb)
      /\ \A k \in 1 .. Len(ha) + Len(hb) : right[k] = IF k <= Len(ha) THEN ha[k] ELSE hb[k - Len(ha)]
  BY <1>2, ConcatProperties
<1>4. left \in Seq(ItemType) /\ Len(left) = Len(ab)
  BY <1>1, HideFacts
<1> HIDE DEF left, right
<1>5. ASSUME NEW k \in 1 .. Len(a) + Len(b) PROVE left[k] = right[k]
  <2>1. k \in DOMAIN ab
    BY <1>1
  <2>2. /\ ab[k].id \in W => left[k] = [id |-> ab[k].id, live |-> FALSE]
        /\ ab[k].id \notin W => left[k] = ab[k]
    BY <2>1 DEF Hide, left
  <2>3. CASE k <= Len(a)
    <3>1. k \in DOMAIN a /\ ab[k] = a[k] /\ right[k] = ha[k]
      BY <1>1, <1>2, <1>3, <2>3
    <3>2. /\ a[k].id \in W => ha[k] = [id |-> a[k].id, live |-> FALSE]
          /\ a[k].id \notin W => ha[k] = a[k]
      BY <3>1 DEF Hide, ha
    <3> QED
      BY <2>2, <3>1, <3>2
  <2>4. CASE ~(k <= Len(a))
    <3> DEFINE m == k - Len(a)
    <3>1. m \in DOMAIN b /\ ab[k] = b[m] /\ right[k] = hb[m]
      <4>1. m \in 1 .. Len(b)
        BY <1>2, <2>4
      <4>2. DOMAIN b = 1 .. Len(b)
        OBVIOUS
      <4>3. ab[k] = b[m]
        BY <1>1, <2>4
      <4>4. right[k] = hb[m]
        BY <1>2, <1>3, <2>4
      <4> QED
        BY <4>1, <4>2, <4>3, <4>4
    <3> HIDE DEF m
    <3>2. /\ b[m].id \in W => hb[m] = [id |-> b[m].id, live |-> FALSE]
          /\ b[m].id \notin W => hb[m] = b[m]
      BY <3>1 DEF Hide, hb
    <3> QED
      BY <2>2, <3>1, <3>2
  <2> QED
    BY <2>3, <2>4
<1>6. left = right
  BY <1>1, <1>2, <1>3, <1>4, <1>5, SameAtAll
<1> QED
  BY <1>6 DEF left, right, ab, ha, hb

\* The same for Joined.
LEMMA HideOfJoined ==
  ASSUME NEW a \in Seq(ItemType), NEW b \in Seq(ItemType), NEW W
  PROVE  Hide(Joined(a, b), W) = Joined(Hide(a, W), Hide(b, W))
BY HideOfConcat DEF Joined

-----------------------------------------------------------------------------
\* The timestamps from t1 up to, but without, t2.
Span(sid, t1, t2) == {Ts(sid, t) : t \in t1 .. t2 - 1}

\* The timestamps of a span.
LEMMA SpanHolds ==
  ASSUME NEW sid, NEW t1 \in Nat, NEW t2 \in Nat, NEW t \in Timestamp
  PROVE  t \in Span(sid, t1, t2) <=> t.sid = sid /\ t1 <= t.time /\ t.time < t2
<1>1. t = Ts(t.sid, t.time) /\ t.time \in Nat
  BY StampIs
<1>2. ASSUME t \in Span(sid, t1, t2) PROVE t.sid = sid /\ t1 <= t.time /\ t.time < t2
  <2>1. PICK n \in t1 .. t2 - 1 : t = Ts(sid, n)
    BY <1>2 DEF Span
  <2>2. t.sid = sid /\ t.time = n
    BY <2>1, StampFacts
  <2> QED
    BY <2>2
<1>3. ASSUME t.sid = sid, t1 <= t.time, t.time < t2 PROVE t \in Span(sid, t1, t2)
  <2>1. t.time \in t1 .. t2 - 1
    BY <1>1, <1>3
  <2> QED
    BY <1>1, <1>3, <2>1 DEF Span
<1> QED
  BY <1>2, <1>3

\* A dead chunk, and what hiding makes of the run of a chunk.
Dead(c) == Chunk(c.id, c.span, TRUE, c.link)

\* A deleted chunk keeps its run and its link.
LEMMA DeadFacts ==
  ASSUME NEW c \in ChunkType
  PROVE  /\ Dead(c) \in ChunkType /\ Dead(c).id = c.id /\ Dead(c).span = c.span
         /\ Dead(c).deleted = TRUE /\ Dead(c).link = c.link
         /\ NextId(Dead(c)) = NextId(c) /\ LastId(Dead(c)) = LastId(c) /\ NextTick(Dead(c)) = NextTick(c)
         /\ \A names, ref : /\ LinkOk(Dead(c), names, ref) <=> LinkOk(c, names, ref)
                            /\ LinkFull(Dead(c), names, ref) <=> LinkFull(c, names, ref)
<1> DEFINE d == Dead(c)
<1>1. d \in ChunkType /\ d.id = c.id /\ d.span = c.span /\ d.deleted = TRUE /\ d.link = c.link
  BY DEF Dead, Chunk, ChunkType
<1> HIDE DEF d
<1>2. NextTick(d) = NextTick(c)
  BY <1>1 DEF NextTick
<1>3. NextId(d) = NextId(c) /\ LastId(d) = LastId(c)
  BY <1>1, <1>2 DEF NextId, LastId
<1>4. \A names, ref : /\ LinkOk(d, names, ref) <=> LinkOk(c, names, ref)
                      /\ LinkFull(d, names, ref) <=> LinkFull(c, names, ref)
  BY <1>1, <1>3 DEF LinkOk, LinkFull, Follows
<1> QED
  BY <1>1, <1>2, <1>3, <1>4 DEF d

\* Deleting a chunk hides its run; a chunk without a named item stays.
LEMMA HiddenRun ==
  ASSUME NEW c \in ChunkType, NEW W
  PROVE  /\ (\A t \in Timestamp : Covers(c, t) => t \in W) => RunOf(Dead(c)) = Hide(RunOf(c), W)
         /\ c.deleted \/ (\A t \in Timestamp : Covers(c, t) => t \notin W) => Hide(RunOf(c), W) = RunOf(c)
<1> DEFINE run == RunOf(c)
           d == Dead(c)
           dead == RunOf(d)
           hidden == Hide(run, W)
           T(k) == Ts(c.id.sid, c.id.time + k - 1)
<1>1. /\ run \in Seq(ItemType) /\ Len(run) = c.span /\ DOMAIN run = 1 .. c.span
      /\ \A k \in 1 .. c.span : run[k] = [id |-> T(k), live |-> ~c.deleted]
      /\ \A k \in 1 .. c.span : T(k) \in Timestamp
  <2>1. /\ run \in Seq(ItemType) /\ Len(run) = c.span
        /\ \A k \in 1 .. c.span : run[k] = [id |-> T(k), live |-> ~c.deleted]
        /\ \A k \in 1 .. c.span : T(k) \in Timestamp
    BY RunFacts
  <2>2. DOMAIN run = 1 .. Len(run)
    BY <2>1
  <2> QED
    BY <2>1, <2>2
<1>2. \A k \in 1 .. c.span : Covers(c, T(k))
  BY <1>1, CoveredStamps
<1>3. d \in ChunkType /\ d.span = c.span /\ d.id = c.id /\ d.deleted = TRUE
  BY DeadFacts
<1> HIDE DEF d, run
<1>4. dead \in Seq(ItemType) /\ Len(dead) = c.span
      /\ \A k \in 1 .. c.span : dead[k] = [id |-> T(k), live |-> FALSE]
  BY <1>3, RunFacts
<1>5. hidden \in Seq(ItemType) /\ Len(hidden) = c.span
  BY <1>1, HideFacts
<1> HIDE DEF T
<1>6. \A k \in 1 .. c.span : run[k].id = T(k)
  <2> SUFFICES ASSUME NEW k \in 1 .. c.span PROVE run[k].id = T(k)
    OBVIOUS
  <2>1. run[k] = [id |-> T(k), live |-> ~c.deleted]
    BY <1>1
  <2>2. \A x, y : [id |-> x, live |-> y].id = x
    OBVIOUS
  <2> QED
    BY <2>1, <2>2, Zenon
<1>7. \A k \in 1 .. c.span : hidden[k] = IF T(k) \in W THEN [id |-> T(k), live |-> FALSE] ELSE run[k]
  BY <1>1, <1>6 DEF Hide
<1> HIDE DEF dead, hidden
<1>8. ASSUME \A t \in Timestamp : Covers(c, t) => t \in W PROVE dead = hidden
  <2>1. \A k \in 1 .. c.span : T(k) \in W
    BY <1>1, <1>2, <1>8
  <2>2. \A k \in 1 .. c.span : dead[k] = hidden[k]
    BY <1>4, <1>7, <2>1
  <2> QED
    BY <1>4, <1>5, <2>2, SameAtAll
<1>9. ASSUME c.deleted \/ (\A t \in Timestamp : Covers(c, t) => t \notin W) PROVE hidden = run
  <2>1. \A k \in 1 .. c.span : c.deleted \/ T(k) \notin W
    BY <1>1, <1>2, <1>9
  <2>2. \A k \in 1 .. c.span : hidden[k] = run[k]
    <3> SUFFICES ASSUME NEW k \in 1 .. c.span, c.deleted PROVE [id |-> T(k), live |-> FALSE] = run[k]
      BY <1>7, <2>1
    <3>1. ~c.deleted = FALSE
      OBVIOUS
    <3> QED
      BY <1>1, <3>1
  <2> QED
    BY <1>1, <1>5, <2>2, SameAtAll
<1> QED
  BY <1>8, <1>9 DEF dead, hidden, run, d

\* The fields of a built chunk.
LEMMA ChunkHas ==
  ASSUME NEW c, NEW i, NEW s, NEW d, NEW l, c = Chunk(i, s, d, l)
  PROVE  c.id = i /\ c.span = s /\ c.deleted = d /\ c.link = l
BY DEF Chunk

\* The tails of tuples of one and two.
LEMMA TailsOfTuples ==
  \A x, y : Tail(<<x, y>>) = <<y>> /\ Tail(<<x>>) = << >>
OBVIOUS

\* The items of a chunk are in the list, each behind the one before it.
Sound(c, names, ref) ==
  \A t \in Timestamp :
    Covers(c, t) => t \in names /\ (t # c.id => ref[t] = Ts(t.sid, t.time - 1))

\* A part of a chunk has good links when the chunk has.
Inherits(p, c, names, ref) ==
  /\ LinkOk(c, names, ref) => LinkOk(p, names, ref)
  /\ LinkFull(c, names, ref) => LinkFull(p, names, ref)

\* Chunks of a well placed list hold items each of which stands behind the one
\* before.
LEMMA ChunksAreSound ==
  ASSUME NEW rga \in Seq(ChunkType), NEW ref, ChunksPlaced(rga, ref), NEW i \in 1 .. Len(rga)
  PROVE  Sound(rga[i], IdsOf(rga), ref)
<1>1. DOMAIN rga = 1 .. Len(rga)
  OBVIOUS
<1> QED
  BY <1>1 DEF ChunksPlaced, Sound, IdsOf

\* Both halves of a sound chunk are sound and take over its link.
LEMMA SplitSound ==
  ASSUME NEW c \in ChunkType, NEW at \in 1 .. c.span - 1, NEW names, NEW ref, Sound(c, names, ref),
         NEW parts, Divides(parts, c, at)
  PROVE  /\ Sound(parts[1], names, ref) /\ parts[1].link # NoLink
         /\ Inherits(parts[1], c, names, ref) /\ Inherits(parts[2], c, names, ref)
         /\ \A t \in Timestamp :
              /\ Covers(parts[1], t) <=> Covers(c, t) /\ t.time < c.id.time + at
              /\ Covers(parts[2], t) <=> Covers(c, t) /\ t.time >= c.id.time + at
         /\ NextTick(parts[1]) = c.id.time + at
<1> DEFINE a == parts[1]
           b == parts[2]
           y == NextId(a)
<1>1. /\ a = Chunk(c.id, at, c.deleted, y) /\ b = Chunk(y, c.span - at, c.deleted, c.link)
      /\ a \in ChunkType /\ b \in ChunkType /\ y = Ts(c.id.sid, c.id.time + at)
      /\ NextId(b) = NextId(c) /\ LastId(b) = LastId(c)
      /\ Covers(c, y) /\ y # c.id
  BY DEF Divides
<1>2. /\ c.id.time \in Nat /\ c.span \in Nat /\ at \in Nat /\ at >= 1 /\ at < c.span
      /\ NextTick(c) = c.id.time + c.span
  BY ChunkFields
<1> HIDE DEF y
<1>3. /\ a.id = c.id /\ a.span = at /\ a.link = y /\ b.id = y /\ b.span = c.span - at /\ b.link = c.link
  <2> HIDE DEF a, b
  <2> QED
    BY <1>1, ChunkHas
<1>4. y.sid = c.id.sid /\ y.time = c.id.time + at
  BY <1>1, StampFacts
<1> HIDE DEF a, b
<1>5. NextTick(a) = c.id.time + at /\ NextTick(b) = NextTick(c)
  <2>1. NextTick(a) = c.id.time + at
    BY <1>3 DEF NextTick
  <2>2. NextTick(b) = (c.id.time + at) + (c.span - at)
    BY <1>3, <1>4 DEF NextTick
  <2> QED
    BY <1>2, <2>1, <2>2
<1>6. ASSUME NEW t \in Timestamp
      PROVE  /\ Covers(a, t) <=> Covers(c, t) /\ t.time < c.id.time + at
             /\ Covers(b, t) <=> Covers(c, t) /\ t.time >= c.id.time + at
  <2>1. t.time \in Nat
    BY StampIs
  <2>2. Covers(a, t) <=> c.id.sid = t.sid /\ c.id.time <= t.time /\ t.time < c.id.time + at
    BY <1>3, <1>5 DEF Covers
  <2>3. Covers(b, t) <=> c.id.sid = t.sid /\ c.id.time + at <= t.time /\ t.time < NextTick(c)
    BY <1>3, <1>4, <1>5 DEF Covers
  <2>4. Covers(c, t) <=> c.id.sid = t.sid /\ c.id.time <= t.time /\ t.time < NextTick(c)
    BY DEF Covers
  <2> QED
    BY <1>2, <2>1, <2>2, <2>3, <2>4
<1>7. Sound(a, names, ref)
  BY <1>3, <1>6 DEF Sound
<1>8. y \in Timestamp /\ LastId(a) = Ts(y.sid, y.time - 1)
  <2>1. y \in Timestamp
    BY <1>1, FirstCovered DEF y
  <2>2. y.sid = a.id.sid /\ y.time = NextTick(a)
    BY <1>3, <1>4, <1>5
  <2> QED
    BY <2>1, <2>2 DEF LastId
<1>9. Follows(a, names, ref)
  <2>1. y \in names /\ ref[y] = Ts(y.sid, y.time - 1)
    BY <1>1, <1>8 DEF Sound
  <2> QED
    BY <1>8, <2>1 DEF Follows, y
<1>10. LinkOk(a, names, ref) /\ LinkFull(a, names, ref)
  BY <1>3, <1>9 DEF LinkOk, LinkFull, y
<1>11. /\ LinkOk(c, names, ref) <=> LinkOk(b, names, ref)
       /\ LinkFull(c, names, ref) <=> LinkFull(b, names, ref)
  BY <1>1, <1>3 DEF LinkOk, LinkFull, Follows
<1>12. a.link # NoLink
  BY <1>3, <1>8, StampIs
<1> QED
  BY <1>5, <1>6, <1>7, <1>10, <1>11, <1>12 DEF a, b, Inherits

\* The parts of a chunk up to t2, with what is behind it.
TailOk(e, rest, c, t2, W, names, ref) ==
  /\ e \in ChunkType /\ Sound(e, names, ref) /\ e.id = c.id /\ e.deleted = FALSE
  /\ Inherits(e, c, names, ref)
  /\ rest \in Seq(ChunkType) /\ \A p \in Parts(rest) : Inherits(p, c, names, ref)
  /\ RunOf(c) = RunOf(e) \o Items(rest) /\ Hide(Items(rest), W) = Items(rest)
  /\ \A t \in Timestamp : Covers(e, t) <=> Covers(c, t) /\ t.time <= t2
  /\ NextTick(e) <= NextTick(c)
  /\ e = c \/ (e.link # NoLink /\ NextTick(e) = t2 + 1)

\* The right end of a deletion: the part behind t2 is split off and stays.
LEMMA CutTail ==
  ASSUME NEW c \in ChunkType, c.deleted = FALSE, NEW names, NEW ref, Sound(c, names, ref),
         NEW t1 \in Nat, NEW t2 \in Nat, t1 <= t2, c.id.time <= t2,
         NEW tail, tail = IF t2 < NextTick(c) - 1 THEN Split(c, t2 - c.id.time + 1) ELSE <<c>>
  PROVE  TailOk(tail[1], Tail(tail), c, t2, Span(c.id.sid, t1, t2 + 1), names, ref)
<1> DEFINE W == Span(c.id.sid, t1, t2 + 1)
<1>1. /\ c.id.time \in Nat /\ c.span \in Nat /\ NextTick(c) = c.id.time + c.span /\ NextTick(c) \in Nat
  BY ChunkFields
<1>2. CASE t2 < NextTick(c) - 1
  <2> DEFINE at == (t2 - c.id.time) + 1
             a == tail[1]
             b == tail[2]
             rest == <<b>>
  <2>1. at \in 1 .. c.span - 1 /\ c.id.time + at = t2 + 1
    BY <1>1, <1>2
  <2>2. tail = Split(c, at)
    BY <1>2
  <2> HIDE DEF at
  <2>3. Divides(tail, c, at)
    BY <2>1, <2>2, SplitParts
  <2>4. /\ a = Chunk(c.id, at, c.deleted, NextId(a)) /\ a \in ChunkType /\ b \in ChunkType
        /\ tail = <<a, b>> /\ RunOf(c) = RunOf(a) \o RunOf(b)
    <3> HIDE DEF a, b
    <3> QED
      BY <2>3 DEF Divides, a, b
  <2>5. /\ Sound(a, names, ref) /\ a.link # NoLink
        /\ Inherits(a, c, names, ref) /\ Inherits(b, c, names, ref)
        /\ \A t \in Timestamp :
             /\ Covers(a, t) <=> Covers(c, t) /\ t.time < c.id.time + at
             /\ Covers(b, t) <=> Covers(c, t) /\ t.time >= c.id.time + at
        /\ NextTick(a) = c.id.time + at
    BY <2>1, <2>3, SplitSound
  <2> HIDE DEF a, b
  <2>6. a.id = c.id /\ a.deleted = FALSE
    BY <2>4, ChunkHas
  <2>7. Tail(tail) = rest /\ rest \in Seq(ChunkType) /\ Items(rest) = RunOf(b) /\ Parts(rest) = {b}
    <3>0. rest \in Seq(ChunkType)
      BY <2>4
    <3>1. Tail(tail) = <<b>> /\ rest \in Seq(ChunkType)
      BY <2>4, <3>0, TailsOfTuples, Zenon
    <3> QED
      BY <2>4, <3>1, ItemsOfOne, PartsOfList
  <2>8. Hide(RunOf(b), W) = RunOf(b)
    <3>1. \A t \in Timestamp : Covers(b, t) => t \notin W
      <4> SUFFICES ASSUME NEW t \in Timestamp, Covers(b, t), t \in W PROVE FALSE
        OBVIOUS
      <4>1. t.time < t2 + 1
        <5>1. t2 + 1 \in Nat
          OBVIOUS
        <5> QED
          BY <5>1, SpanHolds
      <4>2. t.time >= t2 + 1 /\ t.time \in Nat
        BY <2>1, <2>5, StampIs
      <4> QED
        BY <4>1, <4>2
    <3> HIDE DEF W
    <3> QED
      BY <2>4, <3>1, HiddenRun
  <2>9. \A t \in Timestamp : Covers(a, t) <=> Covers(c, t) /\ t.time <= t2
    <3> SUFFICES ASSUME NEW t \in Timestamp PROVE Covers(a, t) <=> Covers(c, t) /\ t.time <= t2
      OBVIOUS
    <3>1. t.time \in Nat
      BY StampIs
    <3>2. Covers(a, t) <=> Covers(c, t) /\ t.time < t2 + 1
      BY <2>1, <2>5
    <3> QED
      BY <3>1, <3>2
  <2>10. NextTick(a) <= NextTick(c) /\ NextTick(a) = t2 + 1
    BY <1>1, <1>2, <2>1, <2>5
  <2> HIDE DEF rest
  <2>11. TailOk(a, rest, c, t2, W, names, ref)
    BY <2>4, <2>5, <2>6, <2>7, <2>8, <2>9, <2>10 DEF TailOk
  <2> QED
    BY <2>7, <2>11 DEF a
<1>3. CASE ~(t2 < NextTick(c) - 1)
  <2> DEFINE none == << >>
  <2>1. tail[1] = c /\ Tail(tail) = none /\ none \in Seq(ChunkType) /\ Items(none) = << >>
        /\ Parts(none) = {}
    <3>1. tail = <<c>>
      BY <1>3
    <3>2. tail[1] = c /\ Tail(tail) = none
      <4>1. tail[1] = c
        BY <3>1
      <4> QED
        BY <3>1, <4>1, TailsOfTuples, Zenon
    <3>3. none \in Seq(ChunkType)
      OBVIOUS
    <3> QED
      BY <3>2, <3>3, ItemsOfNone, PartsOfList
  <2>2. RunOf(c) = RunOf(c) \o << >>
    <3>1. RunOf(c) \in Seq(ItemType)
      BY RunFacts
    <3> QED
      BY <3>1, ConcatEmptySeq
  <2>3. Hide(<< >>, W) = << >>
    BY DEF Hide
  <2>4. Inherits(c, c, names, ref)
    BY DEF Inherits
  <2>5. \A t \in Timestamp : Covers(c, t) <=> Covers(c, t) /\ t.time <= t2
    <3> SUFFICES ASSUME NEW t \in Timestamp, Covers(c, t) PROVE t.time <= t2
      OBVIOUS
    <3>1. t.time \in Nat /\ t.time < NextTick(c)
      BY StampIs DEF Covers
    <3> QED
      BY <1>1, <1>3, <3>1
  <2> HIDE DEF W, none
  <2>6. TailOk(c, none, c, t2, W, names, ref)
    BY <1>1, <2>1, <2>2, <2>3, <2>4, <2>5 DEF TailOk
  <2> QED
    BY <2>1, <2>6 DEF W
<1> QED
  BY <1>2, <1>3

\* The items of a chunk from t1 on are dead.
FrontOk(dead, e, t1, W, names, ref) ==
  /\ dead \in Seq(ChunkType) /\ dead # << >> /\ dead[1].id = e.id
  /\ Items(dead) = Hide(RunOf(e), W)
  /\ \A p \in Parts(dead) : Inherits(p, e, names, ref)
  /\ dead[1].link = NoLink => e.link = NoLink /\ NextTick(dead[1]) = NextTick(e)
  /\ NextTick(dead[1]) <= NextTick(e) /\ NextTick(dead[1]) >= t1

\* Setting the flag is the deleted chunk.
LEMMA DeadIsChanged ==
  ASSUME NEW c \in ChunkType
  PROVE  [c EXCEPT !.deleted = TRUE] = Dead(c)
<1>1. c = [id |-> c.id, span |-> c.span, deleted |-> c.deleted, link |-> c.link]
  BY ChunkFields
<1>2. \A d : [c EXCEPT !.deleted = d] = Chunk(c.id, c.span, d, c.link)
  BY <1>1, NewFields, Zenon
<1> QED
  BY <1>2, Zenon DEF Dead

\* A function on 1 .. n to chunks is a list of n chunks.
LEMMA FunctionIsList ==
  ASSUME NEW n \in Nat, NEW f \in [1 .. n -> ChunkType]
  PROVE  f \in Seq(ChunkType) /\ Len(f) = n
OBVIOUS

\* LastDead deletes the last chunk of one or two.
LEMMA LastIsDead ==
  ASSUME NEW x \in ChunkType, NEW y \in ChunkType
  PROVE  LastDead(<<x, y>>) = <<x, Dead(y)>> /\ LastDead(<<x>>) = <<Dead(x)>>
<1>1. [y EXCEPT !.deleted = TRUE] = Dead(y) /\ [x EXCEPT !.deleted = TRUE] = Dead(x)
  BY DeadIsChanged
<1>2. LastDead(<<x, y>>) = <<x, Dead(y)>>
  <2> DEFINE two == <<x, y>>
             dead == [two EXCEPT ![2].deleted = TRUE]
             both == <<x, Dead(y)>>
  <2>1. Len(two) = 2 /\ DOMAIN two = 1 .. 2 /\ two[1] = x /\ two[2] = y
    OBVIOUS
  <2>2. LastDead(two) = dead
    BY <2>1 DEF LastDead
  <2>3. Dead(y) \in ChunkType
    BY DeadFacts
  <2> DEFINE dy == Dead(y)
  <2> HIDE DEF dy
  <2>4. both \in Seq(ChunkType) /\ Len(both) = 2 /\ both[1] = x /\ both[2] = dy
    BY <2>3 DEF dy
  <2> HIDE DEF two, both
  <2>5. DOMAIN dead = 1 .. 2 /\ dead[1] = x /\ dead[2] = [two[2] EXCEPT !.deleted = TRUE]
    BY <2>1
  <2>6. dead = [j \in 1 .. 2 |-> dead[j]]
    BY <2>1
  <2>7. dead[2] = dy
    BY <1>1, <2>1, <2>5 DEF dy
  <2> HIDE DEF dead
  <2>8. dead \in [1 .. 2 -> ChunkType]
    <3>1. \A j \in 1 .. 2 : dead[j] \in ChunkType
      BY <2>3, <2>5, <2>7 DEF dy
    <3> QED
      BY <2>5, <2>6, <3>1
  <2>9. dead \in Seq(ChunkType) /\ Len(dead) = 2
    BY <2>8, FunctionIsList
  <2>10. \A j \in 1 .. 2 : dead[j] = both[j]
    BY <2>4, <2>5, <2>7
  <2>11. dead = both
    BY <2>4, <2>9, <2>10, SeqEqual
  <2> QED
    BY <2>2, <2>11 DEF two, both
<1>3. LastDead(<<x>>) = <<Dead(x)>>
  <2> DEFINE one == <<x>>
             dead == [one EXCEPT ![1].deleted = TRUE]
             both == <<Dead(x)>>
  <2>1. Len(one) = 1 /\ DOMAIN one = 1 .. 1 /\ one[1] = x
    OBVIOUS
  <2>2. LastDead(one) = dead
    BY <2>1 DEF LastDead
  <2>3. Dead(x) \in ChunkType
    BY DeadFacts
  <2> DEFINE dx == Dead(x)
  <2> HIDE DEF dx
  <2>4. both \in Seq(ChunkType) /\ Len(both) = 1 /\ both[1] = dx
    BY <2>3 DEF dx
  <2> HIDE DEF one, both
  <2>5. DOMAIN dead = 1 .. 1 /\ dead[1] = [one[1] EXCEPT !.deleted = TRUE]
    BY <2>1
  <2>6. dead = [j \in 1 .. 1 |-> dead[j]]
    BY <2>1
  <2>7. dead[1] = dx
    BY <1>1, <2>1, <2>5 DEF dx
  <2> HIDE DEF dead
  <2>8. dead \in [1 .. 1 -> ChunkType]
    <3>1. \A j \in 1 .. 1 : dead[j] \in ChunkType
      BY <2>3, <2>7 DEF dx
    <3> QED
      BY <2>5, <2>6, <3>1
  <2>9. dead \in Seq(ChunkType) /\ Len(dead) = 1
    BY <2>8, FunctionIsList
  <2>10. \A j \in 1 .. 1 : dead[j] = both[j]
    BY <2>4, <2>7
  <2>11. dead = both
    BY <2>4, <2>9, <2>10, SeqEqual
  <2> QED
    BY <2>2, <2>11 DEF one, both
<1> QED
  BY <1>2, <1>3

\* The items of two chunks.
LEMMA ItemsOfTwo ==
  ASSUME NEW c \in ChunkType, NEW d \in ChunkType, NEW two, two = <<c, d>>
  PROVE  /\ two \in Seq(ChunkType) /\ Items(two) = Joined(RunOf(c), RunOf(d))
         /\ Parts(two) \subseteq {c, d}
<1> DEFINE a == <<c>>
           b == <<d>>
<1>1. <<c, d>> = a \o b
  <2>1. <<c, d>> = Append(a, d)
    OBVIOUS
  <2>2. Append(a, d) = a \o <<d>>
    BY AppendIsConcat
  <2> QED
    BY <2>1, <2>2
<1>2. a \in Seq(ChunkType) /\ b \in Seq(ChunkType) /\ Items(a) = RunOf(c) /\ Items(b) = RunOf(d)
      /\ Parts(a) = {c} /\ Parts(b) = {d}
  <2>1. a \in Seq(ChunkType) /\ b \in Seq(ChunkType)
    OBVIOUS
  <2>2. \A p : Parts(<<p>>) = {p}
    BY <2>1, PartsOfList
  <2> QED
    BY <2>1, <2>2, ItemsOfOne
<1> HIDE DEF a, b
<1>3. a \o b \in Seq(ChunkType) /\ Items(a \o b) = Items(a) \o Items(b) /\ Parts(a \o b) \subseteq Parts(a) \cup Parts(b)
  BY <1>2, ItemsOfConcat, PartsOfConcat
<1> QED
  BY <1>1, <1>2, <1>3 DEF Joined

\* The left end of a deletion: the part before t1 is split off and stays, and
\* what is behind it is hidden.
LEMMA CutFront ==
  ASSUME NEW e \in ChunkType, e.deleted = FALSE, NEW names, NEW ref, Sound(e, names, ref),
         NEW t1 \in Nat, NEW t2 \in Nat, t1 <= t2, t1 < NextTick(e),
         \A t \in Timestamp : Covers(e, t) => t.time <= t2
  PROVE  FrontOk(LastDead(FrontPart(e, t1)), e, t1, Span(e.id.sid, t1, t2 + 1), names, ref)
<1> DEFINE W == Span(e.id.sid, t1, t2 + 1)
           front == FrontPart(e, t1)
           dead == LastDead(front)
<1>1. /\ e.id.time \in Nat /\ e.span \in Nat /\ NextTick(e) = e.id.time + e.span /\ NextTick(e) \in Nat
  BY ChunkFields
<1>2. \A t \in Timestamp : t \in W <=> t.sid = e.id.sid /\ t1 <= t.time /\ t.time < t2 + 1
  <2>1. t2 + 1 \in Nat
    OBVIOUS
  <2> QED
    BY <2>1, SpanHolds
<1>3. \A t \in Timestamp : Covers(e, t) => (t \in W <=> t1 <= t.time)
  <2> SUFFICES ASSUME NEW t \in Timestamp, Covers(e, t) PROVE t \in W <=> t1 <= t.time
    OBVIOUS
  <2>1. t.time <= t2 /\ t.sid = e.id.sid /\ t.time \in Nat
    BY StampIs DEF Covers
  <2>2. t.time < t2 + 1
    BY <2>1
  <2> QED
    BY <1>2, <2>1, <2>2
<1> HIDE DEF W, front, dead
<1>4. CASE t1 > e.id.time
  <2> DEFINE at == t1 - e.id.time
             a == front[1]
             b == front[2]
             db == Dead(b)
  <2>1. at \in 1 .. e.span - 1 /\ e.id.time + at = t1
    BY <1>1, <1>4
  <2>2. front = Split(e, at)
    BY <1>4 DEF FrontPart, front
  <2> HIDE DEF at
  <2>3. Divides(front, e, at)
    BY <2>1, <2>2, SplitParts
  <2>4. /\ a = Chunk(e.id, at, e.deleted, NextId(a)) /\ a \in ChunkType /\ b \in ChunkType
        /\ front = <<a, b>> /\ Len(front) = 2 /\ RunOf(e) = RunOf(a) \o RunOf(b)
    <3> HIDE DEF a, b
    <3> QED
      BY <2>3 DEF Divides, a, b
  <2>5. /\ a.link # NoLink
        /\ Inherits(a, e, names, ref) /\ Inherits(b, e, names, ref)
        /\ \A t \in Timestamp :
             /\ Covers(a, t) <=> Covers(e, t) /\ t.time < e.id.time + at
             /\ Covers(b, t) <=> Covers(e, t) /\ t.time >= e.id.time + at
        /\ NextTick(a) = e.id.time + at
    BY <2>1, <2>3, SplitSound
  <2> HIDE DEF a, b
  <2>6. a.id = e.id
    BY <2>4, ChunkHas
  <2>7. db \in ChunkType /\ Inherits(db, e, names, ref)
    BY <2>4, <2>5, DeadFacts DEF Inherits
  <2>8. dead = <<a, db>>
    BY <2>4, LastIsDead DEF dead
  <2>9. Hide(RunOf(a), W) = RunOf(a) /\ RunOf(db) = Hide(RunOf(b), W)
    <3>1. \A t \in Timestamp : Covers(a, t) => t \notin W
      <4> SUFFICES ASSUME NEW t \in Timestamp, Covers(a, t) PROVE t \notin W
        OBVIOUS
      <4>1. t.time \in Nat /\ t.time < t1 /\ Covers(e, t)
        BY <2>1, <2>5, StampIs
      <4>2. ~(t1 <= t.time)
        BY <4>1
      <4> QED
        BY <1>3, <4>1, <4>2
    <3>2. \A t \in Timestamp : Covers(b, t) => t \in W
      <4> SUFFICES ASSUME NEW t \in Timestamp, Covers(b, t) PROVE t \in W
        OBVIOUS
      <4>1. t.time \in Nat /\ t.time >= t1 /\ Covers(e, t)
        BY <2>1, <2>5, StampIs
      <4>2. t1 <= t.time
        BY <4>1
      <4> QED
        BY <1>3, <4>1, <4>2
    <3> QED
      BY <2>4, <3>1, <3>2, HiddenRun
  <2>10. Hide(Joined(RunOf(a), RunOf(b)), W) = Joined(Hide(RunOf(a), W), Hide(RunOf(b), W))
    BY <2>4, RunFacts, HideOfJoined
  <2> HIDE DEF db
  <2>11. dead \in Seq(ChunkType) /\ Items(dead) = Joined(RunOf(a), RunOf(db)) /\ Parts(dead) \subseteq {a, db}
    BY <2>4, <2>7, <2>8, ItemsOfTwo
  <2>12. dead # << >> /\ dead[1] = a
    BY <2>8, FunctionIsList
  <2>13. NextTick(a) <= NextTick(e) /\ NextTick(a) >= t1
    BY <1>1, <2>1, <2>5
  <2>14. Items(dead) = Hide(RunOf(e), W)
    <3>1. RunOf(e) = Joined(RunOf(a), RunOf(b))
      BY <2>4 DEF Joined
    <3> QED
      BY <2>9, <2>10, <2>11, <3>1
  <2> QED
    BY <2>4, <2>5, <2>6, <2>7, <2>11, <2>12, <2>13, <2>14 DEF FrontOk, W, dead, front
<1>5. CASE ~(t1 > e.id.time)
  <2> DEFINE de == Dead(e)
  <2>1. front = <<e>> /\ Len(front) = 1
    <3>1. front = <<e>>
      BY <1>5 DEF FrontPart, front
    <3> QED
      BY <3>1
  <2>2. dead = <<de>>
    BY <2>1, LastIsDead DEF dead
  <2>3. RunOf(de) = Hide(RunOf(e), W)
    <3>1. \A t \in Timestamp : Covers(e, t) => t \in W
      <4> SUFFICES ASSUME NEW t \in Timestamp, Covers(e, t) PROVE t \in W
        OBVIOUS
      <4>1. t1 <= t.time
        <5>1. e.id.time <= t.time /\ t.time \in Nat
          BY StampIs DEF Covers
        <5> QED
          BY <1>1, <1>5, <5>1
      <4> QED
        BY <1>3, <4>1
    <3> QED
      BY <3>1, HiddenRun
  <2>4. /\ de \in ChunkType /\ de.id = e.id /\ de.link = e.link /\ NextTick(de) = NextTick(e)
        /\ Inherits(de, e, names, ref)
    BY DeadFacts DEF Inherits
  <2> HIDE DEF de
  <2>5. dead \in Seq(ChunkType) /\ dead # << >> /\ dead[1] = de
    BY <2>2, <2>4
  <2>6. Items(dead) = RunOf(de) /\ Parts(dead) = {de}
    <3>1. Items(<<de>>) = RunOf(de)
      BY <2>4, ItemsOfOne
    <3>2. \A p : Parts(<<p>>) = {p}
      BY <2>5, PartsOfList
    <3> QED
      BY <2>2, <3>1, <3>2
  <2> QED
    BY <1>1, <1>5, <2>3, <2>4, <2>5, <2>6 DEF FrontOk, W, dead, front
<1> QED
  BY <1>4, <1>5

\* Cut hides the items of the chunk between t1 and t2 and no others.
LEMMA CutPieces ==
  ASSUME NEW c \in ChunkType, c.deleted = FALSE, NEW names, NEW ref, Sound(c, names, ref),
         NEW t1 \in Nat, NEW t2 \in Nat, t1 <= t2, c.id.time <= t2, t1 < NextTick(c)
  PROVE  FrontOk(Cut(c, t1, t2), c, t1, Span(c.id.sid, t1, t2 + 1), names, ref)
<1> DEFINE W == Span(c.id.sid, t1, t2 + 1)
           tail == IF t2 < NextTick(c) - 1 THEN Split(c, t2 - c.id.time + 1) ELSE <<c>>
           e == tail[1]
           rest == Tail(tail)
           dead == LastDead(FrontPart(e, t1))
           pieces == dead \o rest
<1>1. TailOk(e, rest, c, t2, W, names, ref)
  <2>1. tail = IF t2 < NextTick(c) - 1 THEN Split(c, t2 - c.id.time + 1) ELSE <<c>>
    OBVIOUS
  <2> HIDE DEF tail
  <2> QED
    BY <2>1, CutTail
<1>2. Cut(c, t1, t2) = pieces
  BY DEF Cut, TailPart
<1> HIDE DEF tail, e, rest
<1>3. /\ e \in ChunkType /\ e.deleted = FALSE /\ Sound(e, names, ref) /\ e.id = c.id
      /\ Inherits(e, c, names, ref) /\ NextTick(e) <= NextTick(c)
      /\ e = c \/ (e.link # NoLink /\ NextTick(e) = t2 + 1)
      /\ rest \in Seq(ChunkType) /\ \A p \in Parts(rest) : Inherits(p, c, names, ref)
      /\ RunOf(c) = RunOf(e) \o Items(rest) /\ Hide(Items(rest), W) = Items(rest)
  BY <1>1 DEF TailOk
<1>4. \A t \in Timestamp : Covers(e, t) => t.time <= t2
  BY <1>1 DEF TailOk
<1>5. t1 < NextTick(e)
  BY <1>3
<1>6. FrontOk(dead, e, t1, W, names, ref)
  <2>1. W = Span(e.id.sid, t1, t2 + 1)
    BY <1>3
  <2> HIDE DEF W
  <2> QED
    BY <1>3, <1>4, <1>5, <2>1, CutFront
<1> HIDE DEF dead, W
<1>7. /\ dead \in Seq(ChunkType) /\ dead # << >> /\ dead[1].id = e.id
      /\ Items(dead) = Hide(RunOf(e), W)
      /\ \A p \in Parts(dead) : Inherits(p, e, names, ref)
      /\ dead[1].link = NoLink => e.link = NoLink /\ NextTick(dead[1]) = NextTick(e)
      /\ NextTick(dead[1]) <= NextTick(e) /\ NextTick(dead[1]) >= t1
  BY <1>6 DEF FrontOk
<1>8. pieces \in Seq(ChunkType) /\ Items(pieces) = Items(dead) \o Items(rest)
      /\ Parts(pieces) \subseteq Parts(dead) \cup Parts(rest)
  BY <1>3, <1>7, ItemsOfConcat, PartsOfConcat
<1>9. pieces # << >> /\ pieces[1] = dead[1]
  <2>1. Len(pieces) = Len(dead) + Len(rest)
        /\ \A k \in 1 .. Len(dead) + Len(rest) : pieces[k] = IF k <= Len(dead) THEN dead[k] ELSE rest[k - Len(dead)]
    BY <1>3, <1>7, ConcatProperties
  <2>2. Len(dead) \in Nat /\ Len(dead) >= 1 /\ Len(rest) \in Nat
    BY <1>3, <1>7
  <2>3. 1 \in 1 .. Len(dead) + Len(rest)
    BY <2>2
  <2> HIDE DEF pieces
  <2>4. pieces[1] = dead[1]
    BY <2>1, <2>2, <2>3
  <2>5. Len(<< >>) = 0
    OBVIOUS
  <2>6. Len(pieces) # 0
    BY <2>1, <2>2
  <2> QED
    BY <2>4, <2>5, <2>6
<1>10. Items(pieces) = Hide(RunOf(c), W)
  <2>1. Hide(Joined(RunOf(e), Items(rest)), W) = Joined(Hide(RunOf(e), W), Hide(Items(rest), W))
    <3>1. RunOf(e) \in Seq(ItemType) /\ Items(rest) \in Seq(ItemType)
      BY <1>3, RunFacts, ItemsIsList
    <3> QED
      BY <3>1, HideOfJoined
  <2>2. RunOf(c) = Joined(RunOf(e), Items(rest)) /\ Items(pieces) = Joined(Items(dead), Items(rest))
    BY <1>3, <1>8 DEF Joined
  <2> QED
    BY <1>3, <1>7, <2>1, <2>2
<1>11. \A p \in Parts(pieces) : Inherits(p, c, names, ref)
  <2> SUFFICES ASSUME NEW p \in Parts(pieces) PROVE Inherits(p, c, names, ref)
    OBVIOUS
  <2>1. CASE p \in Parts(rest)
    BY <1>3, <2>1
  <2>2. CASE p \in Parts(dead)
    <3>1. Inherits(p, e, names, ref)
      BY <1>7, <2>2
    <3> QED
      BY <1>3, <3>1 DEF Inherits
  <2> QED
    BY <1>8, <2>1, <2>2
<1>12. dead[1].link = NoLink => c.link = NoLink /\ NextTick(dead[1]) = NextTick(c)
  BY <1>3, <1>7
<1>13. NextTick(dead[1]) <= NextTick(c)
  <2>1. dead[1] \in ChunkType
    BY <1>7
  <2>2. NextTick(dead[1]) \in Nat /\ NextTick(e) \in Nat /\ NextTick(c) \in Nat
    BY <1>3, <2>1, ChunkFields
  <2> QED
    BY <1>3, <1>7, <2>2
<1> HIDE DEF pieces
<1>14. FrontOk(pieces, c, t1, W, names, ref)
  BY <1>3, <1>7, <1>8, <1>9, <1>10, <1>11, <1>12, <1>13 DEF FrontOk
<1> QED
  BY <1>2, <1>14 DEF W

\* Hiding moves nothing.
LEMMA HidePlaced ==
  ASSUME NEW items \in Seq(ItemType), NEW W, NEW ref, WellPlaced(items, ref)
  PROVE  WellPlaced(Hide(items, W), ref)
<1> DEFINE hidden == Hide(items, W)
<1>1. /\ DOMAIN hidden = DOMAIN items /\ \A p \in DOMAIN items : hidden[p].id = items[p].id
      /\ Names(hidden) = Names(items)
  BY HideFacts
<1>2. DOMAIN items = 1 .. Len(items) /\ Len(items) \in Nat
  OBVIOUS
<1> HIDE DEF hidden
<1>3. Distinct(hidden)
  <2>1. Distinct(items)
    BY DEF WellPlaced
  <2> QED
    BY <1>1, <2>1 DEF Distinct
<1>4. ASSUME NEW p \in DOMAIN hidden PROVE PlacedAt(hidden, ref, p)
  <2>1. PlacedAt(items, ref, p)
    BY <1>1 DEF WellPlaced
  <2>2. PICK q \in 0 .. p - 1 : /\ NameAt(items, q) = ref[items[p].id]
                                /\ \A n \in q + 1 .. p - 1 : Less(items[p].id, items[n].id)
    BY <2>1 DEF PlacedAt
  <2>3. p \in 1 .. Len(items)
    BY <1>1, <1>2
  <2>4. NameAt(hidden, q) = NameAt(items, q)
    <3>1. q # 0 => q \in DOMAIN items
      BY <1>2, <2>3
    <3> QED
      BY <1>1, <3>1 DEF NameAt
  <2>5. \A n \in q + 1 .. p - 1 : n \in DOMAIN items
    BY <1>2, <2>3
  <2> QED
    BY <1>1, <2>2, <2>4, <2>5 DEF PlacedAt
<1> QED
  BY <1>1, <1>3, <1>4 DEF WellPlaced, hidden

Stamps(c) == {t \in Timestamp : Covers(c, t)}

\* The items of a chunk are timestamps it covers.
LEMMA RunNames ==
  ASSUME NEW c \in ChunkType
  PROVE  Names(RunOf(c)) \subseteq Stamps(c)
<1> SUFFICES ASSUME NEW y \in Names(RunOf(c)) PROVE y \in Stamps(c)
  OBVIOUS
<1>1. PICK p \in DOMAIN RunOf(c) : RunOf(c)[p].id = y
  BY DEF Names
<1>2. p \in 1 .. c.span
  <2>1. RunOf(c) \in Seq(ItemType) /\ Len(RunOf(c)) = c.span
    BY RunFacts
  <2> HIDE DEF RunOf
  <2> QED
    BY <2>1
<1>3. RunOf(c)[p] = [id |-> Ts(c.id.sid, c.id.time + p - 1), live |-> ~c.deleted]
  BY <1>2, RunFacts
<1>4. y = Ts(c.id.sid, c.id.time + p - 1)
  BY <1>1, <1>3
<1>5. Covers(c, y) /\ y \in Timestamp
  <2>1. c.id \in Timestamp
    BY ChunkFields
  <2>2. \A k \in 1 .. c.span : /\ Covers(c, Ts(c.id.sid, c.id.time + k - 1))
                               /\ Ts(c.id.sid, c.id.time + k - 1) \in Timestamp
    BY <2>1, CoveredStamps
  <2> QED
    BY <1>2, <1>4, <2>2
<1> QED
  BY <1>5 DEF Stamps

\* A part of the list that does not hold the chunk at i names none of its items.
LEMMA OthersNames ==
  ASSUME NEW rga \in Seq(ChunkType), NEW ref, ChunksPlaced(rga, ref), NEW i \in 1 .. Len(rga)
  PROVE  /\ Names(Items(Upto(rga, i - 1))) \cap Stamps(rga[i]) = {}
         /\ Names(Items(Behind(rga, i))) \cap Stamps(rga[i]) = {}
<1> DEFINE a == Upto(rga, i - 1)
           b == Behind(rga, i)
           n == Len(rga)
<1>1. n \in Nat /\ i \in Nat /\ 1 <= i /\ i <= n /\ i - 1 \in 0 .. n /\ i \in 0 .. n /\ DOMAIN rga = 1 .. n
  OBVIOUS
<1>2. /\ a \in Seq(ChunkType) /\ Len(a) = i - 1 /\ \A k \in 1 .. i - 1 : a[k] = rga[k]
      /\ b \in Seq(ChunkType) /\ Len(b) = n - i /\ \A k \in 1 .. n - i : b[k] = rga[i + k]
  <2>1. /\ a \in Seq(ChunkType) /\ Len(a) = i - 1 /\ \A k \in 1 .. i - 1 : a[k] = rga[k]
    BY <1>1, HalvesOfChunks
  <2>2. /\ b \in Seq(ChunkType) /\ Len(b) = n - i /\ \A k \in 1 .. n - i : b[k] = rga[i + k]
    BY <1>1, HalvesOfChunks
  <2> QED
    BY <2>1, <2>2
<1>3. \A t \in Timestamp : \A j \in 1 .. n : Covers(rga[i], t) /\ Covers(rga[j], t) => i = j
  BY <1>1 DEF ChunksPlaced
<1> HIDE DEF a, b, n
<1>4. Names(Items(a)) \cap Stamps(rga[i]) = {}
  <2> SUFFICES ASSUME NEW y \in Names(Items(a)), y \in Stamps(rga[i]) PROVE FALSE
    OBVIOUS
  <2>1. y \in IdsOf(a)
    BY <1>2, NamesAreCovered
  <2>2. PICK k \in 1 .. i - 1 : Covers(a[k], y) /\ y \in Timestamp
    BY <1>2, <2>1 DEF IdsOf
  <2>3. k \in 1 .. n /\ k # i
    BY <1>1
  <2> QED
    BY <1>2, <1>3, <2>2, <2>3 DEF Stamps
<1>5. Names(Items(b)) \cap Stamps(rga[i]) = {}
  <2> SUFFICES ASSUME NEW y \in Names(Items(b)), y \in Stamps(rga[i]) PROVE FALSE
    OBVIOUS
  <2>1. y \in IdsOf(b)
    BY <1>2, NamesAreCovered
  <2>2. PICK k \in 1 .. n - i : Covers(b[k], y) /\ y \in Timestamp
    BY <1>2, <2>1 DEF IdsOf
  <2>3. i + k \in 1 .. n /\ i + k # i
    BY <1>1
  <2> QED
    BY <1>2, <1>3, <2>2, <2>3 DEF Stamps
<1> QED
  BY <1>4, <1>5 DEF a, b

\* The chunk at i is in pieces that inherit its links.
LEMMA PiecesHide ==
  ASSUME NEW rga \in Seq(ChunkType), NEW ref, ChunksPlaced(rga, ref), NEW i \in 1 .. Len(rga),
         NEW pieces \in Seq(ChunkType), NEW W, Items(pieces) = Hide(RunOf(rga[i]), W),
         \A p \in Parts(pieces) : Inherits(p, rga[i], IdsOf(rga), ref)
  PROVE  /\ Replace(rga, i, pieces) \in Seq(ChunkType)
         /\ Items(Replace(rga, i, pieces)) = Hide(Items(rga), W \cap Stamps(rga[i]))
         /\ LinksOk(rga, IdsOf(rga), ref) => LinksOk(Replace(rga, i, pieces), IdsOf(rga), ref)
         /\ LinksFull(rga, IdsOf(rga), ref) => LinksFull(Replace(rga, i, pieces), IdsOf(rga), ref)
<1> DEFINE c == rga[i]
           names == IdsOf(rga)
           result == Replace(rga, i, pieces)
           a == Items(Upto(rga, i - 1))
           b == Items(Behind(rga, i))
           r == RunOf(c)
           V == W \cap Stamps(c)
<1>1. /\ result \in Seq(ChunkType)
      /\ Items(result) = (a \o Items(pieces)) \o b
      /\ Items(rga) = (a \o r) \o b
  BY Around
<1>2. a \in Seq(ItemType) /\ b \in Seq(ItemType) /\ r \in Seq(ItemType) /\ c \in ChunkType
  <2>1. i - 1 \in 0 .. Len(rga) /\ i \in 0 .. Len(rga) /\ c \in ChunkType
    OBVIOUS
  <2> QED
    BY <2>1, HalvesOfChunks, ItemsIsList, RunFacts
<1>3. Names(a) \cap Stamps(c) = {} /\ Names(b) \cap Stamps(c) = {} /\ Names(r) \subseteq Stamps(c)
  BY <1>2, OthersNames, RunNames
<1> HIDE DEF a, b, r, result, names
<1>4. Hide(a, V) = a
  <2>1. \A p \in DOMAIN a : a[p].id \notin V
    BY <1>3 DEF Names
  <2> HIDE DEF V
  <2> QED
    BY <1>2, <2>1, HideNothing
<1>5. Hide(b, V) = b
  <2>1. \A p \in DOMAIN b : b[p].id \notin V
    BY <1>3 DEF Names
  <2> HIDE DEF V
  <2> QED
    BY <1>2, <2>1, HideNothing
<1>6. Hide(r, V) = Hide(r, W)
  <2>1. V \cap Names(r) = W \cap Names(r)
    BY <1>3
  <2> HIDE DEF V
  <2> QED
    BY <1>2, <2>1, HideSame
<1> HIDE DEF V
<1>7. Hide(Joined(Joined(a, r), b), V) = Joined(Joined(a, Hide(r, W)), b)
  <2>1. Hide(Joined(a, r), V) = Joined(a, Hide(r, W))
    BY <1>2, <1>4, <1>6, HideOfJoined
  <2>2. Joined(a, r) \in Seq(ItemType)
    BY <1>2, ConcatProperties DEF Joined
  <2>3. Hide(Joined(Joined(a, r), b), V) = Joined(Hide(Joined(a, r), V), Hide(b, V))
    BY <1>2, <2>2, HideOfJoined
  <2> QED
    BY <1>5, <2>1, <2>3
<1>8. Items(result) = Hide(Items(rga), V)
  <2>1. Items(result) = Joined(Joined(a, Hide(r, W)), b) /\ Items(rga) = Joined(Joined(a, r), b)
    BY <1>1 DEF Joined, r
  <2> QED
    BY <1>7, <2>1
<1>9. ASSUME NEW p \in Parts(result)
      PROVE  /\ LinksOk(rga, names, ref) => LinkOk(p, names, ref)
             /\ LinksFull(rga, names, ref) => LinkFull(p, names, ref)
  <2>1. p \in Parts(rga) \/ p \in Parts(pieces)
    BY PartsAround DEF result
  <2>2. CASE p \in Parts(rga)
    BY <2>2 DEF LinksOk, LinksFull
  <2>3. CASE p \in Parts(pieces)
    <3>1. Inherits(p, c, names, ref)
      BY <2>3 DEF names
    <3>2. c \in Parts(rga)
      BY PartsOfList
    <3> QED
      BY <3>1, <3>2 DEF Inherits, LinksOk, LinksFull
  <2> QED
    BY <2>1, <2>2, <2>3
<1> QED
  BY <1>1, <1>8, <1>9 DEF result, names, V, LinksOk, LinksFull

(***************************************************************************)
(* A turn of the walk of a deletion.                                       *)
(***************************************************************************)
SameLinks(rga, result, ref) ==
  /\ LinksOk(rga, IdsOf(rga), ref) => LinksOk(result, IdsOf(rga), ref)
  /\ LinksFull(rga, IdsOf(rga), ref) => LinksFull(result, IdsOf(rga), ref)

CutOk(cut, rga, i, t1, t2, ref) ==
  /\ cut \in Seq(ChunkType)
  /\ Items(cut) = Hide(Items(rga), Span(rga[i].id.sid, t1, t2 + 1) \cap Stamps(rga[i]))
  /\ SameLinks(rga, cut, ref)
  /\ i \in 1 .. Len(cut) /\ cut[i].id = rga[i].id
  /\ cut[i].link = NoLink => rga[i].link = NoLink /\ NextTick(cut[i]) = NextTick(rga[i])
  /\ NextTick(cut[i]) <= NextTick(rga[i]) /\ t1 <= NextTick(cut[i])

\* What stands at the place of a chunk that is replaced.
LEMMA PieceAt ==
  ASSUME NEW rga \in Seq(ChunkType), NEW i \in 1 .. Len(rga), NEW pieces \in Seq(ChunkType),
         pieces # << >>
  PROVE  i \in 1 .. Len(Replace(rga, i, pieces)) /\ Replace(rga, i, pieces)[i] = pieces[1]
<1> DEFINE a == Upto(rga, i - 1)
           b == Behind(rga, i)
           ap == a \o pieces
<1>1. Replace(rga, i, pieces) = ap \o b
  BY Around
<1>2. /\ i - 1 \in 0 .. Len(rga) /\ i \in 0 .. Len(rga) /\ i \in Nat /\ i >= 1
  OBVIOUS
<1>3. a \in Seq(ChunkType) /\ b \in Seq(ChunkType) /\ Len(a) = i - 1 /\ Len(b) \in Nat
  <2>1. a \in Seq(ChunkType) /\ Len(a) = i - 1
    BY <1>2, HalvesOfChunks
  <2>2. b \in Seq(ChunkType)
    BY <1>2, HalvesOfChunks
  <2> HIDE DEF a, b
  <2> QED
    BY <2>1, <2>2
<1>4. Len(pieces) \in Nat /\ Len(pieces) >= 1
  OBVIOUS
<1> HIDE DEF a, b
<1>5. /\ ap \in Seq(ChunkType) /\ Len(ap) = Len(a) + Len(pieces)
      /\ \A k \in 1 .. Len(a) + Len(pieces) : ap[k] = IF k <= Len(a) THEN a[k] ELSE pieces[k - Len(a)]
  <2>1. a \in Seq(ChunkType)
    BY <1>3
  <2> QED
    BY <2>1, ConcatProperties
<1>6. i \in 1 .. Len(a) + Len(pieces) /\ ~(i <= Len(a)) /\ i - Len(a) = 1
  BY <1>2, <1>3, <1>4
<1>7. ap[i] = pieces[1]
  BY <1>5, <1>6
<1> HIDE DEF ap
<1>8. /\ Len(ap \o b) = Len(ap) + Len(b)
      /\ \A k \in 1 .. Len(ap) + Len(b) : (ap \o b)[k] = IF k <= Len(ap) THEN ap[k] ELSE b[k - Len(ap)]
  <2>1. ap \in Seq(ChunkType) /\ b \in Seq(ChunkType)
    BY <1>3, <1>5
  <2> QED
    BY <2>1, ConcatProperties
<1>9. i \in 1 .. Len(ap) + Len(b) /\ i <= Len(ap)
  BY <1>3, <1>5, <1>6
<1> QED
  BY <1>1, <1>7, <1>8, <1>9

\* A turn of delete_span that cuts hides the items it may and keeps the links
\* good.
LEMMA TurnCuts ==
  ASSUME NEW rga \in Seq(ChunkType), NEW ref, ChunksPlaced(rga, ref), NEW i \in 1 .. Len(rga),
         NEW t1 \in Nat, NEW t2 \in Nat, t1 <= t2, rga[i].id.time <= t2, t1 < NextTick(rga[i])
  PROVE  CutOk(CutAt(rga, i, t1, t2), rga, i, t1, t2, ref)
<1> DEFINE c == rga[i]
           W == Span(c.id.sid, t1, t2 + 1)
           cut == CutAt(rga, i, t1, t2)
           names == IdsOf(rga)
<1>1. c \in ChunkType /\ c \in Parts(rga)
  BY PartsOfList
<1>2. NextTick(c) \in Nat /\ c.id.time \in Nat /\ c.deleted \in BOOLEAN
  BY <1>1, ChunkFields
<1>3. CASE c.deleted
  <2>1. cut = rga
    BY <1>3 DEF CutAt
  <2>2. Hide(Items(rga), W \cap Stamps(c)) = Items(rga)
    <3>1. ASSUME NEW p \in DOMAIN Items(rga), Items(rga)[p].id \in Stamps(c)
          PROVE  Items(rga)[p].live = FALSE
      <4>1. Items(rga) \in Seq(ItemType)
        BY ItemsIsList
      <4>2. p \in 1 .. Len(Items(rga))
        BY <4>1
      <4>3. PICK j \in 1 .. Len(rga) : \E k \in 1 .. rga[j].span : p = Start(rga, j) + k
        BY <4>2, ChunkOfItem
      <4>4. PICK k \in 1 .. rga[j].span : p = Start(rga, j) + k
        BY <4>3
      <4>5. Items(rga)[p] = [id |-> Ts(rga[j].id.sid, rga[j].id.time + k - 1), live |-> ~rga[j].deleted]
        BY <4>4, ItemsOfChunk
      <4>6. /\ Covers(rga[j], Ts(rga[j].id.sid, rga[j].id.time + k - 1))
            /\ Ts(rga[j].id.sid, rga[j].id.time + k - 1) \in Timestamp
        <5>1. rga[j] \in ChunkType
          OBVIOUS
        <5>2. rga[j].id \in Timestamp
          BY <5>1, ChunkFields
        <5> QED
          BY <5>1, <5>2, CoveredStamps
      <4>7. Covers(rga[j], Items(rga)[p].id) /\ Covers(c, Items(rga)[p].id) /\ Items(rga)[p].id \in Timestamp
        BY <3>1, <4>5, <4>6 DEF Stamps
      <4>8. j = i
        BY <4>7 DEF ChunksPlaced
      <4> QED
        <5>1. rga[j].deleted = TRUE
          BY <1>2, <1>3, <4>8
        <5>2. (~rga[j].deleted) = FALSE
          BY <5>1
        <5>3. Items(rga)[p] = [id |-> Ts(rga[j].id.sid, rga[j].id.time + k - 1), live |-> FALSE]
          BY <4>5, <5>2, Zenon
        <5> QED
          BY <5>3
    <3>2. Items(rga) \in Seq(ItemType)
      BY ItemsIsList
    <3>3. \A p \in DOMAIN Items(rga) :
            Items(rga)[p].id \in W \cap Stamps(c) => Items(rga)[p].live = FALSE
      BY <3>1
    <3> QED
      BY <3>2, <3>3, HideNothing
  <2> QED
    BY <1>2, <2>1, <2>2 DEF CutOk, SameLinks
<1>4. CASE ~c.deleted
  <2> DEFINE pieces == Cut(c, t1, t2)
  <2>1. cut = Replace(rga, i, pieces)
    BY <1>2, <1>4 DEF CutAt
  <2>2. Sound(c, names, ref)
    BY ChunksAreSound
  <2>3. FrontOk(pieces, c, t1, W, names, ref)
    <3>1. c.deleted = FALSE
      BY <1>2, <1>4
    <3> HIDE DEF c, W, pieces
    <3>2. NextTick(c) = NextTick(rga[i]) /\ c.id.time = rga[i].id.time
      BY DEF c
    <3>3. FrontOk(Cut(c, t1, t2), c, t1, Span(c.id.sid, t1, t2 + 1), names, ref)
      BY <1>1, <2>2, <3>1, <3>2, CutPieces
    <3> QED
      BY <3>3 DEF W, pieces
  <2> HIDE DEF pieces, cut, W
  <2>4. /\ pieces \in Seq(ChunkType) /\ pieces # << >> /\ Items(pieces) = Hide(RunOf(c), W)
        /\ \A p \in Parts(pieces) : Inherits(p, c, names, ref)
        /\ pieces[1].id = c.id
        /\ pieces[1].link = NoLink => c.link = NoLink /\ NextTick(pieces[1]) = NextTick(c)
        /\ NextTick(pieces[1]) <= NextTick(c) /\ NextTick(pieces[1]) >= t1
    BY <2>3 DEF FrontOk
  <2>5. /\ cut \in Seq(ChunkType) /\ Items(cut) = Hide(Items(rga), W \cap Stamps(c))
        /\ LinksOk(rga, names, ref) => LinksOk(cut, names, ref)
        /\ LinksFull(rga, names, ref) => LinksFull(cut, names, ref)
    <3>1. \A p \in Parts(pieces) : Inherits(p, rga[i], IdsOf(rga), ref)
      BY <2>4
    <3>2. Items(pieces) = Hide(RunOf(rga[i]), W) /\ pieces \in Seq(ChunkType)
      BY <2>4
    <3>3. /\ Replace(rga, i, pieces) \in Seq(ChunkType)
          /\ Items(Replace(rga, i, pieces)) = Hide(Items(rga), W \cap Stamps(rga[i]))
          /\ LinksOk(rga, IdsOf(rga), ref) => LinksOk(Replace(rga, i, pieces), IdsOf(rga), ref)
          /\ LinksFull(rga, IdsOf(rga), ref) => LinksFull(Replace(rga, i, pieces), IdsOf(rga), ref)
      BY <3>1, <3>2, PiecesHide
    <3> QED
      BY <2>1, <3>3
  <2>6. i \in 1 .. Len(cut) /\ cut[i] = pieces[1]
    BY <2>1, <2>4, PieceAt
  <2>7. t1 <= NextTick(pieces[1])
    <3>1. pieces[1] \in ChunkType
      BY <2>4
    <3>2. NextTick(pieces[1]) \in Nat
      BY <3>1, ChunkFields
    <3> QED
      BY <2>4, <3>2
  <2> QED
    BY <2>4, <2>5, <2>6, <2>7 DEF CutOk, SameLinks, W, cut
<1> QED
  BY <1>2, <1>3, <1>4

\* The timestamps of a span are in the list, each written behind the one before.
SpanRuns(names, ref, sid, t1, t2) ==
  \A t \in t1 .. t2 : /\ Ts(sid, t) \in names
                      /\ t > t1 => ref[Ts(sid, t)] = Ts(sid, t - 1)

\* The walk has hidden the items up to, but without, h; it goes on at a later
\* chunk with every turn, and ends behind t2 when no link is missing.
WalkOk(walk, rga, ref, sid, t1, t2, h, n) ==
  /\ walk.rga \in Seq(ChunkType) /\ walk.on \in BOOLEAN
  /\ h \in t1 .. t2 + 1
  /\ Items(walk.rga) = Hide(Items(rga), Span(sid, t1, h))
  /\ SameLinks(rga, walk.rga, ref)
  /\ walk.from \in Timestamp /\ walk.from.sid = sid /\ walk.from.time <= t2
  /\ StartsAt(walk.rga, walk.from) # {}
  /\ walk.on => /\ walk.from.time <= h /\ (n = 0 \/ walk.from.time >= (t1 + n) - 1)
                /\ \A i \in StartsAt(walk.rga, walk.from) : t1 < NextTick(walk.rga[i])
  /\ ~walk.on /\ LinksFull(rga, IdsOf(rga), ref) /\ SpanRuns(IdsOf(rga), ref, sid, t1, t2) => h = t2 + 1

\* What hiding leaves of the order and of the names.
LEMMA HiddenChunks ==
  ASSUME NEW rga \in Seq(ChunkType), NEW ref, WellPlaced(Items(rga), ref),
         NEW hidden \in Seq(ChunkType), NEW W, Items(hidden) = Hide(Items(rga), W)
  PROVE  WellPlaced(Items(hidden), ref) /\ ChunksPlaced(hidden, ref) /\ IdsOf(hidden) = IdsOf(rga)
<1>1. Items(rga) \in Seq(ItemType)
  BY ItemsIsList
<1>2. WellPlaced(Items(hidden), ref)
  BY <1>1, HidePlaced
<1>3. IdsOf(hidden) = IdsOf(rga)
  BY <1>1, HideFacts, NamesAreCovered
<1> QED
  BY <1>2, <1>3, PlacedChunks

\* The items hidden before a turn and those it hides are together a span.
LEMMA SpanGrows ==
  ASSUME NEW c \in ChunkType, NEW t1 \in Nat, NEW t2 \in Nat, NEW h \in t1 .. t2 + 1,
         c.id.time <= h,
         NEW h2 \in Nat, h2 = (IF h >= NextTick(c) THEN h ELSE IF NextTick(c) <= t2 THEN NextTick(c) ELSE t2 + 1)
  PROVE  Span(c.id.sid, t1, h) \cup (Span(c.id.sid, t1, t2 + 1) \cap Stamps(c)) = Span(c.id.sid, t1, h2)
<1>1. c.id.sid \in Sids /\ c.id.time \in Nat /\ NextTick(c) \in Nat /\ h \in Nat /\ t2 + 1 \in Nat
  BY ChunkFields
<1>2. \A u, v \in Nat : Span(c.id.sid, u, v) \subseteq Timestamp
  <2> SUFFICES ASSUME NEW u \in Nat, NEW v \in Nat, NEW t \in u .. v - 1
               PROVE  Ts(c.id.sid, t) \in Timestamp
    BY DEF Span
  <2> QED
    BY <1>1, NamesStamps
<1>3. ASSUME NEW t \in Timestamp
      PROVE  t \in Span(c.id.sid, t1, h) \/ (t \in Span(c.id.sid, t1, t2 + 1) /\ t \in Stamps(c))
               <=> t \in Span(c.id.sid, t1, h2)
  <2>1. t.time \in Nat
    BY StampIs
  <2>2. /\ t \in Span(c.id.sid, t1, h) <=> t.sid = c.id.sid /\ t1 <= t.time /\ t.time < h
        /\ t \in Span(c.id.sid, t1, h2) <=> t.sid = c.id.sid /\ t1 <= t.time /\ t.time < h2
        /\ t \in Span(c.id.sid, t1, t2 + 1) <=> t.sid = c.id.sid /\ t1 <= t.time /\ t.time < t2 + 1
    BY <1>1, SpanHolds
  <2>3. t \in Stamps(c) <=> c.id.sid = t.sid /\ c.id.time <= t.time /\ t.time < NextTick(c)
    BY DEF Stamps, Covers
  <2> DEFINE e == NextTick(c)
             f == c.id.time
             z == t.time
  <2>4. e \in Nat /\ f \in Nat /\ z \in Nat /\ f <= h
    BY <1>1, <2>1
  <2>5. h2 = (IF h >= e THEN h ELSE IF e <= t2 THEN e ELSE t2 + 1)
    OBVIOUS
  <2> HIDE DEF e, f, z
  <2>6. (t1 <= z /\ z < h) \/ (t1 <= z /\ z < t2 + 1 /\ f <= z /\ z < e) <=> t1 <= z /\ z < h2
    BY <2>4, <2>5
  <2> QED
    BY <2>2, <2>3, <2>6 DEF e, f, z
<1> QED
  BY <1>1, <1>2, <1>3

\* A turn of delete_span goes on behind all items hidden so far, and the one
\* it goes on with starts later.
LEMMA TurnKeeps ==
  ASSUME NEW rga \in Seq(ChunkType), NEW ref, WellPlaced(Items(rga), ref),
         LinksOk(rga, IdsOf(rga), ref), NEW sid, NEW t1 \in Nat, NEW t2 \in Nat, t1 <= t2,
         NEW walk, NEW h, NEW n \in Nat, WalkOk(walk, rga, ref, sid, t1, t2, h, n), walk.on
  PROVE  \E h2 : WalkOk(DeleteTurn(walk, t1, t2), rga, ref, sid, t1, t2, h2, n + 1)
<1> DEFINE R == walk.rga
           i == PlaceOf(R, walk.from)
           c == R[i]
           cut == CutAt(R, i, t1, t2)
           ends == t2 < NextTick(c) \/ cut[i].link = NoLink
           next == [rga |-> cut, from |-> IF ends THEN walk.from ELSE cut[i].link, on |-> ~ends]
           h2 == IF h >= NextTick(c) THEN h ELSE IF NextTick(c) <= t2 THEN NextTick(c) ELSE t2 + 1
           names == IdsOf(rga)
<1>1. DeleteTurn(walk, t1, t2) = next
  BY DEF DeleteTurn, Onward
<1>2. /\ R \in Seq(ChunkType) /\ h \in t1 .. t2 + 1 /\ Items(R) = Hide(Items(rga), Span(sid, t1, h))
      /\ SameLinks(rga, R, ref)
      /\ walk.from \in Timestamp /\ walk.from.sid = sid /\ walk.from.time <= t2
      /\ walk.from.time <= h /\ (n = 0 \/ walk.from.time >= (t1 + n) - 1)
      /\ \A k \in StartsAt(R, walk.from) : t1 < NextTick(R[k])
  BY DEF WalkOk
<1>3. i \in StartsAt(R, walk.from)
  BY DEF WalkOk, PlaceOf
<1>4. i \in 1 .. Len(R) /\ c.id = walk.from /\ c \in ChunkType /\ c \in Parts(R) /\ t1 < NextTick(c)
  <2>1. i \in DOMAIN R /\ c.id = walk.from
    BY <1>3 DEF StartsAt
  <2>2. i \in 1 .. Len(R)
    BY <1>2, <2>1
  <2>3. c \in ChunkType /\ c \in Parts(R)
    BY <1>2, <2>2, PartsOfList
  <2> QED
    BY <1>2, <1>3, <2>1, <2>2, <2>3
<1>5. ChunksPlaced(R, ref) /\ IdsOf(R) = names /\ WellPlaced(Items(R), ref)
  BY <1>2, HiddenChunks
<1> HIDE DEF R, i, ends, cut
<1>6. CutOk(cut, R, i, t1, t2, ref)
  <2>1. R[i].id.time <= t2 /\ t1 < NextTick(R[i])
    BY <1>2, <1>4
  <2>2. CutOk(CutAt(R, i, t1, t2), R, i, t1, t2, ref)
    BY <1>2, <1>4, <1>5, <2>1, TurnCuts
  <2> QED
    BY <2>2 DEF cut
<1> HIDE DEF c
<1>7. /\ cut \in Seq(ChunkType) /\ i \in 1 .. Len(cut) /\ cut[i].id = c.id
      /\ Items(cut) = Hide(Items(R), Span(c.id.sid, t1, t2 + 1) \cap Stamps(c))
      /\ SameLinks(R, cut, ref)
      /\ cut[i].link = NoLink => c.link = NoLink /\ NextTick(cut[i]) = NextTick(c)
      /\ NextTick(cut[i]) <= NextTick(c) /\ t1 <= NextTick(cut[i])
  BY <1>6 DEF CutOk, c
<1>8. /\ c.id.time \in Nat /\ NextTick(c) \in Nat /\ c.id.time < NextTick(c) /\ h \in Nat
      /\ cut[i] \in ChunkType /\ NextTick(cut[i]) \in Nat /\ c.id.sid = sid /\ c.id.time <= h
      /\ c.id.time < NextTick(cut[i]) /\ cut[i] \in Parts(cut) /\ c.id.sid \in Sids
  <2>1. c.id.time \in Nat /\ NextTick(c) \in Nat /\ c.id.time < NextTick(c) /\ c.id.sid \in Sids
    BY <1>4, ChunkFields
  <2>2. cut[i] \in ChunkType /\ cut[i] \in Parts(cut)
    BY <1>7, PartsOfList
  <2>3. NextTick(cut[i]) = cut[i].id.time + cut[i].span /\ cut[i].span \in Nat /\ cut[i].span > 0
        /\ cut[i].id.time \in Nat
    BY <2>2, ChunkFields
  <2>4. NextTick(cut[i]) \in Nat /\ c.id.time < NextTick(cut[i])
    BY <1>7, <2>1, <2>3
  <2> QED
    BY <1>2, <1>4, <2>1, <2>2, <2>4
<1>9. h2 \in Nat /\ h2 \in t1 .. t2 + 1 /\ h <= h2 /\ (t2 < NextTick(c) => h2 = t2 + 1)
      /\ (~(t2 < NextTick(c)) => NextTick(c) <= h2)
  <2> DEFINE e == NextTick(c)
  <2>1. e \in Nat /\ h \in t1 .. t2 + 1
    BY <1>2, <1>8
  <2> HIDE DEF e
  <2>2. LET m == IF h >= e THEN h ELSE IF e <= t2 THEN e ELSE t2 + 1
        IN  /\ m \in Nat /\ m \in t1 .. t2 + 1 /\ h <= m /\ (t2 < e => m = t2 + 1)
            /\ (~(t2 < e) => e <= m)
    BY <2>1
  <2> QED
    BY <2>2 DEF e
<1>10. Items(cut) = Hide(Items(rga), Span(sid, t1, h2))
  <2>1. h2 = (IF h >= NextTick(c) THEN h ELSE IF NextTick(c) <= t2 THEN NextTick(c) ELSE t2 + 1)
    OBVIOUS
  <2> HIDE DEF h2
  <2>2. Span(c.id.sid, t1, h) \cup (Span(c.id.sid, t1, t2 + 1) \cap Stamps(c)) = Span(c.id.sid, t1, h2)
    <3>1. c \in ChunkType /\ h \in t1 .. t2 + 1 /\ c.id.time <= h /\ h2 \in Nat
      BY <1>2, <1>4, <1>8, <1>9
    <3> QED
      BY <2>1, <3>1, SpanGrows
  <2>3. Items(rga) \in Seq(ItemType)
    BY ItemsIsList
  <2>4. Hide(Hide(Items(rga), Span(sid, t1, h)), Span(c.id.sid, t1, t2 + 1) \cap Stamps(c))
          = Hide(Items(rga), Span(sid, t1, h) \cup (Span(c.id.sid, t1, t2 + 1) \cap Stamps(c)))
    BY <2>3, HideAgain
  <2> QED
    BY <1>2, <1>7, <1>8, <2>2, <2>4
<1>11. SameLinks(rga, cut, ref)
  BY <1>2, <1>5, <1>7 DEF SameLinks
<1>12. ChunksPlaced(cut, ref) /\ IdsOf(cut) = names
  BY <1>7, <1>10, HiddenChunks
<1>13. CASE ends
  <2>1. /\ next.rga = cut /\ next.from = walk.from /\ next.on = FALSE
    BY <1>13
  <2>2. StartsAt(cut, walk.from) # {}
    <3>1. i \in DOMAIN cut /\ cut[i].id = walk.from
      BY <1>4, <1>7 DEF c
    <3> QED
      BY <3>1 DEF StartsAt
  <2>3. ASSUME LinksFull(rga, names, ref), SpanRuns(names, ref, sid, t1, t2) PROVE h2 = t2 + 1
    <3>1. CASE t2 < NextTick(c)
      BY <1>9, <3>1
    <3>2. CASE ~(t2 < NextTick(c))
      <4>1. c.link = NoLink
        BY <1>7, <1>13, <3>2 DEF ends
      <4>2. NextTick(c) \in t1 .. t2 /\ NextTick(c) > t1
        BY <1>4, <1>8, <3>2 DEF c
      <4>3. Ts(sid, NextTick(c)) \in names /\ ref[Ts(sid, NextTick(c))] = Ts(sid, NextTick(c) - 1)
        BY <2>3, <4>2 DEF SpanRuns
      <4>4. Follows(c, names, ref)
        BY <1>8, <4>3 DEF Follows, NextId, LastId
      <4>5. LinkFull(c, names, ref)
        BY <1>2, <1>4, <1>5, <2>3 DEF SameLinks, LinksFull, c
      <4>6. c.link = NextId(c) /\ NextId(c) # NoLink
        <5>1. c \in ChunkType
          BY <1>4 DEF c
        <5> QED
          BY <4>4, <4>5, <5>1, FirstCovered DEF LinkFull
      <4> QED
        BY <4>1, <4>6
    <3> QED
      BY <3>1, <3>2
  <2> HIDE DEF next, h2
  <2>4. WalkOk(next, rga, ref, sid, t1, t2, h2, n + 1)
    BY <1>2, <1>7, <1>9, <1>10, <1>11, <2>1, <2>2, <2>3 DEF WalkOk
  <2> QED
    BY <1>1, <2>4
<1>14. CASE ~ends
  <2> DEFINE y == NextId(cut[i])
  <2>1. ~(t2 < NextTick(c)) /\ cut[i].link # NoLink
    BY <1>14 DEF ends
  <2>2. LinkOk(cut[i], names, ref)
    BY <1>8, <1>11 DEF SameLinks, LinksOk
  <2>3. cut[i].link = y /\ Follows(cut[i], IdsOf(cut), ref)
    BY <1>12, <2>1, <2>2 DEF LinkOk
  <2>4. /\ next.rga = cut /\ next.from = y /\ next.on = TRUE
    BY <1>14, <2>3
  <2>5. y \in Timestamp /\ y.sid = sid /\ y.time = NextTick(cut[i])
    BY <1>7, <1>8, FirstCovered
  <2>6. StartsAt(cut, y) # {}
    <3>1. PICK j \in i + 1 .. Len(cut) : cut[j].id = y
      BY <1>7, <1>12, <2>3, NextIsBehind
    <3>2. j \in DOMAIN cut
      BY <1>7, <3>1
    <3> QED
      BY <3>1, <3>2 DEF StartsAt
  <2>7. y.time <= t2 /\ y.time <= h2 /\ y.time >= (t1 + (n + 1)) - 1
    <3> DEFINE z == y.time
               f == walk.from.time
               e == NextTick(c)
    <3>1. z \in Nat /\ f \in Nat /\ e \in Nat /\ z <= e /\ t1 <= z /\ f < z /\ e <= t2 /\ e <= h2
          /\ (n = 0 \/ f >= (t1 + n) - 1)
      <4>1. z = NextTick(cut[i]) /\ f = c.id.time
        BY <1>4, <2>5 DEF c
      <4>2. z \in Nat /\ f \in Nat /\ e \in Nat /\ z <= e /\ t1 <= z /\ f < z
        BY <1>7, <1>8, <4>1
      <4>3. e <= t2 /\ e <= h2
        BY <1>8, <1>9, <2>1
      <4> QED
        BY <1>2, <4>2, <4>3
    <3> HIDE DEF z, f, e
    <3>2. h2 \in Nat
      BY <1>9
    <3> HIDE DEF h2
    <3>3. z <= t2 /\ z <= h2 /\ z >= (t1 + (n + 1)) - 1
      BY <3>1, <3>2
    <3> QED
      BY <3>3 DEF z
  <2>8. ASSUME NEW k \in StartsAt(cut, y) PROVE t1 < NextTick(cut[k])
    <3>1. k \in 1 .. Len(cut) /\ cut[k].id = y
      BY <1>7 DEF StartsAt
    <3>2. cut[k] \in ChunkType
      BY <1>7, <3>1
    <3>3. NextTick(cut[k]) = cut[k].id.time + cut[k].span /\ cut[k].span \in Nat /\ cut[k].span > 0
      BY <3>2, ChunkFields
    <3> QED
      BY <1>7, <1>8, <2>5, <3>1, <3>3
  <2> HIDE DEF next, h2, y
  <2>9. WalkOk(next, rga, ref, sid, t1, t2, h2, n + 1)
    BY <1>2, <1>7, <1>9, <1>10, <1>11, <2>4, <2>5, <2>6, <2>7, <2>8 DEF WalkOk
  <2> QED
    BY <1>1, <2>9
<1> QED
  BY <1>13, <1>14

WalkExists(rga, from, t1, t2, N) ==
  \E f : f = [n \in 0 .. N |-> IF n = 0 THEN [rga |-> rga, from |-> from, on |-> TRUE]
                                ELSE DeleteTurn(f[n - 1], t1, t2)]

\* The walk of a deletion ends, on a chunk not later than t2.
LEMMA WalkIsDefined ==
  ASSUME NEW rga, NEW from, NEW t1, NEW t2, NEW n \in Nat
  PROVE  WalkExists(rga, from, t1, t2, n)
<1> DEFINE base == [rga |-> rga, from |-> from, on |-> TRUE]
           Has(m) == \E f : f = [k \in 0 .. m |-> IF k = 0 THEN base ELSE DeleteTurn(f[k - 1], t1, t2)]
           lacks == {m \in Nat : ~Has(m)}
<1> HIDE DEF base
<1>1. Has(0)
  <2> DEFINE f == [k \in 0 .. 0 |-> base]
  <2>1. f = [k \in 0 .. 0 |-> IF k = 0 THEN base ELSE DeleteTurn(f[k - 1], t1, t2)]
    OBVIOUS
  <2> QED
    BY <2>1
<1>2. ASSUME NEW m \in Nat, Has(m)
      PROVE  Has(m + 1)
  <2>1. PICK f : f = [k \in 0 .. m |-> IF k = 0 THEN base ELSE DeleteTurn(f[k - 1], t1, t2)]
    BY <1>2
  <2> DEFINE last == DeleteTurn(f[m], t1, t2)
             g == [k \in 0 .. m + 1 |-> IF k = m + 1 THEN last ELSE f[k]]
  <2>2. ASSUME NEW k \in 0 .. m + 1
        PROVE  g[k] = IF k = 0 THEN base ELSE DeleteTurn(g[k - 1], t1, t2)
    <3>1. CASE k = m + 1
      <4>1. k # 0 /\ k - 1 = m /\ m \in 0 .. m + 1 /\ m # m + 1
        BY <3>1
      <4>2. g[m] = f[m] /\ g[k] = last
        BY <3>1, <4>1
      <4> QED
        BY <4>1, <4>2
    <3>2. CASE k # m + 1
      <4>1. /\ k \in 0 .. m /\ g[k] = f[k]
            /\ k # 0 => k - 1 \in 0 .. m + 1 /\ k - 1 # m + 1 /\ g[k - 1] = f[k - 1]
        BY <3>2
      <4>2. f[k] = IF k = 0 THEN base ELSE DeleteTurn(f[k - 1], t1, t2)
        BY <2>1, <4>1
      <4> QED
        BY <4>1, <4>2
    <3> QED
      BY <3>1, <3>2
  <2>3. g = [k \in 0 .. m + 1 |-> g[k]]
    OBVIOUS
  <2> HIDE DEF g
  <2> QED
    BY <2>2, <2>3
<1> HIDE DEF Has
<1>3. lacks = {}
  <2> SUFFICES ASSUME lacks # {} PROVE FALSE
    OBVIOUS
  <2>1. PICK m \in lacks : \A k \in lacks : m <= k
    BY LeastNumber
  <2>2. m # 0 /\ m - 1 \in Nat /\ m - 1 \notin lacks
    BY <1>1, <2>1
  <2>3. Has(m - 1 + 1)
    BY <1>2, <2>2
  <2> QED
    BY <2>1, <2>3
<1> QED
  BY <1>3 DEF Has, base, WalkExists

WalkStarts(rga, from, t1) ==
  /\ StartsAt(rga, from) # {} /\ from \in Timestamp /\ from.time <= t1
  /\ \A i \in StartsAt(rga, from) : t1 < NextTick(rga[i])

\* The walk of delete_span ends, having hidden what it reached.
LEMMA WalkCovers ==
  ASSUME NEW rga \in Seq(ChunkType), NEW ref, WellPlaced(Items(rga), ref),
         LinksOk(rga, IdsOf(rga), ref), NEW t1 \in Nat, NEW t2 \in Nat, t1 <= t2,
         NEW from, WalkStarts(rga, from, t1)
  PROVE  LET walk == DeleteWalk(rga, from, t1, t2)
         IN  ~walk.on /\ \E h : WalkOk(walk, rga, ref, from.sid, t1, t2, h, (t2 - t1) + 2)
<1> DEFINE N == (t2 - t1) + 2
           sid == from.sid
           base == [rga |-> rga, from |-> from, on |-> TRUE]
           turn == CHOOSE f : f = [n \in 0 .. N |-> IF n = 0 THEN base ELSE DeleteTurn(f[n - 1], t1, t2)]
           Good(n) == \E h : WalkOk(turn[n], rga, ref, sid, t1, t2, h, n)
           bad == {n \in 0 .. N : ~Good(n)}
<1>1. N \in Nat
  OBVIOUS
<1>2. DeleteWalk(rga, from, t1, t2) = turn[N]
  BY DEF DeleteWalk
<1>3. turn = [n \in 0 .. N |-> IF n = 0 THEN base ELSE DeleteTurn(turn[n - 1], t1, t2)]
  <2> HIDE DEF N, turn
  <2>1. \E f : f = [n \in 0 .. N |-> IF n = 0 THEN base ELSE DeleteTurn(f[n - 1], t1, t2)]
    <3>1. WalkExists(rga, from, t1, t2, N)
      BY <1>1, WalkIsDefined
    <3> QED
      BY <3>1 DEF WalkExists
  <2> HIDE DEF base
  <2> QED
    BY <2>1, Zenon DEF turn
<1> HIDE DEF turn
<1>4. turn[0] = base /\ \A n \in 1 .. N : turn[n] = DeleteTurn(turn[n - 1], t1, t2)
  <2>1. turn[0] = base
    BY <1>1, <1>3
  <2>2. ASSUME NEW n \in 1 .. N PROVE turn[n] = DeleteTurn(turn[n - 1], t1, t2)
    <3>1. n \in 0 .. N /\ n # 0
      BY <1>1
    <3> QED
      BY <1>3, <3>1
  <2> QED
    BY <2>1, <2>2
<1> HIDE DEF N
<1>5. Good(0)
  <2>1. /\ base.rga = rga /\ base.from = from /\ base.on = TRUE
    OBVIOUS
  <2>2. Hide(Items(rga), Span(sid, t1, t1)) = Items(rga)
    <3>1. Span(sid, t1, t1) = {}
      BY DEF Span
    <3>2. Items(rga) \in Seq(ItemType)
      BY ItemsIsList
    <3>3. \A p \in DOMAIN Items(rga) : Items(rga)[p].id \in Span(sid, t1, t1) => Items(rga)[p].live = FALSE
      BY <3>1
    <3> QED
      BY <3>2, <3>3, HideNothing
  <2>3. from.time \in Nat /\ from.time <= t2 /\ t1 \in t1 .. t2 + 1
    <3>1. from.time \in Nat
      BY StampIs DEF WalkStarts
    <3>2. from.time <= t1
      BY DEF WalkStarts
    <3> QED
      BY <3>1, <3>2
  <2> HIDE DEF base, sid
  <2>4. WalkOk(base, rga, ref, sid, t1, t2, t1, 0)
    BY <2>1, <2>2, <2>3 DEF WalkOk, WalkStarts, SameLinks, sid
  <2> QED
    BY <1>4, <2>4
<1>6. ASSUME NEW n \in 1 .. N, Good(n - 1) PROVE Good(n)
  <2>1. PICK h : WalkOk(turn[n - 1], rga, ref, sid, t1, t2, h, n - 1)
    BY <1>6
  <2>2. turn[n] = DeleteTurn(turn[n - 1], t1, t2) /\ n - 1 \in Nat /\ (n - 1) + 1 = n
    BY <1>1, <1>4
  <2> DEFINE w == turn[n - 1]
             m == n - 1
  <2> HIDE DEF w, m, sid
  <2>3. WalkOk(w, rga, ref, sid, t1, t2, h, m) /\ m \in Nat
    BY <2>1, <2>2 DEF w, m
  <2>4. CASE w.on
    <3>1. \E h2 : WalkOk(DeleteTurn(w, t1, t2), rga, ref, sid, t1, t2, h2, m + 1)
      BY <2>3, <2>4, TurnKeeps
    <3> QED
      BY <2>2, <3>1 DEF w, m
  <2>5. CASE ~w.on
    <3>1. DeleteTurn(w, t1, t2) = w
      BY <2>5 DEF DeleteTurn
    <3>2. WalkOk(w, rga, ref, sid, t1, t2, h, n)
      BY <2>3, <2>5 DEF WalkOk
    <3> QED
      BY <2>2, <3>1, <3>2 DEF w
  <2> QED
    BY <2>4, <2>5
<1> HIDE DEF Good
<1>7. bad = {}
  <2> SUFFICES ASSUME bad # {} PROVE FALSE
    OBVIOUS
  <2>1. PICK n \in bad : \A k \in bad : n <= k
    <3>1. bad \subseteq Nat
      BY <1>1
    <3> HIDE DEF bad
    <3> QED
      BY <3>1, LeastNumber
  <2>2. n \in 1 .. N /\ n - 1 \in 0 .. N /\ n - 1 \notin bad
    BY <1>1, <1>5, <2>1
  <2>3. Good(n - 1)
    BY <2>2
  <2> QED
    BY <1>6, <2>1, <2>2, <2>3
<1>8. Good(N)
  <2>1. N \in 0 .. N
    BY <1>1
  <2> QED
    BY <1>7, <2>1
<1>9. PICK h : WalkOk(turn[N], rga, ref, sid, t1, t2, h, N)
  BY <1>8 DEF Good
<1> DEFINE walk == turn[N]
<1> HIDE DEF walk
<1>10. WalkOk(walk, rga, ref, sid, t1, t2, h, N)
  BY <1>9 DEF walk
<1>11. ~walk.on
  <2> SUFFICES ASSUME walk.on PROVE FALSE
    OBVIOUS
  <2>1. walk.from.time >= (t1 + N) - 1 /\ walk.from.time <= t2 /\ walk.from \in Timestamp
    <3>1. (N = 0 \/ walk.from.time >= (t1 + N) - 1) /\ walk.from.time <= t2 /\ walk.from \in Timestamp
      BY <1>10 DEF WalkOk
    <3>2. N # 0
      BY DEF N
    <3> QED
      BY <3>1, <3>2
  <2>2. walk.from.time \in Nat
    BY <2>1, StampIs
  <2> QED
    BY <2>1, <2>2 DEF N
<1> QED
  BY <1>2, <1>10, <1>11 DEF walk, N

(***************************************************************************)
(* Tombstones that follow each other in one run become one.                *)
(***************************************************************************)
LEMMA LongerLinks ==
  ASSUME NEW c \in ChunkType, NEW d \in ChunkType, d.id = NextId(c), d.deleted = c.deleted,
         NEW names, NEW ref
  PROVE  Inherits(Longer(c, d), d, names, ref)
<1>1. NextId(Longer(c, d)) = NextId(d) /\ LastId(Longer(c, d)) = LastId(d)
  BY RunsJoin
<1>2. Longer(c, d).link = d.link
  BY DEF Longer, Chunk
<1> QED
  BY <1>1, <1>2 DEF Inherits, LinkOk, LinkFull, Follows

\* merge_tombstones changes no item and keeps the links good.
LEMMA MergeKeeps ==
  ASSUME NEW rga \in Seq(ChunkType), NEW ref, NEW i
  PROVE  Keeps(rga, MergeTombstones(rga, i), ref)
<1>1. CASE ~Mergeable(rga, i)
  BY <1>1, KeepsItself DEF MergeTombstones
<1>2. CASE Mergeable(rga, i)
  <2> DEFINE c == rga[i]
             d == rga[i + 1]
             e == Longer(c, d)
             changed == [rga EXCEPT ![i].span = @ + d.span, ![i].link = d.link]
             result == RemoveAt(changed, i + 1)
             x == Items(Upto(rga, i - 1))
             y == Items(Behind(rga, i + 1))
             r == RunOf(c)
             t == RunOf(d)
             n == Len(rga)
  <2>1. MergeTombstones(rga, i) = result
    BY <1>2 DEF MergeTombstones
  <2>2. /\ n \in Nat /\ i \in Nat /\ i \in 1 .. n /\ i + 1 \in 1 .. n /\ i - 1 \in 0 .. n
        /\ i \in 0 .. n /\ i + 1 \in 0 .. n /\ (i + 1) - 1 = i /\ DOMAIN rga = 1 .. n
    BY <1>2 DEF Mergeable
  <2>3. c \in ChunkType /\ d \in ChunkType /\ d \in Parts(rga)
    BY <2>2, PartsOfList
  <2>4. d.id = NextId(c) /\ d.deleted = c.deleted
    <3>1. c.deleted \in BOOLEAN /\ d.deleted \in BOOLEAN
      BY <2>3, ChunkFields
    <3> QED
      BY <1>2, <3>1 DEF Mergeable, NextId
  <2>5. e \in ChunkType /\ RunOf(e) = r \o t
    BY <2>3, <2>4, RunsJoin
  <2>6. ChangedAt(changed, rga, i, e)
    <3>1. DOMAIN changed = DOMAIN rga /\ changed = [j \in DOMAIN rga |-> changed[j]]
      OBVIOUS
    <3>2. changed[i] = [c EXCEPT !.span = c.span + d.span, !.link = d.link]
      BY <2>2
    <3>3. \A m, l : [c EXCEPT !.span = m, !.link = l] = Chunk(c.id, m, c.deleted, l)
      BY <2>3, ChunkFields, NewFields, Zenon
    <3>4. [c EXCEPT !.span = c.span + d.span, !.link = d.link] = e
      BY <3>3, Zenon DEF Longer
    <3>5. \A j \in 1 .. n : j # i => changed[j] = rga[j]
      BY <2>2
    <3> HIDE DEF changed, e, c, d
    <3> QED
      BY <3>1, <3>2, <3>4, <3>5 DEF ChangedAt
  <2> HIDE DEF changed, e, c, d
  <2>7. changed \in Seq(ChunkType) /\ Len(changed) = n /\ changed = Replace(rga, i, <<e>>)
        /\ changed[i] = e /\ \A j \in 1 .. n : j # i => changed[j] = rga[j]
    <3>1. changed = Replace(rga, i, <<e>>) /\ changed \in Seq(ChunkType) /\ Len(changed) = Len(rga)
      BY <2>2, <2>5, <2>6, OneChanged
    <3> QED
      BY <2>6, <3>1 DEF ChangedAt
  <2>8. i - 1 \in 0 .. Len(changed) /\ i \in 0 .. Len(changed) /\ i + 1 \in 0 .. Len(changed)
        /\ i \in 1 .. Len(changed) /\ i + 1 \in 1 .. Len(changed)
    BY <2>2, <2>7
  <2>9. result = Upto(changed, i) \o Behind(changed, i + 1)
    BY <2>2 DEF RemoveAt, Upto, Behind
  <2> DEFINE u == Upto(changed, i)
             v == Behind(changed, i + 1)
  <2>10. u \in Seq(ChunkType) /\ v \in Seq(ChunkType)
    BY <2>7, <2>8, HalvesOfChunks
  <2>11. Items(u) = Items(Upto(changed, i - 1)) \o RunOf(e)
    BY <2>7, <2>8, OneMore
  <2>12. Items(Upto(changed, i - 1)) = x
    <3> DEFINE f == Upto(changed, i - 1)
               g == Upto(rga, i - 1)
    <3>1. f \in Seq(ChunkType) /\ Len(f) = i - 1 /\ \A k \in 1 .. i - 1 : f[k] = changed[k]
      BY <2>7, <2>8, HalvesOfChunks
    <3>2. g \in Seq(ChunkType) /\ Len(g) = i - 1 /\ \A k \in 1 .. i - 1 : g[k] = rga[k]
      BY <2>2, HalvesOfChunks
    <3>3. \A k \in 1 .. i - 1 : k \in 1 .. n /\ k # i
      BY <2>2
    <3> HIDE DEF f, g, n
    <3>4. \A k \in 1 .. Len(f) : RunOf(f[k]) = RunOf(g[k])
      BY <2>7, <3>1, <3>2, <3>3
    <3>5. Items(f) = Items(g)
      BY <3>1, <3>2, <3>4, SameItems
    <3> QED
      BY <3>5 DEF f, g
  <2>13. Items(v) = y
    <3> DEFINE g == Behind(rga, i + 1)
    <3>1. v \in Seq(ChunkType) /\ Len(v) = n - (i + 1) /\ \A k \in 1 .. n - (i + 1) : v[k] = changed[(i + 1) + k]
      <4> DEFINE j == i + 1
      <4>1. j \in 0 .. Len(changed)
        BY <2>8
      <4> HIDE DEF j, changed
      <4>2. /\ Behind(changed, j) \in Seq(ChunkType) /\ Len(Behind(changed, j)) = Len(changed) - j
            /\ \A k \in 1 .. Len(changed) - j : Behind(changed, j)[k] = changed[j + k]
        BY <2>7, <4>1, HalvesOfChunks
      <4> QED
        BY <2>7, <4>2 DEF j
    <3>2. g \in Seq(ChunkType) /\ Len(g) = n - (i + 1) /\ \A k \in 1 .. n - (i + 1) : g[k] = rga[(i + 1) + k]
      BY <2>2, HalvesOfChunks
    <3>3. \A k \in 1 .. n - (i + 1) : (i + 1) + k \in 1 .. n /\ (i + 1) + k # i
      BY <2>2
    <3> HIDE DEF v, g, n
    <3>4. \A k \in 1 .. Len(v) : RunOf(v[k]) = RunOf(g[k])
      BY <2>7, <3>1, <3>2, <3>3, SMTT(30)
    <3>5. Items(v) = Items(g)
      BY <3>1, <3>2, <3>4, SameItems
    <3> QED
      BY <3>5 DEF g
  <2>14. result \in Seq(ChunkType) /\ Items(result) = Items(u) \o Items(v)
    BY <2>9, <2>10, ItemsOfConcat
  <2>15. Items(rga) = (Items(Upto(rga, i)) \o t) \o y /\ Items(Upto(rga, i)) = x \o r
    <3>1. Items(rga) = (Items(Upto(rga, (i + 1) - 1)) \o RunOf(rga[i + 1])) \o Items(Behind(rga, i + 1))
      <4> DEFINE j == i + 1
      <4>1. j \in 1 .. Len(rga)
        BY <2>2
      <4> HIDE DEF j
      <4>2. << >> \in Seq(ChunkType)
        OBVIOUS
      <4>3. Items(rga) = (Items(Upto(rga, j - 1)) \o RunOf(rga[j])) \o Items(Behind(rga, j))
        BY <4>1, <4>2, Around
      <4> QED
        BY <4>3 DEF j
    <3>2. Items(Upto(rga, i)) = x \o r
      BY <2>2, OneMore DEF c
    <3>3. Upto(rga, (i + 1) - 1) = Upto(rga, i)
      BY <2>2
    <3> QED
      BY <3>1, <3>2, <3>3 DEF d
  <2>16. x \in Seq(ItemType) /\ y \in Seq(ItemType) /\ r \in Seq(ItemType) /\ t \in Seq(ItemType)
    BY <2>2, <2>3, HalvesOfChunks, ItemsIsList, RunFacts
  <2>17. Parts(result) \subseteq Parts(rga) \cup {e}
    <3>1. Parts(result) \subseteq Parts(u) \cup Parts(v)
      BY <2>9, <2>10, PartsOfConcat
    <3>2. Parts(u) \subseteq Parts(changed) /\ Parts(v) \subseteq Parts(changed)
      BY <2>7, <2>8, PartsOfHalves
    <3>3. Parts(changed) \subseteq Parts(rga) \cup {e}
      <4>1. \A j \in DOMAIN changed : changed[j] \in Parts(rga) \cup {e}
        <5>1. DOMAIN changed = 1 .. n
          BY <2>7
        <5>2. \A j \in 1 .. n : rga[j] \in Parts(rga)
          BY PartsOfList
        <5> QED
          BY <2>7, <5>1, <5>2
      <4> QED
        BY <4>1 DEF Parts
    <3> QED
      BY <3>1, <3>2, <3>3
  <2>18. Inherits(e, d, IdsOf(rga), ref)
    BY <2>3, <2>4, LongerLinks DEF e
  <2> HIDE DEF x, y, r, t, u, v, n, result
  <2>19. Items(result) = Items(rga)
    <3>1. Items(result) = Joined(Joined(x, Joined(r, t)), y)
      BY <2>5, <2>11, <2>12, <2>13, <2>14, Zenon DEF Joined
    <3>2. Items(rga) = Joined(Joined(Joined(x, r), t), y)
      BY <2>15, Zenon DEF Joined
    <3>3. Joined(Joined(x, r), t) = Joined(x, Joined(r, t))
      BY <2>16, JoinedIsAssociative
    <3> QED
      BY <3>1, <3>2, <3>3
  <2>20. /\ LinksOk(rga, IdsOf(rga), ref) => LinksOk(result, IdsOf(rga), ref)
         /\ LinksFull(rga, IdsOf(rga), ref) => LinksFull(result, IdsOf(rga), ref)
    BY <2>3, <2>17, <2>18 DEF Inherits, LinksOk, LinksFull
  <2> QED
    BY <2>1, <2>14, <2>19, <2>20 DEF Keeps
<1> QED
  BY <1>1, <1>2

\* What keeps the items of a list that keeps the items of another.
LEMMA KeepsIsTransitive ==
  ASSUME NEW a \in Seq(ChunkType), NEW b, NEW c, NEW ref, Keeps(a, b, ref), Keeps(b, c, ref)
  PROVE  Keeps(a, c, ref)
<1>1. b \in Seq(ChunkType) /\ Items(b) = Items(a)
  BY DEF Keeps
<1>2. IdsOf(b) = IdsOf(a)
  BY <1>1, NamesAreCovered
<1> QED
  BY <1>1, <1>2 DEF Keeps

MergesFrom(walk, rga, ref) ==
  /\ walk = [rga |-> walk.rga, from |-> walk.from, on |-> walk.on]
  /\ walk.on \in BOOLEAN
  /\ Keeps(rga, walk.rga, ref)

\* The fields of a changed walk.
LEMMA NewWalk ==
  ASSUME NEW walk, walk = [rga |-> walk.rga, from |-> walk.from, on |-> walk.on], NEW b, NEW f
  PROVE  /\ [walk EXCEPT !.rga = b] = [rga |-> b, from |-> walk.from, on |-> walk.on]
         /\ [walk EXCEPT !.from = f] = [rga |-> walk.rga, from |-> f, on |-> walk.on]
         /\ [walk EXCEPT !.on = FALSE, !.rga = b] = [rga |-> b, from |-> walk.from, on |-> FALSE]
<1> DEFINE x == walk.rga
           y == walk.from
           z == walk.on
<1>1. walk = [rga |-> x, from |-> y, on |-> z]
  OBVIOUS
<1> HIDE DEF x, y, z
<1>2. [walk EXCEPT !.rga = b] = [rga |-> b, from |-> y, on |-> z]
  BY <1>1
<1>3. [walk EXCEPT !.from = f] = [rga |-> x, from |-> f, on |-> z]
  BY <1>1
<1>4. [walk EXCEPT !.on = FALSE, !.rga = b] = [rga |-> b, from |-> y, on |-> FALSE]
  <2> DEFINE o == FALSE
  <2> HIDE DEF o
  <2>1. [[rga |-> x, from |-> y, on |-> z] EXCEPT !.on = o] = [rga |-> x, from |-> y, on |-> o]
    OBVIOUS
  <2>2. [[rga |-> x, from |-> y, on |-> o] EXCEPT !.rga = b] = [rga |-> b, from |-> y, on |-> o]
    OBVIOUS
  <2>3. [walk EXCEPT !.on = o, !.rga = b] = [rga |-> b, from |-> y, on |-> o]
    BY <1>1, <2>1, <2>2
  <2> QED
    BY <2>3 DEF o
<1> QED
  BY <1>2, <1>3, <1>4 DEF x, y, z

\* So does a turn of merge_tombstones2.
LEMMA MergeTurnKeeps ==
  ASSUME NEW walk, NEW last, NEW ref, NEW rga \in Seq(ChunkType), MergesFrom(walk, rga, ref)
  PROVE  MergesFrom(MergeTurn(walk, last), rga, ref)
<1> DEFINE R == walk.rga
           i == PlaceOf(R, walk.from)
           next == MergeTurn(walk, last)
           onward == i < Len(R) /\ R[i + 1].id # last /\ R[i].link # NoLink
           end == IF i < Len(R) /\ R[i + 1].id = last THEN MergeTombstones(R, i + 1) ELSE R
<1>1. /\ walk = [rga |-> R, from |-> walk.from, on |-> walk.on] /\ walk.on \in BOOLEAN
      /\ Keeps(rga, R, ref) /\ R \in Seq(ChunkType)
  BY DEF MergesFrom, Keeps
<1>2. ASSUME NEW b, NEW f, NEW o \in BOOLEAN, Keeps(R, b, ref)
      PROVE  MergesFrom([rga |-> b, from |-> f, on |-> o], rga, ref)
  <2>1. Keeps(rga, b, ref)
    BY <1>1, <1>2, KeepsIsTransitive
  <2> QED
    BY <1>2, <2>1 DEF MergesFrom
<1>3. Keeps(R, R, ref) /\ \A k : Keeps(R, MergeTombstones(R, k), ref)
  BY <1>1, MergeKeeps, KeepsItself
<1>4. CASE ~walk.on
  <2>1. next = walk
    BY <1>4 DEF MergeTurn
  <2> QED
    BY <2>1
<1>5. CASE walk.on /\ Mergeable(R, i)
  <2>1. next = [walk EXCEPT !.rga = MergeTombstones(R, i)]
    BY <1>5 DEF MergeTurn
  <2> HIDE DEF next, R, i
  <2>2. next = [rga |-> MergeTombstones(R, i), from |-> walk.from, on |-> walk.on]
    BY <1>1, <2>1, NewWalk DEF R
  <2>3. Keeps(R, MergeTombstones(R, i), ref)
    BY <1>3
  <2>4. MergesFrom([rga |-> MergeTombstones(R, i), from |-> walk.from, on |-> walk.on], rga, ref)
    BY <1>1, <1>2, <2>3
  <2> QED
    BY <2>2, <2>4 DEF next
<1>6. CASE walk.on /\ ~Mergeable(R, i) /\ onward
  <2>1. next = [walk EXCEPT !.from = R[i].link]
    BY <1>6 DEF MergeTurn
  <2> HIDE DEF next, R, i
  <2>2. next = [rga |-> R, from |-> R[i].link, on |-> walk.on]
    BY <1>1, <2>1, NewWalk DEF R
  <2>4. MergesFrom([rga |-> R, from |-> R[i].link, on |-> walk.on], rga, ref)
    BY <1>1, <1>2, <1>3
  <2> QED
    BY <2>2, <2>4 DEF next
<1>7. CASE walk.on /\ ~Mergeable(R, i) /\ ~onward
  <2>1. next = [walk EXCEPT !.on = FALSE, !.rga = end]
    BY <1>7 DEF MergeTurn
  <2> HIDE DEF next, R, i, end
  <2>2. next = [rga |-> end, from |-> walk.from, on |-> FALSE]
    BY <1>1, <2>1, NewWalk DEF R
  <2>3. Keeps(R, end, ref)
    BY <1>3 DEF end
  <2>4. MergesFrom([rga |-> end, from |-> walk.from, on |-> FALSE], rga, ref)
    BY <1>2, <2>3
  <2> QED
    BY <2>2, <2>4 DEF next
<1> QED
  BY <1>1, <1>4, <1>5, <1>6, <1>7

MergeExists(rga, from, last, N) ==
  \E f : f = [n \in 0 .. N |-> IF n = 0 THEN [rga |-> rga, from |-> from, on |-> TRUE]
                                ELSE MergeTurn(f[n - 1], last)]

\* The function from turns to walks of MergeWalk exists, for any number of
\* turns.
LEMMA MergeIsDefined ==
  ASSUME NEW rga, NEW from, NEW last, NEW n \in Nat
  PROVE  MergeExists(rga, from, last, n)
<1> DEFINE base == [rga |-> rga, from |-> from, on |-> TRUE]
           Has(m) == \E f : f = [k \in 0 .. m |-> IF k = 0 THEN base ELSE MergeTurn(f[k - 1], last)]
           lacks == {m \in Nat : ~Has(m)}
<1> HIDE DEF base
<1>1. Has(0)
  <2> DEFINE f == [k \in 0 .. 0 |-> base]
  <2>1. f = [k \in 0 .. 0 |-> IF k = 0 THEN base ELSE MergeTurn(f[k - 1], last)]
    OBVIOUS
  <2> QED
    BY <2>1
<1>2. ASSUME NEW m \in Nat, Has(m)
      PROVE  Has(m + 1)
  <2>1. PICK f : f = [k \in 0 .. m |-> IF k = 0 THEN base ELSE MergeTurn(f[k - 1], last)]
    BY <1>2
  <2> DEFINE end == MergeTurn(f[m], last)
             g == [k \in 0 .. m + 1 |-> IF k = m + 1 THEN end ELSE f[k]]
  <2>2. ASSUME NEW k \in 0 .. m + 1
        PROVE  g[k] = IF k = 0 THEN base ELSE MergeTurn(g[k - 1], last)
    <3>1. CASE k = m + 1
      <4>1. k # 0 /\ k - 1 = m /\ m \in 0 .. m + 1 /\ m # m + 1
        BY <3>1
      <4>2. g[m] = f[m] /\ g[k] = end
        BY <3>1, <4>1
      <4> QED
        BY <4>1, <4>2
    <3>2. CASE k # m + 1
      <4>1. /\ k \in 0 .. m /\ g[k] = f[k]
            /\ k # 0 => k - 1 \in 0 .. m + 1 /\ k - 1 # m + 1 /\ g[k - 1] = f[k - 1]
        BY <3>2
      <4>2. f[k] = IF k = 0 THEN base ELSE MergeTurn(f[k - 1], last)
        BY <2>1, <4>1
      <4> QED
        BY <4>1, <4>2
    <3> QED
      BY <3>1, <3>2
  <2>3. g = [k \in 0 .. m + 1 |-> g[k]]
    OBVIOUS
  <2> HIDE DEF g
  <2> QED
    BY <2>2, <2>3
<1> HIDE DEF Has
<1>3. lacks = {}
  <2> SUFFICES ASSUME lacks # {} PROVE FALSE
    OBVIOUS
  <2>1. PICK m \in lacks : \A k \in lacks : m <= k
    BY LeastNumber
  <2>2. m # 0 /\ m - 1 \in Nat /\ m - 1 \notin lacks
    BY <1>1, <2>1
  <2>3. Has(m - 1 + 1)
    BY <1>2, <2>2
  <2> QED
    BY <2>1, <2>3
<1> QED
  BY <1>3 DEF Has, base, MergeExists

\* merge_tombstones2 changes no item and keeps the links good.
LEMMA MergeWalkKeeps ==
  ASSUME NEW rga \in Seq(ChunkType), NEW ref, NEW from, NEW last
  PROVE  Keeps(rga, MergeWalk(rga, from, last), ref)
<1> DEFINE N == Len(rga)
           base == [rga |-> rga, from |-> from, on |-> TRUE]
           turn == CHOOSE f : f = [n \in 0 .. N |-> IF n = 0 THEN base ELSE MergeTurn(f[n - 1], last)]
           Good(n) == MergesFrom(turn[n], rga, ref)
           bad == {n \in 0 .. N : ~Good(n)}
<1>1. N \in Nat
  OBVIOUS
<1>2. MergeWalk(rga, from, last) = turn[N].rga
  BY DEF MergeWalk
<1>3. turn = [n \in 0 .. N |-> IF n = 0 THEN base ELSE MergeTurn(turn[n - 1], last)]
  <2> HIDE DEF N, turn
  <2>1. \E f : f = [n \in 0 .. N |-> IF n = 0 THEN base ELSE MergeTurn(f[n - 1], last)]
    <3>1. MergeExists(rga, from, last, N)
      BY <1>1, MergeIsDefined
    <3> QED
      BY <3>1 DEF MergeExists
  <2> HIDE DEF base
  <2> QED
    BY <2>1, Zenon DEF turn
<1> HIDE DEF turn
<1>4. turn[0] = base /\ \A n \in 1 .. N : turn[n] = MergeTurn(turn[n - 1], last)
  <2>1. turn[0] = base
    BY <1>1, <1>3
  <2>2. ASSUME NEW n \in 1 .. N PROVE turn[n] = MergeTurn(turn[n - 1], last)
    <3>1. n \in 0 .. N /\ n # 0
      BY <1>1
    <3> QED
      BY <1>3, <3>1
  <2> QED
    BY <2>1, <2>2
<1> HIDE DEF N
<1>5. Good(0)
  <2>1. Keeps(rga, rga, ref)
    BY KeepsItself
  <2> QED
    BY <1>4, <2>1 DEF MergesFrom
<1>6. ASSUME NEW n \in 1 .. N, Good(n - 1) PROVE Good(n)
  <2> DEFINE w == turn[n - 1]
  <2>1. MergesFrom(w, rga, ref)
    BY <1>6
  <2> HIDE DEF w
  <2>2. MergesFrom(MergeTurn(w, last), rga, ref)
    BY <2>1, MergeTurnKeeps
  <2> QED
    BY <1>4, <2>2 DEF w
<1> HIDE DEF Good
<1>7. bad = {}
  <2> SUFFICES ASSUME bad # {} PROVE FALSE
    OBVIOUS
  <2>1. PICK n \in bad : \A k \in bad : n <= k
    <3>1. bad \subseteq Nat
      BY <1>1
    <3> HIDE DEF bad
    <3> QED
      BY <3>1, LeastNumber
  <2>2. n \in 1 .. N /\ n - 1 \in 0 .. N /\ n - 1 \notin bad
    BY <1>1, <1>5, <2>1
  <2>3. Good(n - 1)
    BY <2>2
  <2> QED
    BY <1>6, <2>1, <2>2, <2>3
<1>8. Good(N)
  <2>1. N \in 0 .. N
    BY <1>1
  <2> QED
    BY <1>7, <2>1
<1> QED
  BY <1>2, <1>8 DEF Good, MergesFrom

(***************************************************************************)
(* A deletion hides items of its spans only, and all of them when no link  *)
(* is missing and every span is of one run.                                *)
(***************************************************************************)
SpanType == [sid : Sids, time : Nat, span : Nat \ {0}]

SpanOf(tss) == Span(tss.sid, tss.time, tss.time + tss.span)
RunsOn(rga, tss, ref) ==
  SpanRuns(IdsOf(rga), ref, tss.sid, tss.time, (tss.time + tss.span) - 1)

SpanHides(rga, result, tss, ref) ==
  /\ result \in Seq(ChunkType) /\ SameLinks(rga, result, ref)
  /\ \E V \in SUBSET SpanOf(tss) :
       /\ Items(result) = Hide(Items(rga), V)
       /\ LinksFull(rga, IdsOf(rga), ref) /\ RunsOn(rga, tss, ref) => V = SpanOf(tss)

\* Where the walk of a deletion starts.
LEMMA StartOfSpan ==
  ASSUME NEW rga \in Seq(ChunkType), NEW ref, ChunksPlaced(rga, ref), NEW t \in Timestamp,
         Holding(rga, t) # {}
  PROVE  /\ WalkStarts(rga, rga[FindById(rga, t)].id, t.time)
         /\ rga[FindById(rga, t)].id.sid = t.sid
<1> DEFINE i == FindById(rga, t)
           start == rga[i].id
<1>1. i \in DOMAIN rga /\ Covers(rga[i], t)
  BY DEF FindById, Holding
<1>2. i \in 1 .. Len(rga) /\ rga[i] \in ChunkType
  BY <1>1
<1>3. start \in Timestamp /\ start.sid = t.sid /\ start.time <= t.time /\ t.time < NextTick(rga[i])
  BY <1>1, <1>2, ChunkFields DEF Covers
<1>4. i \in StartsAt(rga, start)
  BY <1>1 DEF StartsAt
<1>5. ASSUME NEW j \in StartsAt(rga, start) PROVE t.time < NextTick(rga[j])
  <2>1. j \in DOMAIN rga /\ rga[j].id = start
    BY <1>5 DEF StartsAt
  <2>2. rga[j] \in ChunkType
    BY <2>1
  <2>3. Covers(rga[j], start) /\ Covers(rga[i], start)
    BY <1>2, <2>1, <2>2, FirstCovered
  <2>4. i = j
    BY <1>1, <1>3, <2>1, <2>3 DEF ChunksPlaced
  <2> QED
    BY <1>3, <2>4
<1> HIDE DEF i
<1> QED
  BY <1>3, <1>4, <1>5 DEF WalkStarts, i

\* delete_span hides items of its span only, all of them when no link is
\* missing, and keeps the links good.
LEMMA DeleteSpanHides ==
  ASSUME NEW rga \in Seq(ChunkType), NEW ref, WellPlaced(Items(rga), ref),
         LinksOk(rga, IdsOf(rga), ref), NEW tss \in SpanType
  PROVE  SpanHides(rga, DeleteSpan(rga, tss), tss, ref)
<1> DEFINE t == Ts(tss.sid, tss.time)
           t1 == tss.time
           t2 == (tss.time + tss.span) - 1
           result == DeleteSpan(rga, tss)
<1>1. /\ tss.sid \in Sids /\ t1 \in Nat /\ tss.span \in Nat /\ tss.span > 0
      /\ t2 \in Nat /\ t1 <= t2 /\ t2 + 1 = tss.time + tss.span
  <2>1. tss.sid \in Sids /\ tss.time \in Nat /\ tss.span \in Nat /\ tss.span > 0
    BY DEF SpanType
  <2> QED
    BY <2>1
<1>2. t \in Timestamp /\ t.sid = tss.sid /\ t.time = t1
  BY <1>1, NamesStamps
<1>3. ChunksPlaced(rga, ref) /\ Items(rga) \in Seq(ItemType)
  BY PlacedChunks, ItemsIsList
<1>4. CASE Holding(rga, t) = {}
  <2>1. result = rga
    BY <1>4 DEF DeleteSpan
  <2>2. Hide(Items(rga), {}) = Items(rga)
    BY <1>3, HideNothing
  <2>3. ~RunsOn(rga, tss, ref)
    <3> SUFFICES ASSUME RunsOn(rga, tss, ref) PROVE FALSE
      OBVIOUS
    <3>1. t \in IdsOf(rga)
      BY <1>1 DEF RunsOn, SpanRuns
    <3> QED
      BY <1>4, <3>1 DEF IdsOf, Holding
  <2>4. SameLinks(rga, rga, ref)
    BY DEF SameLinks
  <2> QED
    BY <2>1, <2>2, <2>3, <2>4 DEF SpanHides
<1>5. CASE Holding(rga, t) # {}
  <2> DEFINE start == rga[FindById(rga, t)].id
             walk == DeleteWalk(rga, start, t1, t2)
             merged == MergeWalk(walk.rga, start, walk.from)
             i == PlaceOf(merged, start)
  <2>1. result = IF i > 1 THEN MergeTombstones(merged, i - 1) ELSE merged
    <3>1. tss.time + (tss.span - 1) = t2
      BY <1>1
    <3> QED
      BY <1>5, <3>1 DEF DeleteSpan, MergeTombstones2, MergeInFront
  <2>2. WalkStarts(rga, start, t1) /\ start.sid = tss.sid
    BY <1>2, <1>3, <1>5, StartOfSpan
  <2> HIDE DEF start, t2
  <2>3. ~walk.on /\ \E h : WalkOk(walk, rga, ref, start.sid, t1, t2, h, (t2 - t1) + 2)
    BY <1>1, <2>2, WalkCovers
  <2> HIDE DEF walk
  <2>4. PICK h : WalkOk(walk, rga, ref, tss.sid, t1, t2, h, (t2 - t1) + 2)
    BY <2>2, <2>3
  <2> DEFINE V == Span(tss.sid, t1, h)
  <2>5. /\ walk.rga \in Seq(ChunkType) /\ h \in t1 .. t2 + 1 /\ SameLinks(rga, walk.rga, ref)
        /\ Items(walk.rga) = Hide(Items(rga), V)
        /\ LinksFull(rga, IdsOf(rga), ref) /\ SpanRuns(IdsOf(rga), ref, tss.sid, t1, t2) => h = t2 + 1
    BY <2>3, <2>4 DEF WalkOk
  <2>6. Keeps(walk.rga, merged, ref)
    BY <2>5, MergeWalkKeeps
  <2> HIDE DEF merged
  <2>7. Keeps(merged, result, ref)
    <3>1. merged \in Seq(ChunkType)
      BY <2>6 DEF Keeps
    <3>2. Keeps(merged, merged, ref) /\ Keeps(merged, MergeTombstones(merged, i - 1), ref)
      BY <3>1, KeepsItself, MergeKeeps
    <3> QED
      BY <2>1, <3>2
  <2> HIDE DEF result
  <2>8. Keeps(walk.rga, result, ref)
    BY <2>5, <2>6, <2>7, KeepsIsTransitive
  <2>9. IdsOf(walk.rga) = IdsOf(rga)
    BY <2>5, HiddenChunks
  <2>10. V \subseteq SpanOf(tss) /\ (h = t2 + 1 => V = SpanOf(tss))
    <3>1. h <= t2 + 1 /\ h \in Nat
      BY <1>1, <2>5
    <3>2. \A u \in t1 .. h - 1 : u \in t1 .. (t2 + 1) - 1
      BY <1>1, <3>1
    <3>3. SpanOf(tss) = Span(tss.sid, t1, t2 + 1)
      BY <1>1 DEF SpanOf, t2
    <3> QED
      BY <3>2, <3>3 DEF Span
  <2> HIDE DEF V
  <2> QED
    BY <2>5, <2>8, <2>9, <2>10 DEF SpanHides, Keeps, SameLinks, RunsOn, t2, result
<1> QED
  BY <1>4, <1>5

DeletesExist(rga, spans, N) ==
  \E f : f = [k \in 0 .. N |-> IF k = 0 THEN rga ELSE DeleteSpan(f[k - 1], spans[k])]

\* The function from spans to chunks of Delete exists.
LEMMA DeleteIsDefined ==
  ASSUME NEW rga, NEW spans, NEW n \in Nat
  PROVE  DeletesExist(rga, spans, n)
<1> DEFINE Has(m) == \E f : f = [k \in 0 .. m |-> IF k = 0 THEN rga ELSE DeleteSpan(f[k - 1], spans[k])]
           lacks == {m \in Nat : ~Has(m)}
<1>1. Has(0)
  <2> DEFINE f == [k \in 0 .. 0 |-> rga]
  <2>1. f = [k \in 0 .. 0 |-> IF k = 0 THEN rga ELSE DeleteSpan(f[k - 1], spans[k])]
    OBVIOUS
  <2> QED
    BY <2>1
<1>2. ASSUME NEW m \in Nat, Has(m)
      PROVE  Has(m + 1)
  <2>1. PICK f : f = [k \in 0 .. m |-> IF k = 0 THEN rga ELSE DeleteSpan(f[k - 1], spans[k])]
    BY <1>2
  <2> DEFINE end == DeleteSpan(f[m], spans[m + 1])
             g == [k \in 0 .. m + 1 |-> IF k = m + 1 THEN end ELSE f[k]]
  <2>2. ASSUME NEW k \in 0 .. m + 1
        PROVE  g[k] = IF k = 0 THEN rga ELSE DeleteSpan(g[k - 1], spans[k])
    <3>1. CASE k = m + 1
      <4>1. k # 0 /\ k - 1 = m /\ m \in 0 .. m + 1 /\ m # m + 1
        BY <3>1
      <4>2. g[m] = f[m] /\ g[k] = end
        BY <3>1, <4>1
      <4> QED
        BY <3>1, <4>1, <4>2
    <3>2. CASE k # m + 1
      <4>1. /\ k \in 0 .. m /\ g[k] = f[k]
            /\ k # 0 => k - 1 \in 0 .. m + 1 /\ k - 1 # m + 1 /\ g[k - 1] = f[k - 1]
        BY <3>2
      <4>2. f[k] = IF k = 0 THEN rga ELSE DeleteSpan(f[k - 1], spans[k])
        BY <2>1, <4>1
      <4> QED
        BY <4>1, <4>2
    <3> QED
      BY <3>1, <3>2
  <2>3. g = [k \in 0 .. m + 1 |-> g[k]]
    OBVIOUS
  <2> HIDE DEF g
  <2> QED
    BY <2>2, <2>3
<1> HIDE DEF Has
<1>3. lacks = {}
  <2> SUFFICES ASSUME lacks # {} PROVE FALSE
    OBVIOUS
  <2>1. PICK m \in lacks : \A k \in lacks : m <= k
    BY LeastNumber
  <2>2. m # 0 /\ m - 1 \in Nat /\ m - 1 \notin lacks
    BY <1>1, <2>1
  <2>3. Has(m - 1 + 1)
    BY <1>2, <2>2
  <2> QED
    BY <2>1, <2>3
<1> QED
  BY <1>3 DEF Has, DeletesExist

\* The items the first spans name.
Spanned(spans, k) == UNION {SpanOf(spans[j]) : j \in 1 .. k}

\* No link is missing and every span is of one run.
Whole(rga, spans, ref) ==
  /\ LinksFull(rga, IdsOf(rga), ref)
  /\ \A k \in 1 .. Len(spans) : RunsOn(rga, spans[k], ref)

Hidden(rga, result, spans, k, ref) ==
  /\ result \in Seq(ChunkType) /\ SameLinks(rga, result, ref)
  /\ \E V \in SUBSET Spanned(spans, k) :
       /\ Items(result) = Hide(Items(rga), V)
       /\ Whole(rga, spans, ref) => V = Spanned(spans, k)

\* What delete does after one more span.
LEMMA OneMoreSpan ==
  ASSUME NEW rga \in Seq(ChunkType), NEW ref, WellPlaced(Items(rga), ref),
         LinksOk(rga, IdsOf(rga), ref), NEW spans \in Seq(SpanType), NEW k \in 1 .. Len(spans),
         NEW before, Hidden(rga, before, spans, k - 1, ref)
  PROVE  Hidden(rga, DeleteSpan(before, spans[k]), spans, k, ref)
<1> DEFINE tss == spans[k]
           after == DeleteSpan(before, tss)
<1>1. tss \in SpanType
  OBVIOUS
<1>2. /\ before \in Seq(ChunkType) /\ SameLinks(rga, before, ref)
      /\  \E V \in SUBSET Spanned(spans, k - 1) :
           /\ Items(before) = Hide(Items(rga), V)
           /\ Whole(rga, spans, ref) => V = Spanned(spans, k - 1)
  BY DEF Hidden
<1>3. PICK V \in SUBSET Spanned(spans, k - 1) :
           /\ Items(before) = Hide(Items(rga), V)
           /\ Whole(rga, spans, ref) => V = Spanned(spans, k - 1)
  BY <1>2
<1>4. WellPlaced(Items(before), ref) /\ IdsOf(before) = IdsOf(rga)
  BY <1>2, <1>3, HiddenChunks
<1>5. LinksOk(before, IdsOf(before), ref)
  BY <1>2, <1>4 DEF SameLinks
<1> HIDE DEF tss
<1>6. SpanHides(before, after, tss, ref)
  BY <1>1, <1>2, <1>4, <1>5, DeleteSpanHides
<1> HIDE DEF after
<1>7. after \in Seq(ChunkType) /\ SameLinks(before, after, ref)
  BY <1>6 DEF SpanHides
<1>8. PICK U \in SUBSET SpanOf(tss) :
        /\ Items(after) = Hide(Items(before), U)
        /\ LinksFull(before, IdsOf(before), ref) /\ RunsOn(before, tss, ref) => U = SpanOf(tss)
  BY <1>6 DEF SpanHides
<1>9. Spanned(spans, k) = Spanned(spans, k - 1) \cup SpanOf(tss)
  <2>1. k \in Nat /\ k >= 1
    OBVIOUS
  <2>2. 1 .. k = 1 .. (k - 1) \cup {k}
    BY <2>1
  <2> QED
    BY <2>2 DEF Spanned, tss
<1>10. Items(after) = Hide(Items(rga), V \cup U)
  <2>1. Items(rga) \in Seq(ItemType)
    BY ItemsIsList
  <2> QED
    BY <1>3, <1>8, <2>1, HideAgain
<1>11. SameLinks(rga, after, ref)
  BY <1>2, <1>4, <1>7 DEF SameLinks
<1>12. Whole(rga, spans, ref) => V \cup U = Spanned(spans, k)
  <2> SUFFICES ASSUME Whole(rga, spans, ref) PROVE V \cup U = Spanned(spans, k)
    OBVIOUS
  <2>1. LinksFull(before, IdsOf(before), ref)
    BY <1>2, <1>4 DEF SameLinks, Whole
  <2>2. RunsOn(before, tss, ref)
    BY <1>4 DEF Whole, RunsOn, tss
  <2> QED
    BY <1>3, <1>8, <1>9, <2>1, <2>2
<1>13. V \cup U \in SUBSET Spanned(spans, k)
  BY <1>3, <1>8, <1>9
<1> QED
  BY <1>7, <1>10, <1>11, <1>12, <1>13 DEF Hidden, after, tss

\* delete hides items of its spans only, and all of them when no link is
\* missing.
LEMMA DeleteHides ==
  ASSUME NEW rga \in Seq(ChunkType), NEW ref, WellPlaced(Items(rga), ref),
         LinksOk(rga, IdsOf(rga), ref), NEW spans \in Seq(SpanType)
  PROVE  Hidden(rga, Delete(rga, spans), spans, Len(spans), ref)
<1> DEFINE N == Len(spans)
           after == CHOOSE f : f = [k \in 0 .. N |-> IF k = 0 THEN rga ELSE DeleteSpan(f[k - 1], spans[k])]
           Good(n) == Hidden(rga, after[n], spans, n, ref)
           bad == {n \in 0 .. N : ~Good(n)}
<1>1. N \in Nat
  OBVIOUS
<1>2. Delete(rga, spans) = after[N]
  BY DEF Delete
<1>3. after = [k \in 0 .. N |-> IF k = 0 THEN rga ELSE DeleteSpan(after[k - 1], spans[k])]
  <2> HIDE DEF N, after
  <2>1. \E f : f = [k \in 0 .. N |-> IF k = 0 THEN rga ELSE DeleteSpan(f[k - 1], spans[k])]
    <3>1. DeletesExist(rga, spans, N)
      BY <1>1, DeleteIsDefined
    <3> QED
      BY <3>1 DEF DeletesExist
  <2> QED
    BY <2>1, Zenon DEF after
<1> HIDE DEF after
<1>4. after[0] = rga /\ \A n \in 1 .. N : after[n] = DeleteSpan(after[n - 1], spans[n])
  <2>1. after[0] = rga
    BY <1>1, <1>3
  <2>2. ASSUME NEW n \in 1 .. N PROVE after[n] = DeleteSpan(after[n - 1], spans[n])
    <3>1. n \in 0 .. N /\ n # 0
      BY <1>1
    <3> QED
      BY <1>3, <3>1
  <2> QED
    BY <2>1, <2>2
<1>5. Good(0)
  <2>1. Items(rga) \in Seq(ItemType)
    BY ItemsIsList
  <2>2. Hide(Items(rga), {}) = Items(rga)
    BY <2>1, HideNothing
  <2>3. Spanned(spans, 0) = {}
    BY DEF Spanned
  <2> QED
    BY <1>4, <2>2, <2>3 DEF Hidden, SameLinks
<1>6. ASSUME NEW n \in 1 .. N, Good(n - 1) PROVE Good(n)
  <2> DEFINE w == after[n - 1]
  <2>1. Hidden(rga, w, spans, n - 1, ref)
    BY <1>6
  <2> HIDE DEF w
  <2>2. Hidden(rga, DeleteSpan(w, spans[n]), spans, n, ref)
    BY <2>1, OneMoreSpan
  <2> QED
    BY <1>4, <2>2 DEF w
<1> HIDE DEF Good, N
<1>7. bad = {}
  <2> SUFFICES ASSUME bad # {} PROVE FALSE
    OBVIOUS
  <2>1. PICK n \in bad : \A k \in bad : n <= k
    <3>1. bad \subseteq Nat
      BY <1>1
    <3> HIDE DEF bad
    <3> QED
      BY <3>1, LeastNumber
  <2>2. n \in 1 .. N /\ n - 1 \in 0 .. N /\ n - 1 \notin bad
    BY <1>1, <1>5, <2>1
  <2>3. Good(n - 1)
    BY <2>2
  <2> QED
    BY <1>6, <2>1, <2>2, <2>3
<1>8. Good(N)
  <2>1. N \in 0 .. N
    BY <1>1
  <2> QED
    BY <1>7, <2>1
<1> QED
  BY <1>2, <1>8 DEF Good, N

(***************************************************************************)
(* Where the elements of lists go when the lists become one.               *)
(***************************************************************************)
First(seqs, i) == SubSeq(seqs, 1, i)
Ahead(seqs, i) == Len(FlattenSeq(First(seqs, i - 1)))

\* The first lists, one behind the other, are a list.
LEMMA FlatFrontIsList ==
  ASSUME NEW S, NEW seqs \in Seq(Seq(S)), NEW i \in 0 .. Len(seqs)
  PROVE  /\ SubSeq(seqs, 1, i) \in Seq(Seq(S)) /\ FlattenSeq(SubSeq(seqs, 1, i)) \in Seq(S)
         /\ Len(FlattenSeq(SubSeq(seqs, 1, i))) \in Nat
<1> DEFINE a == SubSeq(seqs, 1, i)
           f == FlattenSeq(a)
<1>1. a \in Seq(Seq(S))
  BY Halves
<1> HIDE DEF a
<1>2. f \in Seq(S)
  BY <1>1, FlattenIsSeq
<1> HIDE DEF f
<1>3. Len(f) \in Nat
  BY <1>2
<1> QED
  BY <1>1, <1>2, <1>3 DEF a, f

\* One list more is one list appended.
LEMMA OneMoreList ==
  ASSUME NEW S, NEW seqs \in Seq(Seq(S)), NEW i \in 1 .. Len(seqs)
  PROVE  FlattenSeq(SubSeq(seqs, 1, i)) = FlattenSeq(SubSeq(seqs, 1, i - 1)) \o seqs[i]
<1> DEFINE a == SubSeq(seqs, 1, i - 1)
           b == SubSeq(seqs, 1, i)
           all == Append(a, seqs[i])
<1>1. i - 1 \in 0 .. Len(seqs) /\ i \in 0 .. Len(seqs) /\ seqs[i] \in Seq(S) /\ i \in Nat /\ i >= 1
  OBVIOUS
<1>2. a \in Seq(Seq(S)) /\ Len(a) = i - 1 /\ \A k \in 1 .. i - 1 : a[k] = seqs[k]
  BY <1>1, Halves
<1>3. b \in Seq(Seq(S)) /\ Len(b) = i /\ \A k \in 1 .. i : b[k] = seqs[k]
  BY <1>1, Halves
<1> HIDE DEF a, b
<1>4. /\ all \in Seq(Seq(S)) /\ Len(all) = i /\ all[i] = seqs[i]
      /\ \A k \in 1 .. i - 1 : all[k] = a[k]
  BY <1>1, <1>2
<1>5. ASSUME NEW k \in 1 .. i PROVE b[k] = all[k]
  <2>1. CASE k = i
    BY <1>3, <1>4, <2>1
  <2>2. CASE k # i
    <3>1. k \in 1 .. i - 1
      BY <1>1, <2>2
    <3> QED
      BY <1>2, <1>3, <1>4, <3>1
  <2> QED
    BY <2>1, <2>2
<1> HIDE DEF all
<1>6. b = all
  BY <1>3, <1>4, <1>5, SeqEqual
<1>7. FlattenSeq(Append(a, seqs[i])) = FlattenSeq(a) \o seqs[i]
  BY <1>1, <1>2, FlattenOfAppend
<1> QED
  BY <1>6, <1>7 DEF a, b, all

\* How many elements stand in front of a list.
LEMMA AheadFacts ==
  ASSUME NEW S, NEW seqs \in Seq(Seq(S))
  PROVE  /\ Ahead(seqs, 1) = 0
         /\ Ahead(seqs, Len(seqs) + 1) = Len(FlattenSeq(seqs))
         /\ \A i \in 1 .. Len(seqs) + 1 : Ahead(seqs, i) \in Nat
         /\ \A i \in 1 .. Len(seqs) : Ahead(seqs, i + 1) = Ahead(seqs, i) + Len(seqs[i])
<1>1. Len(seqs) \in Nat
  OBVIOUS
<1>2. Ahead(seqs, 1) = 0
  <2>1. First(seqs, 1 - 1) = << >>
    BY SubSeqEmpty DEF First
  <2>2. FlattenSeq(<< >>) = << >>
    BY DEF FlattenSeq
  <2> QED
    BY <2>1, <2>2 DEF Ahead
<1>3. Ahead(seqs, Len(seqs) + 1) = Len(FlattenSeq(seqs))
  <2>1. First(seqs, Len(seqs)) = seqs
    BY SubSeqFull DEF First
  <2>2. Len(seqs) + 1 - 1 = Len(seqs)
    BY <1>1
  <2> QED
    BY <2>1, <2>2 DEF Ahead
<1>4. ASSUME NEW i \in 1 .. Len(seqs) + 1
      PROVE  Ahead(seqs, i) \in Nat
  <2>1. i - 1 \in 0 .. Len(seqs)
    BY <1>1
  <2> QED
    BY <2>1, FlatFrontIsList DEF Ahead, First
<1>5. ASSUME NEW i \in 1 .. Len(seqs)
      PROVE  Ahead(seqs, i + 1) = Ahead(seqs, i) + Len(seqs[i])
  <2> DEFINE a == FlattenSeq(First(seqs, i - 1))
             run == seqs[i]
  <2>1. i - 1 \in 0 .. Len(seqs) /\ i + 1 - 1 = i /\ run \in Seq(S)
    BY <1>1
  <2>2. a \in Seq(S)
    BY <2>1, FlatFrontIsList DEF First
  <2>3. FlattenSeq(First(seqs, i)) = a \o run
    BY OneMoreList DEF First
  <2> HIDE DEF a, run
  <2>4. Len(a \o run) = Len(a) + Len(run)
    BY <2>1, <2>2, ConcatProperties
  <2>5. Ahead(seqs, i) = Len(a) /\ Ahead(seqs, i + 1) = Len(a \o run)
    BY <2>1, <2>3 DEF Ahead, a
  <2> QED
    BY <2>4, <2>5 DEF run
<1> QED
  BY <1>2, <1>3, <1>4, <1>5

\* Later lists have more in front of them.
LEMMA AheadGrows ==
  ASSUME NEW S, NEW seqs \in Seq(Seq(S)), NEW i \in 1 .. Len(seqs), NEW j \in i + 1 .. Len(seqs) + 1
  PROVE  Ahead(seqs, i) + Len(seqs[i]) <= Ahead(seqs, j)
<1>1. Len(seqs) \in Nat /\ i \in Nat /\ i >= 1 /\ j \in Nat
  OBVIOUS
<1> DEFINE bound == Ahead(seqs, i) + Len(seqs[i])
           bad == {n \in i + 1 .. Len(seqs) + 1 : ~(bound <= Ahead(seqs, n))}
<1>2. bad = {}
  <2> SUFFICES ASSUME bad # {} PROVE FALSE
    OBVIOUS
  <2>1. bad \subseteq Nat
    BY <1>1
  <2>2. PICK m \in bad : \A n \in bad : m <= n
    <3> HIDE DEF bad
    <3> QED
      BY <2>1, LeastNumber
  <2>3. m \in i + 1 .. Len(seqs) + 1 /\ ~(bound <= Ahead(seqs, m))
    BY <2>2
  <2>4. /\ Ahead(seqs, i) \in Nat /\ Len(seqs[i]) \in Nat /\ Ahead(seqs, i + 1) = bound
        /\ i + 1 \in 1 .. Len(seqs) + 1
    <3>1. seqs[i] \in Seq(S) /\ i \in 1 .. Len(seqs) + 1 /\ i + 1 \in 1 .. Len(seqs) + 1
      BY <1>1
    <3>2. Len(seqs[i]) \in Nat
      BY <3>1, LenProperties
    <3> QED
      BY <3>1, <3>2, AheadFacts
  <2>5. m # i + 1
    BY <2>3, <2>4
  <2>6. m - 1 \in i + 1 .. Len(seqs) + 1 /\ m - 1 \in 1 .. Len(seqs) /\ m - 1 + 1 = m
    BY <1>1, <2>3, <2>5
  <2>7. bound <= Ahead(seqs, m - 1)
    <3>1. m - 1 \notin bad
      BY <2>2, <2>3, <1>1, SMTT(30)
    <3> QED
      BY <2>6, <3>1
  <2>8. /\ Ahead(seqs, m) = Ahead(seqs, m - 1) + Len(seqs[m - 1])
        /\ Ahead(seqs, m - 1) \in Nat /\ Len(seqs[m - 1]) \in Nat
    <3>1. Ahead(seqs, m - 1 + 1) = Ahead(seqs, m - 1) + Len(seqs[m - 1])
      BY <2>6, AheadFacts
    <3>2. m - 1 \in 1 .. Len(seqs) + 1 /\ seqs[m - 1] \in Seq(S)
      BY <1>1, <2>6
    <3>3. Len(seqs[m - 1]) \in Nat
      BY <3>2, LenProperties
    <3> QED
      BY <2>6, <3>1, <3>2, <3>3, AheadFacts
  <2>9. bound \in Nat
    BY <2>4
  <2> HIDE DEF bound
  <2> QED
    BY <2>3, <2>7, <2>8, <2>9, SMTT(30)
<1> QED
  BY <1>2

\* An element of a list, found in the flat one.
LEMMA FlatAt ==
  ASSUME NEW S, NEW seqs \in Seq(Seq(S)), NEW i \in 1 .. Len(seqs), NEW k \in 1 .. Len(seqs[i])
  PROVE  /\ Ahead(seqs, i) + k \in 1 .. Len(FlattenSeq(seqs))
         /\ FlattenSeq(seqs)[Ahead(seqs, i) + k] = seqs[i][k]
<1> DEFINE a == FlattenSeq(First(seqs, i - 1))
           run == seqs[i]
           rest == FlattenSeq(SubSeq(seqs, i + 1, Len(seqs)))
           front == a \o run
           p == Ahead(seqs, i) + k
<1>1. /\ Len(seqs) \in Nat /\ i - 1 \in 0 .. Len(seqs) /\ i \in 0 .. Len(seqs)
      /\ run \in Seq(S)
  OBVIOUS
<1>2. /\ SubSeq(seqs, 1, i) \in Seq(Seq(S)) /\ SubSeq(seqs, i + 1, Len(seqs)) \in Seq(Seq(S))
      /\ seqs = SubSeq(seqs, 1, i) \o SubSeq(seqs, i + 1, Len(seqs))
  BY <1>1, Halves
<1>3. a \in Seq(S) /\ rest \in Seq(S) /\ Len(a) \in Nat /\ Len(rest) \in Nat
  <2>1. a \in Seq(S) /\ Len(a) \in Nat
    BY <1>1, FlatFrontIsList DEF First
  <2>2. rest \in Seq(S)
    BY <1>2, FlattenIsSeq
  <2>3. Len(rest) \in Nat
    BY <2>2, LenProperties
  <2> QED
    BY <2>1, <2>2, <2>3
<1>4. FlattenSeq(seqs) = front \o rest
  <2> DEFINE x == SubSeq(seqs, 1, i)
             y == SubSeq(seqs, i + 1, Len(seqs))
  <2>1. FlattenSeq(x) = front
    BY OneMoreList DEF First
  <2> HIDE DEF x, y, front
  <2>2. x \in Seq(Seq(S)) /\ y \in Seq(Seq(S)) /\ seqs = x \o y
    BY <1>2 DEF x, y
  <2>3. FlattenSeq(x \o y) = FlattenSeq(x) \o FlattenSeq(y)
    BY <2>2, FlattenOfConcat
  <2> QED
    BY <2>1, <2>2, <2>3 DEF y
<1>5. Ahead(seqs, i) = Len(a)
  BY DEF Ahead
<1>6. Len(run) \in Nat
  BY <1>1, LenProperties
<1> HIDE DEF a, rest
<1>7. /\ front \in Seq(S) /\ Len(front) = Len(a) + Len(run)
      /\ \A n \in 1 .. Len(a) + Len(run) : front[n] = IF n <= Len(a) THEN a[n] ELSE run[n - Len(a)]
  <2> HIDE DEF run
  <2>1. a \in Seq(S) /\ run \in Seq(S)
    BY <1>1, <1>3
  <2> QED
    BY <2>1, ConcatProperties
<1> HIDE DEF front
<1>8. /\ Len(front \o rest) = Len(front) + Len(rest)
      /\ \A n \in 1 .. Len(front) + Len(rest) :
           (front \o rest)[n] = IF n <= Len(front) THEN front[n] ELSE rest[n - Len(front)]
  <2>1. front \in Seq(S) /\ rest \in Seq(S)
    BY <1>3, <1>7
  <2> QED
    BY <2>1, ConcatProperties
<1>9. /\ p \in 1 .. Len(a) + Len(run) /\ ~(p <= Len(a)) /\ p - Len(a) = k
      /\ p \in 1 .. Len(front) + Len(rest) /\ p <= Len(front)
  BY <1>3, <1>5, <1>6, <1>7, SMTT(30)
<1>10. (front \o rest)[p] = run[k] /\ p \in 1 .. Len(front \o rest)
  BY <1>7, <1>8, <1>9
<1> QED
  BY <1>4, <1>10

\* An element of the flat list, found in its list.
LEMMA FlatOf ==
  ASSUME NEW S, NEW seqs \in Seq(Seq(S)), NEW p \in 1 .. Len(FlattenSeq(seqs))
  PROVE  \E i \in 1 .. Len(seqs) : \E k \in 1 .. Len(seqs[i]) : p = Ahead(seqs, i) + k
<1>1. Len(seqs) \in Nat /\ Len(FlattenSeq(seqs)) \in Nat
  <2>1. FlattenSeq(seqs) \in Seq(S)
    BY FlattenIsSeq
  <2> QED
    BY <2>1, LenProperties
<1> DEFINE reach == {n \in 1 .. Len(seqs) + 1 : p <= Ahead(seqs, n)}
<1>2. Len(seqs) + 1 \in reach /\ reach \subseteq Nat
  BY <1>1, AheadFacts
<1>3. PICK m \in reach : \A n \in reach : m <= n
  <2> HIDE DEF reach
  <2> QED
    BY <1>2, LeastNumber
<1>4. m # 1
  BY <1>3, AheadFacts
<1>5. m - 1 \in 1 .. Len(seqs) /\ m - 1 \in 1 .. Len(seqs) + 1 /\ m - 1 + 1 = m /\ m - 1 \notin reach
  BY <1>1, <1>3, <1>4
<1>6. /\ Ahead(seqs, m - 1) \in Nat /\ Ahead(seqs, m) = Ahead(seqs, m - 1) + Len(seqs[m - 1])
      /\ Len(seqs[m - 1]) \in Nat
  <2>1. seqs[m - 1] \in Seq(S)
    BY <1>5
  <2>2. Ahead(seqs, m - 1 + 1) = Ahead(seqs, m - 1) + Len(seqs[m - 1])
    BY <1>5, AheadFacts
  <2> QED
    BY <1>5, <2>1, <2>2, LenProperties, AheadFacts
<1>7. Ahead(seqs, m - 1) < p /\ p <= Ahead(seqs, m - 1) + Len(seqs[m - 1])
  BY <1>3, <1>5, <1>6
<1> DEFINE k == p - Ahead(seqs, m - 1)
<1>8. k \in 1 .. Len(seqs[m - 1]) /\ p = Ahead(seqs, m - 1) + k
  BY <1>6, <1>7, SMTT(30)
<1> QED
  BY <1>5, <1>8

(***************************************************************************)
(* The text that shows: its characters are those of the items that live,   *)
(* in the same order.                                                      *)
(***************************************************************************)
Lives(rga) == [i \in DOMAIN rga |-> LiveIds(rga[i])]

\* The visible timestamps of a chunk: all or none.
LEMMA LiveFacts ==
  ASSUME NEW c \in ChunkType
  PROVE  /\ LiveIds(c) \in Seq(Timestamp)
         /\ c.deleted => Len(LiveIds(c)) = 0
         /\ ~c.deleted => /\ Len(LiveIds(c)) = c.span
                          /\ \A k \in 1 .. c.span : LiveIds(c)[k] = Ts(c.id.sid, c.id.time + k - 1)
<1>1. CASE c.deleted
  <2>1. LiveIds(c) = << >>
    BY <1>1 DEF LiveIds
  <2>2. << >> \in Seq(Timestamp) /\ Len(<< >>) = 0
    OBVIOUS
  <2> QED
    BY <1>1, <2>1, <2>2
<1>2. CASE ~c.deleted
  <2> DEFINE f == [k \in 1 .. c.span |-> Ts(c.id.sid, c.id.time + k - 1)]
  <2>1. LiveIds(c) = f
    BY <1>2 DEF LiveIds
  <2>2. \A k \in 1 .. c.span : Ts(c.id.sid, c.id.time + k - 1) \in Timestamp
    BY RunFacts
  <2>3. f \in [1 .. c.span -> Timestamp] /\ \A k \in 1 .. c.span : f[k] = Ts(c.id.sid, c.id.time + k - 1)
    BY <2>2
  <2>4. c.span \in Nat
    BY ChunkFields
  <2> HIDE DEF f
  <2>5. f \in Seq(Timestamp) /\ Len(f) = c.span
    BY <2>3, <2>4
  <2> QED
    BY <1>2, <2>1, <2>3, <2>5
<1> QED
  BY <1>1, <1>2

\* The visible timestamps of all chunks, one behind the other, are the view.
LEMMA LivesAreLists ==
  ASSUME NEW rga \in Seq(ChunkType)
  PROVE  /\ Lives(rga) \in Seq(Seq(Timestamp))
         /\ Len(Lives(rga)) = Len(rga)
         /\ View(rga) = FlattenSeq(Lives(rga))
         /\ \A i \in 1 .. Len(rga) : Lives(rga)[i] = LiveIds(rga[i])
<1>1. \A i \in 1 .. Len(rga) : LiveIds(rga[i]) \in Seq(Timestamp)
  BY LiveFacts
<1>2. DOMAIN rga = 1 .. Len(rga) /\ Len(rga) \in Nat
  OBVIOUS
<1>3. Lives(rga) \in [1 .. Len(rga) -> Seq(Timestamp)]
  BY <1>1, <1>2 DEF Lives
<1>4. View(rga) = FlattenSeq(Lives(rga))
  BY DEF View, Lives
<1>5. \A i \in 1 .. Len(rga) : Lives(rga)[i] = LiveIds(rga[i])
  BY <1>2 DEF Lives
<1> DEFINE runs == Lives(rga)
<1> HIDE DEF runs
<1>6. runs \in Seq(Seq(Timestamp)) /\ Len(runs) = Len(rga)
  BY <1>2, <1>3 DEF runs
<1> QED
  BY <1>4, <1>5, <1>6 DEF runs

\* The number of characters that show in front of a chunk.
Shown(rga, i) == Ahead(Lives(rga), i)

\* What is visible in front of a chunk.
LEMMA ShownIs ==
  ASSUME NEW rga \in Seq(ChunkType), NEW i \in 1 .. Len(rga)
  PROVE  Shown(rga, i) = Len(View(SubSeq(rga, 1, i - 1)))
<1> DEFINE a == SubSeq(rga, 1, i - 1)
           b == First(Lives(rga), i - 1)
           n == Len(rga)
<1>1. n \in Nat /\ i - 1 \in 0 .. n /\ i \in Nat
  OBVIOUS
<1>2. a \in Seq(ChunkType) /\ Len(a) = i - 1 /\ \A k \in 1 .. i - 1 : a[k] = rga[k]
  BY <1>1, Halves
<1>3. /\ Lives(rga) \in Seq(Seq(Timestamp)) /\ Len(Lives(rga)) = n
      /\ \A k \in 1 .. n : Lives(rga)[k] = LiveIds(rga[k])
  BY LivesAreLists
<1>4. b \in Seq(Seq(Timestamp)) /\ Len(b) = i - 1 /\ \A k \in 1 .. i - 1 : b[k] = Lives(rga)[k]
  <2> DEFINE l == Lives(rga)
  <2> HIDE DEF l
  <2>1. l \in Seq(Seq(Timestamp)) /\ i - 1 \in 0 .. Len(l)
    BY <1>1, <1>3 DEF l
  <2>2. /\ SubSeq(l, 1, i - 1) \in Seq(Seq(Timestamp)) /\ Len(SubSeq(l, 1, i - 1)) = i - 1
        /\ \A k \in 1 .. i - 1 : SubSeq(l, 1, i - 1)[k] = l[k]
    BY <2>1, Halves
  <2> QED
    BY <2>2 DEF First, l
<1> HIDE DEF a, b
<1>5. /\ Lives(a) \in Seq(Seq(Timestamp)) /\ Len(Lives(a)) = Len(a) /\ View(a) = FlattenSeq(Lives(a))
      /\ \A k \in 1 .. Len(a) : Lives(a)[k] = LiveIds(a[k])
  BY <1>2, LivesAreLists
<1>6. Lives(a) = b
  <2>1. \A k \in 1 .. Len(b) : Lives(a)[k] = b[k]
    <3>1. \A k \in 1 .. i - 1 : k \in 1 .. n
      BY <1>1
    <3> QED
      BY <1>2, <1>3, <1>4, <1>5, <3>1
  <2>2. Len(Lives(a)) = Len(b)
    BY <1>2, <1>4, <1>5
  <2> QED
    BY <1>4, <1>5, <2>1, <2>2, SeqEqual
<1> QED
  BY <1>5, <1>6 DEF Shown, Ahead, a, b

\* The character of rank r is the item at place p.
Shows(rga, r, p) ==
  \E i \in 1 .. Len(rga) : /\ ~rga[i].deleted
                           /\ \E k \in 1 .. rga[i].span : r = Shown(rga, i) + k /\ p = Start(rga, i) + k

\* The items of a live chunk, in the view.
LEMMA LiveSpans ==
  ASSUME NEW rga \in Seq(ChunkType), NEW i \in 1 .. Len(rga), ~rga[i].deleted
  PROVE  /\ Len(Lives(rga)[i]) = rga[i].span /\ rga[i].span \in Nat
         /\ Shown(rga, i) \in Nat /\ Start(rga, i) \in Nat
         /\ \A k \in 1 .. rga[i].span :
              /\ Lives(rga)[i][k] = Ts(rga[i].id.sid, rga[i].id.time + k - 1)
              /\ Shown(rga, i) + k \in 1 .. Len(View(rga))
              /\ View(rga)[Shown(rga, i) + k] = Ts(rga[i].id.sid, rga[i].id.time + k - 1)
<1>1. rga[i] \in ChunkType /\ i \in 1 .. Len(rga) + 1
  <2>1. Len(rga) \in Nat
    OBVIOUS
  <2> QED
    BY <2>1
<1>2. /\ Len(LiveIds(rga[i])) = rga[i].span
      /\ \A k \in 1 .. rga[i].span : LiveIds(rga[i])[k] = Ts(rga[i].id.sid, rga[i].id.time + k - 1)
  BY <1>1, LiveFacts
<1>3. /\ Lives(rga) \in Seq(Seq(Timestamp)) /\ Len(Lives(rga)) = Len(rga)
      /\ View(rga) = FlattenSeq(Lives(rga)) /\ Lives(rga)[i] = LiveIds(rga[i])
  BY LivesAreLists
<1>4. Shown(rga, i) \in Nat /\ Start(rga, i) \in Nat /\ rga[i].span \in Nat
  <2>1. \A j \in 1 .. Len(Lives(rga)) + 1 : Ahead(Lives(rga), j) \in Nat
    BY <1>3, AheadFacts
  <2>2. Start(rga, i) \in Nat
    BY <1>1, StartFacts
  <2>3. rga[i].span \in Nat
    BY <1>1, ChunkFields
  <2> QED
    BY <1>1, <1>3, <2>1, <2>2, <2>3 DEF Shown
<1>5. ASSUME NEW k \in 1 .. rga[i].span
      PROVE  /\ Shown(rga, i) + k \in 1 .. Len(View(rga))
             /\ View(rga)[Shown(rga, i) + k] = Lives(rga)[i][k]
  <2> DEFINE l == Lives(rga)
  <2> HIDE DEF l
  <2>1. l \in Seq(Seq(Timestamp)) /\ i \in 1 .. Len(l) /\ k \in 1 .. Len(l[i])
    BY <1>2, <1>3 DEF l
  <2>2. Ahead(l, i) + k \in 1 .. Len(FlattenSeq(l)) /\ FlattenSeq(l)[Ahead(l, i) + k] = l[i][k]
    BY <2>1, FlatAt
  <2> QED
    BY <1>3, <2>2 DEF l, Shown
<1> QED
  BY <1>2, <1>3, <1>4, <1>5

\* The r-th visible item stands at p, live.
LEMMA ShowsFacts ==
  ASSUME NEW rga \in Seq(ChunkType), NEW r, NEW p, Shows(rga, r, p)
  PROVE  /\ r \in 1 .. Len(View(rga)) /\ p \in 1 .. Len(Items(rga))
         /\ Items(rga)[p] = [id |-> View(rga)[r], live |-> TRUE]
<1>0. PICK i \in 1 .. Len(rga) :
        ~rga[i].deleted /\ \E k \in 1 .. rga[i].span : r = Shown(rga, i) + k /\ p = Start(rga, i) + k
  BY DEF Shows
<1>1. PICK k \in 1 .. rga[i].span :
        ~rga[i].deleted /\ r = Shown(rga, i) + k /\ p = Start(rga, i) + k
  BY <1>0
<1>2. r \in 1 .. Len(View(rga)) /\ View(rga)[r] = Ts(rga[i].id.sid, rga[i].id.time + k - 1)
  BY <1>1, LiveSpans
<1>3. /\ p \in 1 .. Len(Items(rga))
      /\ Items(rga)[p] = [id |-> Ts(rga[i].id.sid, rga[i].id.time + k - 1), live |-> ~rga[i].deleted]
  BY <1>1, ItemsOfChunk
<1>4. (~rga[i].deleted) = TRUE
  BY <1>1
<1> QED
  BY <1>2, <1>3, <1>4, Zenon

\* Every rank of the view is the rank of some item.
LEMMA EveryRankShows ==
  ASSUME NEW rga \in Seq(ChunkType), NEW r \in 1 .. Len(View(rga))
  PROVE  \E p : Shows(rga, r, p)
<1> DEFINE l == Lives(rga)
<1>1. /\ l \in Seq(Seq(Timestamp)) /\ Len(l) = Len(rga) /\ View(rga) = FlattenSeq(l)
      /\ \A i \in 1 .. Len(rga) : l[i] = LiveIds(rga[i])
  BY LivesAreLists
<1> HIDE DEF l
<1>9. PICK i \in 1 .. Len(l) : \E k \in 1 .. Len(l[i]) : r = Ahead(l, i) + k
  BY <1>1, FlatOf
<1>2. PICK k \in 1 .. Len(l[i]) : r = Ahead(l, i) + k
  BY <1>9
<1>3. i \in 1 .. Len(rga) /\ rga[i] \in ChunkType /\ k \in 1 .. Len(LiveIds(rga[i]))
  BY <1>1, <1>2
<1>4. ~rga[i].deleted /\ Len(LiveIds(rga[i])) = rga[i].span
  BY <1>3, LiveFacts
<1> QED
  BY <1>2, <1>3, <1>4 DEF Shows, Shown, l

\* Every live item has a rank.
LEMMA EveryLivePlaceShows ==
  ASSUME NEW rga \in Seq(ChunkType), NEW p \in 1 .. Len(Items(rga)), Items(rga)[p].live
  PROVE  \E r : Shows(rga, r, p)
<1>0. PICK i \in 1 .. Len(rga) : \E k \in 1 .. rga[i].span : p = Start(rga, i) + k
  BY ChunkOfItem
<1>1. PICK k \in 1 .. rga[i].span : p = Start(rga, i) + k
  BY <1>0
<1>2. Items(rga)[p] = [id |-> Ts(rga[i].id.sid, rga[i].id.time + k - 1), live |-> ~rga[i].deleted]
  BY <1>1, ItemsOfChunk
<1>3. ~rga[i].deleted
  <2> SUFFICES ASSUME rga[i].deleted PROVE FALSE
    OBVIOUS
  <2>1. (~rga[i].deleted) = FALSE
    OBVIOUS
  <2>2. Items(rga)[p] = [id |-> Ts(rga[i].id.sid, rga[i].id.time + k - 1), live |-> FALSE]
    BY <1>2, <2>1, Zenon
  <2> QED
    BY <2>2
<1> QED
  BY <1>1, <1>3 DEF Shows

\* Ranks are ordered as places are.
LEMMA ShowsInOrder ==
  ASSUME NEW rga \in Seq(ChunkType), NEW r, NEW p, Shows(rga, r, p), NEW s, NEW q, Shows(rga, s, q)
  PROVE  r <= s <=> p <= q
<1>0. PICK i \in 1 .. Len(rga) :
        ~rga[i].deleted /\ \E k \in 1 .. rga[i].span : r = Shown(rga, i) + k /\ p = Start(rga, i) + k
  BY DEF Shows
<1>1. PICK k \in 1 .. rga[i].span :
        ~rga[i].deleted /\ r = Shown(rga, i) + k /\ p = Start(rga, i) + k
  BY <1>0
<1>9. PICK j \in 1 .. Len(rga) :
        ~rga[j].deleted /\ \E n \in 1 .. rga[j].span : s = Shown(rga, j) + n /\ q = Start(rga, j) + n
  BY DEF Shows
<1>2. PICK n \in 1 .. rga[j].span :
        ~rga[j].deleted /\ s = Shown(rga, j) + n /\ q = Start(rga, j) + n
  BY <1>9
<1>3. /\ Shown(rga, i) \in Nat /\ Start(rga, i) \in Nat /\ rga[i].span \in Nat
      /\ Shown(rga, j) \in Nat /\ Start(rga, j) \in Nat /\ rga[j].span \in Nat
  BY <1>1, <1>2, LiveSpans
<1>4. ASSUME NEW a \in 1 .. Len(rga), NEW b \in 1 .. Len(rga), a < b, ~rga[a].deleted
      PROVE  /\ Shown(rga, a) + rga[a].span <= Shown(rga, b)
             /\ Start(rga, a) + rga[a].span <= Start(rga, b)
  <2>1. b \in a + 1 .. Len(rga) + 1
    BY <1>4
  <2>2. Start(rga, a) + rga[a].span <= Start(rga, b)
    BY <2>1, StartGrows
  <2> DEFINE l == Lives(rga)
  <2>3. l \in Seq(Seq(Timestamp)) /\ Len(l) = Len(rga) /\ Len(l[a]) = rga[a].span
    BY <1>4, LivesAreLists, LiveSpans
  <2> HIDE DEF l
  <2>4. Ahead(l, a) + Len(l[a]) <= Ahead(l, b)
    BY <2>1, <2>3, AheadGrows
  <2> QED
    BY <2>2, <2>3, <2>4 DEF Shown, l
<1>5. CASE i = j
  BY <1>1, <1>2, <1>3, <1>5, SMTT(30)
<1>6. CASE i < j
  <2>1. /\ Shown(rga, i) + rga[i].span <= Shown(rga, j)
        /\ Start(rga, i) + rga[i].span <= Start(rga, j)
    BY <1>1, <1>4, <1>6
  <2> DEFINE va == Shown(rga, i)
             vb == Shown(rga, j)
             pa == Start(rga, i)
             pb == Start(rga, j)
             w == rga[i].span
  <2>2. /\ r = va + k /\ p = pa + k /\ s = vb + n /\ q = pb + n
        /\ va + w <= vb /\ pa + w <= pb /\ k \in 1 .. w /\ n \in Nat /\ n >= 1
        /\ va \in Nat /\ vb \in Nat /\ pa \in Nat /\ pb \in Nat /\ w \in Nat
    <3>1. k \in 1 .. rga[i].span /\ n \in 1 .. rga[j].span /\ k \in Nat /\ n \in Nat /\ k >= 1 /\ n >= 1
      BY <1>3
    <3> QED
      BY <1>1, <1>2, <1>3, <2>1, <3>1
  <2> HIDE DEF va, vb, pa, pb, w
  <2> QED
    BY <2>2
<1>7. CASE j < i
  <2>1. /\ Shown(rga, j) + rga[j].span <= Shown(rga, i)
        /\ Start(rga, j) + rga[j].span <= Start(rga, i)
    BY <1>2, <1>4, <1>7
  <2> DEFINE va == Shown(rga, j)
             vb == Shown(rga, i)
             pa == Start(rga, j)
             pb == Start(rga, i)
             w == rga[j].span
  <2>2. /\ s = va + n /\ q = pa + n /\ r = vb + k /\ p = pb + k
        /\ va + w <= vb /\ pa + w <= pb /\ n \in 1 .. w /\ k \in Nat /\ k >= 1
        /\ va \in Nat /\ vb \in Nat /\ pa \in Nat /\ pb \in Nat /\ w \in Nat
    <3>1. k \in 1 .. rga[i].span /\ n \in 1 .. rga[j].span /\ k \in Nat /\ n \in Nat /\ k >= 1 /\ n >= 1
      BY <1>3
    <3> QED
      BY <1>1, <1>2, <1>3, <2>1, <3>1
  <2> HIDE DEF va, vb, pa, pb, w
  <2> QED
    BY <2>2
<1> QED
  BY <1>5, <1>6, <1>7

\* Min of a pair.
LEMMA MinOfTwo ==
  ASSUME NEW a \in Int, NEW b \in Int
  PROVE  Min({a, b}) = IF a <= b THEN a ELSE b
<1>1. Min({a, b}) = CHOOSE x \in {a, b} : \A y \in {a, b} : x <= y
  BY DEF Min
<1>2. CASE a <= b
  <2>1. \A x \in {a, b} : (\A y \in {a, b} : x <= y) <=> x = a
    BY <1>2
  <2> QED
    BY <1>1, <1>2, <2>1
<1>3. CASE ~(a <= b)
  <2>1. \A x \in {a, b} : (\A y \in {a, b} : x <= y) <=> x = b
    BY <1>3
  <2> QED
    BY <1>1, <1>3, <2>1
<1> QED
  BY <1>2, <1>3

\* What a chunk has of the characters pos + 1 .. pos + len.
SpanIn(rga, pos, len, i) ==
  LET from == Larger(pos, Shown(rga, i)) - Shown(rga, i)
      to == Min({(pos + len) - Shown(rga, i), rga[i].span})
  IN  IF rga[i].deleted \/ to <= from THEN << >>
      ELSE <<[sid |-> rga[i].id.sid, time |-> rga[i].id.time + from, span |-> to - from]>>

SpansIn(rga, pos, len) == [i \in DOMAIN rga |-> SpanIn(rga, pos, len, i)]

\* A span lies in the chunk.
Within(tss, c) ==
  /\ tss.sid = c.id.sid /\ c.id.time <= tss.time /\ tss.time + tss.span <= NextTick(c)

\* find_interval takes of a chunk the items with ranks in its interval.
LEMMA SpanInFacts ==
  ASSUME NEW rga \in Seq(ChunkType), NEW i \in 1 .. Len(rga), ~rga[i].deleted, NEW pos \in Nat, NEW len \in Nat
  PROVE  /\ SpanIn(rga, pos, len, i) \in Seq(SpanType)
         /\ Len(SpanIn(rga, pos, len, i)) \in {0, 1}
         /\ Len(SpanIn(rga, pos, len, i)) = 1 =>
              /\ SpanIn(rga, pos, len, i)[1] \in SpanType
              /\ Within(SpanIn(rga, pos, len, i)[1], rga[i])
         /\ \A k \in 1 .. rga[i].span :
              pos < Shown(rga, i) + k /\ Shown(rga, i) + k <= pos + len
                <=> /\ Len(SpanIn(rga, pos, len, i)) = 1
                    /\ Ts(rga[i].id.sid, rga[i].id.time + k - 1) \in SpanOf(SpanIn(rga, pos, len, i)[1])
<1> DEFINE before == Shown(rga, i)
           c == rga[i]
           from == Larger(pos, before) - before
           to == Min({(pos + len) - before, c.span})
           tss == [sid |-> c.id.sid, time |-> c.id.time + from, span |-> to - from]
           list == SpanIn(rga, pos, len, i)
<1>1. /\ before \in Nat /\ c \in ChunkType /\ c.span \in Nat /\ c.span > 0 /\ c.id.time \in Nat /\ c.id.sid \in Sids
      /\ c.deleted = FALSE /\ NextTick(c) = c.id.time + c.span
  <2>1. c \in ChunkType
    OBVIOUS
  <2> QED
    BY <2>1, ChunkFields, LiveSpans
<1>2. list = IF to <= from THEN << >> ELSE <<tss>>
  BY <1>1 DEF SpanIn
<1> HIDE DEF list, c, before
<1>3. from = (IF pos < before THEN 0 ELSE pos - before) /\ from \in Nat
  BY <1>1 DEF Larger
<1>4. to = (IF (pos + len) - before <= c.span THEN (pos + len) - before ELSE c.span) /\ to \in Int /\ to <= c.span
  <2> DEFINE a == (pos + len) - before
             b == c.span
  <2>1. a \in Int /\ b \in Int
    BY <1>1
  <2> HIDE DEF a, b
  <2>2. Min({a, b}) = IF a <= b THEN a ELSE b
    BY <2>1, MinOfTwo
  <2>3. to = Min({a, b})
    BY DEF a, b
  <2>4. to = (IF a <= b THEN a ELSE b) /\ to \in Int /\ to <= b
    <3> HIDE DEF to
    <3> QED
      BY <2>1, <2>2, <2>3
  <2> QED
    BY <2>4 DEF a, b
<1> HIDE DEF from, to
<1>5. ASSUME NEW k \in 1 .. c.span
      PROVE  pos < before + k /\ before + k <= pos + len <=> from < k /\ k <= to
  BY <1>1, <1>3, <1>4
<1>6. CASE to <= from
  <2>1. list = << >>
    BY <1>2, <1>6
  <2>2. list \in Seq(SpanType) /\ Len(list) = 0
    BY <2>1
  <2>3. \A k \in 1 .. c.span : ~(from < k /\ k <= to)
    BY <1>3, <1>4, <1>6
  <2> QED
    BY <1>5, <2>2, <2>3 DEF list, c, before
<1>7. CASE ~(to <= from)
  <2>1. list = <<tss>> /\ to - from \in Nat \ {0} /\ c.id.time + from \in Nat
    BY <1>1, <1>2, <1>3, <1>4, <1>7, SMTT(30)
  <2>2. tss \in SpanType /\ tss.sid = c.id.sid /\ tss.time = c.id.time + from /\ tss.span = to - from
    BY <1>1, <2>1 DEF SpanType
  <2>3. Within(tss, c)
    <3>1. c.id.time <= c.id.time + from /\ (c.id.time + from) + (to - from) <= c.id.time + c.span
      BY <1>1, <1>3, <1>4
    <3> QED
      BY <1>1, <2>2, <3>1 DEF Within
  <2> HIDE DEF tss
  <2>4. list \in Seq(SpanType) /\ Len(list) = 1 /\ list[1] = tss
    BY <2>1, <2>2
  <2>5. ASSUME NEW k \in 1 .. c.span
        PROVE  from < k /\ k <= to <=> Ts(c.id.sid, c.id.time + k - 1) \in SpanOf(tss)
    <3>1. c.id.time + k - 1 \in Nat /\ Ts(c.id.sid, c.id.time + k - 1) \in Timestamp
      BY <1>1, RunFacts
    <3>2. Ts(c.id.sid, c.id.time + k - 1).sid = c.id.sid /\ Ts(c.id.sid, c.id.time + k - 1).time = c.id.time + k - 1
      BY StampFacts
    <3>3. tss.time \in Nat /\ tss.time + tss.span \in Nat
      BY <1>1, <1>3, <1>4, <2>1, <2>2, SMTT(30)
    <3>4. Ts(c.id.sid, c.id.time + k - 1) \in SpanOf(tss)
            <=> tss.time <= c.id.time + k - 1 /\ c.id.time + k - 1 < tss.time + tss.span
      BY <2>2, <3>1, <3>2, <3>3, SpanHolds DEF SpanOf
    <3>5. tss.time <= c.id.time + k - 1 /\ c.id.time + k - 1 < tss.time + tss.span <=> from < k /\ k <= to
      <4> DEFINE x == c.id.time
                 y == tss.time
                 z == tss.span
      <4>1. /\ x \in Nat /\ from \in Nat /\ to \in Int /\ k \in Nat /\ y = x + from /\ z = to - from
        BY <1>1, <1>3, <1>4, <2>2
      <4> HIDE DEF x, y, z
      <4>2. y <= x + k - 1 /\ x + k - 1 < y + z <=> from < k /\ k <= to
        BY <4>1
      <4> QED
        BY <4>2 DEF x, y, z
    <3> QED
      BY <3>4, <3>5
  <2> QED
    BY <1>5, <2>2, <2>3, <2>4, <2>5 DEF list, c, before
<1> QED
  BY <1>6, <1>7

\* The spans find_interval takes, chunk by chunk.
LEMMA SpansAreLists ==
  ASSUME NEW rga \in Seq(ChunkType), NEW pos \in Nat, NEW len \in Nat
  PROVE  /\ SpansIn(rga, pos, len) \in Seq(Seq(SpanType))
         /\ Len(SpansIn(rga, pos, len)) = Len(rga)
         /\ \A i \in 1 .. Len(rga) : SpansIn(rga, pos, len)[i] = SpanIn(rga, pos, len, i)
         /\ FindInterval(rga, pos, len) = FlattenSeq(SpansIn(rga, pos, len))
<1> DEFINE l == SpansIn(rga, pos, len)
<1>1. DOMAIN rga = 1 .. Len(rga) /\ Len(rga) \in Nat
  OBVIOUS
<1>2. \A i \in 1 .. Len(rga) : SpanIn(rga, pos, len, i) \in Seq(SpanType)
  <2> SUFFICES ASSUME NEW i \in 1 .. Len(rga) PROVE SpanIn(rga, pos, len, i) \in Seq(SpanType)
    OBVIOUS
  <2>1. CASE ~rga[i].deleted
    BY <2>1, SpanInFacts
  <2>2. CASE rga[i].deleted
    <3>1. SpanIn(rga, pos, len, i) = << >>
      BY <2>2 DEF SpanIn
    <3> QED
      BY <3>1
  <2> QED
    BY <2>1, <2>2
<1>3. l \in [1 .. Len(rga) -> Seq(SpanType)] /\ \A i \in 1 .. Len(rga) : l[i] = SpanIn(rga, pos, len, i)
  BY <1>1, <1>2 DEF SpansIn
<1>4. FindInterval(rga, pos, len) = FlattenSeq(l)
  <2> DEFINE spans(i) ==
        LET before == Len(View(SubSeq(rga, 1, i - 1)))
            from == Larger(pos, before) - before
            to == Min({pos + len - before, rga[i].span})
        IN  IF rga[i].deleted \/ to <= from THEN << >>
            ELSE <<[sid |-> rga[i].id.sid, time |-> rga[i].id.time + from,
                    span |-> to - from]>>
  <2>1. FindInterval(rga, pos, len) = FlattenSeq([i \in DOMAIN rga |-> spans(i)])
    BY DEF FindInterval
  <2>2. ASSUME NEW i \in 1 .. Len(rga) PROVE spans(i) = SpanIn(rga, pos, len, i)
    <3>1. Len(View(SubSeq(rga, 1, i - 1))) = Shown(rga, i)
      BY ShownIs
    <3>2. pos + len - Shown(rga, i) = (pos + len) - Shown(rga, i)
      <4>1. Shown(rga, i) \in Nat
        <5> DEFINE ll == Lives(rga)
        <5>1. ll \in Seq(Seq(Timestamp)) /\ Len(ll) = Len(rga)
          BY LivesAreLists
        <5>2. i \in 1 .. Len(ll) + 1
          BY <1>1, <5>1
        <5> HIDE DEF ll
        <5> QED
          BY <5>1, <5>2, AheadFacts DEF Shown, ll
      <4> QED
        BY <4>1
    <3> QED
      BY <3>1, <3>2, Zenon DEF SpanIn
  <2> HIDE DEF spans
  <2>3. [i \in DOMAIN rga |-> spans(i)] = l
    BY <1>1, <2>2 DEF SpansIn
  <2> QED
    BY <2>1, <2>3
<1> HIDE DEF l
<1>5. l \in Seq(Seq(SpanType)) /\ Len(l) = Len(rga)
  BY <1>1, <1>3
<1> QED
  BY <1>3, <1>4, <1>5 DEF l

\* A span within a chunk is a run.
LEMMA WithinRuns ==
  ASSUME NEW rga \in Seq(ChunkType), NEW ref, ChunksPlaced(rga, ref), NEW i \in 1 .. Len(rga),
         NEW tss \in SpanType, Within(tss, rga[i])
  PROVE  RunsOn(rga, tss, ref)
<1> DEFINE c == rga[i]
<1>1. tss.sid \in Sids /\ tss.time \in Nat /\ tss.span \in Nat /\ tss.span > 0
  BY DEF SpanType
<1>2. /\ c \in ChunkType /\ NextTick(c) \in Nat /\ c.id.time \in Nat /\ tss.sid = c.id.sid
      /\ c.id.time <= tss.time /\ tss.time + tss.span <= NextTick(c) /\ i \in DOMAIN rga
  BY ChunkFields DEF Within
<1> HIDE DEF c
<1>3. ASSUME NEW t \in tss.time .. (tss.time + tss.span) - 1
      PROVE  /\ Ts(tss.sid, t) \in IdsOf(rga)
             /\ t > tss.time => ref[Ts(tss.sid, t)] = Ts(tss.sid, t - 1)
  <2>1. t \in Nat /\ tss.time <= t /\ t < NextTick(c) /\ c.id.time <= t
    BY <1>1, <1>2
  <2>2. Ts(tss.sid, t) \in Timestamp /\ Ts(tss.sid, t).sid = tss.sid /\ Ts(tss.sid, t).time = t
    BY <1>1, <2>1, NamesStamps
  <2>3. Covers(c, Ts(tss.sid, t))
    BY <1>2, <2>1, <2>2 DEF Covers
  <2>4. Ts(tss.sid, t) \in IdsOf(rga)
    BY <1>2, <2>2, <2>3 DEF IdsOf, c
  <2>5. ASSUME t > tss.time PROVE ref[Ts(tss.sid, t)] = Ts(tss.sid, t - 1)
    <3>1. Ts(tss.sid, t) # c.id
      BY <1>1, <1>2, <2>1, <2>2, <2>5
    <3>2. ref[Ts(tss.sid, t)] = Ts(Ts(tss.sid, t).sid, Ts(tss.sid, t).time - 1)
      BY <1>2, <2>2, <2>3, <3>1 DEF ChunksPlaced, c
    <3> QED
      BY <2>2, <3>2
  <2> QED
    BY <2>4, <2>5
<1> QED
  BY <1>3 DEF RunsOn, SpanRuns

\* The items whose characters are those of rank pos + 1 .. pos + len.
Picked(rga, pos, len) ==
  {y \in Timestamp : \E r \in pos + 1 .. pos + len : \E p \in 1 .. Len(Items(rga)) :
                       Shows(rga, r, p) /\ Items(rga)[p].id = y}

\* find_interval returns the spans it takes.
LEMMA IntervalFacts ==
  ASSUME NEW rga \in Seq(ChunkType), NEW pos \in Nat, NEW len \in Nat
  PROVE  /\ FindInterval(rga, pos, len) \in Seq(SpanType)
         /\ \A m \in 1 .. Len(FindInterval(rga, pos, len)) :
              \E i \in 1 .. Len(rga) : /\ ~rga[i].deleted
                                       /\ SpanIn(rga, pos, len, i) = <<FindInterval(rga, pos, len)[m]>>
         /\ \A i \in 1 .. Len(rga) : Len(SpanIn(rga, pos, len, i)) = 1 =>
              \E m \in 1 .. Len(FindInterval(rga, pos, len)) :
                FindInterval(rga, pos, len)[m] = SpanIn(rga, pos, len, i)[1]
<1> DEFINE l == SpansIn(rga, pos, len)
           f == FindInterval(rga, pos, len)
<1>1. /\ l \in Seq(Seq(SpanType)) /\ Len(l) = Len(rga) /\ f = FlattenSeq(l)
      /\ \A i \in 1 .. Len(rga) : l[i] = SpanIn(rga, pos, len, i)
  BY SpansAreLists
<1> HIDE DEF l, f
<1>2. f \in Seq(SpanType)
  BY <1>1, FlattenIsSeq
<1>3. ASSUME NEW m \in 1 .. Len(f)
      PROVE  \E i \in 1 .. Len(rga) : ~rga[i].deleted /\ SpanIn(rga, pos, len, i) = <<f[m]>>
  <2>1. PICK i \in 1 .. Len(l) : \E k \in 1 .. Len(l[i]) : m = Ahead(l, i) + k
    BY <1>1, FlatOf
  <2>2. PICK k \in 1 .. Len(l[i]) : m = Ahead(l, i) + k
    BY <2>1
  <2>3. f[m] = l[i][k]
    BY <1>1, <2>2, FlatAt
  <2>4. i \in 1 .. Len(rga) /\ l[i] = SpanIn(rga, pos, len, i)
    BY <1>1
  <2> DEFINE s == SpanIn(rga, pos, len, i)
  <2>5. ~rga[i].deleted
    <3> SUFFICES ASSUME rga[i].deleted PROVE FALSE
      OBVIOUS
    <3>1. s = << >>
      BY DEF SpanIn
    <3> HIDE DEF s
    <3>2. Len(s) = 0
      BY <3>1
    <3> QED
      BY <2>4, <3>2 DEF s
  <2>6. s \in Seq(SpanType) /\ Len(s) \in {0, 1}
    BY <2>4, <2>5, SpanInFacts
  <2> HIDE DEF s
  <2>7. k \in 1 .. Len(s) /\ f[m] = s[k]
    BY <2>3, <2>4 DEF s
  <2>8. k = 1 /\ Len(s) = 1
    BY <2>6, <2>7
  <2>9. s = <<s[1]>>
    BY <2>6, <2>8
  <2> QED
    BY <2>4, <2>5, <2>7, <2>8, <2>9 DEF s
<1>4. ASSUME NEW i \in 1 .. Len(rga), Len(SpanIn(rga, pos, len, i)) = 1
      PROVE  \E m \in 1 .. Len(f) : f[m] = SpanIn(rga, pos, len, i)[1]
  <2>1. i \in 1 .. Len(l) /\ l[i] = SpanIn(rga, pos, len, i)
    BY <1>1
  <2>2. 1 \in 1 .. Len(l[i])
    <3>1. Len(l[i]) = 1
      BY <1>4, <2>1, Zenon
    <3> QED
      BY <3>1
  <2>3. Ahead(l, i) + 1 \in 1 .. Len(FlattenSeq(l)) /\ FlattenSeq(l)[Ahead(l, i) + 1] = l[i][1]
    BY <1>1, <2>1, <2>2, FlatAt
  <2> QED
    BY <1>1, <2>1, <2>3
<1> QED
  BY <1>2, <1>3, <1>4 DEF f

\* What find_interval returns names the items with ranks in its interval, and
\* no others.
LEMMA IntervalPicks ==
  ASSUME NEW rga \in Seq(ChunkType), NEW pos \in Nat, NEW len \in Nat
  PROVE  /\ FindInterval(rga, pos, len) \in Seq(SpanType)
         /\ \A m \in 1 .. Len(FindInterval(rga, pos, len)) :
              \E i \in 1 .. Len(rga) : Within(FindInterval(rga, pos, len)[m], rga[i])
         /\ Spanned(FindInterval(rga, pos, len), Len(FindInterval(rga, pos, len))) = Picked(rga, pos, len)
<1> DEFINE f == FindInterval(rga, pos, len)
           s(i) == SpanIn(rga, pos, len, i)
           picked == Picked(rga, pos, len)
<1>1. /\ f \in Seq(SpanType)
      /\ \A m \in 1 .. Len(f) : \E i \in 1 .. Len(rga) : ~rga[i].deleted /\ s(i) = <<f[m]>>
      /\ \A i \in 1 .. Len(rga) : Len(s(i)) = 1 => \E m \in 1 .. Len(f) : f[m] = s(i)[1]
  BY IntervalFacts
<1> HIDE DEF f
<1>2. \A m \in 1 .. Len(f) : f[m] \in SpanType
  BY <1>1
<1>3. ASSUME NEW i \in 1 .. Len(rga), ~rga[i].deleted
      PROVE  /\ Len(s(i)) = 1 => Within(s(i)[1], rga[i])
             /\ \A k \in 1 .. rga[i].span :
                  pos < Shown(rga, i) + k /\ Shown(rga, i) + k <= pos + len
                    <=> Len(s(i)) = 1 /\ Ts(rga[i].id.sid, rga[i].id.time + k - 1) \in SpanOf(s(i)[1])
  BY <1>3, SpanInFacts
<1>4. ASSUME NEW i \in 1 .. Len(rga), NEW m \in 1 .. Len(f), s(i) = <<f[m]>>
      PROVE  Len(s(i)) = 1 /\ s(i)[1] = f[m]
  <2> HIDE DEF s
  <2> QED
    BY <1>4
<1> HIDE DEF s, picked
<1>5. ASSUME NEW m \in 1 .. Len(f) PROVE \E i \in 1 .. Len(rga) : Within(f[m], rga[i])
  <2>1. PICK i \in 1 .. Len(rga) : ~rga[i].deleted /\ s(i) = <<f[m]>>
    BY <1>1
  <2> QED
    BY <1>3, <1>4, <2>1
<1>6. ASSUME NEW y, y \in Spanned(f, Len(f)) PROVE y \in picked
  <2>1. PICK m \in 1 .. Len(f) : y \in SpanOf(f[m])
    BY <1>6 DEF Spanned
  <2>2. PICK i \in 1 .. Len(rga) : ~rga[i].deleted /\ s(i) = <<f[m]>>
    BY <1>1
  <2>3. Len(s(i)) = 1 /\ s(i)[1] = f[m]
    BY <1>4, <2>2
  <2>4. Within(f[m], rga[i]) /\ f[m] \in SpanType
    BY <1>2, <1>3, <2>2, <2>3
  <2> DEFINE c == rga[i]
             tss == f[m]
  <2>5. /\ c \in ChunkType /\ tss.sid \in Sids /\ tss.time \in Nat /\ tss.span \in Nat
        /\ tss.sid = c.id.sid /\ c.id.time <= tss.time /\ tss.time + tss.span <= NextTick(c)
    BY <2>4 DEF Within, SpanType
  <2>6. PICK t \in tss.time .. (tss.time + tss.span) - 1 : y = Ts(tss.sid, t)
    BY <2>1 DEF SpanOf, Span
  <2>7. /\ c.id.time \in Nat /\ c.span \in Nat /\ NextTick(c) = c.id.time + c.span
    BY <2>5, ChunkFields
  <2>8. y \in Timestamp
    <3>1. t \in Nat
      BY <2>5
    <3> QED
      BY <2>5, <2>6, <3>1, NamesStamps
  <2> DEFINE k == (t - c.id.time) + 1
  <2>9. k \in 1 .. c.span /\ c.id.time + k - 1 = t
    <3> DEFINE x == c.id.time
               u == tss.time
               v == tss.span
               w == NextTick(c)
               z == c.span
    <3>1. /\ x \in Nat /\ u \in Nat /\ v \in Nat /\ z \in Nat /\ w = x + z /\ x <= u /\ u + v <= w
          /\ t \in u .. (u + v) - 1
      BY <2>5, <2>7
    <3> HIDE DEF x, u, v, w, z
    <3>2. (t - x) + 1 \in 1 .. z /\ x + ((t - x) + 1) - 1 = t
      BY <3>1
    <3> QED
      BY <3>2 DEF x, z
  <2> HIDE DEF k
  <2>10. y = Ts(c.id.sid, c.id.time + k - 1)
    BY <2>5, <2>6, <2>9
  <2>11. pos < Shown(rga, i) + k /\ Shown(rga, i) + k <= pos + len
    BY <1>3, <2>1, <2>2, <2>3, <2>9, <2>10
  <2> DEFINE r == Shown(rga, i) + k
             p == Start(rga, i) + k
  <2>12. Shows(rga, r, p)
    BY <2>2, <2>9 DEF Shows
  <2>13. p \in 1 .. Len(Items(rga)) /\ Items(rga)[p].id = y
    <3>1. p \in 1 .. Len(Items(rga)) /\ Items(rga)[p] = [id |-> Ts(c.id.sid, c.id.time + k - 1), live |-> ~c.deleted]
      BY <2>9, ItemsOfChunk
    <3> QED
      BY <2>10, <3>1
  <2>14. r \in pos + 1 .. pos + len
    <3>1. Shown(rga, i) \in Nat /\ k \in Nat
      BY <2>2, <2>9, LiveSpans
    <3> QED
      BY <2>11, <3>1
  <2> QED
    BY <2>8, <2>12, <2>13, <2>14 DEF picked, Picked
<1>7. ASSUME NEW y, y \in picked PROVE y \in Spanned(f, Len(f))
  <2>1. PICK r \in pos + 1 .. pos + len, p \in 1 .. Len(Items(rga)) :
          Shows(rga, r, p) /\ Items(rga)[p].id = y
    BY <1>7 DEF picked, Picked
  <2>2. PICK i \in 1 .. Len(rga) : /\ ~rga[i].deleted
                                   /\ \E k \in 1 .. rga[i].span : r = Shown(rga, i) + k /\ p = Start(rga, i) + k
    BY <2>1 DEF Shows
  <2>3. PICK k \in 1 .. rga[i].span : r = Shown(rga, i) + k /\ p = Start(rga, i) + k
    BY <2>2
  <2>4. y = Ts(rga[i].id.sid, rga[i].id.time + k - 1)
    <3>1. Items(rga)[p] = [id |-> Ts(rga[i].id.sid, rga[i].id.time + k - 1), live |-> ~rga[i].deleted]
      BY <2>3, ItemsOfChunk
    <3> QED
      BY <2>1, <3>1
  <2>5. pos < Shown(rga, i) + k /\ Shown(rga, i) + k <= pos + len
    BY <2>3
  <2>6. Len(s(i)) = 1 /\ y \in SpanOf(s(i)[1])
    BY <1>3, <2>2, <2>4, <2>5
  <2>7. PICK m \in 1 .. Len(f) : f[m] = s(i)[1]
    BY <1>1, <2>6
  <2> QED
    BY <2>6, <2>7 DEF Spanned
<1> QED
  BY <1>1, <1>5, <1>6, <1>7 DEF f, picked

\* The places between two visible ones are those of the ranks between theirs.
LEMMA PickedIsBetween ==
  ASSUME NEW rga \in Seq(ChunkType), NEW pos \in Nat, NEW len \in Nat \ {0},
         pos + len <= Len(View(rga))
  PROVE  \E i, j \in 1 .. Len(Items(rga)) :
           /\ Items(rga)[i].live /\ Items(rga)[j].live /\ i <= j
           /\ Picked(rga, pos, len)
                = {Items(rga)[n].id : n \in {m \in i .. j : Items(rga)[m].live}}
<1> DEFINE items == Items(rga)
<1>1. Len(View(rga)) \in Nat /\ items \in Seq(ItemType) /\ Len(items) \in Nat
  <2>1. View(rga) \in Seq(Timestamp)
    BY LivesAreLists, FlattenIsSeq
  <2> QED
    BY <2>1, ItemsIsList, LenProperties
<1>2. pos + 1 \in 1 .. Len(View(rga)) /\ pos + len \in 1 .. Len(View(rga)) /\ pos + 1 <= pos + len
  BY <1>1
<1>3. PICK i : Shows(rga, pos + 1, i)
  BY <1>2, EveryRankShows
<1>4. PICK j : Shows(rga, pos + len, j)
  BY <1>2, EveryRankShows
<1>5. \A r, p : Shows(rga, r, p) => /\ p \in 1 .. Len(items) /\ r \in 1 .. Len(View(rga))
                                    /\ items[p].live = TRUE /\ items[p].id \in Timestamp
  <2> SUFFICES ASSUME NEW r, NEW p, Shows(rga, r, p)
               PROVE  /\ p \in 1 .. Len(items) /\ r \in 1 .. Len(View(rga))
                      /\ items[p].live = TRUE /\ items[p].id \in Timestamp
    OBVIOUS
  <2>1. /\ p \in 1 .. Len(items) /\ r \in 1 .. Len(View(rga))
        /\ items[p] = [id |-> View(rga)[r], live |-> TRUE]
    BY ShowsFacts
  <2>2. items[p] \in ItemType
    BY <1>1, <2>1
  <2> QED
    BY <2>1, <2>2 DEF ItemType
<1>6. i \in 1 .. Len(items) /\ j \in 1 .. Len(items) /\ items[i].live = TRUE /\ items[j].live = TRUE
  BY <1>3, <1>4, <1>5
<1>7. i <= j
  BY <1>2, <1>3, <1>4, ShowsInOrder
<1> HIDE DEF items
<1>8. \A r, p : Shows(rga, r, p) => (r \in pos + 1 .. pos + len <=> p \in i .. j)
  <2> SUFFICES ASSUME NEW r, NEW p, Shows(rga, r, p)
               PROVE  r \in pos + 1 .. pos + len <=> p \in i .. j
    OBVIOUS
  <2>1. (pos + 1 <= r <=> i <= p) /\ (r <= pos + len <=> p <= j)
    BY <1>3, <1>4, ShowsInOrder
  <2>2. r \in 1 .. Len(View(rga)) /\ p \in 1 .. Len(items)
    BY <1>5
  <2> QED
    BY <1>1, <1>6, <2>1, <2>2
<1>9. ASSUME NEW y, y \in Picked(rga, pos, len) PROVE \E n \in i .. j : items[n].live /\ y = items[n].id
  <2>1. PICK r \in pos + 1 .. pos + len, p \in 1 .. Len(Items(rga)) :
          Shows(rga, r, p) /\ Items(rga)[p].id = y
    BY <1>9 DEF Picked
  <2> QED
    BY <1>5, <1>8, <2>1 DEF items
<1>10. ASSUME NEW n \in i .. j, items[n].live PROVE items[n].id \in Picked(rga, pos, len)
  <2>1. n \in 1 .. Len(items)
    BY <1>6
  <2>2. PICK r : Shows(rga, r, n)
    BY <1>10, <2>1, EveryLivePlaceShows DEF items
  <2>3. r \in pos + 1 .. pos + len /\ items[n].id \in Timestamp
    BY <1>5, <1>8, <2>2
  <2> QED
    BY <2>1, <2>2, <2>3 DEF Picked, items
<1> QED
  BY <1>6, <1>7, <1>9, <1>10 DEF items

\* Good links lead to the next item of the run, further back.
LeadOn(rga, i, j) ==
  LET c == rga[i]
      d == rga[j]
  IN  /\ c.span > 0
      /\ i # j => ~Covers(c, d.id)
      /\ c.link # NoLink /\ d.id = c.link => i < j /\ c.link = Ts(c.id.sid, NextTick(c))
      /\ c.link # NoLink => StartsAt(rga, c.link) # {}

\* A good link leads to the chunk that goes on with the run, further back.
LEMMA LinksLeadOn ==
  ASSUME NEW rga \in Seq(ChunkType), NEW ref, ChunksPlaced(rga, ref), LinksOk(rga, IdsOf(rga), ref),
         NEW i \in DOMAIN rga, NEW j \in DOMAIN rga
  PROVE  LeadOn(rga, i, j)
<1> DEFINE c == rga[i]
           d == rga[j]
<1>1. /\ i \in 1 .. Len(rga) /\ j \in 1 .. Len(rga) /\ c \in ChunkType /\ d \in ChunkType
      /\ c \in Parts(rga) /\ DOMAIN rga = 1 .. Len(rga)
  <2>1. i \in 1 .. Len(rga) /\ j \in 1 .. Len(rga) /\ DOMAIN rga = 1 .. Len(rga)
    OBVIOUS
  <2> QED
    BY <2>1, PartsOfList
<1>2. /\ c.span \in Nat /\ c.span > 0 /\ d.id \in Timestamp /\ Covers(d, d.id)
      /\ NextId(c) \in Timestamp
  BY <1>1, ChunkFields, FirstCovered
<1>3. i # j => ~Covers(c, d.id)
  BY <1>1, <1>2 DEF ChunksPlaced
<1>4. ASSUME c.link # NoLink
      PROVE  /\ StartsAt(rga, c.link) # {}
             /\ d.id = c.link => i < j /\ c.link = Ts(c.id.sid, NextTick(c))
  <2>1. c.link = NextId(c) /\ Follows(c, IdsOf(rga), ref)
    BY <1>1, <1>4 DEF LinksOk, LinkOk
  <2>2. PICK k \in i + 1 .. Len(rga) : rga[k].id = NextId(c)
    BY <1>1, <2>1, NextIsBehind
  <2>3. k \in DOMAIN rga /\ i < k
    BY <1>1, <2>2
  <2>4. StartsAt(rga, c.link) # {}
    BY <2>1, <2>2, <2>3 DEF StartsAt
  <2>5. ASSUME d.id = c.link PROVE i < j
    <3>1. rga[k] \in ChunkType
      BY <1>1, <2>3
    <3>2. Covers(rga[k], NextId(c)) /\ Covers(d, NextId(c))
      BY <1>2, <2>1, <2>2, <2>5, <3>1, FirstCovered
    <3>3. k = j
      BY <1>2, <2>3, <3>2 DEF ChunksPlaced
    <3> QED
      BY <2>3, <3>3
  <2> QED
    BY <2>1, <2>4, <2>5 DEF NextId
<1> QED
  BY <1>2, <1>3, <1>4 DEF LeadOn
=============================================================================
