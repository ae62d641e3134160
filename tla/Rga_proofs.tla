----------------------------- MODULE Rga_proofs -----------------------------
(***************************************************************************)
(* Proofs about the operators of Rga: what an insertion and a deletion do  *)
(* to the items of an array of chunks, and what they keep of its links.    *)
(***************************************************************************)
EXTENDS Rga, TextOps, Facts

ChunkType ==
  [id : Timestamp, span : Nat \ {0}, deleted : BOOLEAN, link : Timestamp \cup {NoLink}]

ItemType == [id : Timestamp, live : BOOLEAN]

\* The fields of a chunk, and the tick after it.
LEMMA ChunkFields ==
  ASSUME NEW c \in ChunkType
  PROVE  /\ c.id \in Timestamp /\ c.id.sid \in Sids /\ c.id.sid \in Nat /\ c.id.time \in Nat
         /\ c.span \in Nat /\ c.span > 0 /\ c.deleted \in BOOLEAN
         /\ NextTick(c) = c.id.time + c.span /\ NextTick(c) \in Nat
         /\ c = [id |-> c.id, span |-> c.span, deleted |-> c.deleted, link |-> c.link]
<1>1. c.id \in Timestamp /\ c.span \in Nat \ {0} /\ c.deleted \in BOOLEAN
  BY DEF ChunkType
<1>2. c.id.sid \in Sids /\ c.id.time \in Nat
  BY <1>1 DEF Timestamp
<1>3. c.id.sid \in Nat
  BY <1>2, SidsAssumption
<1>4. c = [id |-> c.id, span |-> c.span, deleted |-> c.deleted, link |-> c.link]
  BY DEF ChunkType
<1> QED
  BY <1>1, <1>2, <1>3, <1>4 DEF NextTick

\* A pair of a session and a tick is a timestamp, and not the missing link.
LEMMA NamesStamps ==
  ASSUME NEW sid \in Sids, NEW n \in Nat
  PROVE  /\ Ts(sid, n) \in Timestamp /\ Ts(sid, n).sid = sid /\ Ts(sid, n).time = n
         /\ Ts(sid, n) # NoLink
BY SidsAssumption DEF Ts, Timestamp, NoLink, SystemSid

\* A timestamp is the pair of its fields, and neither of the reserved ones.
LEMMA StampIs ==
  ASSUME NEW t \in Timestamp
  PROVE  /\ t = Ts(t.sid, t.time) /\ t.sid \in Sids /\ t.time \in Nat /\ t.sid \in Nat
         /\ t # NoLink /\ t # Origin
<1>1. t.sid \in Sids /\ t.time \in Nat /\ t = [sid |-> t.sid, time |-> t.time]
  BY DEF Timestamp
<1>2. t.sid \in Nat /\ t.sid # 0
  BY <1>1, SidsAssumption
<1> QED
  BY <1>1, <1>2 DEF Ts, NoLink, SystemSid, Origin

\* The items of a chunk: its consecutive timestamps, all shown or all hidden.
LEMMA RunFacts ==
  ASSUME NEW c \in ChunkType
  PROVE  /\ RunOf(c) \in Seq(ItemType)
         /\ Len(RunOf(c)) = c.span
         /\ \A k \in 1 .. c.span :
              /\ RunOf(c)[k] = [id |-> Ts(c.id.sid, c.id.time + k - 1), live |-> ~c.deleted]
              /\ c.id.time + k - 1 \in Nat
              /\ Ts(c.id.sid, c.id.time + k - 1) \in Timestamp
<1>1. \A k \in 1 .. c.span : c.id.time + k - 1 \in Nat /\ Ts(c.id.sid, c.id.time + k - 1) \in Timestamp
  <2> SUFFICES ASSUME NEW k \in 1 .. c.span
               PROVE  c.id.time + k - 1 \in Nat /\ Ts(c.id.sid, c.id.time + k - 1) \in Timestamp
    OBVIOUS
  <2>1. c.id.time + k - 1 \in Nat
    BY ChunkFields
  <2> QED
    BY <2>1, ChunkFields, NamesStamps
<1>2. \A k \in 1 .. c.span :
        [id |-> Ts(c.id.sid, c.id.time + k - 1), live |-> ~c.deleted] \in ItemType
  BY <1>1 DEF ItemType
<1>3. c.span \in Nat
  BY ChunkFields
<1>4. RunOf(c) \in [1 .. c.span -> ItemType]
  BY <1>2 DEF RunOf
<1>5. RunOf(c) \in Seq(ItemType) /\ Len(RunOf(c)) = c.span
  <2> DEFINE run == RunOf(c)
  <2>1. run \in [1 .. c.span -> ItemType]
    BY <1>4
  <2> HIDE DEF run
  <2>2. run \in Seq(ItemType) /\ Len(run) = c.span
    BY <1>3, <2>1
  <2> QED
    BY <2>2 DEF run
<1> QED
  BY <1>1, <1>5 DEF RunOf

Runs(rga) == [i \in DOMAIN rga |-> RunOf(rga[i])]

\* The runs of all chunks, one behind the other, are the items.
LEMMA RunsAreLists ==
  ASSUME NEW rga \in Seq(ChunkType)
  PROVE  /\ Runs(rga) \in Seq(Seq(ItemType))
         /\ Len(Runs(rga)) = Len(rga)
         /\ Items(rga) = FlattenSeq(Runs(rga))
<1>1. \A i \in 1 .. Len(rga) : RunOf(rga[i]) \in Seq(ItemType)
  BY RunFacts
<1>2. DOMAIN rga = 1 .. Len(rga) /\ Len(rga) \in Nat
  OBVIOUS
<1>3. Runs(rga) \in [1 .. Len(rga) -> Seq(ItemType)]
  BY <1>1, <1>2 DEF Runs
<1>4. Items(rga) = FlattenSeq(Runs(rga))
  BY DEF Items, Runs
<1> DEFINE runs == Runs(rga)
<1> HIDE DEF runs
<1>5. runs \in Seq(Seq(ItemType)) /\ Len(runs) = Len(rga)
  BY <1>2, <1>3 DEF runs
<1> QED
  BY <1>4, <1>5 DEF runs

\* Items yields a list of items.
LEMMA ItemsIsList ==
  ASSUME NEW rga \in Seq(ChunkType)
  PROVE  Items(rga) \in Seq(ItemType) /\ Len(Items(rga)) \in Nat
<1>1. Items(rga) \in Seq(ItemType)
  BY RunsAreLists, FlattenIsSeq
<1> QED
  BY <1>1, LenProperties

\* No chunk, no item.
LEMMA ItemsOfNone == Items(<< >>) = << >>
BY DEF Items, FlattenSeq

\* The items of one chunk.
LEMMA ItemsOfOne ==
  ASSUME NEW c \in ChunkType
  PROVE  Items(<<c>>) = RunOf(c)
<1> DEFINE run == RunOf(c)
           none == << >>
<1>1. Runs(<<c>>) = Append(none, run)
  BY DEF Runs
<1>2. run \in Seq(ItemType) /\ none \in Seq(Seq(ItemType)) /\ <<c>> \in Seq(ChunkType)
  BY RunFacts
<1>3. FlattenSeq(none) = << >>
  BY DEF FlattenSeq
<1> HIDE DEF run
<1>4. FlattenSeq(Append(none, run)) = << >> \o run
  <2> HIDE DEF none
  <2> QED
    BY <1>2, <1>3, FlattenOfAppend
<1>5. << >> \o run = run
  BY <1>2, ConcatEmptySeq
<1>6. Items(<<c>>) = FlattenSeq(Runs(<<c>>))
  BY <1>2, RunsAreLists
<1> QED
  BY <1>1, <1>4, <1>5, <1>6 DEF run

\* The items of two lists of chunks follow each other.
LEMMA ItemsOfConcat ==
  ASSUME NEW a \in Seq(ChunkType), NEW b \in Seq(ChunkType)
  PROVE  /\ a \o b \in Seq(ChunkType)
         /\ Items(a \o b) = Items(a) \o Items(b)
<1> DEFINE ab == a \o b
<1>1. /\ ab \in Seq(ChunkType) /\ Len(ab) = Len(a) + Len(b)
      /\ \A i \in 1 .. Len(a) + Len(b) : ab[i] = IF i <= Len(a) THEN a[i] ELSE b[i - Len(a)]
  BY ConcatProperties
<1>2. /\ Len(a) \in Nat /\ Len(b) \in Nat
      /\ DOMAIN a = 1 .. Len(a) /\ DOMAIN b = 1 .. Len(b)
  OBVIOUS
<1> DEFINE ra == Runs(a)
           rb == Runs(b)
           rab == Runs(ab)
<1>3. /\ ra \in Seq(Seq(ItemType)) /\ Len(ra) = Len(a)
      /\ rb \in Seq(Seq(ItemType)) /\ Len(rb) = Len(b)
  BY RunsAreLists
<1>4. /\ \A i \in 1 .. Len(a) : ra[i] = RunOf(a[i])
      /\ \A i \in 1 .. Len(b) : rb[i] = RunOf(b[i])
  BY <1>2 DEF Runs
<1> HIDE DEF ab, ra, rb
<1>5. DOMAIN ab = 1 .. Len(a) + Len(b)
  BY <1>1, <1>2
<1>6. /\ rab \in Seq(Seq(ItemType)) /\ Len(rab) = Len(a) + Len(b)
      /\ \A i \in 1 .. Len(a) + Len(b) : rab[i] = RunOf(ab[i])
  BY <1>1, <1>5, RunsAreLists DEF Runs
<1> HIDE DEF rab
<1>7. rab = ra \o rb
  <2> DEFINE both == ra \o rb
  <2>1. /\ both \in Seq(Seq(ItemType)) /\ Len(both) = Len(a) + Len(b)
        /\ \A i \in 1 .. Len(a) + Len(b) : both[i] = IF i <= Len(a) THEN ra[i] ELSE rb[i - Len(a)]
    <3>1. /\ both \in Seq(Seq(ItemType)) /\ Len(both) = Len(ra) + Len(rb)
          /\ \A i \in 1 .. Len(ra) + Len(rb) : both[i] = IF i <= Len(ra) THEN ra[i] ELSE rb[i - Len(ra)]
      <4> DEFINE lists == Seq(ItemType)
      <4>1. ra \in Seq(lists) /\ rb \in Seq(lists)
        BY <1>3
      <4> HIDE DEF lists
      <4>2. /\ both \in Seq(lists) /\ Len(both) = Len(ra) + Len(rb)
            /\ \A i \in 1 .. Len(ra) + Len(rb) : both[i] = IF i <= Len(ra) THEN ra[i] ELSE rb[i - Len(ra)]
        BY <4>1, ConcatProperties
      <4> QED
        BY <4>2 DEF lists
    <3> QED
      BY <1>3, <3>1
  <2> HIDE DEF both
  <2>2. ASSUME NEW i \in 1 .. Len(a) + Len(b)
        PROVE  rab[i] = both[i]
    <3>1. CASE i <= Len(a)
      <4>1. i \in 1 .. Len(a)
        BY <1>2, <3>1
      <4> QED
        BY <1>1, <1>4, <1>6, <2>1, <3>1, <4>1
    <3>2. CASE ~(i <= Len(a))
      <4>1. i - Len(a) \in 1 .. Len(b)
        BY <1>2, <3>2
      <4> QED
        BY <1>1, <1>4, <1>6, <2>1, <3>2, <4>1
    <3> QED
      BY <3>1, <3>2
  <2>3. rab = both
    BY <1>6, <2>1, <2>2, SeqEqual
  <2> QED
    BY <2>3 DEF both
<1>8. Items(ab) = FlattenSeq(rab) /\ Items(a) = FlattenSeq(ra) /\ Items(b) = FlattenSeq(rb)
  BY <1>1, RunsAreLists DEF ra, rb, rab
<1>9. FlattenSeq(ra \o rb) = FlattenSeq(ra) \o FlattenSeq(rb)
  BY <1>3, FlattenOfConcat
<1> QED
  BY <1>1, <1>7, <1>8, <1>9 DEF ab
-----------------------------------------------------------------------------
\* A list is what stands up to a place, and then the rest.
LEMMA Halves ==
  ASSUME NEW S, NEW s \in Seq(S), NEW i \in 0 .. Len(s)
  PROVE  /\ SubSeq(s, 1, i) \in Seq(S) /\ SubSeq(s, i + 1, Len(s)) \in Seq(S)
         /\ Len(SubSeq(s, 1, i)) = i /\ Len(SubSeq(s, i + 1, Len(s))) = Len(s) - i
         /\ \A k \in 1 .. i : SubSeq(s, 1, i)[k] = s[k]
         /\ \A k \in 1 .. Len(s) - i : SubSeq(s, i + 1, Len(s))[k] = s[i + k]
         /\ s = SubSeq(s, 1, i) \o SubSeq(s, i + 1, Len(s))
<1> DEFINE a == SubSeq(s, 1, i)
           b == SubSeq(s, i + 1, Len(s))
<1>1. Len(s) \in Nat /\ i \in Nat /\ i <= Len(s) /\ \A k \in 1 .. Len(s) : s[k] \in S
  OBVIOUS
<1>2. /\ a \in Seq(S) /\ Len(a) = i /\ \A k \in 1 .. i : a[k] = s[k]
  <2>1. \A k \in 1 .. i : s[k] \in S
    BY <1>1
  <2>2. /\ a \in Seq(S) /\ Len(a) = (IF 1 <= i THEN i - 1 + 1 ELSE 0)
        /\ \A k \in 1 .. i - 1 + 1 : a[k] = s[1 + k - 1]
    BY <1>1, <2>1, SubSeqProperties
  <2> HIDE DEF a
  <2>3. ASSUME NEW k \in 1 .. i PROVE a[k] = s[k]
    <3>1. k \in 1 .. i - 1 + 1 /\ 1 + k - 1 = k
      BY <1>1
    <3> QED
      BY <2>2, <3>1
  <2>4. Len(a) = i
    BY <1>1, <2>2
  <2> QED
    BY <2>2, <2>3, <2>4
<1>3. /\ b \in Seq(S) /\ Len(b) = Len(s) - i /\ \A k \in 1 .. Len(s) - i : b[k] = s[i + k]
  <2>1. \A k \in i + 1 .. Len(s) : s[k] \in S
    BY <1>1
  <2>2. /\ b \in Seq(S) /\ Len(b) = (IF i + 1 <= Len(s) THEN Len(s) - (i + 1) + 1 ELSE 0)
        /\ \A k \in 1 .. Len(s) - (i + 1) + 1 : b[k] = s[i + 1 + k - 1]
    BY <1>1, <2>1, SubSeqProperties
  <2> HIDE DEF b
  <2>3. ASSUME NEW k \in 1 .. Len(s) - i PROVE b[k] = s[i + k]
    <3>1. k \in 1 .. Len(s) - (i + 1) + 1 /\ i + 1 + k - 1 = i + k
      BY <1>1
    <3> QED
      BY <2>2, <3>1
  <2>4. Len(b) = Len(s) - i
    BY <1>1, <2>2
  <2> QED
    BY <2>2, <2>3, <2>4
<1>4. s = a \o b
  <2> DEFINE ab == a \o b
  <2> HIDE DEF a, b
  <2>1. /\ ab \in Seq(S) /\ Len(ab) = Len(a) + Len(b)
        /\ \A k \in 1 .. Len(a) + Len(b) : ab[k] = IF k <= Len(a) THEN a[k] ELSE b[k - Len(a)]
    BY <1>2, <1>3, ConcatProperties
  <2> HIDE DEF ab
  <2>2. Len(ab) = Len(s)
    BY <1>1, <1>2, <1>3, <2>1
  <2>3. ASSUME NEW k \in 1 .. Len(s)
        PROVE  s[k] = ab[k]
    <3>1. CASE k <= i
      <4>1. k \in 1 .. i /\ k \in 1 .. Len(a) + Len(b) /\ k <= Len(a)
        BY <1>1, <1>2, <1>3, <3>1
      <4> QED
        BY <1>2, <2>1, <4>1
    <3>2. CASE k > i
      <4>1. k - i \in 1 .. Len(s) - i /\ k \in 1 .. Len(a) + Len(b) /\ ~(k <= Len(a))
            /\ k - Len(a) = k - i /\ i + (k - i) = k
        BY <1>1, <1>2, <1>3, <3>2
      <4> QED
        BY <1>3, <2>1, <4>1
    <3> QED
      BY <1>1, <3>1, <3>2
  <2>4. s = ab
    BY <2>1, <2>2, <2>3, SeqEqual
  <2> QED
    BY <2>4 DEF ab
<1> QED
  BY <1>2, <1>3, <1>4

\* The chunks up to a place, and those behind it.
Upto(rga, i) == SubSeq(rga, 1, i)
Behind(rga, i) == SubSeq(rga, i + 1, Len(rga))

\* The chunks up to a place and those behind it, and their items.
LEMMA HalvesOfChunks ==
  ASSUME NEW rga \in Seq(ChunkType), NEW i \in 0 .. Len(rga)
  PROVE  /\ Upto(rga, i) \in Seq(ChunkType) /\ Behind(rga, i) \in Seq(ChunkType)
         /\ Len(Upto(rga, i)) = i /\ Len(Behind(rga, i)) = Len(rga) - i
         /\ \A k \in 1 .. i : Upto(rga, i)[k] = rga[k]
         /\ \A k \in 1 .. Len(rga) - i : Behind(rga, i)[k] = rga[i + k]
         /\ rga = Upto(rga, i) \o Behind(rga, i)
         /\ Items(rga) = Items(Upto(rga, i)) \o Items(Behind(rga, i))
<1>1. /\ Upto(rga, i) \in Seq(ChunkType) /\ Behind(rga, i) \in Seq(ChunkType)
      /\ Len(Upto(rga, i)) = i /\ Len(Behind(rga, i)) = Len(rga) - i
      /\ \A k \in 1 .. i : Upto(rga, i)[k] = rga[k]
      /\ \A k \in 1 .. Len(rga) - i : Behind(rga, i)[k] = rga[i + k]
      /\ rga = Upto(rga, i) \o Behind(rga, i)
  BY Halves DEF Upto, Behind
<1> QED
  BY <1>1, ItemsOfConcat

\* One chunk more.
LEMMA OneMore ==
  ASSUME NEW rga \in Seq(ChunkType), NEW i \in 1 .. Len(rga)
  PROVE  /\ Upto(rga, i) = Upto(rga, i - 1) \o <<rga[i]>>
         /\ Items(Upto(rga, i)) = Items(Upto(rga, i - 1)) \o RunOf(rga[i])
<1>1. i - 1 \in 0 .. Len(rga) /\ i \in 0 .. Len(rga) /\ Len(rga) \in Nat /\ rga[i] \in ChunkType
  OBVIOUS
<1> DEFINE a == Upto(rga, i - 1)
           b == Upto(rga, i)
           one == <<rga[i]>>
           ab == a \o one
<1>2. /\ a \in Seq(ChunkType) /\ Len(a) = i - 1 /\ \A k \in 1 .. i - 1 : a[k] = rga[k]
      /\ b \in Seq(ChunkType) /\ Len(b) = i /\ \A k \in 1 .. i : b[k] = rga[k]
  BY <1>1, HalvesOfChunks
<1>3. one \in Seq(ChunkType) /\ Len(one) = 1 /\ one[1] = rga[i]
  BY <1>1
<1> HIDE DEF a, b, one
<1>4. /\ ab \in Seq(ChunkType) /\ Len(ab) = Len(a) + Len(one)
      /\ \A k \in 1 .. Len(a) + Len(one) : ab[k] = IF k <= Len(a) THEN a[k] ELSE one[k - Len(a)]
  BY <1>2, <1>3, ConcatProperties
<1> HIDE DEF ab
<1>5. Len(ab) = i /\ Len(a) + Len(one) = i
  BY <1>1, <1>2, <1>3, <1>4
<1>6. ASSUME NEW k \in 1 .. i PROVE b[k] = ab[k]
  <2>1. CASE k = i
    <3>1. ~(i <= Len(a)) /\ i - Len(a) = 1
      BY <1>1, <1>2
    <3> QED
      BY <1>2, <1>3, <1>4, <1>5, <2>1, <3>1
  <2>2. CASE k # i
    <3>1. k \in 1 .. i - 1 /\ k <= Len(a)
      BY <1>1, <1>2, <2>2
    <3> QED
      BY <1>2, <1>4, <1>5, <3>1
  <2> QED
    BY <2>1, <2>2
<1>7. b = ab
  BY <1>2, <1>4, <1>5, <1>6, SeqEqual
<1>8. Items(a \o one) = Items(a) \o Items(one)
  BY <1>2, <1>3, ItemsOfConcat
<1>9. Items(one) = RunOf(rga[i])
  BY <1>1, ItemsOfOne DEF one
<1> QED
  BY <1>7, <1>8, <1>9 DEF ab, a, b, one

\* A chunk replaced by pieces: the items on either side stay.
LEMMA Around ==
  ASSUME NEW rga \in Seq(ChunkType), NEW i \in 1 .. Len(rga), NEW pieces \in Seq(ChunkType)
  PROVE  /\ Replace(rga, i, pieces) = (Upto(rga, i - 1) \o pieces) \o Behind(rga, i)
         /\ Replace(rga, i, pieces) \in Seq(ChunkType)
         /\ Upto(rga, i - 1) \o pieces \in Seq(ChunkType)
         /\ Items(Replace(rga, i, pieces))
              = (Items(Upto(rga, i - 1)) \o Items(pieces)) \o Items(Behind(rga, i))
         /\ Items(rga) = (Items(Upto(rga, i - 1)) \o RunOf(rga[i])) \o Items(Behind(rga, i))
<1>1. i - 1 \in 0 .. Len(rga) /\ i \in 0 .. Len(rga)
  OBVIOUS
<1> DEFINE a == Upto(rga, i - 1)
           b == Behind(rga, i)
           ap == a \o pieces
<1>2. a \in Seq(ChunkType) /\ b \in Seq(ChunkType)
  BY <1>1, HalvesOfChunks
<1>3. Replace(rga, i, pieces) = ap \o b
  BY DEF Replace, Upto, Behind
<1>4. Items(rga) = Items(Upto(rga, i)) \o Items(b)
  BY <1>1, HalvesOfChunks
<1>5. Items(Upto(rga, i)) = Items(a) \o RunOf(rga[i])
  BY OneMore
<1> HIDE DEF a, b
<1>6. ap \in Seq(ChunkType) /\ Items(ap) = Items(a) \o Items(pieces)
  BY <1>2, ItemsOfConcat
<1> HIDE DEF ap
<1>7. ap \o b \in Seq(ChunkType) /\ Items(ap \o b) = Items(ap) \o Items(b)
  BY <1>2, <1>6, ItemsOfConcat
<1> QED
  BY <1>3, <1>4, <1>5, <1>6, <1>7 DEF a, b, ap

\* The places in front of the items of a chunk.
Start(rga, i) == Len(Items(Upto(rga, i - 1)))

\* Where the items of a chunk start among all items.
LEMMA StartFacts ==
  ASSUME NEW rga \in Seq(ChunkType)
  PROVE  /\ Start(rga, 1) = 0
         /\ Start(rga, Len(rga) + 1) = Len(Items(rga))
         /\ \A i \in 1 .. Len(rga) + 1 : Start(rga, i) \in Nat
         /\ \A i \in 1 .. Len(rga) : Start(rga, i + 1) = Start(rga, i) + rga[i].span
<1>1. Len(rga) \in Nat
  OBVIOUS
<1>2. Start(rga, 1) = 0
  <2>1. Upto(rga, 1 - 1) = << >>
    BY SubSeqEmpty DEF Upto
  <2> QED
    BY <2>1, ItemsOfNone DEF Start
<1>3. Start(rga, Len(rga) + 1) = Len(Items(rga))
  <2>1. Upto(rga, Len(rga)) = rga
    BY SubSeqFull DEF Upto
  <2>2. Len(rga) + 1 - 1 = Len(rga)
    BY <1>1
  <2> QED
    BY <2>1, <2>2 DEF Start
<1>4. ASSUME NEW i \in 1 .. Len(rga) + 1
      PROVE  Start(rga, i) \in Nat
  <2>1. i - 1 \in 0 .. Len(rga)
    BY <1>1
  <2>2. Upto(rga, i - 1) \in Seq(ChunkType)
    BY <2>1, HalvesOfChunks
  <2> QED
    BY <2>2, ItemsIsList DEF Start
<1>5. ASSUME NEW i \in 1 .. Len(rga)
      PROVE  Start(rga, i + 1) = Start(rga, i) + rga[i].span
  <2> DEFINE a == Items(Upto(rga, i - 1))
             run == RunOf(rga[i])
  <2>1. i - 1 \in 0 .. Len(rga) /\ i + 1 - 1 = i /\ rga[i] \in ChunkType
    BY <1>1
  <2>2. Upto(rga, i - 1) \in Seq(ChunkType)
    BY <2>1, HalvesOfChunks
  <2>3. a \in Seq(ItemType) /\ run \in Seq(ItemType) /\ Len(run) = rga[i].span
    BY <2>1, <2>2, ItemsIsList, RunFacts
  <2>4. Items(Upto(rga, i)) = a \o run
    BY OneMore
  <2> HIDE DEF a, run
  <2>5. Len(a \o run) = Len(a) + Len(run)
    BY <2>3, ConcatProperties
  <2> QED
    BY <2>1, <2>3, <2>4, <2>5 DEF Start, a
<1> QED
  BY <1>2, <1>3, <1>4, <1>5

\* Chunks further back start further back.
LEMMA StartGrows ==
  ASSUME NEW rga \in Seq(ChunkType), NEW i \in 1 .. Len(rga), NEW j \in i + 1 .. Len(rga) + 1
  PROVE  Start(rga, i) + rga[i].span <= Start(rga, j)
<1>1. Len(rga) \in Nat /\ i \in Nat /\ i >= 1 /\ j \in Nat
  OBVIOUS
<1> DEFINE bound == Start(rga, i) + rga[i].span
           bad == {n \in i + 1 .. Len(rga) + 1 : ~(bound <= Start(rga, n))}
<1>2. bad = {}
  <2> SUFFICES ASSUME bad # {} PROVE FALSE
    OBVIOUS
  <2>1. bad \subseteq Nat
    BY <1>1
  <2>2. PICK m \in bad : \A n \in bad : m <= n
    <3> HIDE DEF bad
    <3> QED
      BY <2>1, LeastNumber
  <2>3. m \in i + 1 .. Len(rga) + 1 /\ ~(bound <= Start(rga, m))
    BY <2>2
  <2>4. /\ Start(rga, i) \in Nat /\ rga[i].span \in Nat /\ Start(rga, i + 1) = bound
        /\ i + 1 \in 1 .. Len(rga) + 1
    <3>1. rga[i] \in ChunkType /\ i \in 1 .. Len(rga) + 1 /\ i + 1 \in 1 .. Len(rga) + 1
      BY <1>1
    <3>2. rga[i].span \in Nat
      BY <3>1, ChunkFields
    <3> QED
      BY <3>1, <3>2, StartFacts
  <2>5. m # i + 1
    BY <2>3, <2>4
  <2>6. m - 1 \in i + 1 .. Len(rga) + 1 /\ m - 1 \in 1 .. Len(rga) /\ m - 1 + 1 = m
    BY <1>1, <2>3, <2>5
  <2>7. bound <= Start(rga, m - 1)
    <3>1. m - 1 \notin bad
      BY <2>2, <2>3, <1>1
    <3> QED
      BY <2>6, <3>1
  <2>8. /\ Start(rga, m) = Start(rga, m - 1) + rga[m - 1].span
        /\ Start(rga, m - 1) \in Nat /\ rga[m - 1].span \in Nat
    <3>1. Start(rga, m - 1 + 1) = Start(rga, m - 1) + rga[m - 1].span
      BY <2>6, StartFacts
    <3>2. m - 1 \in 1 .. Len(rga) + 1 /\ rga[m - 1] \in ChunkType
      BY <1>1, <2>6
    <3> QED
      BY <2>6, <3>1, <3>2, StartFacts, ChunkFields
  <2>9. bound \in Nat
    BY <2>4
  <2> HIDE DEF bound
  <2> QED
    BY <2>3, <2>7, <2>8, <2>9
<1> QED
  BY <1>2

\* Where the items of a chunk are, and that every item is one of a chunk.
LEMMA ItemsOfChunk ==
  ASSUME NEW rga \in Seq(ChunkType), NEW i \in 1 .. Len(rga), NEW k \in 1 .. rga[i].span
  PROVE  /\ Start(rga, i) + k \in 1 .. Len(Items(rga))
         /\ Items(rga)[Start(rga, i) + k]
              = [id |-> Ts(rga[i].id.sid, rga[i].id.time + k - 1), live |-> ~rga[i].deleted]
<1> DEFINE a == Items(Upto(rga, i - 1))
           run == RunOf(rga[i])
           rest == Items(Behind(rga, i))
           front == a \o run
           p == Start(rga, i) + k
<1>1. /\ Len(rga) \in Nat /\ i - 1 \in 0 .. Len(rga) /\ i \in 0 .. Len(rga)
      /\ rga[i] \in ChunkType
  OBVIOUS
<1>2. Upto(rga, i - 1) \in Seq(ChunkType) /\ Behind(rga, i) \in Seq(ChunkType)
  BY <1>1, HalvesOfChunks
<1>3. /\ a \in Seq(ItemType) /\ run \in Seq(ItemType) /\ rest \in Seq(ItemType)
      /\ Len(a) \in Nat /\ Len(rest) \in Nat
  BY <1>1, <1>2, ItemsIsList, RunFacts
<1>4. /\ Len(run) = rga[i].span /\ rga[i].span \in Nat
      /\ run[k] = [id |-> Ts(rga[i].id.sid, rga[i].id.time + k - 1), live |-> ~rga[i].deleted]
  BY <1>1, RunFacts, ChunkFields
<1>5. Items(rga) = front \o rest
  <2>1. Items(rga) = Items(Upto(rga, i)) \o rest
    BY <1>1, HalvesOfChunks
  <2>2. Items(Upto(rga, i)) = front
    BY OneMore
  <2> QED
    BY <2>1, <2>2
<1>6. Start(rga, i) = Len(a)
  BY DEF Start
<1> HIDE DEF a, run, rest
<1>7. /\ front \in Seq(ItemType) /\ Len(front) = Len(a) + Len(run)
      /\ \A n \in 1 .. Len(a) + Len(run) : front[n] = IF n <= Len(a) THEN a[n] ELSE run[n - Len(a)]
  BY <1>3, ConcatProperties
<1> HIDE DEF front
<1>8. /\ Len(front \o rest) = Len(front) + Len(rest)
      /\ \A n \in 1 .. Len(front) + Len(rest) :
           (front \o rest)[n] = IF n <= Len(front) THEN front[n] ELSE rest[n - Len(front)]
  <2> DEFINE all == front \o rest
  <2>1. front \in Seq(ItemType) /\ rest \in Seq(ItemType)
    BY <1>3, <1>7
  <2>2. /\ Len(all) = Len(front) + Len(rest)
        /\ \A n \in 1 .. Len(front) + Len(rest) :
             all[n] = IF n <= Len(front) THEN front[n] ELSE rest[n - Len(front)]
    BY <2>1, ConcatProperties
  <2> QED
    BY <2>2
<1>9. /\ p \in 1 .. Len(a) + Len(run) /\ ~(p <= Len(a)) /\ p - Len(a) = k
      /\ p \in 1 .. Len(front) + Len(rest) /\ p <= Len(front)
  BY <1>3, <1>4, <1>6, <1>7, SMTT(30)
<1>10. (front \o rest)[p] = run[k] /\ p \in 1 .. Len(front \o rest)
  BY <1>7, <1>8, <1>9
<1> QED
  BY <1>4, <1>5, <1>10

\* Every item is in some chunk.
LEMMA ChunkOfItem ==
  ASSUME NEW rga \in Seq(ChunkType), NEW p \in 1 .. Len(Items(rga))
  PROVE  \E i \in 1 .. Len(rga) : \E k \in 1 .. rga[i].span : p = Start(rga, i) + k
<1>1. Len(rga) \in Nat /\ Len(Items(rga)) \in Nat
  BY ItemsIsList
<1> DEFINE reach == {n \in 1 .. Len(rga) + 1 : p <= Start(rga, n)}
<1>2. Len(rga) + 1 \in reach /\ reach \subseteq Nat
  BY <1>1, StartFacts
<1>3. PICK m \in reach : \A n \in reach : m <= n
  <2> HIDE DEF reach
  <2> QED
    BY <1>2, LeastNumber
<1>4. m # 1
  BY <1>3, StartFacts
<1>5. m - 1 \in 1 .. Len(rga) /\ m - 1 \in 1 .. Len(rga) + 1 /\ m - 1 + 1 = m /\ m - 1 \notin reach
  BY <1>1, <1>3, <1>4
<1>6. /\ Start(rga, m - 1) \in Nat /\ Start(rga, m) = Start(rga, m - 1) + rga[m - 1].span
      /\ rga[m - 1].span \in Nat
  <2>1. rga[m - 1] \in ChunkType
    BY <1>5
  <2>2. Start(rga, m - 1 + 1) = Start(rga, m - 1) + rga[m - 1].span
    BY <1>5, StartFacts
  <2> QED
    BY <1>5, <2>1, <2>2, ChunkFields, StartFacts
<1>7. Start(rga, m - 1) < p /\ p <= Start(rga, m - 1) + rga[m - 1].span
  BY <1>3, <1>5, <1>6
<1> DEFINE k == p - Start(rga, m - 1)
<1>8. k \in 1 .. rga[m - 1].span /\ p = Start(rga, m - 1) + k
  BY <1>6, <1>7
<1> QED
  BY <1>5, <1>8
-----------------------------------------------------------------------------
(***************************************************************************)
(* The order of items, item by item and chunk by chunk.  `ref' names the   *)
(* reference of every item: what stands between the two is later than the  *)
(* item.  The node, StrId, stands in front of all.                         *)
(***************************************************************************)
Names(items) == {items[p].id : p \in DOMAIN items}
NameAt(items, p) == IF p = 0 THEN StrId ELSE items[p].id

Distinct(items) == \A p, q \in DOMAIN items : items[p].id = items[q].id => p = q

PlacedAt(items, ref, p) ==
  \E q \in 0 .. p - 1 :
    /\ NameAt(items, q) = ref[items[p].id]
    /\ \A n \in q + 1 .. p - 1 : Less(items[p].id, items[n].id)

WellPlaced(items, ref) ==
  /\ Distinct(items)
  /\ StrId \notin Names(items)
  /\ \A p \in DOMAIN items : PlacedAt(items, ref, p)
  /\ \A y \in Names(items) : ref[y] \in Timestamp /\ ref[y].time < y.time

IdsOf(rga) == {t \in Timestamp : \E i \in DOMAIN rga : Covers(rga[i], t)}

LastId(c) == Ts(c.id.sid, NextTick(c) - 1)
NextId(c) == Ts(c.id.sid, NextTick(c))

\* Chunk i has the reference of y, and what is between it and chunk j is later.
ReferredAt(rga, ref, y, i, j) ==
  /\ Covers(rga[i], ref[y])
  /\ ref[y] = LastId(rga[i]) \/ Less(y, Ts(ref[y].sid, ref[y].time + 1))
  /\ \A k \in i + 1 .. j - 1 : Less(y, rga[k].id)

StartPlaced(rga, ref, j) ==
  \/ /\ ref[rga[j].id] = StrId
     /\ \A i \in 1 .. j - 1 : Less(rga[j].id, rga[i].id)
  \/ \E i \in 1 .. j - 1 : ReferredAt(rga, ref, rga[j].id, i, j)

ChunksPlaced(rga, ref) ==
  /\ \A t \in Timestamp : \A i, j \in DOMAIN rga : Covers(rga[i], t) /\ Covers(rga[j], t) => i = j
  /\ StrId \notin IdsOf(rga)
  /\ \A j \in DOMAIN rga : StartPlaced(rga, ref, j)
  /\ \A t \in Timestamp : \A i \in DOMAIN rga :
       Covers(rga[i], t) /\ t # rga[i].id => ref[t] = Ts(t.sid, t.time - 1)
  /\ \A y \in IdsOf(rga) : ref[y] \in Timestamp /\ ref[y].time < y.time

\* The timestamps a chunk covers are those of its items.
LEMMA CoveredStamps ==
  ASSUME NEW c \in ChunkType, NEW t \in Timestamp
  PROVE  /\ \A k \in 1 .. c.span : /\ Covers(c, Ts(c.id.sid, c.id.time + k - 1))
                                   /\ Ts(c.id.sid, c.id.time + k - 1) \in Timestamp
         /\ Covers(c, t) => /\ t.time - c.id.time + 1 \in 1 .. c.span
                            /\ t = Ts(c.id.sid, c.id.time + (t.time - c.id.time + 1) - 1)
<1>1. /\ c.id.sid \in Sids /\ c.id.time \in Nat /\ c.span \in Nat /\ NextTick(c) = c.id.time + c.span
      /\ t.time \in Nat /\ t = Ts(t.sid, t.time)
  BY ChunkFields, StampIs
<1>2. ASSUME NEW k \in 1 .. c.span
      PROVE  /\ Covers(c, Ts(c.id.sid, c.id.time + k - 1))
             /\ Ts(c.id.sid, c.id.time + k - 1) \in Timestamp
  <2>1. c.id.time + k - 1 \in Nat /\ c.id.time <= c.id.time + k - 1 /\ c.id.time + k - 1 < NextTick(c)
    BY <1>1
  <2>2. \A n : Ts(c.id.sid, n).sid = c.id.sid /\ Ts(c.id.sid, n).time = n
    BY DEF Ts
  <2>3. Ts(c.id.sid, c.id.time + k - 1) \in Timestamp
    BY <1>1, <2>1, NamesStamps
  <2> QED
    BY <2>1, <2>2, <2>3 DEF Covers
<1>3. ASSUME Covers(c, t)
      PROVE  /\ t.time - c.id.time + 1 \in 1 .. c.span
             /\ t = Ts(c.id.sid, c.id.time + (t.time - c.id.time + 1) - 1)
  <2>1. c.id.sid = t.sid /\ c.id.time <= t.time /\ t.time < c.id.time + c.span
    BY <1>1, <1>3 DEF Covers
  <2>2. c.id.time + (t.time - c.id.time + 1) - 1 = t.time
    BY <1>1
  <2>3. t.time - c.id.time + 1 \in 1 .. c.span
    BY <1>1, <2>1
  <2> QED
    BY <1>1, <2>1, <2>2, <2>3
<1> QED
  BY <1>2, <1>3

\* Where a timestamp that a chunk covers is in the list.
LEMMA PlaceOfStamp ==
  ASSUME NEW rga \in Seq(ChunkType), NEW i \in 1 .. Len(rga), NEW t \in Timestamp,
         Covers(rga[i], t)
  PROVE  /\ t.time - rga[i].id.time + 1 \in 1 .. rga[i].span
         /\ Start(rga, i) + (t.time - rga[i].id.time + 1) \in 1 .. Len(Items(rga))
         /\ Items(rga)[Start(rga, i) + (t.time - rga[i].id.time + 1)].id = t
<1> DEFINE k == t.time - rga[i].id.time + 1
<1>1. rga[i] \in ChunkType
  OBVIOUS
<1>2. k \in 1 .. rga[i].span /\ t = Ts(rga[i].id.sid, rga[i].id.time + k - 1)
  BY <1>1, CoveredStamps
<1> HIDE DEF k
<1>3. /\ Start(rga, i) + k \in 1 .. Len(Items(rga))
      /\ Items(rga)[Start(rga, i) + k].id = Ts(rga[i].id.sid, rga[i].id.time + k - 1)
  <2>1. /\ Start(rga, i) + k \in 1 .. Len(Items(rga))
        /\ Items(rga)[Start(rga, i) + k]
             = [id |-> Ts(rga[i].id.sid, rga[i].id.time + k - 1), live |-> ~rga[i].deleted]
    BY <1>2, ItemsOfChunk
  <2> QED
    BY <2>1
<1> QED
  BY <1>2, <1>3 DEF k

\* The items are the timestamps that the chunks cover.
LEMMA NamesAreCovered ==
  ASSUME NEW rga \in Seq(ChunkType)
  PROVE  Names(Items(rga)) = IdsOf(rga)
<1>1. Items(rga) \in Seq(ItemType) /\ DOMAIN Items(rga) = 1 .. Len(Items(rga))
      /\ DOMAIN rga = 1 .. Len(rga)
  BY ItemsIsList
<1>2. ASSUME NEW t \in Names(Items(rga)) PROVE t \in IdsOf(rga)
  <2>1. PICK p \in 1 .. Len(Items(rga)) : Items(rga)[p].id = t
    BY <1>1 DEF Names
  <2>2. PICK i \in 1 .. Len(rga) : \E k \in 1 .. rga[i].span : p = Start(rga, i) + k
    BY ChunkOfItem
  <2>3. PICK k \in 1 .. rga[i].span : p = Start(rga, i) + k
    BY <2>2
  <2>4. t = Ts(rga[i].id.sid, rga[i].id.time + k - 1)
    <3>1. Items(rga)[Start(rga, i) + k]
            = [id |-> Ts(rga[i].id.sid, rga[i].id.time + k - 1), live |-> ~rga[i].deleted]
      BY ItemsOfChunk
    <3> QED
      BY <2>1, <2>3, <3>1
  <2>5. rga[i] \in ChunkType
    OBVIOUS
  <2>6. rga[i].id \in Timestamp
    BY <2>5, ChunkFields
  <2>7. Covers(rga[i], t) /\ t \in Timestamp
    BY <2>4, <2>5, <2>6, CoveredStamps
  <2> QED
    BY <1>1, <2>7 DEF IdsOf
<1>3. ASSUME NEW t \in IdsOf(rga) PROVE t \in Names(Items(rga))
  <2>1. t \in Timestamp /\ \E i \in 1 .. Len(rga) : Covers(rga[i], t)
    BY <1>1 DEF IdsOf
  <2>2. PICK i \in 1 .. Len(rga) : Covers(rga[i], t)
    BY <2>1
  <2>3. \E p \in 1 .. Len(Items(rga)) : Items(rga)[p].id = t
    BY <2>1, <2>2, PlaceOfStamp
  <2> QED
    BY <1>1, <2>3 DEF Names
<1> QED
  BY <1>2, <1>3

\* The item before another of its chunk, and the last before a chunk.
LEMMA StampFacts ==
  \A t, n : Ts(t, n).sid = t /\ Ts(t, n).time = n
BY DEF Ts

\* A chunk covers its first and its last timestamp and not the next one.
LEMMA FirstCovered ==
  ASSUME NEW c \in ChunkType
  PROVE  /\ Covers(c, c.id) /\ Covers(c, LastId(c)) /\ ~Covers(c, NextId(c))
         /\ LastId(c) \in Timestamp /\ NextId(c) \in Timestamp /\ NextId(c) # NoLink
         /\ LastId(c).sid = c.id.sid /\ LastId(c).time = NextTick(c) - 1
         /\ NextId(c).sid = c.id.sid /\ NextId(c).time = NextTick(c)
         /\ NextTick(c) - 1 \in Nat
<1>1. /\ c.id.sid \in Sids /\ c.id.time \in Nat /\ c.span \in Nat /\ c.span > 0
      /\ NextTick(c) = c.id.time + c.span
  BY ChunkFields
<1>2. NextTick(c) - 1 \in Nat /\ NextTick(c) \in Nat
  BY <1>1
<1> QED
  BY <1>1, <1>2, NamesStamps DEF Covers, LastId, NextId

\* What WellPlaced says of the items, said of the chunks.
LEMMA PlacedChunks ==
  ASSUME NEW rga \in Seq(ChunkType), NEW ref, WellPlaced(Items(rga), ref)
  PROVE  ChunksPlaced(rga, ref)
<1> DEFINE items == Items(rga)
<1>1. /\ items \in Seq(ItemType) /\ Len(items) \in Nat /\ DOMAIN items = 1 .. Len(items)
      /\ DOMAIN rga = 1 .. Len(rga) /\ Len(rga) \in Nat
      /\ \A i \in 1 .. Len(rga) : rga[i] \in ChunkType
      /\ Names(items) = IdsOf(rga)
  BY ItemsIsList, NamesAreCovered
<1>2. /\ Distinct(items) /\ \A p \in 1 .. Len(items) : PlacedAt(items, ref, p)
      /\ StrId \notin IdsOf(rga)
      /\ \A y \in IdsOf(rga) : ref[y] \in Timestamp /\ ref[y].time < y.time
  BY <1>1 DEF WellPlaced
<1>3. \A i \in 1 .. Len(rga) + 1 : Start(rga, i) \in Nat
  BY StartFacts
<1>4. \A t \in Timestamp : \A i \in 1 .. Len(rga) : Covers(rga[i], t) =>
        LET k == t.time - rga[i].id.time + 1
        IN  /\ k \in 1 .. rga[i].span /\ Start(rga, i) + k \in 1 .. Len(items)
            /\ items[Start(rga, i) + k].id = t
  BY PlaceOfStamp
<1>5. \A i \in 1 .. Len(rga) : /\ rga[i].id \in Timestamp /\ rga[i].id.time \in Nat
                               /\ rga[i].span \in Nat /\ rga[i].span > 0
                               /\ NextTick(rga[i]) = rga[i].id.time + rga[i].span
                               /\ rga[i].id.sid \in Sids
  BY <1>1, ChunkFields
<1>6. \A i, j \in 1 .. Len(rga) : i < j => Start(rga, i) + rga[i].span <= Start(rga, j)
  <2> SUFFICES ASSUME NEW i \in 1 .. Len(rga), NEW j \in 1 .. Len(rga), i < j
               PROVE  Start(rga, i) + rga[i].span <= Start(rga, j)
    OBVIOUS
  <2>1. j \in i + 1 .. Len(rga) + 1
    BY <1>1
  <2> QED
    BY <2>1, StartGrows
<1>7. \A i \in 1 .. Len(rga) : /\ Start(rga, i) + 1 \in 1 .. Len(items)
                               /\ items[Start(rga, i) + 1].id = rga[i].id
  <2> SUFFICES ASSUME NEW i \in 1 .. Len(rga)
               PROVE  /\ Start(rga, i) + 1 \in 1 .. Len(items)
                      /\ items[Start(rga, i) + 1].id = rga[i].id
    OBVIOUS
  <2>1. Covers(rga[i], rga[i].id)
    BY <1>1, FirstCovered
  <2>2. rga[i].id.time - rga[i].id.time + 1 = 1
    BY <1>5
  <2> QED
    BY <1>4, <1>5, <2>1, <2>2
<1> HIDE DEF items
<1>8. ASSUME NEW t \in Timestamp, NEW i \in 1 .. Len(rga), NEW j \in 1 .. Len(rga),
             Covers(rga[i], t), Covers(rga[j], t)
      PROVE  i = j
  <2> DEFINE k == t.time - rga[i].id.time + 1
             l == t.time - rga[j].id.time + 1
  <2>1. /\ k \in 1 .. rga[i].span /\ Start(rga, i) + k \in 1 .. Len(items) /\ items[Start(rga, i) + k].id = t
        /\ l \in 1 .. rga[j].span /\ Start(rga, j) + l \in 1 .. Len(items) /\ items[Start(rga, j) + l].id = t
    BY <1>4, <1>8
  <2>2. Start(rga, i) + k = Start(rga, j) + l
    BY <1>1, <1>2, <2>1 DEF Distinct
  <2>3. i < j => Start(rga, i) + rga[i].span <= Start(rga, j)
    BY <1>6
  <2>4. j < i => Start(rga, j) + rga[j].span <= Start(rga, i)
    BY <1>6
  <2>5. /\ Start(rga, i) \in Nat /\ Start(rga, j) \in Nat /\ rga[i].span \in Nat /\ rga[j].span \in Nat
        /\ i \in Nat /\ j \in Nat
    BY <1>1, <1>3, <1>5
  <2> HIDE DEF k, l
  <2>6. ~(i < j)
    BY <2>1, <2>2, <2>3, <2>5
  <2>7. ~(j < i)
    BY <2>1, <2>2, <2>4, <2>5, SMTT(30)
  <2> QED
    BY <2>5, <2>6, <2>7
<1>9. ASSUME NEW t \in Timestamp, NEW i \in 1 .. Len(rga), Covers(rga[i], t), t # rga[i].id
      PROVE  ref[t] = Ts(t.sid, t.time - 1)
  <2> DEFINE k == t.time - rga[i].id.time + 1
             x == Ts(t.sid, t.time - 1)
             p == Start(rga, i) + k
  <2>1. /\ k \in 1 .. rga[i].span /\ p \in 1 .. Len(items) /\ items[p].id = t
    BY <1>4, <1>9
  <2>2. t.sid = rga[i].id.sid /\ t.time \in Nat /\ rga[i].id.time < t.time /\ t.time < NextTick(rga[i])
    <3>1. t.sid = rga[i].id.sid /\ rga[i].id.time <= t.time /\ t.time < NextTick(rga[i])
      BY <1>9 DEF Covers
    <3>2. t = Ts(t.sid, t.time) /\ rga[i].id = Ts(rga[i].id.sid, rga[i].id.time) /\ t.time \in Nat
      BY <1>5, StampIs
    <3>3. t.time # rga[i].id.time
      BY <1>9, <3>1, <3>2
    <3> QED
      BY <1>5, <3>1, <3>2, <3>3
  <2>3. x \in Timestamp /\ Covers(rga[i], x) /\ x.time = t.time - 1
    <3>1. t.time - 1 \in Nat /\ rga[i].id.time <= t.time - 1 /\ t.time - 1 < NextTick(rga[i])
          /\ NextTick(rga[i]) \in Nat
      BY <1>5, <2>2, SMTT(30)
    <3>2. t.sid \in Sids
      BY <1>5, <2>2
    <3>3. x \in Timestamp /\ x.sid = t.sid /\ x.time = t.time - 1
      BY <3>1, <3>2, NamesStamps
    <3> HIDE DEF x
    <3> QED
      BY <2>2, <3>1, <3>3 DEF Covers
  <2>4. p - 1 \in 1 .. Len(items) /\ items[p - 1].id = x
    <3>1. x.time - rga[i].id.time + 1 = k - 1
      BY <1>5, <2>2, <2>3
    <3>2. Start(rga, i) + (k - 1) \in 1 .. Len(items) /\ items[Start(rga, i) + (k - 1)].id = x
      BY <1>4, <2>3, <3>1
    <3>3. Start(rga, i) + (k - 1) = p - 1
      BY <1>3, <1>5, <2>2
    <3> HIDE DEF p, x, k
    <3> QED
      BY <3>2, <3>3
  <2>5. ~Less(t, x)
    <3>1. x.time < t.time /\ x.time \in Nat /\ t.time \in Nat
      <4> HIDE DEF x
      <4>1. x.time \in Nat
        BY <2>3, StampIs
      <4> QED
        BY <2>2, <2>3, <4>1
    <3> HIDE DEF x
    <3> QED
      BY <3>1 DEF Less
  <2> HIDE DEF p, x, k
  <2>6. PICK q \in 0 .. p - 1 : /\ NameAt(items, q) = ref[t]
                                /\ \A n \in q + 1 .. p - 1 : Less(t, items[n].id)
    BY <1>2, <2>1 DEF PlacedAt
  <2>7. p - 1 \notin q + 1 .. p - 1
    BY <2>4, <2>5, <2>6
  <2>8. q = p - 1 /\ q # 0
    BY <1>1, <2>1, <2>4, <2>6, <2>7
  <2>9. ref[t] = x
    BY <2>4, <2>6, <2>8 DEF NameAt
  <2> QED
    BY <2>9 DEF x
<1>10. ASSUME NEW j \in 1 .. Len(rga)
       PROVE  StartPlaced(rga, ref, j)
  <2> DEFINE p == Start(rga, j) + 1
             y == rga[j].id
  <2>1. p \in 1 .. Len(items) /\ items[p].id = y /\ Start(rga, j) \in Nat /\ p - 1 = Start(rga, j)
    BY <1>1, <1>3, <1>7
  <2> HIDE DEF p, y
  <2>2. PICK q \in 0 .. p - 1 : /\ NameAt(items, q) = ref[y]
                                /\ \A n \in q + 1 .. p - 1 : Less(y, items[n].id)
    BY <1>2, <2>1 DEF PlacedAt
  <2>3. ASSUME NEW i \in 1 .. Len(rga), i < j, q <= Start(rga, i)
        PROVE  Less(y, rga[i].id)
    <3>1. Start(rga, i) + rga[i].span <= Start(rga, j) /\ Start(rga, i) \in Nat
          /\ rga[i].span \in Nat /\ rga[i].span > 0
      BY <1>3, <1>5, <1>6, <2>3
    <3>2. Start(rga, i) + 1 \in q + 1 .. p - 1
      BY <2>1, <2>2, <2>3, <3>1, SMTT(30)
    <3> QED
      BY <1>7, <2>2, <3>2
  <2>4. CASE q = 0
    <3>1. ref[y] = StrId
      BY <2>2, <2>4 DEF NameAt
    <3>2. \A i \in 1 .. j - 1 : Less(y, rga[i].id)
      <4> SUFFICES ASSUME NEW i \in 1 .. j - 1 PROVE Less(y, rga[i].id)
        OBVIOUS
      <4>1. i \in 1 .. Len(rga) /\ i < j /\ Start(rga, i) \in Nat /\ 0 <= Start(rga, i)
        BY <1>1, <1>3
      <4> QED
        BY <2>3, <2>4, <4>1
    <3> QED
      BY <3>1, <3>2 DEF StartPlaced, y
  <2>5. CASE q # 0
    <3>1. q \in 1 .. Len(items) /\ q <= p - 1
      BY <1>1, <2>1, <2>2, <2>5
    <3>2. PICK i \in 1 .. Len(rga) : \E k \in 1 .. rga[i].span : q = Start(rga, i) + k
      BY <3>1, ChunkOfItem DEF items
    <3>3. PICK k \in 1 .. rga[i].span : q = Start(rga, i) + k
      BY <3>2
    <3>4. rga[i] \in ChunkType /\ Start(rga, i) \in Nat /\ rga[i].span \in Nat
      BY <1>1, <1>3, <1>5
    <3>5. i < j
      <4>1. CASE i = j
        BY <2>1, <3>1, <3>3, <3>4, <4>1
      <4>2. CASE j < i
        <5>1. Start(rga, j) + rga[j].span <= Start(rga, i) /\ rga[j].span \in Nat
          BY <1>5, <1>6, <4>2
        <5> QED
          BY <2>1, <3>1, <3>3, <3>4, <5>1, SMTT(30)
      <4> QED
        BY <1>1, <4>1, <4>2
    <3>6. Start(rga, i) + rga[i].span <= Start(rga, j)
      BY <1>6, <3>5
    <3>7. ref[y] = Ts(rga[i].id.sid, rga[i].id.time + k - 1)
      <4>1. items[q] = [id |-> Ts(rga[i].id.sid, rga[i].id.time + k - 1), live |-> ~rga[i].deleted]
        BY <3>3, ItemsOfChunk DEF items
      <4>2. ref[y] = items[q].id
        BY <2>2, <2>5 DEF NameAt
      <4> QED
        BY <4>1, <4>2
    <3>8. Covers(rga[i], ref[y])
      BY <1>5, <3>4, <3>7, CoveredStamps
    <3>9. ref[y] = LastId(rga[i]) \/ Less(y, Ts(ref[y].sid, ref[y].time + 1))
      <4>1. CASE k = rga[i].span
        <5>1. rga[i].id.time + k - 1 = NextTick(rga[i]) - 1
          BY <1>5, <4>1
        <5> QED
          BY <3>7, <5>1 DEF LastId
      <4>2. CASE k # rga[i].span
        <5>1. k + 1 \in 1 .. rga[i].span /\ Start(rga, i) + (k + 1) = q + 1 /\ q + 1 \in q + 1 .. p - 1
          <6>1. k \in Nat /\ k + 1 <= rga[i].span /\ p \in Int /\ q \in Int
            BY <1>1, <2>1, <3>1, <3>3, <3>4, <4>2
          <6>2. q + 1 <= p - 1
            BY <2>1, <3>3, <3>4, <3>6, <6>1, SMTT(30)
          <6>3. k + 1 \in 1 .. rga[i].span
            BY <3>4, <6>1
          <6>4. Start(rga, i) + (k + 1) = q + 1
            BY <3>3, <3>4, <6>1
          <6>5. q + 1 \in q + 1 .. p - 1
            BY <6>1, <6>2
          <6> QED
            BY <6>3, <6>4, <6>5
        <5>2. items[Start(rga, i) + (k + 1)]
                = [id |-> Ts(rga[i].id.sid, rga[i].id.time + (k + 1) - 1), live |-> ~rga[i].deleted]
          BY <5>1, ItemsOfChunk DEF items
        <5>3. Less(y, items[q + 1].id)
          BY <2>2, <5>1
        <5>4. ref[y].sid = rga[i].id.sid /\ ref[y].time + 1 = rga[i].id.time + (k + 1) - 1
          <6>1. ref[y].sid = rga[i].id.sid /\ ref[y].time = rga[i].id.time + k - 1
            BY <3>7, StampFacts
          <6> QED
            BY <1>5, <6>1, <3>4
        <5> QED
          BY <5>1, <5>2, <5>3, <5>4
      <4> QED
        BY <4>1, <4>2
    <3>10. \A n \in i + 1 .. j - 1 : Less(y, rga[n].id)
      <4> SUFFICES ASSUME NEW n \in i + 1 .. j - 1 PROVE Less(y, rga[n].id)
        OBVIOUS
      <4>1. n \in 1 .. Len(rga) /\ n < j /\ i < n
        BY <1>1
      <4>2. Start(rga, i) + rga[i].span <= Start(rga, n) /\ Start(rga, n) \in Nat
        <5>1. n \in 1 .. Len(rga) + 1
          BY <1>1, <4>1
        <5> QED
          BY <1>3, <1>6, <4>1, <5>1
      <4>3. q <= Start(rga, n)
        BY <3>3, <3>4, <4>2, SMTT(30)
      <4> QED
        BY <2>3, <4>1, <4>3
    <3>11. i \in 1 .. j - 1
      BY <1>1, <3>5
    <3> QED
      BY <3>8, <3>9, <3>10, <3>11 DEF StartPlaced, ReferredAt, y
  <2> QED
    BY <2>4, <2>5
<1> QED
  BY <1>1, <1>2, <1>8, <1>9, <1>10 DEF ChunksPlaced

(***************************************************************************)
(* Links.  A link leads to the item that was written right after the last  *)
(* of the chunk: the next timestamp, whose reference is that last item.    *)
(***************************************************************************)
Parts(rga) == {rga[i] : i \in DOMAIN rga}

\* The chunks of a list as a set.
LEMMA PartsOfList ==
  ASSUME NEW rga \in Seq(ChunkType)
  PROVE  /\ Parts(rga) \subseteq ChunkType
         /\ \A i \in 1 .. Len(rga) : rga[i] \in Parts(rga)
         /\ \A c \in Parts(rga) : \E i \in 1 .. Len(rga) : rga[i] = c
         /\ Parts(<< >>) = {}
         /\ \A c : Parts(<<c>>) = {c}
<1>1. DOMAIN rga = 1 .. Len(rga)
  OBVIOUS
<1> QED
  BY <1>1 DEF Parts

\* A concatenation has the chunks of both lists.
LEMMA PartsOfConcat ==
  ASSUME NEW a \in Seq(ChunkType), NEW b \in Seq(ChunkType)
  PROVE  Parts(a \o b) \subseteq Parts(a) \cup Parts(b)
<1> DEFINE ab == a \o b
<1>1. /\ ab \in Seq(ChunkType) /\ Len(ab) = Len(a) + Len(b)
      /\ \A k \in 1 .. Len(a) + Len(b) : ab[k] = IF k <= Len(a) THEN a[k] ELSE b[k - Len(a)]
  BY ConcatProperties
<1>2. Len(a) \in Nat /\ Len(b) \in Nat
  OBVIOUS
<1> HIDE DEF ab
<1>3. ASSUME NEW c \in Parts(ab) PROVE c \in Parts(a) \cup Parts(b)
  <2>1. PICK k \in 1 .. Len(ab) : ab[k] = c
    BY <1>1, <1>3, PartsOfList
  <2>2. CASE k <= Len(a)
    <3>1. k \in 1 .. Len(a) /\ c = a[k]
      BY <1>1, <1>2, <2>1, <2>2
    <3> QED
      BY <3>1, PartsOfList
  <2>3. CASE ~(k <= Len(a))
    <3>1. k - Len(a) \in 1 .. Len(b) /\ c = b[k - Len(a)]
      BY <1>1, <1>2, <2>1, <2>3
    <3> QED
      BY <3>1, PartsOfList
  <2> QED
    BY <2>2, <2>3
<1> QED
  BY <1>3 DEF ab

\* Halves have no other chunks than the whole.
LEMMA PartsOfHalves ==
  ASSUME NEW rga \in Seq(ChunkType), NEW i \in 0 .. Len(rga)
  PROVE  Parts(Upto(rga, i)) \subseteq Parts(rga) /\ Parts(Behind(rga, i)) \subseteq Parts(rga)
<1> DEFINE a == Upto(rga, i)
           b == Behind(rga, i)
<1>1. /\ a \in Seq(ChunkType) /\ b \in Seq(ChunkType) /\ Len(a) = i /\ Len(b) = Len(rga) - i
      /\ \A k \in 1 .. i : a[k] = rga[k]
      /\ \A k \in 1 .. Len(rga) - i : b[k] = rga[i + k]
  BY HalvesOfChunks
<1> HIDE DEF a, b
<1>2. ASSUME NEW c \in Parts(a) PROVE c \in Parts(rga)
  <2>1. PICK k \in 1 .. Len(a) : a[k] = c
    BY <1>1, <1>2, PartsOfList
  <2>2. k \in 1 .. Len(rga) /\ rga[k] = c
    BY <1>1, <2>1
  <2> QED
    BY <2>2, PartsOfList
<1>3. ASSUME NEW c \in Parts(b) PROVE c \in Parts(rga)
  <2>1. PICK k \in 1 .. Len(b) : b[k] = c
    BY <1>1, <1>3, PartsOfList
  <2>2. i + k \in 1 .. Len(rga) /\ rga[i + k] = c
    BY <1>1, <2>1
  <2> QED
    BY <2>2, PartsOfList
<1> QED
  BY <1>2, <1>3 DEF a, b

\* A replacement adds no chunk but the pieces.
LEMMA PartsAround ==
  ASSUME NEW rga \in Seq(ChunkType), NEW i \in 1 .. Len(rga), NEW pieces \in Seq(ChunkType)
  PROVE  Parts(Replace(rga, i, pieces)) \subseteq Parts(rga) \cup Parts(pieces)
<1> DEFINE a == Upto(rga, i - 1)
           b == Behind(rga, i)
           ap == a \o pieces
<1>1. i - 1 \in 0 .. Len(rga) /\ i \in 0 .. Len(rga)
  OBVIOUS
<1>2. a \in Seq(ChunkType) /\ b \in Seq(ChunkType) /\ ap \in Seq(ChunkType) /\ Replace(rga, i, pieces) = ap \o b
  BY <1>1, HalvesOfChunks, Around
<1>3. Parts(a) \subseteq Parts(rga) /\ Parts(b) \subseteq Parts(rga)
  BY <1>1, PartsOfHalves
<1>4. Parts(ap) \subseteq Parts(a) \cup Parts(pieces)
  BY <1>2, PartsOfConcat
<1> HIDE DEF ap, a, b
<1>5. Parts(ap \o b) \subseteq Parts(ap) \cup Parts(b)
  BY <1>2, PartsOfConcat
<1> QED
  BY <1>2, <1>3, <1>4, <1>5

\* The run goes on after the chunk: its next timestamp was written behind it.
Follows(c, names, ref) == NextId(c) \in names /\ ref[NextId(c)] = LastId(c)

LinkOk(c, names, ref) == c.link # NoLink => c.link = NextId(c) /\ Follows(c, names, ref)
LinkFull(c, names, ref) == Follows(c, names, ref) => c.link = NextId(c)

LinksOk(rga, names, ref) == \A c \in Parts(rga) : LinkOk(c, names, ref)
LinksFull(rga, names, ref) == \A c \in Parts(rga) : LinkFull(c, names, ref)

\* Where a chunk goes on, its run starts a chunk further back, and the chunks
\* between the two are later than that start.
LEMMA NextIsBehind ==
  ASSUME NEW rga \in Seq(ChunkType), NEW ref, ChunksPlaced(rga, ref),
         NEW i \in 1 .. Len(rga), Follows(rga[i], IdsOf(rga), ref)
  PROVE  \E j \in i + 1 .. Len(rga) : /\ rga[j].id = NextId(rga[i])
                                      /\ \A k \in i + 1 .. j - 1 : Less(NextId(rga[i]), rga[k].id)
<1> DEFINE y == NextId(rga[i])
           x == LastId(rga[i])
<1>1. rga[i] \in ChunkType /\ DOMAIN rga = 1 .. Len(rga) /\ Len(rga) \in Nat
  OBVIOUS
<1>2. /\ Covers(rga[i], x) /\ ~Covers(rga[i], y) /\ x \in Timestamp /\ y \in Timestamp
      /\ x = Ts(y.sid, y.time - 1) /\ y.time \in Nat
  <2>1. /\ Covers(rga[i], x) /\ ~Covers(rga[i], y) /\ x \in Timestamp /\ y \in Timestamp
        /\ x.sid = rga[i].id.sid /\ x.time = NextTick(rga[i]) - 1
        /\ y.sid = rga[i].id.sid /\ y.time = NextTick(rga[i])
    BY <1>1, FirstCovered
  <2>2. x = Ts(x.sid, x.time) /\ y.time \in Nat
    BY <2>1, StampIs
  <2> HIDE DEF x, y
  <2> QED
    BY <2>1, <2>2
<1>3. y \in IdsOf(rga) /\ ref[y] = x
  BY DEF Follows
<1> HIDE DEF x, y
<1>4. x \in IdsOf(rga) /\ x # StrId
  BY <1>1, <1>2 DEF IdsOf, ChunksPlaced
<1>5. PICK j \in 1 .. Len(rga) : Covers(rga[j], y)
  BY <1>1, <1>3 DEF IdsOf
<1>6. rga[j] \in ChunkType
  OBVIOUS
<1>7. y = rga[j].id
  <2> SUFFICES ASSUME y # rga[j].id PROVE FALSE
    OBVIOUS
  <2>1. rga[j].id.sid = y.sid /\ rga[j].id.time <= y.time /\ y.time < NextTick(rga[j])
    BY <1>5 DEF Covers
  <2>2. y = Ts(y.sid, y.time) /\ rga[j].id = Ts(rga[j].id.sid, rga[j].id.time) /\ rga[j].id.time \in Nat
        /\ NextTick(rga[j]) \in Nat
    BY <1>2, <1>6, StampIs, ChunkFields
  <2>3. rga[j].id.time # y.time
    BY <2>1, <2>2
  <2>4. x.sid = y.sid /\ x.time = y.time - 1
    BY <1>2, StampFacts
  <2>5. Covers(rga[j], x)
    BY <1>2, <2>1, <2>2, <2>3, <2>4 DEF Covers
  <2>6. i = j
    BY <1>1, <1>2, <2>5 DEF ChunksPlaced
  <2> QED
    BY <1>2, <1>5, <2>6
<1>8. StartPlaced(rga, ref, j)
  BY <1>1 DEF ChunksPlaced
<1>9. PICK m \in 1 .. j - 1 : ReferredAt(rga, ref, y, m, j)
  BY <1>3, <1>4, <1>7, <1>8 DEF StartPlaced
<1>10. m = i
  <2>1. Covers(rga[m], x) /\ m \in 1 .. Len(rga)
    BY <1>1, <1>3, <1>9 DEF ReferredAt
  <2> QED
    BY <1>1, <1>2, <2>1 DEF ChunksPlaced
<1>11. j \in i + 1 .. Len(rga) /\ \A k \in i + 1 .. j - 1 : Less(y, rga[k].id)
  BY <1>1, <1>9, <1>10 DEF ReferredAt
<1> QED
  BY <1>7, <1>11 DEF y

-----------------------------------------------------------------------------
\* Two chunks that follow each other in one run are the two parts of one.
Longer(c, d) == Chunk(c.id, c.span + d.span, c.deleted, d.link)

\* A chunk and the one that continues its run are one longer chunk.
LEMMA RunsJoin ==
  ASSUME NEW c \in ChunkType, NEW d \in ChunkType, d.id = NextId(c), d.deleted = c.deleted
  PROVE  /\ Longer(c, d) \in ChunkType
         /\ RunOf(Longer(c, d)) = RunOf(c) \o RunOf(d)
         /\ NextId(Longer(c, d)) = NextId(d) /\ LastId(Longer(c, d)) = LastId(d)
<1> DEFINE e == Longer(c, d)
<1>1. /\ c.id \in Timestamp /\ c.id.time \in Nat /\ c.span \in Nat /\ c.span > 0 /\ c.deleted \in BOOLEAN
      /\ d.span \in Nat /\ d.span > 0 /\ NextTick(c) = c.id.time + c.span
      /\ NextTick(d) = d.id.time + d.span
  BY ChunkFields
<1>2. d.link \in Timestamp \cup {NoLink}
  BY DEF ChunkType
<1>3. d.id.sid = c.id.sid /\ d.id.time = c.id.time + c.span
  BY <1>1, FirstCovered
<1>4. /\ e.id = c.id /\ e.span = c.span + d.span /\ e.deleted = c.deleted /\ e.link = d.link
      /\ e \in ChunkType
  <2>1. c.span + d.span \in Nat \ {0}
    BY <1>1
  <2> QED
    BY <1>1, <1>2, <2>1 DEF Longer, Chunk, ChunkType
<1> HIDE DEF e
<1>5. /\ RunOf(c) \in Seq(ItemType) /\ Len(RunOf(c)) = c.span
      /\ RunOf(d) \in Seq(ItemType) /\ Len(RunOf(d)) = d.span
      /\ RunOf(e) \in Seq(ItemType) /\ Len(RunOf(e)) = c.span + d.span
      /\ \A k \in 1 .. c.span :
           RunOf(c)[k] = [id |-> Ts(c.id.sid, c.id.time + k - 1), live |-> ~c.deleted]
      /\ \A k \in 1 .. d.span :
           RunOf(d)[k] = [id |-> Ts(d.id.sid, d.id.time + k - 1), live |-> ~d.deleted]
      /\ \A k \in 1 .. c.span + d.span :
           RunOf(e)[k] = [id |-> Ts(c.id.sid, c.id.time + k - 1), live |-> ~c.deleted]
  <2>1. /\ RunOf(c) \in Seq(ItemType) /\ Len(RunOf(c)) = c.span
        /\ RunOf(d) \in Seq(ItemType) /\ Len(RunOf(d)) = d.span
        /\ \A k \in 1 .. c.span :
             RunOf(c)[k] = [id |-> Ts(c.id.sid, c.id.time + k - 1), live |-> ~c.deleted]
        /\ \A k \in 1 .. d.span :
             RunOf(d)[k] = [id |-> Ts(d.id.sid, d.id.time + k - 1), live |-> ~d.deleted]
    BY RunFacts
  <2>2. /\ RunOf(e) \in Seq(ItemType) /\ Len(RunOf(e)) = e.span
        /\ \A k \in 1 .. e.span :
             RunOf(e)[k] = [id |-> Ts(e.id.sid, e.id.time + k - 1), live |-> ~e.deleted]
    BY <1>4, RunFacts
  <2>3. \A k \in 1 .. c.span + d.span :
           RunOf(e)[k] = [id |-> Ts(c.id.sid, c.id.time + k - 1), live |-> ~c.deleted]
    BY <1>4, <2>2
  <2> QED
    BY <1>4, <2>1, <2>2, <2>3
<1> DEFINE a == RunOf(c)
           b == RunOf(d)
           ab == a \o b
           r == RunOf(e)
<1>6. /\ ab \in Seq(ItemType) /\ Len(ab) = Len(a) + Len(b)
      /\ \A k \in 1 .. Len(a) + Len(b) : ab[k] = IF k <= Len(a) THEN a[k] ELSE b[k - Len(a)]
  <2>1. a \in Seq(ItemType) /\ b \in Seq(ItemType)
    BY <1>5
  <2> HIDE DEF a, b
  <2> QED
    BY <2>1, ConcatProperties
<1>7. /\ Len(a) = c.span /\ Len(b) = d.span /\ Len(r) = c.span + d.span /\ r \in Seq(ItemType)
      /\ \A k \in 1 .. c.span : a[k] = [id |-> Ts(c.id.sid, c.id.time + k - 1), live |-> ~c.deleted]
      /\ \A k \in 1 .. d.span : b[k] = [id |-> Ts(d.id.sid, d.id.time + k - 1), live |-> ~d.deleted]
      /\ \A k \in 1 .. c.span + d.span :
           r[k] = [id |-> Ts(c.id.sid, c.id.time + k - 1), live |-> ~c.deleted]
  BY <1>5
<1> HIDE DEF a, b, ab, r
<1>8. ASSUME NEW k \in 1 .. c.span + d.span PROVE r[k] = ab[k]
  <2>1. CASE k <= c.span
    <3>1. k \in 1 .. c.span
      BY <1>1, <2>1
    <3> QED
      BY <1>6, <1>7, <2>1, <3>1
  <2>2. CASE ~(k <= c.span)
    <3>1. k - c.span \in 1 .. d.span
      BY <1>1, <2>2
    <3>2. d.id.time + (k - c.span) - 1 = c.id.time + k - 1
      BY <1>1, <1>3
    <3> QED
      BY <1>3, <1>6, <1>7, <2>2, <3>1, <3>2, SMTT(30)
  <2> QED
    BY <2>1, <2>2
<1>9. r = ab
  BY <1>6, <1>7, <1>8, SeqEqual
<1>10. NextTick(e) = NextTick(d)
  BY <1>1, <1>3, <1>4 DEF NextTick
<1> QED
  BY <1>3, <1>4, <1>9, <1>10 DEF e, a, b, ab, r, NextId, LastId

\* What EXCEPT gives for a chunk.
LEMMA NewFields ==
  ASSUME NEW c, c = [id |-> c.id, span |-> c.span, deleted |-> c.deleted, link |-> c.link]
  PROVE  /\ \A n, l : [c EXCEPT !.span = n, !.link = l] = Chunk(c.id, n, c.deleted, l)
         /\ \A l : [c EXCEPT !.link = l] = Chunk(c.id, c.span, c.deleted, l)
         /\ \A n : [c EXCEPT !.span = n] = Chunk(c.id, n, c.deleted, c.link)
         /\ \A d : [c EXCEPT !.deleted = d] = Chunk(c.id, c.span, d, c.link)
<1> DEFINE a == c.id
           b == c.span
           e == c.deleted
           f == c.link
<1> HIDE DEF a, b, e, f
<1>1. c = [id |-> a, span |-> b, deleted |-> e, link |-> f]
  BY DEF a, b, e, f
<1>2. \A n, l : [c EXCEPT !.span = n, !.link = l] = Chunk(a, n, e, l)
  <2> SUFFICES ASSUME NEW n, NEW l PROVE [c EXCEPT !.span = n, !.link = l] = Chunk(a, n, e, l)
    OBVIOUS
  <2>1. [c EXCEPT !.span = n] = [id |-> a, span |-> n, deleted |-> e, link |-> f]
    BY <1>1
  <2>2. [c EXCEPT !.span = n, !.link = l] = [[c EXCEPT !.span = n] EXCEPT !.link = l]
    BY <1>1
  <2>3. [[id |-> a, span |-> n, deleted |-> e, link |-> f] EXCEPT !.link = l]
          = [id |-> a, span |-> n, deleted |-> e, link |-> l]
    OBVIOUS
  <2> QED
    BY <2>1, <2>2, <2>3 DEF Chunk
<1>3. \A l : [c EXCEPT !.link = l] = Chunk(a, b, e, l)
  BY <1>1 DEF Chunk
<1>4. \A n : [c EXCEPT !.span = n] = Chunk(a, n, e, f)
  BY <1>1 DEF Chunk
<1>5. \A d : [c EXCEPT !.deleted = d] = Chunk(a, b, d, f)
  BY <1>1 DEF Chunk
<1> QED
  BY <1>2, <1>3, <1>4, <1>5 DEF a, b, e, f

\* The two parts of a chunk, which follow each other, linked.
Divides(parts, c, at) ==
  /\ parts \in Seq(ChunkType) /\ Len(parts) = 2
  /\ parts[1] = Chunk(c.id, at, c.deleted, NextId(parts[1]))
  /\ parts[2] = Chunk(NextId(parts[1]), c.span - at, c.deleted, c.link)
  /\ NextId(parts[1]) = Ts(c.id.sid, c.id.time + at)
  /\ parts[1] \in ChunkType /\ parts[2] \in ChunkType
  /\ parts = <<parts[1], parts[2]>>
  /\ NextId(parts[2]) = NextId(c) /\ LastId(parts[2]) = LastId(c)
  /\ RunOf(c) = RunOf(parts[1]) \o RunOf(parts[2])
  /\ Covers(c, NextId(parts[1])) /\ NextId(parts[1]) # c.id

\* Split divides a chunk in two, with a link from the left to the right one.
LEMMA SplitParts ==
  ASSUME NEW c \in ChunkType, NEW at \in 1 .. c.span - 1
  PROVE  Divides(Split(c, at), c, at)
<1> DEFINE right == Ts(c.id.sid, c.id.time + at)
           a == Chunk(c.id, at, c.deleted, right)
           b == Chunk(right, c.span - at, c.deleted, c.link)
           parts == Split(c, at)
<1>1. /\ c.id \in Timestamp /\ c.id.sid \in Sids /\ c.id.time \in Nat /\ c.span \in Nat
      /\ c.deleted \in BOOLEAN /\ NextTick(c) = c.id.time + c.span
      /\ c = [id |-> c.id, span |-> c.span, deleted |-> c.deleted, link |-> c.link]
      /\ c.link \in Timestamp \cup {NoLink}
  BY ChunkFields DEF ChunkType
<1>2. /\ at \in Nat \ {0} /\ c.span - at \in Nat \ {0} /\ c.id.time + at \in Nat /\ at < c.span
  BY <1>1
<1>3. right \in Timestamp /\ right.sid = c.id.sid /\ right.time = c.id.time + at
  BY <1>1, <1>2, NamesStamps
<1>4. [c EXCEPT !.span = at, !.link = right] = a
  <2>1. \A n, l : [c EXCEPT !.span = n, !.link = l] = Chunk(c.id, n, c.deleted, l)
    BY <1>1, NewFields, Zenon
  <2> QED
    BY <2>1, Zenon
<1>5. parts = <<a, b>>
  BY <1>4 DEF Split
<1> HIDE DEF right, parts
<1>6. /\ a.id = c.id /\ a.span = at /\ a.deleted = c.deleted /\ a.link = right
      /\ b.id = right /\ b.span = c.span - at /\ b.deleted = c.deleted /\ b.link = c.link
      /\ a \in ChunkType /\ b \in ChunkType
  BY <1>1, <1>2, <1>3 DEF Chunk, ChunkType
<1>7. NextTick(a) = c.id.time + at /\ NextTick(b) = NextTick(c)
  BY <1>1, <1>2, <1>3, <1>6 DEF NextTick
<1>8. NextId(a) = right
  BY <1>6, <1>7 DEF NextId, right
<1>9. Longer(a, b) = c
  <2>1. at + (c.span - at) = c.span
    BY <1>1, <1>2
  <2> QED
    BY <1>1, <1>6, <2>1 DEF Longer, Chunk
<1>10. RunOf(c) = RunOf(a) \o RunOf(b) /\ NextId(b) = NextId(c) /\ LastId(b) = LastId(c)
  BY <1>6, <1>8, <1>9, RunsJoin
<1>11. Covers(c, right) /\ right # c.id
  BY <1>1, <1>2, <1>3 DEF Covers
<1>12. parts \in Seq(ChunkType) /\ Len(parts) = 2 /\ parts[1] = a /\ parts[2] = b
  <2> HIDE DEF a, b
  <2> QED
    BY <1>5, <1>6
<1> HIDE DEF a, b
<1> QED
  BY <1>5, <1>6, <1>8, <1>10, <1>11, <1>12 DEF a, b, right, parts, Divides

\* Both parts have good links when the whole has.
LEMMA SplitLinks ==
  ASSUME NEW rga \in Seq(ChunkType), NEW ref, ChunksPlaced(rga, ref),
         NEW i \in 1 .. Len(rga), NEW at \in 1 .. rga[i].span - 1,
         NEW parts, Divides(parts, rga[i], at), NEW names, IdsOf(rga) \subseteq names
  PROVE  /\ LinkOk(parts[1], names, ref) /\ LinkFull(parts[1], names, ref)
         /\ LinkOk(rga[i], names, ref) => LinkOk(parts[2], names, ref)
         /\ LinkFull(rga[i], names, ref) => LinkFull(parts[2], names, ref)
<1> DEFINE y == NextId(parts[1])
<1>1. rga[i] \in ChunkType /\ DOMAIN rga = 1 .. Len(rga)
  OBVIOUS
<1>2. /\ parts[1] = Chunk(rga[i].id, at, rga[i].deleted, y)
      /\ parts[2] = Chunk(y, rga[i].span - at, rga[i].deleted, rga[i].link)
      /\ parts[1] \in ChunkType
      /\ NextId(parts[2]) = NextId(rga[i]) /\ LastId(parts[2]) = LastId(rga[i])
      /\ Covers(rga[i], y) /\ y # rga[i].id
  BY DEF Divides
<1>3. y \in Timestamp /\ LastId(parts[1]) = Ts(y.sid, y.time - 1)
  <2>1. /\ y \in Timestamp /\ y.sid = parts[1].id.sid /\ y.time = NextTick(parts[1])
    BY <1>2, FirstCovered
  <2> QED
    BY <2>1 DEF LastId
<1>4. ref[y] = LastId(parts[1]) /\ y \in names
  BY <1>1, <1>2, <1>3 DEF ChunksPlaced, IdsOf
<1>5. parts[1].link = y /\ parts[2].link = rga[i].link
  BY <1>2 DEF Chunk
<1> QED
  BY <1>2, <1>4, <1>5 DEF LinkOk, LinkFull, Follows

(***************************************************************************)
(* Insertions.  The walk from the chunk at `left' ends at `last'.          *)
(***************************************************************************)
Passed(rga, new, left, last) ==
  /\ last \in left .. Len(rga)
  /\ \A k \in left + 1 .. last : ~Stops(rga[k], new)
  /\ last = Len(rga) \/ Stops(rga[last + 1], new)

\* Where an insertion `id' behind `after' belongs: behind the later items.
WalkEnds(items, after, id, front) ==
  /\ front \in 0 .. Len(items)
  /\ \E p \in 0 .. front : /\ NameAt(items, p) = after
                           /\ \A k \in p + 1 .. front : ~Less(items[k].id, id)
  /\ front = Len(items) \/ Less(items[front + 1].id, id)

\* The walk of insert_after_ref passes chunks up to the first that stops it.
LEMMA WalkStops ==
  ASSUME NEW rga \in Seq(ChunkType), NEW new, NEW left \in 1 .. Len(rga), NEW last,
         last = Min({j \in left .. Len(rga) : j = Len(rga) \/ Stops(rga[j + 1], new)})
  PROVE  Passed(rga, new, left, last)
<1> DEFINE ends == {j \in left .. Len(rga) : j = Len(rga) \/ Stops(rga[j + 1], new)}
<1>1. Len(rga) \in ends /\ ends \subseteq Nat /\ Len(rga) \in Nat
  OBVIOUS
<1>2. PICK m \in ends : \A j \in ends : m <= j
  <2> HIDE DEF ends
  <2> QED
    BY <1>1, LeastNumber
<1>3. last \in ends /\ \A j \in ends : last <= j
  <2>1. last = CHOOSE x \in ends : \A y \in ends : x <= y
    BY DEF Min
  <2> HIDE DEF ends
  <2> QED
    BY <1>2, <2>1
<1>4. ASSUME NEW k \in left + 1 .. last, Stops(rga[k], new) PROVE FALSE
  <2>1. k - 1 \in left .. Len(rga) /\ k - 1 + 1 = k /\ k - 1 < last /\ k - 1 \in Nat /\ last \in Nat
    BY <1>1, <1>3, <1>4
  <2>2. k - 1 \in ends
    BY <1>4, <2>1
  <2> QED
    BY <1>3, <2>1, <2>2
<1> QED
  BY <1>3, <1>4 DEF Passed

Open(rga, left, last) == {j \in left .. last : rga[j].link = NoLink}

\* Stops, in terms of the order.
LEMMA NotStopped ==
  ASSUME NEW a \in Timestamp, NEW b \in Timestamp
  PROVE  (a # b /\ ~Less(a, b)) <=> Less(b, a)
BY LessIsTotal, LessIsAsymmetric

\* No chunk the walk passes is continued by the new one, so the chunk that may
\* be linked to it is the first, and nothing was passed.
LEMMA WalkFacts ==
  ASSUME NEW rga \in Seq(ChunkType), NEW ref, ChunksPlaced(rga, ref),
         LinksOk(rga, IdsOf(rga), ref),
         NEW id \in Timestamp, NEW new \in ChunkType, new.id = id,
         NEW after \in Timestamp, NEW left \in 1 .. Len(rga), NEW last, Passed(rga, new, left, last)
  PROVE  /\ \A j \in left + 1 .. last : ~Continues(rga[j], new, after)
         /\ Open(rga, left, last) # {} /\ Continues(rga[Max(Open(rga, left, last))], new, after)
              => last = left /\ Max(Open(rga, left, last)) = left /\ rga[left].link = NoLink
<1> DEFINE open == {j \in left .. last : rga[j].link = NoLink}
<1> USE DEF Open
<1>1. /\ Len(rga) \in Nat /\ last \in left .. Len(rga) /\ left \in Nat /\ left >= 1 /\ last \in Nat
      /\ \A j \in 1 .. Len(rga) : rga[j] \in ChunkType
      /\ DOMAIN rga = 1 .. Len(rga)
  <2>1. last \in left .. Len(rga)
    BY DEF Passed
  <2>2. DOMAIN rga = 1 .. Len(rga) /\ Len(rga) \in Nat /\ \A j \in 1 .. Len(rga) : rga[j] \in ChunkType
    OBVIOUS
  <2>3. left \in Nat /\ left >= 1
    OBVIOUS
  <2>4. last \in Nat
    BY <2>1, <2>2, <2>3
  <2> QED
    BY <2>1, <2>2, <2>3, <2>4
<1>2. ASSUME NEW j \in left + 1 .. last
      PROVE  /\ ~Continues(rga[j], new, after)
             /\ Less(id, rga[j].id) /\ j \in 1 .. Len(rga) /\ rga[j] \in ChunkType
  <2>1. ~Stops(rga[j], new) /\ j \in 1 .. Len(rga)
    <3>1. ~Stops(rga[j], new)
      BY DEF Passed
    <3>2. j \in 1 .. Len(rga)
      BY <1>1
    <3> QED
      BY <3>1, <3>2
  <2>2. rga[j] \in ChunkType
    BY <1>1, <2>1
  <2>3. /\ rga[j].id \in Timestamp /\ rga[j].id.time \in Nat /\ rga[j].span \in Nat /\ rga[j].span > 0
        /\ NextTick(rga[j]) = rga[j].id.time + rga[j].span
    BY <2>2, ChunkFields
  <2>4. Less(id, rga[j].id)
    BY <2>1, <2>3, NotStopped DEF Stops
  <2>5. ~Continues(rga[j], new, after)
    <3> SUFFICES ASSUME NextTick(rga[j]) = id.time PROVE FALSE
      BY DEF Continues
    <3>1. id.time \in Nat
      BY StampIs
    <3>2. rga[j].id.time < id.time
      BY <2>3, <3>1
    <3> QED
      BY <2>3, <2>4, <3>1, <3>2 DEF Less
  <2> QED
    BY <2>1, <2>2, <2>4, <2>5
<1>3. ASSUME open # {}, Continues(rga[Max(open)], new, after)
      PROVE  last = left /\ Max(open) = left /\ rga[left].link = NoLink
  <2> DEFINE top == Max(open)
  <2>1. open \subseteq left .. last
    OBVIOUS
  <2>2. top \in open /\ \A j \in open : top >= j
    <3> DEFINE gaps == {last - j : j \in open}
    <3>1. gaps \subseteq Nat /\ gaps # {}
      BY <1>1, <1>3, <2>1
    <3>2. PICK g \in gaps : \A h \in gaps : g <= h
      <4> HIDE DEF gaps
      <4> QED
        BY <3>1, LeastNumber
    <3>3. PICK m \in open : g = last - m
      BY <3>2
    <3>4. \A j \in open : m >= j
      <4> SUFFICES ASSUME NEW j \in open PROVE m >= j
        OBVIOUS
      <4>1. g <= last - j
        BY <3>2
      <4>2. m \in Nat /\ j \in Nat /\ m <= last /\ j <= last
        BY <1>1, <2>1
      <4> QED
        BY <1>1, <3>3, <4>1, <4>2
    <3>5. top = CHOOSE x \in open : \A y \in open : x >= y
      BY DEF Max
    <3> HIDE DEF top
    <3> QED
      BY <3>4, <3>5
  <2>3. Continues(rga[top], new, after)
    BY <1>3
  <2> HIDE DEF top
  <2>4. top = left
    BY <1>1, <1>2, <2>1, <2>2, <2>3
  <2>5. rga[left].link = NoLink
    BY <2>2, <2>4
  <2>6. last = left
    <3> SUFFICES ASSUME last # left PROVE FALSE
      OBVIOUS
    <3>1. last \in left + 1 .. last /\ last \notin open
      BY <1>1, <2>1, <2>2, <2>4
    <3>2. /\ Less(id, rga[last].id) /\ last \in 1 .. Len(rga) /\ rga[last] \in ChunkType
          /\ rga[last].link # NoLink
      BY <1>1, <1>2, <3>1
    <3>3. Follows(rga[last], IdsOf(rga), ref)
      BY <3>2, PartsOfList DEF LinksOk, LinkOk
    <3> DEFINE y == NextId(rga[last])
    <3>4. PICK m \in last + 1 .. Len(rga) :
            rga[m].id = y /\ \A k \in last + 1 .. m - 1 : Less(y, rga[k].id)
      BY <3>2, <3>3, NextIsBehind
    <3>5. last + 1 \in 1 .. Len(rga) /\ last # Len(rga) /\ (m = last + 1 \/ last + 1 \in last + 1 .. m - 1)
      <4>1. m \in Nat /\ m >= last + 1 /\ m <= Len(rga)
        BY <1>1
      <4>2. last + 1 \in 1 .. Len(rga) /\ last # Len(rga)
        <5>1. last + 1 <= Len(rga) /\ last \in Nat /\ Len(rga) \in Nat
          BY <1>1, <4>1
        <5> QED
          BY <5>1
      <4>3. CASE m = last + 1
        BY <4>2, <4>3
      <4>4. CASE m # last + 1
        <5>1. last + 1 \in last + 1 .. m - 1
          BY <1>1, <4>1, <4>4
        <5> QED
          BY <4>2, <5>1
      <4> QED
        BY <4>3, <4>4
    <3>6. rga[last + 1] \in ChunkType /\ Stops(rga[last + 1], new)
      BY <1>1, <3>5 DEF Passed
    <3> DEFINE e == rga[last + 1].id
    <3>7. e \in Timestamp /\ (e = id \/ Less(e, id))
      BY <3>6, ChunkFields DEF Stops
    <3>8. e = y \/ Less(y, e)
      BY <3>4, <3>5
    <3>9. y \in Timestamp /\ rga[last].id \in Timestamp /\ Less(rga[last].id, y)
      <4>1. /\ y \in Timestamp /\ y.time = NextTick(rga[last]) /\ rga[last].id \in Timestamp
            /\ rga[last].id.time \in Nat /\ rga[last].span \in Nat /\ rga[last].span > 0
            /\ NextTick(rga[last]) = rga[last].id.time + rga[last].span
        BY <3>2, FirstCovered, ChunkFields
      <4>2. rga[last].id.time < y.time
        BY <4>1
      <4> QED
        BY <4>1, <4>2 DEF Less
    <3> HIDE DEF e, y
    <3>10. Less(id, y)
      BY <3>2, <3>9, LessIsTransitive
    <3>11. Less(id, e)
      BY <3>7, <3>8, <3>9, <3>10, LessIsTransitive
    <3> QED
      BY <3>7, <3>11, LessIsAsymmetric
  <2> QED
    BY <2>4, <2>5, <2>6 DEF top
<1> QED
  BY <1>2, <1>3

\* Every item of a chunk is at or after its start, in its own session.
LEMMA ItemAt ==
  ASSUME NEW rga \in Seq(ChunkType), NEW p \in 1 .. Len(Items(rga))
  PROVE  \E i \in 1 .. Len(rga) : \E k \in 1 .. rga[i].span :
           /\ p = Start(rga, i) + k
           /\ Items(rga)[p].id \in Timestamp
           /\ Items(rga)[p].id.sid = rga[i].id.sid
           /\ Items(rga)[p].id.time = rga[i].id.time + k - 1
           /\ Items(rga)[p].live = ~rga[i].deleted
<1>1. PICK i \in 1 .. Len(rga) : \E k \in 1 .. rga[i].span : p = Start(rga, i) + k
  BY ChunkOfItem
<1>2. PICK k \in 1 .. rga[i].span : p = Start(rga, i) + k
  BY <1>1
<1>3. Items(rga)[Start(rga, i) + k]
        = [id |-> Ts(rga[i].id.sid, rga[i].id.time + k - 1), live |-> ~rga[i].deleted]
  BY <1>2, ItemsOfChunk
<1>4. /\ Items(rga)[p].id = Ts(rga[i].id.sid, rga[i].id.time + k - 1)
      /\ Items(rga)[p].live = ~rga[i].deleted
  BY <1>2, <1>3
<1>5. rga[i] \in ChunkType
  OBVIOUS
<1>6. Ts(rga[i].id.sid, rga[i].id.time + k - 1) \in Timestamp
  BY <1>5, RunFacts
<1> QED
  BY <1>2, <1>4, <1>6, StampFacts

\* The chunk of a place that is behind the start of another chunk.
LEMMA ChunksInOrder ==
  ASSUME NEW rga \in Seq(ChunkType), NEW i \in 1 .. Len(rga), NEW k \in 1 .. rga[i].span,
         NEW j \in 1 .. Len(rga) + 1
  PROVE  /\ Start(rga, i) + k <= Start(rga, j) <=> i < j
         /\ Start(rga, j) < Start(rga, i) + k <=> j <= i
         /\ Start(rga, i) \in Nat /\ Start(rga, j) \in Nat /\ k \in Nat /\ k >= 1
         /\ rga[i].span \in Nat /\ k <= rga[i].span
<1>1. /\ Len(rga) \in Nat /\ i \in Nat /\ j \in Nat /\ rga[i] \in ChunkType /\ i \in 1 .. Len(rga) + 1
  OBVIOUS
<1>2. Start(rga, i) \in Nat /\ Start(rga, j) \in Nat /\ rga[i].span \in Nat
  BY <1>1, StartFacts, ChunkFields
<1>3. k \in Nat /\ k >= 1 /\ k <= rga[i].span
  BY <1>2
<1>4. i < j => Start(rga, i) + rga[i].span <= Start(rga, j)
  <2> SUFFICES ASSUME i < j PROVE Start(rga, i) + rga[i].span <= Start(rga, j)
    OBVIOUS
  <2>1. j \in i + 1 .. Len(rga) + 1
    BY <1>1
  <2> QED
    BY <2>1, StartGrows
<1>5. j < i => Start(rga, j) <= Start(rga, i)
  <2> SUFFICES ASSUME j < i PROVE Start(rga, j) <= Start(rga, i)
    OBVIOUS
  <2>1. i \in j + 1 .. Len(rga) + 1 /\ j \in 1 .. Len(rga)
    BY <1>1
  <2>2. Start(rga, j) + rga[j].span <= Start(rga, i)
    BY <2>1, StartGrows
  <2>3. rga[j].span \in Nat
    <3>1. rga[j] \in ChunkType
      BY <2>1
    <3> QED
      BY <3>1, ChunkFields
  <2> QED
    BY <1>2, <2>2, <2>3
<1> DEFINE a == Start(rga, i)
           b == Start(rga, j)
           n == rga[i].span
<1>6. /\ a \in Nat /\ b \in Nat /\ n \in Nat /\ k <= n
      /\ i < j => a + n <= b
      /\ j < i => b <= a
      /\ i = j => a = b
  BY <1>2, <1>3, <1>4, <1>5
<1> HIDE DEF a, b, n
<1>7. (a + k <= b <=> i < j) /\ (b < a + k <=> j <= i)
  BY <1>1, <1>3, <1>6
<1> QED
  BY <1>2, <1>3, <1>7 DEF a, b

\* A chunk where the walk for `id' behind `after' may start.
Enters(rga, id, after, left) ==
  \/ after = StrId /\ left = 1 /\ Less(id, rga[1].id)
  \/ /\ Covers(rga[left], after)
     /\ after = LastId(rga[left]) \/ (id.time = after.time + 1 /\ id.sid <= after.sid)

\* The walk ends where the specification puts the new items.
LEMMA WalkPlace ==
  ASSUME NEW rga \in Seq(ChunkType), NEW id \in Timestamp, NEW new, new.id = id,
         NEW after \in Timestamp, after.time < id.time, id \notin IdsOf(rga),
         NEW left \in 1 .. Len(rga), NEW last, Passed(rga, new, left, last),
         Enters(rga, id, after, left)
  PROVE  WalkEnds(Items(rga), after, id, Start(rga, last + 1))
<1> DEFINE items == Items(rga)
           front == Start(rga, last + 1)
<1>1. /\ Len(rga) \in Nat /\ last \in left .. Len(rga) /\ left \in Nat /\ left >= 1 /\ last \in Nat
      /\ last + 1 \in 1 .. Len(rga) + 1 /\ last \in 1 .. Len(rga)
  <2>1. last \in left .. Len(rga)
    BY DEF Passed
  <2>2. Len(rga) \in Nat /\ left \in Nat /\ left >= 1
    OBVIOUS
  <2> QED
    BY <2>1, <2>2
<1>2. front \in Nat /\ Len(items) \in Nat /\ Start(rga, Len(rga) + 1) = Len(items)
  BY <1>1, StartFacts, ItemsIsList
<1>3. front \in 0 .. Len(items) /\ (last # Len(rga) => front + 1 \in 1 .. Len(items) /\ items[front + 1].id = rga[last + 1].id)
  <2>1. CASE last = Len(rga)
    BY <1>2, <2>1
  <2>2. CASE last # Len(rga)
    <3>1. last + 1 \in 1 .. Len(rga)
      BY <1>1, <2>2
    <3>2. rga[last + 1] \in ChunkType
      BY <3>1
    <3> DEFINE c == rga[last + 1]
    <3>3. c.id \in Timestamp /\ Covers(c, c.id) /\ c.id.time \in Nat
      BY <3>2, FirstCovered, ChunkFields
    <3>4. c.id.time - c.id.time + 1 = 1
      BY <3>3
    <3>5. /\ Start(rga, last + 1) + (c.id.time - c.id.time + 1) \in 1 .. Len(items)
          /\ items[Start(rga, last + 1) + (c.id.time - c.id.time + 1)].id = c.id
      BY <3>1, <3>3, PlaceOfStamp
    <3> HIDE DEF c
    <3>6. front + 1 \in 1 .. Len(items) /\ items[front + 1].id = c.id
      BY <3>4, <3>5
    <3> HIDE DEF front, items
    <3> QED
      BY <1>2, <3>6 DEF c
  <2> QED
    BY <2>1, <2>2
<1>4. front = Len(items) \/ Less(items[front + 1].id, id)
  <2>1. CASE last = Len(rga)
    BY <1>2, <2>1
  <2>2. CASE last # Len(rga)
    <3>1. last + 1 \in 1 .. Len(rga) /\ Stops(rga[last + 1], new)
      <4>1. last + 1 \in 1 .. Len(rga)
        BY <1>1, <2>2
      <4> QED
        BY <2>2, <4>1 DEF Passed
    <3>2. rga[last + 1] \in ChunkType
      BY <3>1
    <3>3. rga[last + 1].id # id
      <4>1. rga[last + 1].id \in IdsOf(rga)
        <5>1. rga[last + 1].id \in Timestamp /\ Covers(rga[last + 1], rga[last + 1].id)
          BY <3>2, FirstCovered, ChunkFields
        <5>2. last + 1 \in DOMAIN rga
          BY <3>1
        <5> QED
          BY <5>1, <5>2 DEF IdsOf
      <4> QED
        BY <4>1
    <3> QED
      BY <1>3, <2>2, <3>1, <3>3 DEF Stops
  <2> QED
    BY <2>1, <2>2
\* What is passed of the chunks behind the first.
<1>5. ASSUME NEW k \in 1 .. front, NEW i \in 1 .. Len(rga), NEW n \in 1 .. rga[i].span,
             k = Start(rga, i) + n, i > left
      PROVE  ~Less(Ts(rga[i].id.sid, rga[i].id.time + n - 1), id)
  <2>1. i < last + 1 /\ n \in Nat /\ n >= 1
    <3>1. Start(rga, i) + n <= Start(rga, last + 1) <=> i < last + 1
      BY <1>1, ChunksInOrder
    <3>2. n \in Nat /\ n >= 1 /\ Start(rga, i) \in Nat
      BY <1>1, ChunksInOrder
    <3> QED
      BY <1>2, <1>5, <3>1, <3>2
  <2>2. i \in left + 1 .. last
    BY <1>1, <1>5, <2>1
  <2>3. ~Less(rga[i].id, id)
    BY <2>2 DEF Passed, Stops
  <2>4. rga[i] \in ChunkType
    OBVIOUS
  <2>5. rga[i].id.time \in Nat /\ rga[i].id.sid \in Nat /\ id.time \in Nat /\ id.sid \in Nat
    BY <2>4, ChunkFields, StampIs
  <2> QED
    BY <2>1, <2>3, <2>5, StampFacts DEF Less
<1>6. CASE after = StrId /\ left = 1 /\ Less(id, rga[1].id)
  <2>1. ASSUME NEW k \in 1 .. front PROVE ~Less(items[k].id, id)
    <3>1. k \in 1 .. Len(items)
      BY <1>2, <1>3
    <3>2. PICK i \in 1 .. Len(rga) : \E n \in 1 .. rga[i].span : k = Start(rga, i) + n
      BY <3>1, ChunkOfItem
    <3>3. PICK n \in 1 .. rga[i].span : k = Start(rga, i) + n
      BY <3>2
    <3>4. items[Start(rga, i) + n]
            = [id |-> Ts(rga[i].id.sid, rga[i].id.time + n - 1), live |-> ~rga[i].deleted]
      BY ItemsOfChunk
    <3>5. items[k].id = Ts(rga[i].id.sid, rga[i].id.time + n - 1)
      BY <3>3, <3>4
    <3>6. CASE i > left
      BY <1>5, <3>3, <3>5, <3>6
    <3>7. CASE ~(i > left)
      <4>1. i = 1
        BY <1>6, <3>7
      <4>2. rga[1] \in ChunkType
        BY <4>1
      <4>3. rga[1].id.time \in Nat /\ rga[1].id.sid \in Nat /\ id.time \in Nat /\ id.sid \in Nat
            /\ rga[1].span \in Nat
        BY <4>2, ChunkFields, StampIs
      <4>4. n \in Nat /\ n >= 1
        BY <4>1, <4>3
      <4> QED
        BY SMTT(30), <1>6, <3>5, <4>1, <4>3, <4>4, StampFacts DEF Less
    <3> QED
      BY <3>6, <3>7
  <2>2. 0 \in 0 .. front /\ NameAt(items, 0) = after /\ \A k \in 0 + 1 .. front : ~Less(items[k].id, id)
    BY <1>2, <1>6, <2>1 DEF NameAt
  <2> HIDE DEF items, front
  <2> QED
    BY <1>3, <1>4, <2>2 DEF WalkEnds, front, items
<1>7. CASE /\ Covers(rga[left], after)
           /\ after = LastId(rga[left]) \/ (id.time = after.time + 1 /\ id.sid <= after.sid)
  <2> DEFINE a == after.time - rga[left].id.time + 1
             p == Start(rga, left) + a
  <2>1. a \in 1 .. rga[left].span /\ p \in 1 .. Len(items) /\ items[p].id = after
    BY <1>7, PlaceOfStamp
  <2>2. rga[left] \in ChunkType
    OBVIOUS
  <2>3. /\ rga[left].id.time \in Nat /\ rga[left].span \in Nat /\ after.time \in Nat /\ id.time \in Nat
        /\ after.sid \in Nat /\ id.sid \in Nat /\ rga[left].id.sid = after.sid
        /\ NextTick(rga[left]) = rga[left].id.time + rga[left].span
        /\ after.time = rga[left].id.time + a - 1
    <3>1. /\ rga[left].id.time \in Nat /\ rga[left].span \in Nat /\ after.time \in Nat /\ id.time \in Nat
          /\ after.sid \in Nat /\ id.sid \in Nat
          /\ NextTick(rga[left]) = rga[left].id.time + rga[left].span
      BY <2>2, ChunkFields, StampIs
    <3>2. rga[left].id.sid = after.sid
      BY <1>7 DEF Covers
    <3> QED
      BY <3>1, <3>2
  <2> HIDE DEF a
  <2>4. p <= front /\ p \in Nat
    <3>1. Start(rga, left) + a <= Start(rga, last + 1) <=> left < last + 1
      BY <1>1, <2>1, ChunksInOrder
    <3> QED
      BY <1>1, <1>2, <2>1, <3>1
  <2> HIDE DEF p, items, front
  <2>5. ASSUME NEW k \in p + 1 .. front PROVE ~Less(items[k].id, id)
    <3>1. k \in 1 .. Len(items) /\ k \in 1 .. front /\ k > p
      BY <1>2, <1>3, <2>4
    <3>2. PICK i \in 1 .. Len(rga) : \E n \in 1 .. rga[i].span : k = Start(rga, i) + n
      BY <3>1, ChunkOfItem DEF items
    <3>3. PICK n \in 1 .. rga[i].span : k = Start(rga, i) + n
      BY <3>2
    <3>4. items[Start(rga, i) + n]
            = [id |-> Ts(rga[i].id.sid, rga[i].id.time + n - 1), live |-> ~rga[i].deleted]
      BY ItemsOfChunk DEF items
    <3>5. items[k].id = Ts(rga[i].id.sid, rga[i].id.time + n - 1)
      BY <3>3, <3>4
    <3>6. CASE i > left
      BY <1>5, <3>1, <3>3, <3>5, <3>6 DEF front
    <3>7. CASE ~(i > left)
      <4>1. left \in 1 .. Len(rga) + 1 /\ i \in Nat
        BY <1>1
      <4>2. /\ Start(rga, left) < Start(rga, i) + n <=> left <= i
            /\ Start(rga, i) \in Nat /\ Start(rga, left) \in Nat /\ n \in Nat
            /\ n <= rga[i].span
        BY <4>1, ChunksInOrder
      <4>3. Start(rga, left) < k /\ a \in Nat
        BY <2>1, <2>3, <3>1, <4>2, SMTT(30) DEF p
      <4>4. i = left
        BY <1>1, <3>3, <3>7, <4>1, <4>2, <4>3
      <4>5. n > a /\ n <= rga[left].span
        BY <3>1, <3>3, <4>2, <4>3, <4>4 DEF p
      <4>6. after # LastId(rga[left])
        <5>1. after.time # NextTick(rga[left]) - 1
          <6> DEFINE u == rga[left].id.time
                     v == rga[left].span
          <6>1. u \in Nat /\ v \in Nat /\ n \in Nat /\ a \in Nat /\ n > a /\ n <= v
                /\ NextTick(rga[left]) = u + v /\ after.time = u + a - 1
            BY <2>3, <4>2, <4>3, <4>5
          <6> HIDE DEF u, v
          <6> QED
            BY <6>1
        <5>2. LastId(rga[left]).time = NextTick(rga[left]) - 1
          BY <2>2, FirstCovered
        <5> QED
          BY <5>1, <5>2
      <4>7. id.time = after.time + 1 /\ id.sid <= after.sid
        BY <1>7, <4>6
      <4>8. items[k].id.sid = after.sid /\ items[k].id.time = rga[left].id.time + n - 1
        BY <2>3, <3>5, <4>4, StampFacts
      <4>9. items[k].id.time >= id.time /\ items[k].id.time \in Nat
        <5> DEFINE u == rga[left].id.time
                   w == items[k].id.time
        <5>1. u \in Nat /\ n \in Nat /\ a \in Nat /\ n > a /\ w = u + n - 1
              /\ after.time = u + a - 1 /\ id.time = after.time + 1
          BY <2>3, <4>2, <4>3, <4>5, <4>7, <4>8
        <5> HIDE DEF u, w
        <5>2. w >= id.time /\ w \in Nat
          BY <5>1
        <5> QED
          BY <5>2 DEF w
      <4> QED
        BY <2>3, <4>7, <4>8, <4>9, SMTT(30) DEF Less
    <3> QED
      BY <3>6, <3>7
  <2>6. NameAt(items, p) = after /\ p \in 0 .. front
    BY <1>2, <2>1, <2>4 DEF NameAt
  <2>7. WalkEnds(items, after, id, front)
    BY <1>2, <1>3, <1>4, <2>5, <2>6 DEF WalkEnds, items, front
  <2> QED
    BY <2>7 DEF items, front
<1> QED
  BY <1>6, <1>7 DEF Enters

\* Lists of chunks that hold the same runs hold the same items.
LEMMA SameItems ==
  ASSUME NEW a \in Seq(ChunkType), NEW b \in Seq(ChunkType), Len(a) = Len(b),
         \A j \in 1 .. Len(a) : RunOf(a[j]) = RunOf(b[j])
  PROVE  Items(a) = Items(b)
<1>1. Runs(a) = Runs(b)
  <2>1. DOMAIN a = 1 .. Len(a) /\ DOMAIN b = 1 .. Len(a)
    OBVIOUS
  <2> QED
    BY <2>1 DEF Runs
<1> QED
  BY <1>1, RunsAreLists

\* Chunks with the same runs have the same items, up to any place.
LEMMA SameHalves ==
  ASSUME NEW a \in Seq(ChunkType), NEW b \in Seq(ChunkType), Len(a) = Len(b),
         \A j \in 1 .. Len(a) : RunOf(a[j]) = RunOf(b[j]), NEW i \in 0 .. Len(a)
  PROVE  Items(Upto(a, i)) = Items(Upto(b, i)) /\ Items(Behind(a, i)) = Items(Behind(b, i))
<1> DEFINE n == Len(a)
           a1 == Upto(a, i)
           b1 == Upto(b, i)
           a2 == Behind(a, i)
           b2 == Behind(b, i)
<1>1. n \in Nat /\ i \in 0 .. n /\ Len(b) = n
  OBVIOUS
<1>2. /\ a1 \in Seq(ChunkType) /\ Len(a1) = i /\ \A k \in 1 .. i : a1[k] = a[k]
      /\ a2 \in Seq(ChunkType) /\ Len(a2) = n - i /\ \A k \in 1 .. n - i : a2[k] = a[i + k]
  BY HalvesOfChunks
<1>3. /\ b1 \in Seq(ChunkType) /\ Len(b1) = i /\ \A k \in 1 .. i : b1[k] = b[k]
      /\ b2 \in Seq(ChunkType) /\ Len(b2) = n - i /\ \A k \in 1 .. n - i : b2[k] = b[i + k]
  <2>1. i \in 0 .. Len(b)
    BY <1>1
  <2>2. /\ Upto(b, i) \in Seq(ChunkType) /\ Behind(b, i) \in Seq(ChunkType)
        /\ Len(Upto(b, i)) = i /\ Len(Behind(b, i)) = Len(b) - i
        /\ \A k \in 1 .. i : Upto(b, i)[k] = b[k]
        /\ \A k \in 1 .. Len(b) - i : Behind(b, i)[k] = b[i + k]
    BY <2>1, HalvesOfChunks
  <2> QED
    BY <1>1, <2>2
<1>4. \A j \in 1 .. n : RunOf(a[j]) = RunOf(b[j])
  OBVIOUS
<1> HIDE DEF n, a1, b1, a2, b2
<1>5. Len(a1) = Len(b1) /\ \A k \in 1 .. Len(a1) : RunOf(a1[k]) = RunOf(b1[k])
  <2> SUFFICES ASSUME NEW k \in 1 .. i PROVE RunOf(a1[k]) = RunOf(b1[k])
    BY <1>2, <1>3
  <2>1. k \in 1 .. n
    BY <1>1
  <2> QED
    BY <1>2, <1>3, <1>4, <2>1
<1>6. Len(a2) = Len(b2) /\ \A k \in 1 .. Len(a2) : RunOf(a2[k]) = RunOf(b2[k])
  <2> SUFFICES ASSUME NEW k \in 1 .. n - i PROVE RunOf(a2[k]) = RunOf(b2[k])
    BY <1>2, <1>3
  <2>1. i + k \in 1 .. n
    BY <1>1
  <2> QED
    BY <1>2, <1>3, <1>4, <2>1
<1> QED
  BY <1>2, <1>3, <1>5, <1>6, SameItems DEF a1, b1, a2, b2

\* The links that a walk sets: at most one, that of its first chunk.
Linked(rga, new, after, open) ==
  [j \in DOMAIN rga |->
     IF j \in open /\ Continues(rga[j], new, after)
     THEN [rga[j] EXCEPT !.link = new.id] ELSE rga[j]]

NoneContinues(rga, new, after, left, last) ==
  \A j \in left + 1 .. last : ~Continues(rga[j], new, after)

\* The chunks after a walk: the first may have got a link, no other changed.
FirstLinked(rga, new, after, left, linked) ==
  /\ linked \in Seq(ChunkType) /\ Len(linked) = Len(rga)
  /\ \A j \in 1 .. Len(rga) : RunOf(linked[j]) = RunOf(rga[j])
  /\ \A j \in 1 .. Len(rga) :
       \/ linked[j] = rga[j] /\ ~(j = left /\ rga[j].link = NoLink /\ Continues(rga[j], new, after))
       \/ /\ j = left /\ rga[j].link = NoLink /\ Continues(rga[j], new, after)
          /\ linked[j] = Chunk(rga[j].id, rga[j].span, rga[j].deleted, new.id)

\* Only the first chunk of the walk gets a link to the new one.
LEMMA LinkedChunks ==
  ASSUME NEW rga \in Seq(ChunkType), NEW new \in ChunkType, NEW after,
         NEW left \in 1 .. Len(rga), NEW last \in left .. Len(rga),
         NoneContinues(rga, new, after, left, last),
         NEW linked, linked = Linked(rga, new, after, Open(rga, left, last))
  PROVE  FirstLinked(rga, new, after, left, linked)
<1> DEFINE open == {j \in left .. last : rga[j].link = NoLink}
<1> USE DEF Open
<1>1. /\ Len(rga) \in Nat /\ DOMAIN rga = 1 .. Len(rga) /\ left \in Nat /\ last \in Nat /\ left <= last
      /\ new.id \in Timestamp
  BY ChunkFields
<1>2. ASSUME NEW j \in 1 .. Len(rga)
      PROVE  /\ RunOf(linked[j]) = RunOf(rga[j]) /\ linked[j] \in ChunkType
             /\ \/ linked[j] = rga[j] /\ ~(j = left /\ rga[j].link = NoLink /\ Continues(rga[j], new, after))
                \/ /\ j = left /\ rga[j].link = NoLink /\ Continues(rga[j], new, after)
                   /\ linked[j] = Chunk(rga[j].id, rga[j].span, rga[j].deleted, new.id)
  <2>1. rga[j] \in ChunkType
    OBVIOUS
  <2>2. linked[j] = IF j \in open /\ Continues(rga[j], new, after)
                    THEN [rga[j] EXCEPT !.link = new.id] ELSE rga[j]
    BY <1>1 DEF Linked
  <2>3. CASE j \in open /\ Continues(rga[j], new, after)
    <3>1. j = left /\ rga[j].link = NoLink
      <4>1. j \in left .. last /\ j \notin left + 1 .. last /\ rga[j].link = NoLink
        BY <2>3 DEF NoneContinues
      <4> QED
        BY <1>1, <4>1
    <3> DEFINE c == rga[j]
               d == linked[j]
    <3>2. c \in ChunkType
      BY <2>1
    <3>3. d = [c EXCEPT !.link = new.id]
      BY <2>2, <2>3
    <3> HIDE DEF c, d
    <3>4. d = Chunk(c.id, c.span, c.deleted, new.id)
      <4>1. \A l : [c EXCEPT !.link = l] = Chunk(c.id, c.span, c.deleted, l)
        BY <3>2, ChunkFields, NewFields, Zenon
      <4> QED
        BY <3>3, <4>1, Zenon
    <3>5. d \in ChunkType /\ d.id = c.id /\ d.span = c.span /\ d.deleted = c.deleted
      <4>1. c.id \in Timestamp /\ c.span \in Nat \ {0} /\ c.deleted \in BOOLEAN
        BY <3>2 DEF ChunkType
      <4> QED
        BY <1>1, <3>4, <4>1 DEF Chunk, ChunkType
    <3>6. RunOf(d) = RunOf(c)
      BY <3>5 DEF RunOf
    <3> QED
      BY <2>3, <3>1, <3>4, <3>5, <3>6 DEF c, d
  <2>4. CASE ~(j \in open /\ Continues(rga[j], new, after))
    <3>1. linked[j] = rga[j]
      BY <2>2, <2>4
    <3>2. ~(j = left /\ rga[j].link = NoLink /\ Continues(rga[j], new, after))
      <4> SUFFICES ASSUME j = left, rga[j].link = NoLink PROVE j \in open
        BY <2>4
      <4> QED
        BY <1>1
    <3> QED
      BY <2>1, <3>1, <3>2
  <2> QED
    BY <2>3, <2>4
<1>3. linked \in [1 .. Len(rga) -> ChunkType]
  <2>1. DOMAIN linked = 1 .. Len(rga) /\ linked = [j \in 1 .. Len(rga) |-> linked[j]]
    BY <1>1 DEF Linked
  <2> QED
    BY <1>2, <2>1
<1>4. linked \in Seq(ChunkType) /\ Len(linked) = Len(rga)
  <2> DEFINE n == Len(rga)
  <2>1. n \in Nat /\ linked \in [1 .. n -> ChunkType]
    BY <1>1, <1>3
  <2> HIDE DEF n
  <2>2. linked \in Seq(ChunkType) /\ Len(linked) = n
    BY <2>1
  <2> QED
    BY <2>2 DEF n
<1> QED
  BY <1>2, <1>4 DEF FirstLinked

-----------------------------------------------------------------------------
\* What an insertion that is new to the list brings.
Fresh(names, ref, id, span, after) ==
  /\ Interval(id, span) \cap names = {}
  /\ \A y \in names : ref[y] \notin Interval(id, span)
  /\ \A y \in Interval(id, span) \ {id} : ref[y] = Ts(y.sid, y.time - 1)
  /\ ref[id] = after /\ after.time < id.time

\* A good link stays good when a fresh run is inserted.
LEMMA KeptLinks ==
  ASSUME NEW c \in ChunkType, NEW names, NEW ref, NEW id \in Timestamp, NEW span \in Nat \ {0},
         NEW after, Fresh(names, ref, id, span, after), LastId(c) \in names,
         NEW more, more = names \cup Interval(id, span)
  PROVE  /\ LinkOk(c, names, ref) => LinkOk(c, more, ref)
         /\ LinkFull(c, names, ref) /\ ~(NextId(c) = id /\ LastId(c) = after) => LinkFull(c, more, ref)
<1>1. LinkOk(c, names, ref) => LinkOk(c, more, ref)
  BY DEF LinkOk, Follows
<1>2. ASSUME LinkFull(c, names, ref), ~(NextId(c) = id /\ LastId(c) = after), Follows(c, more, ref)
      PROVE  c.link = NextId(c)
  <2>1. CASE NextId(c) \in names
    BY <1>2, <2>1 DEF LinkFull, Follows
  <2>2. CASE NextId(c) \in Interval(id, span)
    <3> DEFINE y == NextId(c)
               x == LastId(c)
    <3>1. ref[y] = x
      BY <1>2 DEF Follows
    <3>2. y # id
      BY <1>2, <3>1 DEF Fresh
    <3>3. y.sid = id.sid /\ y.time \in Nat /\ id.time <= y.time /\ y.time < id.time + span
          /\ x.sid = y.sid /\ x.time = y.time - 1 /\ y \in Timestamp /\ x \in Timestamp
      BY <2>2, IntervalBounds, FirstCovered
    <3>4. y = Ts(y.sid, y.time) /\ id = Ts(id.sid, id.time) /\ x = Ts(x.sid, x.time) /\ id.time \in Nat
      BY <3>3, StampIs
    <3> HIDE DEF x, y
    <3>5. y.time # id.time
      BY <3>2, <3>3, <3>4
    <3>6. x.time - id.time \in 0 .. span - 1 /\ x.time = id.time + (x.time - id.time)
      BY <3>3, <3>4, <3>5
    <3>7. x = Ts(id.sid, id.time + (x.time - id.time))
      BY <3>3, <3>4, <3>6
    <3>8. x \in Interval(id, span)
      BY <3>6, <3>7 DEF Interval
    <3> QED
      BY <3>8 DEF Fresh, x
  <2> QED
    BY <1>2, <2>1, <2>2 DEF Follows
<1> QED
  BY <1>1, <1>2 DEF LinkFull

\* A chunk that ends with the new run goes on nowhere.
LEMMA NewEnds ==
  ASSUME NEW c \in ChunkType, NEW names, NEW ref, NEW id \in Timestamp, NEW span \in Nat \ {0},
         NEW after, Fresh(names, ref, id, span, after), NextId(c) = Ts(id.sid, id.time + span),
         LastId(c) = Ts(id.sid, id.time + span - 1), c.link = NoLink,
         NEW more, more = names \cup Interval(id, span)
  PROVE  LinkOk(c, more, ref) /\ LinkFull(c, more, ref)
<1>1. id.time \in Nat /\ span \in Nat /\ span > 0
  BY StampIs
<1>2. LastId(c) \in Interval(id, span)
  <2>1. span - 1 \in 0 .. span - 1 /\ id.time + span - 1 = id.time + (span - 1)
    BY <1>1
  <2> QED
    BY <2>1 DEF Interval
<1>3. NextId(c) \notin Interval(id, span)
  <2> SUFFICES ASSUME NextId(c) \in Interval(id, span) PROVE FALSE
    OBVIOUS
  <2>1. NextId(c).time < id.time + span
    BY IntervalBounds
  <2>2. NextId(c).time = id.time + span
    BY StampFacts
  <2> QED
    BY <1>1, <2>1, <2>2
<1> QED
  BY <1>2, <1>3 DEF LinkOk, LinkFull, Follows, Fresh

\* The chunk of a new run: shown, and without a link.
LEMMA NewChunkType ==
  ASSUME NEW id \in Timestamp, NEW span \in Nat \ {0}
  PROVE  LET new == NewChunk(id, span)
         IN  /\ new \in ChunkType /\ new.id = id /\ new.span = span /\ new.deleted = FALSE
             /\ new.link = NoLink
             /\ NextId(new) = Ts(id.sid, id.time + span) /\ LastId(new) = Ts(id.sid, id.time + span - 1)
<1> DEFINE new == NewChunk(id, span)
<1>1. /\ new \in ChunkType /\ new.id = id /\ new.span = span /\ new.deleted = FALSE
      /\ new.link = NoLink
  BY DEF NewChunk, Chunk, ChunkType
<1> HIDE DEF new
<1>2. NextTick(new) = id.time + span
  BY <1>1 DEF NextTick
<1>3. NextId(new) = Ts(id.sid, id.time + span)
  BY <1>1, <1>2 DEF NextId
<1>4. LastId(new) = Ts(id.sid, id.time + span - 1)
  <2>1. LastId(new) = Ts(new.id.sid, NextTick(new) - 1)
    BY DEF LastId
  <2>2. NextTick(new) - 1 = id.time + span - 1
    <3>1. id.time \in Nat /\ span \in Nat
      BY StampIs
    <3> QED
      BY <1>2, <3>1
  <2> QED
    BY <1>1, <2>1, <2>2
<1> QED
  BY <1>1, <1>3, <1>4 DEF new

\* A list with one chunk changed.
ChangedAt(changed, rga, i, e) ==
  /\ DOMAIN changed = DOMAIN rga /\ changed = [j \in DOMAIN rga |-> changed[j]]
  /\ changed[i] = e /\ \A j \in 1 .. Len(rga) : j # i => changed[j] = rga[j]

\* A list with one changed chunk is a replacement by that chunk.
LEMMA OneChanged ==
  ASSUME NEW rga \in Seq(ChunkType), NEW i \in 1 .. Len(rga), NEW e \in ChunkType,
         NEW changed, ChangedAt(changed, rga, i, e)
  PROVE  changed = Replace(rga, i, <<e>>) /\ changed \in Seq(ChunkType) /\ Len(changed) = Len(rga)
<1> DEFINE n == Len(rga)
           a == Upto(rga, i - 1)
           b == Behind(rga, i)
           one == <<e>>
           ae == a \o one
           all == ae \o b
<1> USE DEF ChangedAt
<1>1. n \in Nat /\ i \in Nat /\ 1 <= i /\ i <= n /\ i - 1 \in 0 .. n /\ i \in 0 .. n /\ DOMAIN rga = 1 .. n
      /\ \A j \in 1 .. n : rga[j] \in ChunkType
  OBVIOUS
<1>2. /\ a \in Seq(ChunkType) /\ Len(a) = i - 1 /\ \A k \in 1 .. i - 1 : a[k] = rga[k]
      /\ b \in Seq(ChunkType) /\ Len(b) = n - i /\ \A k \in 1 .. n - i : b[k] = rga[i + k]
  <2>1. /\ a \in Seq(ChunkType) /\ Len(a) = i - 1 /\ \A k \in 1 .. i - 1 : a[k] = rga[k]
    BY <1>1, HalvesOfChunks
  <2>2. /\ b \in Seq(ChunkType) /\ Len(b) = n - i /\ \A k \in 1 .. n - i : b[k] = rga[i + k]
    BY <1>1, HalvesOfChunks
  <2> QED
    BY <2>1, <2>2
<1>3. one \in Seq(ChunkType) /\ Len(one) = 1 /\ one[1] = e
  OBVIOUS
<1>4. Replace(rga, i, <<e>>) = all
  BY <1>3, Around
<1> HIDE DEF a, b, one
<1>5. /\ ae \in Seq(ChunkType) /\ Len(ae) = Len(a) + Len(one)
      /\ \A k \in 1 .. Len(a) + Len(one) : ae[k] = IF k <= Len(a) THEN a[k] ELSE one[k - Len(a)]
  BY <1>2, <1>3, ConcatProperties
<1> HIDE DEF ae
<1>6. /\ all \in Seq(ChunkType) /\ Len(all) = Len(ae) + Len(b)
      /\ \A k \in 1 .. Len(ae) + Len(b) : all[k] = IF k <= Len(ae) THEN ae[k] ELSE b[k - Len(ae)]
  <2>1. ae \in Seq(ChunkType) /\ b \in Seq(ChunkType)
    BY <1>2, <1>5
  <2> QED
    BY <2>1, ConcatProperties
<1>7. changed \in [1 .. n -> ChunkType]
  <2>1. \A j \in 1 .. n : changed[j] \in ChunkType
    BY <1>1
  <2> QED
    BY <1>1, <2>1
<1> HIDE DEF n, all
<1>8. changed \in Seq(ChunkType) /\ Len(changed) = n
  BY <1>1, <1>7
<1>9. Len(all) = n /\ Len(ae) = i /\ Len(ae) + Len(b) = n /\ Len(a) + Len(one) = i
  <2>1. n \in Nat /\ i \in Nat /\ Len(a) = i - 1 /\ Len(b) = n - i /\ Len(one) = 1
    BY <1>1, <1>2, <1>3
  <2>2. Len(ae) = Len(a) + Len(one)
    BY <1>5
  <2>3. Len(all) = Len(ae) + Len(b)
    BY <1>6
  <2> QED
    BY <2>1, <2>2, <2>3, SMTT(30)
<1>10. ASSUME NEW k \in 1 .. n PROVE changed[k] = all[k]
  <2>1. CASE k < i
    <3>1. k \in 1 .. i - 1 /\ k \in 1 .. i /\ k <= i /\ k <= i - 1 /\ k # i
      BY <1>1, <2>1
    <3>2. ae[k] = rga[k] /\ all[k] = ae[k]
      BY <1>2, <1>5, <1>6, <1>9, <3>1
    <3> QED
      BY <3>1, <3>2 DEF n
  <2>2. CASE k = i
    <3>1. i \in 1 .. i /\ ~(i <= i - 1) /\ i - (i - 1) = 1
      BY <1>1
    <3>2. ae[i] = e
      BY <1>2, <1>3, <1>5, <1>9, <3>1
    <3>3. all[i] = ae[i]
      BY <1>1, <1>6, <1>9
    <3> QED
      BY <2>2, <3>2, <3>3
  <2>3. CASE k > i
    <3>1. k - i \in 1 .. n - i /\ ~(k <= i) /\ i + (k - i) = k /\ k # i
      BY <1>1, <2>3
    <3>2. all[k] = b[k - i]
      BY <1>6, <1>9, <3>1
    <3>3. b[k - i] = rga[k]
      BY <1>2, <3>1
    <3> QED
      BY <3>1, <3>2, <3>3 DEF n
  <2> QED
    BY <1>1, <2>1, <2>2, <2>3
<1>11. changed = all
  BY <1>6, <1>8, <1>9, <1>10, SeqEqual
<1> QED
  BY <1>4, <1>8, <1>11 DEF n

-----------------------------------------------------------------------------
\* The list after the insertion of a run that is new to it.
Grown(items, result, after, id, span) ==
  \E a, b \in Seq(ItemType) :
    /\ items = a \o b
    /\ result = (a \o RunOf(NewChunk(id, span))) \o b
    /\ WalkEnds(items, after, id, Len(a))

\* What the walk from the chunk at `left' makes of a new run.
LEMMA WalkInserts ==
  ASSUME NEW rga \in Seq(ChunkType), NEW ref, ChunksPlaced(rga, ref),
         NEW names, names = IdsOf(rga), LinksOk(rga, names, ref),
         NEW id \in Timestamp, NEW span \in Nat \ {0}, NEW after \in Timestamp,
         Fresh(names, ref, id, span, after), NEW more, more = names \cup Interval(id, span),
         NEW new, new = NewChunk(id, span),
         NEW left \in 1 .. Len(rga), Enters(rga, id, after, left),
         NEW result, result = InsertAfterRef(rga, new, after, left)
  PROVE  /\ result \in Seq(ChunkType)
         /\ Grown(Items(rga), Items(result), after, id, span)
         /\ LinksOk(result, more, ref)
         /\ LinksFull(rga, names, ref) => LinksFull(result, more, ref)
<1> DEFINE last == Min({j \in left .. Len(rga) : j = Len(rga) \/ Stops(rga[j + 1], new)})
           open == Open(rga, left, last)
           linked == Linked(rga, new, after, open)
           split == open # {} /\ Continues(rga[Max(open)], new, after)
<1>1. /\ new \in ChunkType /\ new.id = id /\ new.span = span /\ new.deleted = FALSE
      /\ new.link = NoLink
      /\ NextId(new) = Ts(id.sid, id.time + span) /\ LastId(new) = Ts(id.sid, id.time + span - 1)
  <2> DEFINE fresh == NewChunk(id, span)
  <2>1. /\ fresh \in ChunkType /\ fresh.id = id /\ fresh.span = span /\ fresh.deleted = FALSE
        /\ fresh.link = NoLink
        /\ NextId(fresh) = Ts(id.sid, id.time + span) /\ LastId(fresh) = Ts(id.sid, id.time + span - 1)
    BY NewChunkType
  <2>2. new = fresh
    OBVIOUS
  <2> HIDE DEF fresh
  <2> QED
    BY <2>1, <2>2
<1>2. Passed(rga, new, left, last)
  BY WalkStops
<1>3. id \notin names /\ after.time < id.time /\ ref[id] = after
  <2>1. id \in Interval(id, span)
    <3>1. id = Ts(id.sid, id.time + 0) /\ 0 \in 0 .. span - 1
      <4>1. id.time \in Nat /\ id = Ts(id.sid, id.time)
        BY StampIs
      <4> QED
        BY <4>1
    <3> QED
      BY <3>1 DEF Interval
  <2> QED
    BY <2>1 DEF Fresh
<1>4. WalkEnds(Items(rga), after, id, Start(rga, last + 1))
  <2> HIDE DEF last
  <2> QED
    BY <1>1, <1>2, <1>3, WalkPlace
<1>5. /\ \A j \in left + 1 .. last : ~Continues(rga[j], new, after)
      /\ split => last = left /\ Max(open) = left /\ rga[left].link = NoLink
  <2> HIDE DEF last
  <2>1. LinksOk(rga, IdsOf(rga), ref) /\ new \in ChunkType /\ new.id = id
    BY <1>1
  <2> QED
    BY <1>2, <2>1, WalkFacts
<1> HIDE DEF last
<1>6. /\ last \in left .. Len(rga) /\ Len(rga) \in Nat /\ last \in 1 .. Len(rga) /\ last \in Nat
      /\ last \in 0 .. Len(rga)
  <2>1. last \in left .. Len(rga)
    BY <1>2 DEF Passed
  <2>2. Len(rga) \in Nat /\ left \in Nat /\ left >= 1
    OBVIOUS
  <2> QED
    BY <2>1, <2>2
<1>7. /\ linked \in Seq(ChunkType) /\ Len(linked) = Len(rga)
      /\ \A j \in 1 .. Len(rga) : RunOf(linked[j]) = RunOf(rga[j])
      /\ \A j \in 1 .. Len(rga) :
           \/ linked[j] = rga[j] /\ ~(j = left /\ rga[j].link = NoLink /\ Continues(rga[j], new, after))
           \/ /\ j = left /\ rga[j].link = NoLink /\ Continues(rga[j], new, after)
              /\ linked[j] = Chunk(rga[j].id, rga[j].span, rga[j].deleted, new.id)
  <2>1. linked = Linked(rga, new, after, Open(rga, left, last))
    OBVIOUS
  <2>2. new \in ChunkType /\ last \in left .. Len(rga) /\ NoneContinues(rga, new, after, left, last)
    BY <1>1, <1>5, <1>6 DEF NoneContinues
  <2> HIDE DEF linked
  <2>3. FirstLinked(rga, new, after, left, linked)
    BY <2>1, <2>2, LinkedChunks
  <2> QED
    BY <2>3 DEF FirstLinked
\* Where a chunk continues, the reference is its last item.
<1>8. rga[left] \in ChunkType
  OBVIOUS
<1>9. Continues(rga[left], new, after) =>
         /\ NextId(rga[left]) = id /\ LastId(rga[left]) = after /\ Covers(rga[left], after)
  <2> SUFFICES ASSUME Continues(rga[left], new, after)
               PROVE  NextId(rga[left]) = id /\ LastId(rga[left]) = after /\ Covers(rga[left], after)
    OBVIOUS
  <2> DEFINE c == rga[left]
  <2>1. c.id.sid = id.sid /\ NextTick(c) = id.time /\ NextTick(c) - 1 = after.time
    BY <1>1 DEF Continues
  <2>2. id = Ts(id.sid, id.time) /\ after = Ts(after.sid, after.time) /\ id.time \in Nat
    BY StampIs
  <2>3. NextId(c) = id
    BY <2>1, <2>2 DEF NextId
  <2>4. c.id.time \in Nat /\ c.span \in Nat /\ c.span > 0 /\ NextTick(c) = c.id.time + c.span
        /\ c.id.sid \in Nat
    BY <1>8, ChunkFields
  <2>5. ~(after = StrId /\ left = 1 /\ Less(id, rga[1].id))
    <3> SUFFICES ASSUME left = 1, Less(id, c.id) PROVE FALSE
      OBVIOUS
    <3> HIDE DEF c
    <3> QED
      BY <2>1, <2>2, <2>4 DEF Less
  <2>6. Covers(c, after)
    BY <2>5 DEF Enters
  <2>7. after.sid = c.id.sid
    BY <2>6 DEF Covers
  <2>8. LastId(c) = after
    BY <2>1, <2>2, <2>7 DEF LastId
  <2> QED
    BY <2>3, <2>6, <2>8
\* Only the first chunk of the walk ends with the reference.
<1>10. ASSUME NEW j \in 1 .. Len(rga), NextId(rga[j]) = id, LastId(rga[j]) = after
       PROVE  j = left /\ Continues(rga[j], new, after) /\ rga[j].link = NoLink
  <2>1. rga[j] \in ChunkType /\ DOMAIN rga = 1 .. Len(rga)
    OBVIOUS
  <2>2. Covers(rga[j], after) /\ after \in Timestamp
    BY <1>10, <2>1, FirstCovered
  <2>3. after \in names
    BY <2>1, <2>2 DEF IdsOf
  <2>4. Covers(rga[left], after)
    BY <2>3 DEF Enters, ChunksPlaced
  <2>5. j = left
    BY <2>1, <2>2, <2>4 DEF ChunksPlaced
  <2>6. Continues(rga[j], new, after)
    <3>1. /\ id.sid = rga[j].id.sid /\ id.time = NextTick(rga[j])
          /\ after.time = NextTick(rga[j]) - 1
      BY <1>10, <2>1, FirstCovered
    <3> QED
      BY <1>1, <3>1 DEF Continues
  <2>7. rga[j].link = NoLink
    <3> SUFFICES ASSUME rga[j].link # NoLink PROVE FALSE
      OBVIOUS
    <3>1. NextId(rga[j]) \in names
      BY PartsOfList DEF LinksOk, LinkOk, Follows
    <3> QED
      BY <1>3, <1>10, <3>1
  <2> QED
    BY <2>5, <2>6, <2>7
\* The links of the chunks that were there.
<1>11. ASSUME NEW j \in 1 .. Len(rga)
       PROVE  /\ LinkOk(linked[j], more, ref)
              /\ LinksFull(rga, names, ref) => LinkFull(linked[j], more, ref)
  <2> DEFINE c == rga[j]
  <2>1. c \in ChunkType /\ c \in Parts(rga) /\ DOMAIN rga = 1 .. Len(rga)
    BY PartsOfList
  <2>2. LastId(c) \in names
    <3>1. Covers(c, LastId(c)) /\ LastId(c) \in Timestamp
      BY <2>1, FirstCovered
    <3> QED
      BY <2>1, <3>1 DEF IdsOf
  <2>3. /\ LinkOk(c, names, ref)
        /\ LinksFull(rga, names, ref) => LinkFull(c, names, ref)
    BY <2>1 DEF LinksOk, LinksFull
  <2> DEFINE d == linked[j]
  <2>4. \/ d = c /\ ~(j = left /\ c.link = NoLink /\ Continues(c, new, after))
        \/ /\ j = left /\ c.link = NoLink /\ Continues(c, new, after)
           /\ d = Chunk(c.id, c.span, c.deleted, id)
    BY <1>1, <1>7
  <2>5. NextId(c) = id /\ LastId(c) = after => j = left /\ c.link = NoLink /\ Continues(c, new, after)
    BY <1>10
  <2>6. j = left /\ Continues(c, new, after) => NextId(c) = id /\ LastId(c) = after
    BY <1>9
  <2> HIDE DEF c, d, linked
  <2>7. ASSUME d = c, ~(j = left /\ c.link = NoLink /\ Continues(c, new, after))
        PROVE  LinkOk(d, more, ref) /\ (LinksFull(rga, names, ref) => LinkFull(d, more, ref))
    <3>1. LinkOk(c, names, ref) => LinkOk(c, more, ref)
      BY <2>1, <2>2, KeptLinks, Zenon
    <3>2. LinkFull(c, names, ref) /\ ~(NextId(c) = id /\ LastId(c) = after) => LinkFull(c, more, ref)
      BY <2>1, <2>2, KeptLinks, Zenon
    <3> QED
      BY <2>3, <2>5, <2>7, <3>1, <3>2
  <2>8. ASSUME /\ j = left /\ c.link = NoLink /\ Continues(c, new, after)
               /\ d = Chunk(c.id, c.span, c.deleted, id)
        PROVE  LinkOk(d, more, ref) /\ (LinksFull(rga, names, ref) => LinkFull(d, more, ref))
    <3>1. NextId(c) = id /\ LastId(c) = after
      BY <2>6, <2>8
    <3>2. d.link = id /\ NextId(d) = NextId(c) /\ LastId(d) = LastId(c)
      BY <2>8 DEF Chunk, NextId, LastId, NextTick
    <3>3. id \in more
      <4>1. id = Ts(id.sid, id.time + 0) /\ 0 \in 0 .. span - 1
        <5>1. id.time \in Nat /\ id = Ts(id.sid, id.time)
          BY StampIs
        <5> QED
          BY <5>1
      <4> QED
        BY <4>1 DEF Interval
    <3> QED
      BY <1>3, <3>1, <3>2, <3>3 DEF LinkOk, LinkFull, Follows
  <2> QED
    BY <2>4, <2>7, <2>8 DEF d
\* The run goes between the chunks passed and the rest.
<1>12. result = IF split /\ ~rga[last].deleted
                THEN [linked EXCEPT ![last].span = @ + new.span, ![last].link = NoLink]
                ELSE InsertAt(linked, last + 1, new)
  <2>1. ~(last < Len(rga) /\ rga[last + 1].id = new.id)
    <3> SUFFICES ASSUME last < Len(rga), rga[last + 1].id = new.id PROVE FALSE
      OBVIOUS
    <3>1. last + 1 \in 1 .. Len(rga)
      BY <1>6
    <3>2. rga[last + 1] \in ChunkType /\ last + 1 \in DOMAIN rga
      BY <3>1
    <3>3. Covers(rga[last + 1], rga[last + 1].id) /\ rga[last + 1].id \in Timestamp
      BY <3>2, FirstCovered, ChunkFields
    <3> QED
      BY <1>1, <1>3, <3>2, <3>3 DEF IdsOf
  <2> QED
    BY <2>1 DEF InsertAfterRef, Linked, Open, last
<1> DEFINE a == Items(Upto(rga, last))
           b == Items(Behind(rga, last))
           run == RunOf(new)
<1>13. /\ Items(Upto(linked, last)) = a /\ Items(Behind(linked, last)) = b
       /\ Upto(linked, last) \in Seq(ChunkType) /\ Behind(linked, last) \in Seq(ChunkType)
  <2>1. last \in 0 .. Len(linked)
    BY <1>6, <1>7
  <2>2. linked \in Seq(ChunkType) /\ Len(linked) = Len(rga)
        /\ \A j \in 1 .. Len(linked) : RunOf(linked[j]) = RunOf(rga[j])
    BY <1>7
  <2> HIDE DEF linked
  <2> QED
    BY <2>1, <2>2, SameHalves, HalvesOfChunks, ZenonT(30)
<1>14. /\ a \in Seq(ItemType) /\ b \in Seq(ItemType) /\ run \in Seq(ItemType)
       /\ Items(rga) = a \o b /\ Len(a) = Start(rga, last + 1) /\ Items(<<new>>) = run
       /\ <<new>> \in Seq(ChunkType)
  <2>1. Upto(rga, last) \in Seq(ChunkType) /\ Behind(rga, last) \in Seq(ChunkType)
        /\ Items(rga) = a \o b
    BY <1>6, HalvesOfChunks
  <2>2. Len(a) = Start(rga, last + 1)
    <3>1. (last + 1) - 1 = last
      BY <1>6
    <3> QED
      BY <3>1, Zenon DEF Start
  <2> QED
    BY <1>1, <2>1, <2>2, ItemsIsList, RunFacts, ItemsOfOne
\* It is a chunk of its own.
<1>15. CASE ~(split /\ ~rga[last].deleted)
  <2> DEFINE one == <<new>>
             front == Upto(linked, last)
             rest == Behind(linked, last)
             fo == front \o one
  <2>1. result = fo \o rest
    <3>1. result = InsertAt(linked, last + 1, new)
      BY <1>12, <1>15
    <3>2. (last + 1) - 1 = last
      BY <1>6
    <3>3. result = SubSeq(linked, 1, (last + 1) - 1) \o <<new>> \o SubSeq(linked, last + 1, Len(linked))
      BY <3>1 DEF InsertAt
    <3> HIDE DEF linked
    <3> QED
      BY <3>2, <3>3, Zenon DEF Upto, Behind
  <2>2. front \in Seq(ChunkType) /\ rest \in Seq(ChunkType) /\ one \in Seq(ChunkType)
        /\ Items(front) = a /\ Items(rest) = b /\ Items(one) = run
    BY <1>13, <1>14
  <2>3. Parts(front) \subseteq Parts(linked) /\ Parts(rest) \subseteq Parts(linked)
    <3>1. linked \in Seq(ChunkType) /\ last \in 0 .. Len(linked)
      BY <1>6, <1>7
    <3> HIDE DEF linked
    <3> QED
      BY <3>1, PartsOfHalves
  <2>4. Parts(one) = {new}
    BY PartsOfList
  <2> HIDE DEF front, rest, one, a, b, run, linked
  <2>5. fo \in Seq(ChunkType) /\ Items(fo) = a \o run /\ Parts(fo) \subseteq Parts(front) \cup Parts(one)
    BY <2>2, ItemsOfConcat, PartsOfConcat
  <2> HIDE DEF fo
  <2>6. fo \o rest \in Seq(ChunkType) /\ Items(fo \o rest) = (a \o run) \o b
        /\ Parts(fo \o rest) \subseteq Parts(fo) \cup Parts(rest)
    <3>1. Items(fo \o rest) = Items(fo) \o Items(rest) /\ fo \o rest \in Seq(ChunkType)
          /\ Parts(fo \o rest) \subseteq Parts(fo) \cup Parts(rest)
      BY <2>2, <2>5, ItemsOfConcat, PartsOfConcat
    <3> QED
      BY <2>2, <2>5, <3>1
  <2>7. Grown(Items(rga), Items(result), after, id, span)
    BY <1>4, <1>14, <2>1, <2>6 DEF Grown, run
  <2>8. ASSUME NEW c \in Parts(result)
        PROVE  LinkOk(c, more, ref) /\ (LinksFull(rga, names, ref) => LinkFull(c, more, ref))
    <3>1. c \in Parts(linked) \/ c = new
      BY <2>1, <2>3, <2>4, <2>5, <2>6
    <3>2. CASE c = new
      BY <1>1, <3>2, NewEnds
    <3>3. CASE c \in Parts(linked)
      <4>1. PICK j \in 1 .. Len(rga) : linked[j] = c
        BY <1>7, <3>3, PartsOfList
      <4> QED
        BY <1>11, <4>1
    <3> QED
      BY <3>1, <3>2, <3>3
  <2> QED
    BY <2>1, <2>6, <2>7, <2>8 DEF LinksOk, LinksFull
\* It is folded into the last chunk passed.
<1>16. CASE split /\ ~rga[last].deleted
  <2> DEFINE c == rga[last]
             e == Longer(c, new)
             front == Upto(linked, last - 1)
             rest == Behind(linked, last)
  <2>1. last = left /\ c.link = NoLink /\ Continues(c, new, after) /\ c.deleted = FALSE /\ c \in ChunkType
    <3>1. last = left /\ rga[left].link = NoLink /\ Continues(rga[left], new, after)
      BY <1>5, <1>16
    <3> QED
      BY <1>8, <1>16, <3>1, ChunkFields
  <2>2. NextId(c) = id /\ LastId(c) = after
    BY <1>9, <2>1
  <2>3. linked[last] = Chunk(c.id, c.span, c.deleted, id)
    BY <1>1, <1>6, <1>7, <2>1
  <2>4. /\ e \in ChunkType /\ RunOf(e) = RunOf(c) \o run
        /\ NextId(e) = NextId(new) /\ LastId(e) = LastId(new) /\ e.link = NoLink
    <3> HIDE DEF c
    <3>1. new.id = NextId(c) /\ new.deleted = c.deleted
      BY <1>1, <2>1, <2>2
    <3>2. e.link = NoLink
      BY <1>1 DEF Longer, Chunk
    <3> QED
      BY <1>1, <2>1, <3>1, <3>2, RunsJoin
  <2>5. result = Replace(linked, last, <<e>>) /\ result \in Seq(ChunkType)
    <3> DEFINE d == linked[last]
    <3>1. result = [linked EXCEPT ![last].span = @ + new.span, ![last].link = NoLink]
      BY <1>12, <1>16
    <3>2. d = [id |-> d.id, span |-> d.span, deleted |-> d.deleted, link |-> d.link]
          /\ d.span = c.span /\ d.id = c.id /\ d.deleted = c.deleted
      BY <2>3 DEF Chunk
    <3>3. last \in DOMAIN linked /\ DOMAIN linked = 1 .. Len(rga)
      BY <1>6, <1>7
    <3>4. result[last] = [d EXCEPT !.span = d.span + new.span, !.link = NoLink]
      BY <3>1, <3>3
    <3>5. \A j \in 1 .. Len(rga) : j # last => result[j] = linked[j]
      BY <3>1, <3>3
    <3>6. DOMAIN result = DOMAIN linked /\ result = [j \in DOMAIN linked |-> result[j]]
      BY <3>1
    <3> HIDE DEF d, c
    <3>7. [d EXCEPT !.span = d.span + new.span, !.link = NoLink] = e
      <4>1. \A n, l : [d EXCEPT !.span = n, !.link = l] = Chunk(d.id, n, d.deleted, l)
        BY <3>2, NewFields, Zenon
      <4>2. [d EXCEPT !.span = d.span + new.span, !.link = NoLink]
              = Chunk(d.id, d.span + new.span, d.deleted, NoLink)
        BY <4>1, Zenon
      <4> QED
        BY <1>1, <3>2, <4>2 DEF Longer
    <3>8. ChangedAt(result, linked, last, e)
      BY <1>7, <3>3, <3>4, <3>5, <3>6, <3>7 DEF ChangedAt
    <3>9. linked \in Seq(ChunkType) /\ last \in 1 .. Len(linked) /\ e \in ChunkType
      BY <1>6, <1>7, <2>4
    <3> HIDE DEF linked, e
    <3> QED
      BY <3>8, <3>9, OneChanged
  <2> DEFINE x == Items(Upto(rga, last - 1))
             y == RunOf(c)
  <2>6. a = x \o y
    BY <1>6, OneMore
  <2>7. x \in Seq(ItemType) /\ y \in Seq(ItemType)
    <3>1. last - 1 \in 0 .. Len(rga)
      BY <1>6
    <3> QED
      BY <2>1, <3>1, HalvesOfChunks, ItemsIsList, RunFacts
  <2>8. Items(result) = (x \o RunOf(e)) \o b
    <3> DEFINE one == <<e>>
    <3>1. one \in Seq(ChunkType) /\ Items(one) = RunOf(e)
      BY <2>4, ItemsOfOne
    <3>2. linked \in Seq(ChunkType) /\ last \in 1 .. Len(linked) /\ last - 1 \in 0 .. Len(linked)
          /\ Len(linked) = Len(rga)
      BY <1>6, <1>7
    <3>3. Items(Upto(linked, last - 1)) = x
      <4>1. \A j \in 1 .. Len(linked) : RunOf(linked[j]) = RunOf(rga[j])
        BY <1>7
      <4> HIDE DEF linked
      <4> QED
        BY <3>2, <4>1, SameHalves
    <3> HIDE DEF linked, one, e
    <3>4. Items(Replace(linked, last, one)) = (Items(Upto(linked, last - 1)) \o Items(one)) \o Items(Behind(linked, last))
      BY <3>1, <3>2, Around
    <3> QED
      BY <1>13, <2>5, <3>1, <3>3, <3>4 DEF one
  <2>9. Items(result) = (a \o run) \o b
    <3>1. x \o (y \o run) = (x \o y) \o run
      <4> HIDE DEF x, y, run
      <4>1. run \in Seq(ItemType)
        BY <1>14
      <4>2. Joined(Joined(x, y), run) = Joined(x, Joined(y, run))
        BY <2>7, <4>1, JoinedIsAssociative
      <4> QED
        BY <4>2 DEF Joined
    <3> QED
      BY <2>4, <2>6, <2>8, <3>1
  <2>10. Grown(Items(rga), Items(result), after, id, span)
    <3> HIDE DEF a, b
    <3> QED
      BY <1>4, <1>14, <2>9 DEF Grown
  <2>11. ASSUME NEW p \in Parts(result)
        PROVE  LinkOk(p, more, ref) /\ (LinksFull(rga, names, ref) => LinkFull(p, more, ref))
    <3>1. p \in Parts(linked) \/ p = e
      <4> DEFINE one == <<e>>
      <4>1. linked \in Seq(ChunkType) /\ last \in 1 .. Len(linked) /\ one \in Seq(ChunkType)
            /\ Parts(one) = {e}
        BY <1>6, <1>7, <2>4, PartsOfList
      <4> HIDE DEF linked, one, e
      <4>2. Parts(Replace(linked, last, one)) \subseteq Parts(linked) \cup Parts(one)
        BY <4>1, PartsAround
      <4> QED
        BY <2>5, <4>1, <4>2 DEF one
    <3>2. CASE p = e
      <4> HIDE DEF e
      <4> QED
        BY <1>1, <2>4, <3>2, NewEnds
    <3>3. CASE p \in Parts(linked)
      <4>1. PICK j \in 1 .. Len(rga) : linked[j] = p
        BY <1>7, <3>3, PartsOfList
      <4> QED
        BY <1>11, <4>1
    <3> QED
      BY <3>1, <3>2, <3>3
  <2> QED
    BY <2>5, <2>10, <2>11 DEF LinksOk, LinksFull
<1> QED
  BY <1>15, <1>16

\* A new run is in its place, and the links lead where they should.
Inserts(rga, result, ref, after, id, span) ==
  LET names == IdsOf(rga)
      more == names \cup Interval(id, span)
  IN  /\ result \in Seq(ChunkType)
      /\ Grown(Items(rga), Items(result), after, id, span)
      /\ LinksOk(result, more, ref)
      /\ LinksFull(rga, names, ref) => LinksFull(result, more, ref)

\* Links of the chunks that do not end at the reference stay good.
LEMMA OldLinks ==
  ASSUME NEW rga \in Seq(ChunkType), NEW ref, NEW names, names = IdsOf(rga),
         LinksOk(rga, names, ref), NEW id \in Timestamp, NEW span \in Nat \ {0}, NEW after,
         Fresh(names, ref, id, span, after), NEW more, more = names \cup Interval(id, span),
         \A c \in Parts(rga) : LastId(c) # after, NEW c \in Parts(rga)
  PROVE  /\ LinkOk(c, more, ref)
         /\ LinksFull(rga, names, ref) => LinkFull(c, more, ref)
<1>1. c \in ChunkType /\ LinkOk(c, names, ref) /\ LastId(c) # after
  BY PartsOfList DEF LinksOk
<1>2. LastId(c) \in names
  <2>1. PICK i \in 1 .. Len(rga) : rga[i] = c
    BY PartsOfList
  <2>2. Covers(rga[i], LastId(c)) /\ LastId(c) \in Timestamp /\ i \in DOMAIN rga
    BY <1>1, <2>1, FirstCovered
  <2> QED
    BY <2>2 DEF IdsOf
<1>3. LinkOk(c, more, ref)
  BY <1>1, <1>2, KeptLinks
<1>4. LinksFull(rga, names, ref) => LinkFull(c, names, ref)
  BY DEF LinksFull
<1>5. LinkFull(c, names, ref) => LinkFull(c, more, ref)
  BY <1>1, <1>2, KeptLinks
<1> QED
  BY <1>3, <1>4, <1>5

\* ins_after_root in front of the first chunk inserts as specified.
LEMMA InsertAtFront ==
  ASSUME NEW rga \in Seq(ChunkType), NEW ref, ChunksPlaced(rga, ref),
         LinksOk(rga, IdsOf(rga), ref), StrId \in Timestamp,
         NEW id \in Timestamp, NEW span \in Nat \ {0}, Fresh(IdsOf(rga), ref, id, span, StrId),
         rga = << >> \/ Less(rga[1].id, id),
         NEW result, result = <<NewChunk(id, span)>> \o rga
  PROVE  Inserts(rga, result, ref, StrId, id, span)
<1> DEFINE new == NewChunk(id, span)
           one == <<new>>
           run == RunOf(new)
           none == << >>
           names == IdsOf(rga)
           more == names \cup Interval(id, span)
<1>1. /\ new \in ChunkType /\ new.id = id /\ new.link = NoLink
      /\ NextId(new) = Ts(id.sid, id.time + span) /\ LastId(new) = Ts(id.sid, id.time + span - 1)
  BY NewChunkType
<1> HIDE DEF new
<1>2. one \in Seq(ChunkType) /\ Items(one) = run /\ run \in Seq(ItemType) /\ Parts(one) = {new}
  BY <1>1, ItemsOfOne, RunFacts, PartsOfList
<1>3. Items(rga) \in Seq(ItemType) /\ Len(Items(rga)) \in Nat
  BY ItemsIsList
<1>4. /\ result \in Seq(ChunkType) /\ Items(result) = run \o Items(rga)
      /\ Parts(result) \subseteq Parts(one) \cup Parts(rga)
  <2>1. result = one \o rga
    BY DEF new
  <2> HIDE DEF one, run
  <2>2. one \o rga \in Seq(ChunkType) /\ Items(one \o rga) = Items(one) \o Items(rga)
        /\ Parts(one \o rga) \subseteq Parts(one) \cup Parts(rga)
    BY <1>2, ItemsOfConcat, PartsOfConcat
  <2> QED
    BY <1>2, <2>1, <2>2
<1>5. WalkEnds(Items(rga), StrId, id, 0)
  <2>1. 0 = Len(Items(rga)) \/ Less(Items(rga)[0 + 1].id, id)
    <3>1. CASE rga = << >>
      <4>1. Items(rga) = << >>
        BY <3>1, ItemsOfNone
      <4> QED
        BY <4>1
    <3>2. CASE rga # << >> /\ Less(rga[1].id, id)
      <4>1. 1 \in 1 .. Len(rga)
        BY <3>2
      <4>2. rga[1] \in ChunkType
        BY <4>1
      <4>3. 1 \in 1 .. rga[1].span
        BY <4>2, ChunkFields
      <4>4. Items(rga)[Start(rga, 1) + 1]
              = [id |-> Ts(rga[1].id.sid, rga[1].id.time + 1 - 1), live |-> ~rga[1].deleted]
        BY <4>1, <4>3, ItemsOfChunk
      <4>5. Start(rga, 1) = 0
        BY StartFacts
      <4>6. rga[1].id = Ts(rga[1].id.sid, rga[1].id.time) /\ rga[1].id.time \in Nat
        BY <4>2, ChunkFields, StampIs
      <4>7. rga[1].id.time + 1 - 1 = rga[1].id.time
        BY <4>6
      <4>8. Items(rga)[0 + 1].id = rga[1].id
        BY <4>4, <4>5, <4>6, <4>7
      <4> QED
        BY <3>2, <4>8
    <3> QED
      BY <3>1, <3>2
  <2>2. \E p \in 0 .. 0 : /\ NameAt(Items(rga), p) = StrId
                          /\ \A k \in p + 1 .. 0 : ~Less(Items(rga)[k].id, id)
    BY DEF NameAt
  <2> QED
    BY <1>3, <2>1, <2>2 DEF WalkEnds
<1>6. Grown(Items(rga), Items(result), StrId, id, span)
  <2>1. none \in Seq(ItemType) /\ Len(none) = 0
    OBVIOUS
  <2>2. Items(rga) = none \o Items(rga) /\ none \o run = run
    BY <1>2, <1>3, ConcatEmptySeq
  <2>3. Items(result) = (none \o run) \o Items(rga)
    BY <1>4, <2>2
  <2>4. WalkEnds(Items(rga), StrId, id, Len(none))
    BY <1>5, <2>1
  <2> HIDE DEF none
  <2> QED
    BY <1>3, <2>1, <2>2, <2>3, <2>4 DEF Grown, new
<1>7. \A c \in Parts(rga) : LastId(c) # StrId
  <2> SUFFICES ASSUME NEW c \in Parts(rga), LastId(c) = StrId PROVE FALSE
    OBVIOUS
  <2>1. PICK i \in 1 .. Len(rga) : rga[i] = c
    BY PartsOfList
  <2>2. Covers(rga[i], StrId) /\ i \in DOMAIN rga
    BY <2>1, FirstCovered
  <2> QED
    BY <2>2 DEF ChunksPlaced, IdsOf
<1>8. ASSUME NEW c \in Parts(result)
      PROVE  LinkOk(c, more, ref) /\ (LinksFull(rga, names, ref) => LinkFull(c, more, ref))
  <2>1. CASE c = new
    BY <1>1, <2>1, NewEnds
  <2>2. CASE c \in Parts(rga)
    <3> HIDE DEF names, more
    <3>1. names = IdsOf(rga) /\ more = names \cup Interval(id, span)
      BY DEF names, more
    <3> QED
      BY <1>7, <2>2, <3>1, OldLinks
  <2> QED
    BY <1>2, <1>4, <1>8, <2>1, <2>2
<1> QED
  BY <1>4, <1>6, <1>8 DEF Inserts, LinksOk, LinksFull

\* Five lists, whichever two are joined first.
LEMMA FiveJoined ==
  ASSUME NEW x \in Seq(ItemType), NEW r \in Seq(ItemType), NEW n \in Seq(ItemType),
         NEW t \in Seq(ItemType), NEW y \in Seq(ItemType)
  PROVE  /\ Joined(Joined(x, Joined(r, t)), y) = Joined(Joined(x, r), Joined(t, y))
         /\ Joined(Joined(x, Joined(Joined(r, n), t)), y)
              = Joined(Joined(Joined(x, r), n), Joined(t, y))
         /\ Joined(x, r) \in Seq(ItemType) /\ Joined(t, y) \in Seq(ItemType)
         /\ Len(Joined(x, r)) = Len(x) + Len(r)
<1>1. \A a, b \in Seq(ItemType) : Joined(a, b) \in Seq(ItemType) /\ Len(Joined(a, b)) = Len(a) + Len(b)
  BY ConcatProperties DEF Joined
<1>2. \A a, b, c \in Seq(ItemType) : Joined(Joined(a, b), c) = Joined(a, Joined(b, c))
  BY JoinedIsAssociative
<1> DEFINE xr == Joined(x, r)
           rn == Joined(r, n)
           xrn == Joined(xr, n)
<1>0. xr \in Seq(ItemType) /\ rn \in Seq(ItemType) /\ xrn \in Seq(ItemType)
  <2>1. xr \in Seq(ItemType) /\ rn \in Seq(ItemType)
    BY <1>1
  <2> HIDE DEF xr
  <2> QED
    BY <1>1, <2>1
<1>3. Joined(Joined(x, Joined(r, t)), y) = Joined(xr, Joined(t, y))
  <2>1. Joined(x, Joined(r, t)) = Joined(xr, t)
    BY <1>2
  <2> HIDE DEF xr
  <2>2. Joined(Joined(xr, t), y) = Joined(xr, Joined(t, y))
    BY <1>0, <1>2
  <2> QED
    BY <2>1, <2>2
<1>4. Joined(Joined(x, Joined(rn, t)), y) = Joined(xrn, Joined(t, y))
  <2>1. Joined(x, rn) = xrn
    BY <1>2
  <2> HIDE DEF xr, rn, xrn
  <2>2. Joined(x, Joined(rn, t)) = Joined(Joined(x, rn), t)
    BY <1>0, <1>2
  <2>3. Joined(Joined(xrn, t), y) = Joined(xrn, Joined(t, y))
    BY <1>0, <1>2
  <2> QED
    BY <2>1, <2>2, <2>3
<1> QED
  BY <1>1, <1>3, <1>4

\* The items of three chunks.
LEMMA ItemsOfThree ==
  ASSUME NEW c \in ChunkType, NEW d \in ChunkType, NEW e \in ChunkType, NEW three, three = <<c, d, e>>
  PROVE  /\ three \in Seq(ChunkType) /\ Items(three) = (RunOf(c) \o RunOf(d)) \o RunOf(e)
         /\ Parts(three) \subseteq {c, d, e}
<1> DEFINE a == <<c>>
           b == <<d>>
           f == <<e>>
           ab == a \o b
<1>1. three = ab \o f
  <2>1. three = Append(Append(a, d), e)
    OBVIOUS
  <2>2. Append(a, d) = a \o b
    BY AppendIsConcat
  <2> DEFINE two == Append(a, d)
  <2>3. two \in Seq(ChunkType)
    OBVIOUS
  <2> HIDE DEF two
  <2>4. Append(two, e) = two \o f
    BY <2>3, AppendIsConcat
  <2> QED
    BY <2>1, <2>2, <2>4 DEF two
<1>2. /\ a \in Seq(ChunkType) /\ b \in Seq(ChunkType) /\ f \in Seq(ChunkType)
      /\ Items(a) = RunOf(c) /\ Items(b) = RunOf(d) /\ Items(f) = RunOf(e)
      /\ Parts(a) = {c} /\ Parts(b) = {d} /\ Parts(f) = {e}
  <2>1. a \in Seq(ChunkType) /\ b \in Seq(ChunkType) /\ f \in Seq(ChunkType)
    OBVIOUS
  <2>2. Items(a) = RunOf(c) /\ Items(b) = RunOf(d) /\ Items(f) = RunOf(e)
    BY ItemsOfOne
  <2>3. \A p : Parts(<<p>>) = {p}
    BY <2>1, PartsOfList
  <2>4. Parts(a) = {c} /\ Parts(b) = {d} /\ Parts(f) = {e}
    BY <2>3
  <2> QED
    BY <2>1, <2>2, <2>4
<1> HIDE DEF a, b, f
<1>3. ab \in Seq(ChunkType) /\ Items(ab) = Items(a) \o Items(b) /\ Parts(ab) \subseteq Parts(a) \cup Parts(b)
  BY <1>2, ItemsOfConcat, PartsOfConcat
<1> HIDE DEF ab
<1>4. /\ ab \o f \in Seq(ChunkType) /\ Items(ab \o f) = Items(ab) \o Items(f)
      /\ Parts(ab \o f) \subseteq Parts(ab) \cup Parts(f)
  BY <1>2, <1>3, ItemsOfConcat, PartsOfConcat
<1> QED
  BY <1>1, <1>2, <1>3, <1>4

\* The run goes inside a chunk, which is split.
Inside(c, after, id) ==
  /\ Covers(c, after) /\ (after.time - c.id.time) + 1 < c.span
  /\ id.time > after.time + 1 \/ id.sid > after.sid

SplitAround(rga, i, after, new) ==
  LET halves == Split(rga[i], (after.time - rga[i].id.time) + 1)
  IN  Replace(rga, i, <<halves[1], new, halves[2]>>)

\* ins_after_chunk in the middle of a chunk inserts as specified, between two
\* linked halves.
LEMMA InsertInside ==
  ASSUME NEW rga \in Seq(ChunkType), NEW ref, ChunksPlaced(rga, ref),
         LinksOk(rga, IdsOf(rga), ref), NEW id \in Timestamp, NEW span \in Nat \ {0},
         NEW after \in Timestamp, Fresh(IdsOf(rga), ref, id, span, after),
         NEW i \in 1 .. Len(rga), Inside(rga[i], after, id)
  PROVE  Inserts(rga, SplitAround(rga, i, after, NewChunk(id, span)), ref, after, id, span)
<1> DEFINE c == rga[i]
           at == (after.time - c.id.time) + 1
           halves == Split(c, at)
           new == NewChunk(id, span)
           h1 == halves[1]
           h2 == halves[2]
           three == <<h1, new, h2>>
           names == IdsOf(rga)
           more == names \cup Interval(id, span)
           x == Items(Upto(rga, i - 1))
           r == RunOf(h1)
           n == RunOf(new)
           t == RunOf(h2)
           y == Items(Behind(rga, i))
           xr == x \o r
           ty == t \o y
           result == Replace(rga, i, three)
<1>0. SplitAround(rga, i, after, NewChunk(id, span)) = result
  BY DEF SplitAround
<1> HIDE DEF result
<1>1. /\ new \in ChunkType /\ new.id = id /\ new.link = NoLink
      /\ NextId(new) = Ts(id.sid, id.time + span) /\ LastId(new) = Ts(id.sid, id.time + span - 1)
  BY NewChunkType
<1>2. /\ c \in ChunkType /\ c.id.time \in Nat /\ after.time \in Nat /\ c.span \in Nat /\ at \in 1 .. c.span - 1
      /\ c.id.sid = after.sid /\ c.id.time <= after.time /\ after.time < NextTick(c)
      /\ NextTick(c) = c.id.time + c.span /\ i - 1 \in 0 .. Len(rga) /\ i \in 0 .. Len(rga)
      /\ id.time \in Nat /\ id.sid \in Nat /\ after.sid \in Nat /\ DOMAIN rga = 1 .. Len(rga)
  <2>1. c \in ChunkType /\ i - 1 \in 0 .. Len(rga) /\ i \in 0 .. Len(rga) /\ DOMAIN rga = 1 .. Len(rga)
    OBVIOUS
  <2>2. /\ c.id.time \in Nat /\ c.span \in Nat /\ NextTick(c) = c.id.time + c.span
    BY <2>1, ChunkFields
  <2>3. /\ c.id.sid = after.sid /\ c.id.time <= after.time /\ after.time < NextTick(c)
        /\ at < c.span /\ at = (after.time - c.id.time) + 1
    BY DEF Covers, Inside
  <2>4. id.time \in Nat /\ id.sid \in Nat /\ after.sid \in Nat /\ after.time \in Nat
    BY StampIs
  <2>5. at \in 1 .. c.span - 1
    <3> HIDE DEF c, at
    <3> QED
      BY <2>2, <2>3, <2>4, SMTT(30)
  <2> QED
    BY <2>1, <2>2, <2>3, <2>4, <2>5
<1>3. /\ h1 = Chunk(c.id, at, c.deleted, NextId(h1)) /\ h1 \in ChunkType /\ h2 \in ChunkType
      /\ RunOf(c) = r \o t /\ Divides(halves, c, at)
  <2>1. Divides(halves, c, at)
    <3> HIDE DEF c, at
    <3> QED
      BY <1>2, SplitParts
  <2> HIDE DEF halves, at, c
  <2> QED
    BY <2>1 DEF Divides
<1>4. Len(r) = at
  <2>1. h1.span = at
    <3>1. \A p, q, l : Chunk(c.id, p, q, l).span = p
      BY DEF Chunk
    <3> HIDE DEF h1, at, c
    <3> QED
      BY <1>3, <3>1, Zenon
  <2> QED
    BY <1>3, <2>1, RunFacts
<1>5. /\ x \in Seq(ItemType) /\ r \in Seq(ItemType) /\ n \in Seq(ItemType) /\ t \in Seq(ItemType)
      /\ y \in Seq(ItemType)
  BY <1>1, <1>2, <1>3, HalvesOfChunks, ItemsIsList, RunFacts
<1>6. three \in Seq(ChunkType) /\ Items(three) = (r \o n) \o t /\ Parts(three) \subseteq {h1, new, h2}
  <2> HIDE DEF h1, h2, new
  <2> QED
    BY <1>1, <1>3, ItemsOfThree
<1>7. /\ result \in Seq(ChunkType) /\ Items(result) = (x \o Items(three)) \o y
      /\ Items(rga) = (x \o RunOf(c)) \o y
      /\ Parts(result) \subseteq Parts(rga) \cup Parts(three)
  <2>1. result = Replace(rga, i, three)
    BY DEF result
  <2> HIDE DEF three
  <2>2. /\ Replace(rga, i, three) \in Seq(ChunkType)
        /\ Items(Replace(rga, i, three)) = (x \o Items(three)) \o y
        /\ Items(rga) = (x \o RunOf(c)) \o y
    BY <1>6, Around
  <2>3. Parts(Replace(rga, i, three)) \subseteq Parts(rga) \cup Parts(three)
    BY <1>6, PartsAround
  <2> QED
    BY <2>1, <2>2, <2>3
<1>8. /\ Items(rga) = xr \o ty /\ Items(result) = (xr \o n) \o ty
      /\ xr \in Seq(ItemType) /\ ty \in Seq(ItemType) /\ Len(xr) = Len(x) + Len(r)
  <2>1. /\ Items(rga) = (x \o (r \o t)) \o y /\ Items(result) = (x \o ((r \o n) \o t)) \o y
    BY <1>3, <1>6, <1>7
  <2> HIDE DEF x, r, n, t, y
  <2>2. /\ (x \o (r \o t)) \o y = (x \o r) \o (t \o y)
        /\ (x \o ((r \o n) \o t)) \o y = ((x \o r) \o n) \o (t \o y)
        /\ x \o r \in Seq(ItemType) /\ t \o y \in Seq(ItemType) /\ Len(x \o r) = Len(x) + Len(r)
    <3>1. /\ Joined(Joined(x, Joined(r, t)), y) = Joined(Joined(x, r), Joined(t, y))
          /\ Joined(Joined(x, Joined(Joined(r, n), t)), y)
               = Joined(Joined(Joined(x, r), n), Joined(t, y))
          /\ Joined(x, r) \in Seq(ItemType) /\ Joined(t, y) \in Seq(ItemType)
          /\ Len(Joined(x, r)) = Len(x) + Len(r)
      BY <1>5, FiveJoined
    <3> QED
      BY <3>1, Zenon DEF Joined
  <2> QED
    BY <2>1, <2>2
<1>9. WalkEnds(Items(rga), after, id, Len(xr))
  <2> DEFINE front == Start(rga, i) + at
             items == Items(rga)
  <2>1. Len(xr) = front
    BY <1>4, <1>8 DEF Start
  <2>2. front \in 1 .. Len(items) /\ items[front].id = after
    <3>1. after.time - c.id.time + 1 = at /\ Covers(rga[i], after)
      BY DEF Inside
    <3> HIDE DEF at
    <3> QED
      BY <3>1, PlaceOfStamp
  <2>3. Start(rga, i) + (at + 1) \in 1 .. Len(items)
        /\ items[Start(rga, i) + (at + 1)].id = Ts(c.id.sid, c.id.time + (at + 1) - 1)
    <3>1. at + 1 \in 1 .. c.span
      BY <1>2, SMTT(30)
    <3> DEFINE k == at + 1
    <3>2. k \in 1 .. rga[i].span
      BY <3>1
    <3> HIDE DEF k, items
    <3>3. /\ Start(rga, i) + k \in 1 .. Len(Items(rga))
          /\ Items(rga)[Start(rga, i) + k]
               = [id |-> Ts(rga[i].id.sid, rga[i].id.time + k - 1), live |-> ~rga[i].deleted]
      BY <3>2, ItemsOfChunk
    <3> QED
      BY <3>3 DEF items, k
  <2>4. Start(rga, i) \in Nat /\ Len(items) \in Nat
    <3>1. i \in 1 .. Len(rga) + 1
      BY <1>2
    <3> QED
      BY <3>1, StartFacts, ItemsIsList
  <2>5. front + 1 \in 1 .. Len(items) /\ items[front + 1].id = Ts(after.sid, after.time + 1)
    <3>1. front + 1 = Start(rga, i) + (at + 1) /\ c.id.time + (at + 1) - 1 = after.time + 1
      <4>1. at = (after.time - c.id.time) + 1 /\ at \in Nat
        BY <1>2
      <4>2. c.id.time \in Nat /\ after.time \in Nat /\ Start(rga, i) \in Nat
        BY <1>2, <2>4
      <4> HIDE DEF c, at
      <4>3. front + 1 = Start(rga, i) + (at + 1)
        BY <4>1, <4>2
      <4>4. c.id.time + (at + 1) - 1 = after.time + 1
        BY <4>1, <4>2
      <4> QED
        BY <4>3, <4>4
    <3> QED
      BY <1>2, <2>3, <3>1
  <2>6. Less(Ts(after.sid, after.time + 1), id)
    <3>1. after.time < id.time
      BY DEF Fresh
    <3> DEFINE z == Ts(after.sid, after.time + 1)
    <3>2. z.sid = after.sid /\ z.time = after.time + 1
      BY StampFacts
    <3>3. id.time > after.time + 1 \/ id.sid > after.sid
      BY DEF Inside
    <3> HIDE DEF z
    <3>4. z.time < id.time \/ (z.time = id.time /\ z.sid < id.sid)
      <4>1. after.time \in Nat /\ id.time \in Nat /\ after.sid \in Nat /\ id.sid \in Nat
        BY StampIs
      <4> QED
        BY <3>1, <3>2, <3>3, <4>1
    <3> QED
      BY <3>4 DEF Less, z
  <2> HIDE DEF front, items
  <2>7. front \in 0 .. Len(items) /\ front # 0 /\ front \in 0 .. front
    BY <2>2, <2>4
  <2>8. NameAt(items, front) = after /\ \A k \in front + 1 .. front : ~Less(items[k].id, id)
    BY <2>2, <2>7 DEF NameAt
  <2>9. WalkEnds(items, after, id, front)
    BY <2>5, <2>6, <2>7, <2>8 DEF WalkEnds
  <2> QED
    BY <2>1, <2>9 DEF items
<1>10. Grown(Items(rga), Items(result), after, id, span)
  <2> HIDE DEF xr, ty
  <2> QED
    BY <1>8, <1>9 DEF Grown
<1>11. \A p \in Parts(rga) : LastId(p) # after
  <2> SUFFICES ASSUME NEW p \in Parts(rga), LastId(p) = after PROVE FALSE
    OBVIOUS
  <2>1. PICK j \in 1 .. Len(rga) : rga[j] = p
    BY PartsOfList
  <2>2. rga[j] \in ChunkType
    OBVIOUS
  <2>3. Covers(rga[j], after) /\ LastId(rga[j]).time = NextTick(rga[j]) - 1
    BY <2>1, <2>2, FirstCovered
  <2>4. j = i
    <3>1. Covers(rga[i], after)
      BY DEF Inside
    <3> QED
      BY <1>2, <2>3, <3>1 DEF ChunksPlaced
  <2>5. after.time = NextTick(c) - 1
    BY <2>1, <2>3, <2>4
  <2>6. at = (after.time - c.id.time) + 1 /\ at < c.span
    BY <1>2
  <2> HIDE DEF c, at
  <2> QED
    BY <1>2, <2>5, <2>6, SMTT(30)
<1>12. ASSUME NEW p \in Parts(rga)
       PROVE  LinkOk(p, more, ref) /\ (LinksFull(rga, names, ref) => LinkFull(p, more, ref))
  <2>1. names = IdsOf(rga) /\ more = names \cup Interval(id, span)
    OBVIOUS
  <2> HIDE DEF names, more
  <2> QED
    BY <1>11, <2>1, OldLinks
<1>13. c \in Parts(rga)
  BY <1>2, PartsOfList
<1>14. /\ LinkOk(h1, more, ref) /\ LinkFull(h1, more, ref)
       /\ LinkOk(c, more, ref) => LinkOk(h2, more, ref)
       /\ LinkFull(c, more, ref) => LinkFull(h2, more, ref)
  <2>1. at \in 1 .. rga[i].span - 1 /\ Divides(halves, rga[i], at) /\ IdsOf(rga) \subseteq more
    BY <1>2, <1>3
  <2> HIDE DEF at, more, halves
  <2> QED
    BY <2>1, SplitLinks
<1>15. ASSUME NEW p \in Parts(result)
       PROVE  LinkOk(p, more, ref) /\ (LinksFull(rga, names, ref) => LinkFull(p, more, ref))
  <2>1. p \in Parts(rga) \/ p = h1 \/ p = new \/ p = h2
    BY <1>6, <1>7
  <2>2. LinkOk(new, more, ref) /\ LinkFull(new, more, ref)
    BY <1>1, NewEnds
  <2> HIDE DEF more, names, h1, h2, new, c
  <2> QED
    BY <1>12, <1>13, <1>14, <2>1, <2>2
<1> QED
  BY <1>0, <1>7, <1>10, <1>15 DEF Inserts, LinksOk, LinksFull

\* A run that is new to the list, wherever its reference is.
LEMMA InsertNew ==
  ASSUME NEW rga \in Seq(ChunkType), NEW ref, ChunksPlaced(rga, ref),
         LinksOk(rga, IdsOf(rga), ref), StrId \in Timestamp,
         NEW id \in Timestamp, NEW span \in Nat \ {0}, NEW after \in {StrId} \cup IdsOf(rga),
         Fresh(IdsOf(rga), ref, id, span, after)
  PROVE  Inserts(rga, Insert(rga, after, id, span), ref, after, id, span)
<1> DEFINE new == NewChunk(id, span)
           names == IdsOf(rga)
           more == names \cup Interval(id, span)
<1>1. /\ after \in Timestamp /\ after # Origin /\ DOMAIN rga = 1 .. Len(rga)
      /\ \A j \in 1 .. Len(rga) : rga[j] \in ChunkType
  <2>1. after \in Timestamp
    BY DEF IdsOf
  <2> QED
    BY <2>1, StampIs
<1>2. id \notin names /\ after.time < id.time
  <2>1. id \in Interval(id, span)
    <3>1. id = Ts(id.sid, id.time + 0) /\ 0 \in 0 .. span - 1
      <4>1. id.time \in Nat /\ id = Ts(id.sid, id.time)
        BY StampIs
      <4> QED
        BY <4>1
    <3> QED
      BY <3>1 DEF Interval
  <2> QED
    BY <2>1 DEF Fresh
<1>3. \A j \in 1 .. Len(rga) : ~Covers(rga[j], id) /\ rga[j].id # id
  <2> SUFFICES ASSUME NEW j \in 1 .. Len(rga) PROVE ~Covers(rga[j], id) /\ rga[j].id # id
    OBVIOUS
  <2>1. rga[j] \in ChunkType /\ j \in DOMAIN rga
    BY <1>1
  <2>2. Covers(rga[j], rga[j].id) /\ rga[j].id \in Timestamp
    BY <2>1, FirstCovered, ChunkFields
  <2> QED
    BY <1>2, <2>1, <2>2 DEF IdsOf
<1>4. new = NewChunk(id, span) /\ new.id = id
  <2>1. NewChunk(id, span).id = id
    BY NewChunkType
  <2> QED
    BY <2>1
<1>5. ASSUME NEW left \in 1 .. Len(rga), Enters(rga, id, after, left)
      PROVE  Inserts(rga, InsertAfterRef(rga, new, after, left), ref, after, id, span)
  <2> DEFINE result == InsertAfterRef(rga, new, after, left)
  <2>1. names = IdsOf(rga) /\ more = names \cup Interval(id, span) /\ new = NewChunk(id, span)
        /\ result = InsertAfterRef(rga, new, after, left) /\ Fresh(names, ref, id, span, after)
        /\ LinksOk(rga, names, ref)
    OBVIOUS
  <2> HIDE DEF names, more, new, result
  <2>2. /\ result \in Seq(ChunkType)
        /\ Grown(Items(rga), Items(result), after, id, span)
        /\ LinksOk(result, more, ref)
        /\ LinksFull(rga, names, ref) => LinksFull(result, more, ref)
    BY <1>1, <1>5, <2>1, WalkInserts
  <2> QED
    BY <2>2 DEF Inserts, result, names, more
<1> HIDE DEF new
<1>6. ASSUME NEW j \in DOMAIN rga, Covers(rga[j], after)
      PROVE  after \in names
  BY <1>1, <1>6 DEF IdsOf
<1>7. CASE after = StrId
  <2>1. Holding(rga, after) = {}
    <3>1. StrId \notin names
      BY DEF ChunksPlaced
    <3> QED
      BY <1>6, <1>7, <3>1 DEF Holding
  <2>2. Insert(rga, after, id, span) = InsAfterRoot(rga, new, after)
    BY <1>4, <2>1 DEF Insert
  <2>3. CASE rga = << >> \/ Less(rga[1].id, id)
    <3>1. Insert(rga, after, id, span) = <<new>> \o rga
      <4>1. CASE rga = << >>
        <5>1. <<new>> \o << >> = <<new>>
          OBVIOUS
        <5> QED
          BY <2>2, <4>1, <5>1 DEF InsAfterRoot
      <4>2. CASE rga # << >> /\ Less(rga[1].id, id)
        BY <1>4, <2>2, <4>2 DEF InsAfterRoot
      <4> QED
        BY <2>3, <4>1, <4>2
    <3> QED
      BY <1>4, <1>7, <2>3, <3>1, InsertAtFront
  <2>4. CASE rga # << >> /\ ~Less(rga[1].id, id)
    <3>1. 1 \in 1 .. Len(rga)
      BY <2>4
    <3>2. Insert(rga, after, id, span) = InsertAfterRef(rga, new, after, 1)
      BY <1>3, <1>4, <2>2, <2>4, <3>1 DEF InsAfterRoot
    <3>3. Less(id, rga[1].id)
      <4>1. rga[1].id \in Timestamp /\ rga[1].id # id
        BY <1>1, <1>3, <3>1, ChunkFields
      <4> QED
        BY <2>4, <4>1, LessIsTotal
    <3>4. Enters(rga, id, after, 1)
      BY <1>7, <3>3 DEF Enters
    <3> QED
      BY <1>5, <3>1, <3>2, <3>4
  <2> QED
    BY <2>3, <2>4
<1>8. CASE after \in names /\ after # StrId
  <2> DEFINE i == FindById(rga, after)
             c == rga[i]
  <2>1. i \in 1 .. Len(rga) /\ Covers(rga[i], after) /\ Holding(rga, after) # {}
    <3>1. Holding(rga, after) # {}
      BY <1>8 DEF IdsOf, Holding
    <3>2. i \in Holding(rga, after)
      BY <3>1 DEF FindById
    <3> QED
      BY <1>1, <3>1, <3>2 DEF Holding
  <2>2. Insert(rga, after, id, span) = InsAfterChunk(rga, new, after, i)
    BY <1>1, <1>4, <2>1 DEF Insert
  <2> HIDE DEF i
  <2>3. /\ after.sid = c.id.sid /\ c.id.time <= after.time /\ after.time < NextTick(c)
        /\ NextTick(c) = c.id.time + c.span /\ c.id.time \in Nat /\ c.span \in Nat
        /\ after.time \in Nat /\ id.time \in Nat /\ id.sid \in Nat /\ after.sid \in Nat
    <3>1. c \in ChunkType
      BY <1>1, <2>1
    <3> QED
      BY <1>1, <2>1, <3>1, ChunkFields, StampIs DEF Covers
  <2> DEFINE needsSplit == (after.time - c.id.time) + 1 < c.span
             apart == id.time > after.time + 1 \/ id.sid > after.sid
  <2>4. Insert(rga, after, id, span) = IF needsSplit /\ apart THEN SplitAround(rga, i, after, new)
                                       ELSE InsertAfterRef(rga, new, after, i)
    <3>1. ~Covers(rga[i], new.id)
      BY <1>3, <1>4, <2>1
    <3> QED
      BY <1>4, <2>2, <3>1 DEF InsAfterChunk, SplitAround
  <2>5. CASE needsSplit /\ apart
    <3>1. Inside(rga[i], after, id)
      BY <2>1, <2>5 DEF Inside
    <3> HIDE DEF needsSplit, apart
    <3> QED
      BY <1>1, <1>4, <2>1, <2>4, <2>5, <3>1, InsertInside
  <2>6. CASE ~(needsSplit /\ apart)
    <3>1. after = LastId(c) \/ (id.time = after.time + 1 /\ id.sid <= after.sid)
      <4>1. CASE ~needsSplit
        <5>1. after.time = NextTick(c) - 1
          <6> HIDE DEF c
          <6> QED
            BY <2>3, <4>1, SMTT(30)
        <5>2. after = Ts(after.sid, after.time)
          BY <1>1, StampIs
        <5> QED
          BY <2>3, <5>1, <5>2 DEF LastId
      <4>2. CASE ~apart
        BY <1>2, <2>3, <4>2
      <4> QED
        BY <2>6, <4>1, <4>2
    <3>2. Enters(rga, id, after, i)
      BY <2>1, <3>1 DEF Enters
    <3> QED
      BY <1>5, <2>1, <2>4, <2>6, <3>2
  <2> QED
    BY <2>5, <2>6
<1> QED
  BY <1>7, <1>8

(***************************************************************************)
(* What leaves the items as they are.                                      *)
(***************************************************************************)
Keeps(rga, result, ref) ==
  /\ result \in Seq(ChunkType) /\ Items(result) = Items(rga)
  /\ LinksOk(rga, IdsOf(rga), ref) => LinksOk(result, IdsOf(rga), ref)
  /\ LinksFull(rga, IdsOf(rga), ref) => LinksFull(result, IdsOf(rga), ref)

\* An operation that comes again finds its run behind later chunks only.
LEMMA WalkAgain ==
  ASSUME NEW rga \in Seq(ChunkType), NEW ref, ChunksPlaced(rga, ref),
         LinksOk(rga, IdsOf(rga), ref), NEW id \in Timestamp, NEW new \in ChunkType, new.id = id,
         NEW after \in Timestamp, ref[id] = after, NEW left \in 1 .. Len(rga),
         NEW j \in left + 1 .. Len(rga), rga[j].id = id,
         \A k \in left + 1 .. j - 1 : Less(id, rga[k].id),
         Continues(rga[left], new, after) => LastId(rga[left]) = after
  PROVE  Keeps(rga, InsertAfterRef(rga, new, after, left), ref)
<1> DEFINE last == Min({k \in left .. Len(rga) : k = Len(rga) \/ Stops(rga[k + 1], new)})
           open == Open(rga, left, last)
           linked == Linked(rga, new, after, open)
           split == open # {} /\ Continues(rga[Max(open)], new, after)
           names == IdsOf(rga)
           result == InsertAfterRef(rga, new, after, left)
<1>1. Passed(rga, new, left, last)
  BY WalkStops
<1>2. /\ DOMAIN rga = 1 .. Len(rga) /\ Len(rga) \in Nat /\ left \in Nat /\ left >= 1 /\ j \in Nat
      /\ j \in 1 .. Len(rga) /\ j - 1 \in left .. Len(rga) /\ left < j /\ j <= Len(rga)
      /\ \A k \in 1 .. Len(rga) : rga[k] \in ChunkType /\ rga[k].id \in Timestamp
  <2>1. DOMAIN rga = 1 .. Len(rga) /\ Len(rga) \in Nat /\ \A k \in 1 .. Len(rga) : rga[k] \in ChunkType
    OBVIOUS
  <2>2. \A k \in 1 .. Len(rga) : rga[k].id \in Timestamp
    BY <2>1, ChunkFields
  <2>3. left \in Nat /\ left >= 1 /\ j \in Nat /\ left < j /\ j <= Len(rga)
    BY <2>1
  <2>4. j \in 1 .. Len(rga) /\ j - 1 \in left .. Len(rga)
    BY <2>1, <2>3
  <2> QED
    BY <2>1, <2>2, <2>3, <2>4
<1>3. result = IF last < Len(rga) /\ rga[last + 1].id = new.id
               THEN IF split THEN [linked EXCEPT ![last].link = NoLink] ELSE linked
               ELSE IF split /\ ~rga[last].deleted
               THEN [linked EXCEPT ![last].span = @ + new.span, ![last].link = NoLink]
               ELSE InsertAt(linked, last + 1, new)
  BY DEF InsertAfterRef, Linked, Open
<1>4. /\ \A k \in left + 1 .. last : ~Continues(rga[k], new, after)
      /\ split => last = left /\ Max(open) = left /\ rga[left].link = NoLink
  <2> HIDE DEF last
  <2> QED
    BY <1>1, WalkFacts
<1> HIDE DEF last, result
<1>5. last = j - 1
  <2>1. /\ last \in left .. Len(rga)
        /\ \A k \in left + 1 .. last : ~Stops(rga[k], new)
        /\ last = Len(rga) \/ Stops(rga[last + 1], new)
    BY <1>1 DEF Passed
  <2> DEFINE n == Len(rga)
  <2>0. last \in Nat /\ left <= last /\ last <= n /\ n \in Nat /\ left \in Nat /\ j \in Nat /\ left < j /\ j <= n
        /\ left >= 1
    <3> HIDE DEF n
    <3>1. n \in Nat /\ left \in Nat /\ j \in Nat /\ left < j /\ j <= n /\ left >= 1
      BY <1>2 DEF n
    <3>2. last \in left .. n
      BY <2>1 DEF n
    <3> QED
      BY <3>1, <3>2
  <2> HIDE DEF n
  <2>2. last < j
    <3> SUFFICES ASSUME j <= last PROVE FALSE
      BY <2>0
    <3>1. j \in left + 1 .. last
      BY <2>0
    <3> QED
      BY <2>1, <3>1 DEF Stops
  <2>3. ~(last < j - 1)
    <3> SUFFICES ASSUME last < j - 1 PROVE FALSE
      OBVIOUS
    <3>1. last + 1 \in left + 1 .. j - 1 /\ last # Len(rga) /\ last + 1 \in 1 .. Len(rga)
      <4>1. last + 1 \in left + 1 .. j - 1 /\ last # n /\ last + 1 \in 1 .. n
        BY <2>0
      <4> QED
        BY <4>1 DEF n
    <3>2. Stops(rga[last + 1], new) /\ Less(id, rga[last + 1].id)
      BY <2>1, <3>1
    <3>3. rga[last + 1].id \in Timestamp
      BY <1>2, <3>1
    <3>4. rga[last + 1].id # id /\ ~Less(rga[last + 1].id, id)
      BY <3>2, <3>3, LessIsAsymmetric
    <3> QED
      BY <3>2, <3>4 DEF Stops
  <2> QED
    BY <2>0, <2>2, <2>3
<1>6. last \in left .. Len(rga) /\ last \in 1 .. Len(rga) /\ last < Len(rga) /\ rga[last + 1].id = new.id
  BY <1>2, <1>5
<1>7. result = IF split THEN [linked EXCEPT ![last].link = NoLink] ELSE linked
  BY <1>3, <1>6
<1>8. FirstLinked(rga, new, after, left, linked)
  <2>1. NoneContinues(rga, new, after, left, last)
    BY <1>4 DEF NoneContinues
  <2>2. linked = Linked(rga, new, after, Open(rga, left, last))
    OBVIOUS
  <2> HIDE DEF linked
  <2> QED
    BY <1>6, <2>1, <2>2, LinkedChunks
<1>9. /\ linked \in Seq(ChunkType) /\ Len(linked) = Len(rga)
      /\ \A k \in 1 .. Len(rga) : RunOf(linked[k]) = RunOf(rga[k])
      /\ \A k \in 1 .. Len(rga) :
           \/ linked[k] = rga[k]
           \/ /\ k = left /\ rga[left].link = NoLink /\ Continues(rga[left], new, after)
              /\ linked[left] = Chunk(rga[left].id, rga[left].span, rga[left].deleted, id)
  BY <1>8 DEF FirstLinked
<1>10. id \in names
  <2>1. Covers(rga[j], id)
    BY <1>2, FirstCovered
  <2> QED
    BY <1>2, <2>1 DEF IdsOf
<1>11. CASE split
  <2> HIDE DEF linked
  <2> DEFINE c == rga[left]
             d == linked[left]
  <2>1. last = left /\ c.link = NoLink /\ c \in ChunkType /\ left \in 1 .. Len(rga)
    BY <1>2, <1>4, <1>11
  <2>2. result = [linked EXCEPT ![left].link = NoLink]
    BY <1>7, <1>11, <2>1
  <2>3. DOMAIN linked = 1 .. Len(rga)
    BY <1>9
  <2>4. result[left] = [d EXCEPT !.link = NoLink]
    BY <2>1, <2>2, <2>3
  <2>5. result[left] = c
    <3>1. /\ d.id = c.id /\ d.span = c.span /\ d.deleted = c.deleted
          /\ d = [id |-> d.id, span |-> d.span, deleted |-> d.deleted, link |-> d.link]
      <4>1. d = c \/ d = Chunk(c.id, c.span, c.deleted, id)
        BY <1>9, <2>1
      <4>2. \A l : /\ Chunk(c.id, c.span, c.deleted, l).id = c.id
                   /\ Chunk(c.id, c.span, c.deleted, l).span = c.span
                   /\ Chunk(c.id, c.span, c.deleted, l).deleted = c.deleted
                   /\ Chunk(c.id, c.span, c.deleted, l).link = l
        BY DEF Chunk
      <4>3. c = [id |-> c.id, span |-> c.span, deleted |-> c.deleted, link |-> c.link]
        BY <2>1, ChunkFields
      <4> HIDE DEF c, d
      <4>4. CASE d = c
        BY <4>3, <4>4
      <4>5. CASE d = Chunk(c.id, c.span, c.deleted, id)
        <5>1. d.id = c.id /\ d.span = c.span /\ d.deleted = c.deleted /\ d.link = id
          BY <4>2, <4>5
        <5>2. d = [id |-> c.id, span |-> c.span, deleted |-> c.deleted, link |-> id]
          BY <4>5 DEF Chunk
        <5> QED
          BY <5>1, <5>2
      <4> QED
        BY <4>1, <4>4, <4>5
    <3>2. c = [id |-> c.id, span |-> c.span, deleted |-> c.deleted, link |-> c.link]
      BY <2>1, ChunkFields
    <3> HIDE DEF c, d
    <3>3. \A l : [d EXCEPT !.link = l] = Chunk(d.id, d.span, d.deleted, l)
      BY <3>1, NewFields, Zenon
    <3>4. [d EXCEPT !.link = NoLink] = Chunk(c.id, c.span, c.deleted, c.link)
      BY <2>1, <3>1, <3>3, Zenon
    <3>5. Chunk(c.id, c.span, c.deleted, c.link) = c
      BY <3>2 DEF Chunk
    <3> QED
      BY <2>4, <3>4, <3>5
  <2>6. \A k \in 1 .. Len(rga) : result[k] = rga[k]
    <3> SUFFICES ASSUME NEW k \in 1 .. Len(rga), k # left PROVE result[k] = rga[k]
      BY <2>5
    <3>1. result[k] = linked[k]
      BY <2>2, <2>3
    <3> QED
      BY <1>9, <3>1
  <2>7. result = rga
    <3>1. DOMAIN result = 1 .. Len(rga) /\ result = [k \in 1 .. Len(rga) |-> result[k]]
      BY <2>2, <2>3
    <3>2. rga = [k \in 1 .. Len(rga) |-> rga[k]]
      OBVIOUS
    <3> HIDE DEF result
    <3>3. [k \in 1 .. Len(rga) |-> result[k]] = [k \in 1 .. Len(rga) |-> rga[k]]
      BY <2>6, Zenon
    <3> QED
      BY <3>1, <3>2, <3>3, Zenon
  <2>8. Keeps(rga, rga, ref)
    BY DEF Keeps
  <2> QED
    BY <2>7, <2>8 DEF result
<1>12. CASE ~split
  <2>1. result = linked
    BY <1>7, <1>12
  <2> HIDE DEF linked
  <2>2. result \in Seq(ChunkType) /\ Items(result) = Items(rga)
    BY <1>9, <2>1, SameItems
  <2>3. ASSUME NEW p \in Parts(result)
        PROVE  /\ LinksOk(rga, names, ref) => LinkOk(p, names, ref)
               /\ LinksFull(rga, names, ref) => LinkFull(p, names, ref)
    <3>1. PICK k \in 1 .. Len(rga) : p = linked[k]
      BY <1>9, <2>1, <2>2, PartsOfList
    <3>2. CASE linked[k] = rga[k]
      BY <1>2, <3>1, <3>2, PartsOfList DEF LinksOk, LinksFull
    <3>3. CASE /\ Continues(rga[left], new, after)
               /\ p = Chunk(rga[left].id, rga[left].span, rga[left].deleted, id)
      <4> DEFINE c == rga[left]
      <4>1. p.id = c.id /\ p.span = c.span /\ p.link = id
        BY <3>3 DEF Chunk
      <4>2. LastId(p) = LastId(c) /\ NextId(p) = NextId(c)
        BY <4>1 DEF LastId, NextId, NextTick
      <4>3. LastId(c) = after
        BY <3>3
      <4>4. NextId(c) = id
        <5>1. c.id.sid = id.sid /\ NextTick(c) = id.time
          BY <3>3 DEF Continues
        <5>2. id = Ts(id.sid, id.time)
          BY StampIs
        <5> QED
          BY <5>1, <5>2 DEF NextId
      <4> HIDE DEF c
      <4> QED
        BY <1>10, <4>1, <4>2, <4>3, <4>4 DEF LinkOk, LinkFull, Follows
    <3> QED
      BY <1>9, <3>1, <3>2, <3>3
  <2> QED
    BY <2>2, <2>3 DEF Keeps, result, LinksOk, LinksFull
<1> QED
  BY <1>11, <1>12 DEF result

\* Nothing done keeps everything.
LEMMA KeepsItself ==
  ASSUME NEW rga \in Seq(ChunkType), NEW ref
  PROVE  Keeps(rga, rga, ref)
BY DEF Keeps

\* Where the first item of a run that is in the list stands.
LEMMA AgainAt ==
  ASSUME NEW rga \in Seq(ChunkType), NEW ref, ChunksPlaced(rga, ref), StrId \in Timestamp,
         NEW id \in IdsOf(rga), NEW j \in 1 .. Len(rga), Covers(rga[j], id)
  PROVE  /\ ref[id] = StrId => rga[j].id = id /\ \A k \in 1 .. j - 1 : Less(id, rga[k].id)
         /\ \A i \in 1 .. Len(rga) :
              Covers(rga[i], ref[id]) /\ i # j =>
                /\ rga[j].id = id /\ i < j /\ \A k \in i + 1 .. j - 1 : Less(id, rga[k].id)
                /\ ref[id] = LastId(rga[i]) \/ Less(id, Ts(ref[id].sid, ref[id].time + 1))
<1>1. /\ id \in Timestamp /\ ref[id] \in Timestamp /\ DOMAIN rga = 1 .. Len(rga) /\ Len(rga) \in Nat
      /\ ref[id].time < id.time /\ \A k \in 1 .. Len(rga) : rga[k] \in ChunkType
  BY DEF IdsOf, ChunksPlaced
<1>2. id # rga[j].id => Covers(rga[j], ref[id])
  <2> SUFFICES ASSUME id # rga[j].id PROVE Covers(rga[j], ref[id])
    OBVIOUS
  <2>1. ref[id] = Ts(id.sid, id.time - 1)
    BY <1>1 DEF ChunksPlaced
  <2>2. id.sid = rga[j].id.sid /\ rga[j].id.time <= id.time /\ id.time < NextTick(rga[j])
    BY DEF Covers
  <2>3. id = Ts(id.sid, id.time) /\ id.time \in Nat /\ rga[j].id.time \in Nat
        /\ rga[j].id = Ts(rga[j].id.sid, rga[j].id.time) /\ NextTick(rga[j]) \in Nat
    <3>1. rga[j] \in ChunkType
      BY <1>1
    <3> QED
      BY <1>1, <3>1, ChunkFields, StampIs
  <2>4. id.time # rga[j].id.time
    BY <2>2, <2>3
  <2>5. ref[id].sid = id.sid /\ ref[id].time = id.time - 1
    BY <2>1, StampFacts
  <2>6. rga[j].id.time <= id.time - 1 /\ id.time - 1 < NextTick(rga[j])
    BY <2>2, <2>3, <2>4
  <2> QED
    BY <2>2, <2>5, <2>6 DEF Covers
<1>3. StrId \notin IdsOf(rga) /\ StartPlaced(rga, ref, j)
  BY <1>1 DEF ChunksPlaced
<1>4. \A i \in 1 .. Len(rga) : Covers(rga[i], ref[id]) => ref[id] \in IdsOf(rga)
  BY <1>1 DEF IdsOf
<1>5. ASSUME ref[id] = StrId
      PROVE  rga[j].id = id /\ \A k \in 1 .. j - 1 : Less(id, rga[k].id)
  <2>1. \A i \in 1 .. Len(rga) : ~Covers(rga[i], ref[id])
    BY <1>3, <1>4, <1>5
  <2>2. rga[j].id = id
    BY <1>2, <2>1
  <2>3. ~\E i \in 1 .. j - 1 : ReferredAt(rga, ref, id, i, j)
    <3> SUFFICES ASSUME NEW i \in 1 .. j - 1, ReferredAt(rga, ref, id, i, j) PROVE FALSE
      OBVIOUS
    <3>1. i \in 1 .. Len(rga)
      BY <1>1
    <3> QED
      BY <2>1, <3>1 DEF ReferredAt
  <2> QED
    BY <1>3, <2>2, <2>3 DEF StartPlaced
<1>6. ASSUME NEW i \in 1 .. Len(rga), Covers(rga[i], ref[id]), i # j
      PROVE  /\ rga[j].id = id /\ i < j /\ \A k \in i + 1 .. j - 1 : Less(id, rga[k].id)
             /\ ref[id] = LastId(rga[i]) \/ Less(id, Ts(ref[id].sid, ref[id].time + 1))
  <2>1. \A m \in 1 .. Len(rga) : Covers(rga[m], ref[id]) => m = i
    BY <1>1, <1>6 DEF ChunksPlaced
  <2>2. rga[j].id = id
    BY <1>2, <1>6, <2>1
  <2>3. ref[id] # StrId
    BY <1>3, <1>4, <1>6
  <2>4. PICK m \in 1 .. j - 1 : ReferredAt(rga, ref, id, m, j)
    BY <1>3, <2>2, <2>3 DEF StartPlaced
  <2>5. m = i /\ i < j
    <3>1. m \in 1 .. Len(rga) /\ m < j
      BY <1>1, <2>4
    <3>2. Covers(rga[m], ref[id])
      BY <2>4 DEF ReferredAt
    <3> QED
      BY <2>1, <3>1, <3>2
  <2> QED
    BY <2>2, <2>4, <2>5 DEF ReferredAt
<1> QED
  BY <1>5, <1>6

\* An insertion whose run is in the list changes no item.
LEMMA InsertAgain ==
  ASSUME NEW rga \in Seq(ChunkType), NEW ref, ChunksPlaced(rga, ref),
         LinksOk(rga, IdsOf(rga), ref), StrId \in Timestamp,
         NEW id \in IdsOf(rga), NEW span \in Nat \ {0}, NEW after \in {StrId} \cup IdsOf(rga),
         ref[id] = after
  PROVE  Keeps(rga, Insert(rga, after, id, span), ref)
<1> DEFINE new == NewChunk(id, span)
           names == IdsOf(rga)
<1>1. /\ after \in Timestamp /\ after # Origin /\ DOMAIN rga = 1 .. Len(rga) /\ Len(rga) \in Nat
      /\ id \in Timestamp /\ after.time < id.time
      /\ \A k \in 1 .. Len(rga) : rga[k] \in ChunkType
  <2>1. after \in Timestamp /\ id \in Timestamp
    BY DEF IdsOf
  <2>2. after.time < id.time
    BY DEF ChunksPlaced
  <2> QED
    BY <2>1, <2>2, StampIs
<1>2. PICK j \in 1 .. Len(rga) : Covers(rga[j], id)
  BY <1>1 DEF IdsOf
<1>3. new \in ChunkType /\ new.id = id /\ new = NewChunk(id, span)
  <2>1. NewChunk(id, span) \in ChunkType /\ NewChunk(id, span).id = id
    BY <1>1, NewChunkType
  <2> QED
    BY <2>1
<1>4. Keeps(rga, rga, ref)
  BY KeepsItself
<1>5. \A k \in 1 .. Len(rga) : Covers(rga[k], id) => k = j
  BY <1>1, <1>2 DEF ChunksPlaced
<1> HIDE DEF new
<1>6. /\ ref[id] = StrId => rga[j].id = id /\ \A k \in 1 .. j - 1 : Less(id, rga[k].id)
      /\ \A i \in 1 .. Len(rga) :
           Covers(rga[i], ref[id]) /\ i # j =>
             /\ rga[j].id = id /\ i < j /\ \A k \in i + 1 .. j - 1 : Less(id, rga[k].id)
             /\ ref[id] = LastId(rga[i]) \/ Less(id, Ts(ref[id].sid, ref[id].time + 1))
  BY <1>2, AgainAt
<1>7. \A i \in 1 .. Len(rga) : Covers(rga[i], after) => after \in names
  BY <1>1 DEF IdsOf
<1>8. StrId \notin names
  BY DEF ChunksPlaced
<1>9. CASE after = StrId
  <2>1. Holding(rga, after) = {}
    BY <1>1, <1>7, <1>8, <1>9 DEF Holding
  <2>2. Insert(rga, after, id, span) = InsAfterRoot(rga, new, after)
    BY <1>3, <2>1 DEF Insert
  <2>3. rga[j].id = id /\ \A k \in 1 .. j - 1 : Less(id, rga[k].id)
    BY <1>6, <1>9
  <2>4. rga # << >> /\ 1 \in 1 .. Len(rga)
    BY <1>1, <1>2
  <2>5. rga[1].id \in Timestamp /\ rga[1] \in ChunkType
    BY <1>1, <2>4, ChunkFields
  <2>6. ~Less(rga[1].id, id)
    <3>1. CASE j = 1
      BY <1>1, <2>3, <3>1, LessIsAsymmetric
    <3>2. CASE j # 1
      <4>1. 1 \in 1 .. j - 1
        BY <1>2, <3>2
      <4>2. Less(id, rga[1].id)
        BY <2>3, <4>1
      <4> QED
        BY <1>1, <2>5, <4>2, LessIsAsymmetric
    <3> QED
      BY <3>1, <3>2
  <2>7. Insert(rga, after, id, span)
          = IF Covers(rga[1], id) THEN rga ELSE InsertAfterRef(rga, new, after, 1)
    BY <1>3, <2>2, <2>4, <2>6 DEF InsAfterRoot
  <2>8. CASE Covers(rga[1], id)
    BY <1>4, <2>7, <2>8
  <2>9. CASE ~Covers(rga[1], id)
    <3>1. j # 1 /\ j \in 1 + 1 .. Len(rga)
      <4>1. j # 1
        BY <1>2, <2>9
      <4> QED
        BY <1>1, <4>1
    <3>2. \A k \in 1 + 1 .. j - 1 : Less(id, rga[k].id)
      <4> SUFFICES ASSUME NEW k \in 1 + 1 .. j - 1 PROVE Less(id, rga[k].id)
        OBVIOUS
      <4>1. k \in 1 .. j - 1
        BY <1>1
      <4> QED
        BY <2>3, <4>1
    <3>3. ~Continues(rga[1], new, after)
      <4> SUFFICES ASSUME Continues(rga[1], new, after) PROVE FALSE
        OBVIOUS
      <4>1. NextTick(rga[1]) = id.time
        BY <1>3 DEF Continues
      <4>2. rga[1].id.time < id.time
        BY <2>5, <4>1, ChunkFields
      <4>3. Less(rga[1].id, id)
        BY <4>2 DEF Less
      <4> QED
        BY <2>6, <4>3
    <3>4. Keeps(rga, InsertAfterRef(rga, new, after, 1), ref)
      BY <1>1, <1>3, <2>3, <2>4, <3>1, <3>2, <3>3, WalkAgain
    <3> QED
      BY <2>7, <2>9, <3>4
  <2> QED
    BY <2>8, <2>9
<1>10. CASE after \in names /\ after # StrId
  <2> DEFINE i == FindById(rga, after)
             c == rga[i]
  <2>1. i \in 1 .. Len(rga) /\ Covers(rga[i], after) /\ Holding(rga, after) # {}
    <3>1. Holding(rga, after) # {}
      BY <1>10 DEF IdsOf, Holding
    <3>2. i \in Holding(rga, after)
      BY <3>1 DEF FindById
    <3> QED
      BY <1>1, <3>1, <3>2 DEF Holding
  <2>2. Insert(rga, after, id, span) = InsAfterChunk(rga, new, after, i)
    BY <1>1, <1>3, <2>1 DEF Insert
  <2> HIDE DEF i
  <2>3. /\ after.sid = c.id.sid /\ c.id.time <= after.time /\ after.time < NextTick(c)
        /\ NextTick(c) = c.id.time + c.span /\ c.id.time \in Nat /\ c.span \in Nat
        /\ after.time \in Nat /\ id.time \in Nat /\ id.sid \in Nat /\ after.sid \in Nat
        /\ c \in ChunkType /\ LastId(c).time = NextTick(c) - 1
    <3>1. c \in ChunkType
      BY <1>1, <2>1
    <3> QED
      BY <1>1, <2>1, <3>1, ChunkFields, StampIs, FirstCovered DEF Covers
  <2> DEFINE needsSplit == (after.time - c.id.time) + 1 < c.span
             apart == id.time > after.time + 1 \/ id.sid > after.sid
  <2>4. Insert(rga, after, id, span)
          = IF needsSplit /\ Covers(rga[i], id) THEN rga
            ELSE IF needsSplit /\ apart THEN SplitAround(rga, i, after, new)
            ELSE InsertAfterRef(rga, new, after, i)
    BY <1>3, <2>2 DEF InsAfterChunk, SplitAround
  <2>5. ~needsSplit => after = LastId(c)
    <3> SUFFICES ASSUME ~needsSplit PROVE after = LastId(c)
      OBVIOUS
    <3>1. after.time = NextTick(c) - 1
      <4> HIDE DEF c
      <4> QED
        BY <2>3
    <3>2. after = Ts(after.sid, after.time)
      BY <1>1, StampIs
    <3> QED
      BY <2>3, <3>1, <3>2 DEF LastId
  <2>6. needsSplit => after # LastId(c)
    <3> HIDE DEF c
    <3> QED
      BY <2>3
  <2>7. CASE j = i
    <3>1. needsSplit
      <4>1. c.id.sid = id.sid /\ c.id.time <= id.time /\ id.time < NextTick(c)
        BY <1>2, <2>7 DEF Covers
      <4>2. id.time > after.time
        BY <1>1, <2>3
      <4> HIDE DEF c
      <4> QED
        BY <2>3, <4>1, <4>2
    <3> QED
      BY <1>2, <1>4, <2>4, <2>7, <3>1
  <2>8. CASE j # i
    <3>1. ~Covers(rga[i], id)
      BY <1>5, <2>1, <2>8
    <3>2. /\ rga[j].id = id /\ i < j /\ \A k \in i + 1 .. j - 1 : Less(id, rga[k].id)
          /\ after = LastId(c) \/ Less(id, Ts(after.sid, after.time + 1))
      BY <1>6, <2>1, <2>8
    <3>3. ~(needsSplit /\ apart)
      <4> SUFFICES ASSUME needsSplit, apart PROVE FALSE
        OBVIOUS
      <4> DEFINE z == Ts(after.sid, after.time + 1)
      <4>1. Less(id, z) /\ z.sid = after.sid /\ z.time = after.time + 1
        BY <2>6, <3>2, StampFacts
      <4> HIDE DEF z, c
      <4>2. id.time < z.time \/ (id.time = z.time /\ id.sid < z.sid)
        BY <4>1 DEF Less
      <4> QED
        BY <1>1, <2>3, <4>1, <4>2
    <3>4. Insert(rga, after, id, span) = InsertAfterRef(rga, new, after, i)
      BY <2>4, <3>1, <3>3
    <3>5. j \in i + 1 .. Len(rga)
      BY <1>1, <2>1, <3>2
    <3>6. Continues(rga[i], new, after) => LastId(rga[i]) = after
      <4> SUFFICES ASSUME Continues(rga[i], new, after) PROVE LastId(c) = after
        OBVIOUS
      <4>1. NextTick(c) - 1 = after.time
        BY DEF Continues
      <4>2. after = Ts(after.sid, after.time)
        BY <1>1, StampIs
      <4> QED
        BY <2>3, <4>1, <4>2 DEF LastId
    <3>7. Keeps(rga, InsertAfterRef(rga, new, after, i), ref)
      BY <1>1, <1>3, <2>1, <3>2, <3>5, <3>6, WalkAgain
    <3> QED
      BY <3>4, <3>7
  <2> QED
    BY <2>7, <2>8
<1> QED
  BY <1>9, <1>10
=============================================================================
