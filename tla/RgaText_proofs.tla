--------------------------- MODULE RgaText_proofs ---------------------------
(***************************************************************************)
(* Proofs about RgaText: the chunks every replica keeps hold the list that *)
(* the specification TextCrdt describes, in the same order, and as long as *)
(* nothing was loaded they show the same text.  The lists are those of an  *)
(* instance of TextCrdt, whose invariant is proved in TextCrdt_proofs.     *)
(***************************************************************************)
EXTENDS RgaText, RgaDeletes_proofs, FiniteSetTheorems

\* The operations as the specification has them.
Ops == {Op(op) : op \in issued}

\* What the deletions a replica applied name.
Named(s) ==
  UNION {CoveredBy(op.what) : op \in {o \in issued : o.kind = "del" /\ o.id \in applied[s]}}

\* The list a replica should hold: the items of its chunks, of which those show
\* that no deletion names.
Shape(items, names) ==
  [p \in DOMAIN items |-> [id |-> items[p].id, live |-> items[p].id \notin names]]

Ideal == [s \in Sids |-> Shape(Items(rga[s]), Named(s))]

T == INSTANCE TextCrdt_proofs WITH text <- Ideal, issued <- Ops

\* The reference of every item.
Ref == [y \in Timestamp |-> T!Reference(Ops, y)]

RawOperation ==
  [kind : {"ins"}, id : Timestamp, after : Timestamp, span : Nat \ {0},
   deps : SUBSET Timestamp]
    \cup
  [kind : {"del"}, id : Timestamp, what : Seq(SpanType), span : {1},
   deps : SUBSET Timestamp]

Typed ==
  /\ rga \in [Sids -> Seq(ChunkType)]
  /\ reloads \in Nat
  /\ issued \subseteq RawOperation /\ IsFiniteSet(issued)

IdsAreUnique == \A p, q \in issued : p.id = q.id => p = q

\* A deletion names runs: items its author had, each behind the one before.
DeletesRuns ==
  \A op \in issued : op.kind = "del" =>
    \A k \in DOMAIN op.what :
      SpanRuns(T!Known(Ops, op.deps), Ref, op.what[k].sid, op.what[k].time,
               (op.what[k].time + op.what[k].span) - 1)

\* Links lead to the chunk that goes on with the run; none is missing before
\* the first load.
LinksGood ==
  \A s \in Sids :
    /\ LinksOk(rga[s], Names(Items(rga[s])), Ref)
    /\ reloads = 0 => LinksFull(rga[s], Names(Items(rga[s])), Ref)

ShowsIdeal == reloads = 0 => \A s \in Sids : Items(rga[s]) = Ideal[s]

\* The inductive invariant.
Inv == Typed /\ T!IInv /\ IdsAreUnique /\ DeletesRuns /\ LinksGood /\ ShowsIdeal
-----------------------------------------------------------------------------
(***************************************************************************)
(* The instance has its own copies of the definitions both build on.       *)
(***************************************************************************)
LEMMA Copies ==
  /\ T!Timestamp = Timestamp /\ T!StrId = StrId /\ T!ItemType = ItemType
  /\ T!FirstTime = FirstTime
  /\ \A sid, time0 : T!Ts(sid, time0) = Ts(sid, time0)
  /\ \A a, b : T!Less(a, b) <=> Less(a, b)
  /\ \A id, span : T!Interval(id, span) = Interval(id, span)
  /\ \A a, b : T!Larger(a, b) = Larger(a, b)
  /\ \A items : T!Names(items) = Names(items)
  /\ \A items, i : T!NameOf(items, i) = NameAt(items, i)
  /\ \A items : T!Distinct(items) <=> Distinct(items)
<1>1. /\ T!Timestamp = Timestamp /\ T!StrId = StrId /\ T!FirstTime = FirstTime
      /\ \A sid, time0 : T!Ts(sid, time0) = Ts(sid, time0)
  BY DEF T!Timestamp, Timestamp, T!StrId, StrId, T!FirstTime, FirstTime, T!Ts, Ts
<1>2. T!ItemType = ItemType
  BY <1>1 DEF T!ItemType, ItemType
<1>3. \A a, b : T!Less(a, b) <=> Less(a, b)
  BY DEF T!Less, Less
<1>4. \A id, span : T!Interval(id, span) = Interval(id, span)
  BY <1>1 DEF T!Interval, Interval
<1>5. \A a, b : T!Larger(a, b) = Larger(a, b)
  BY DEF T!Larger, Larger
<1>6. \A items : T!Names(items) = Names(items)
  BY DEF T!Names, Names
<1>7. \A items, i : T!NameOf(items, i) = NameAt(items, i)
  BY <1>1 DEF T!NameOf, NameAt
<1>8. \A items : T!Distinct(items) <=> Distinct(items)
  BY DEF T!Distinct, Distinct
<1> QED
  BY <1>1, <1>2, <1>3, <1>4, <1>5, <1>6, <1>7, <1>8

\* The items that spans of timestamps cover.
LEMMA CoveredIsSpanned ==
  ASSUME NEW spans \in Seq(SpanType)
  PROVE  CoveredBy(spans) = Spanned(spans, Len(spans)) /\ CoveredBy(spans) \subseteq Timestamp
<1>1. ASSUME NEW tss \in SpanType
      PROVE  /\ Interval(Ts(tss.sid, tss.time), tss.span) = SpanOf(tss)
             /\ SpanOf(tss) \subseteq Timestamp
  <2>1. tss.sid \in Sids /\ tss.time \in Nat /\ tss.span \in Nat
    BY DEF SpanType
  <2>2. Ts(tss.sid, tss.time).sid = tss.sid /\ Ts(tss.sid, tss.time).time = tss.time
    BY DEF Ts
  <2>3. \A i \in 0 .. tss.span - 1 : tss.time + i \in tss.time .. (tss.time + tss.span) - 1
    BY <2>1
  <2>4. \A t \in tss.time .. (tss.time + tss.span) - 1 :
          t - tss.time \in 0 .. tss.span - 1 /\ tss.time + (t - tss.time) = t /\ t \in Nat
    BY <2>1
  <2>5. \A t \in Nat : Ts(tss.sid, t) \in Timestamp
    BY <2>1 DEF Ts, Timestamp
  <2> QED
    BY <2>2, <2>3, <2>4, <2>5, Zenon DEF Interval, SpanOf, Span
<1>2. /\ \A k \in 1 .. Len(spans) : spans[k] \in SpanType /\ spans[k] \in ToSet(spans)
      /\ \A tss \in ToSet(spans) : \E k \in 1 .. Len(spans) : spans[k] = tss
  BY DEF ToSet
<1>3. \A k \in 1 .. Len(spans) :
        /\ Interval(Ts(spans[k].sid, spans[k].time), spans[k].span) = SpanOf(spans[k])
        /\ SpanOf(spans[k]) \subseteq Timestamp
  BY <1>1, <1>2
<1>4. ASSUME NEW t \in CoveredBy(spans) PROVE t \in Spanned(spans, Len(spans)) /\ t \in Timestamp
  <2>1. PICK tss \in ToSet(spans) : t \in Interval(Ts(tss.sid, tss.time), tss.span)
    BY <1>4 DEF CoveredBy
  <2>2. PICK k \in 1 .. Len(spans) : spans[k] = tss
    BY <1>2
  <2> QED
    BY <1>3, <2>1, <2>2 DEF Spanned
<1>5. ASSUME NEW t \in Spanned(spans, Len(spans)) PROVE t \in CoveredBy(spans)
  <2>1. PICK k \in 1 .. Len(spans) : t \in SpanOf(spans[k])
    BY <1>5 DEF Spanned
  <2> QED
    BY <1>2, <1>3, <2>1 DEF CoveredBy
<1> QED
  BY <1>4, <1>5

\* An operation as the specification has it.
LEMMA OpFacts ==
  ASSUME NEW op \in RawOperation
  PROVE  /\ Op(op) \in T!Operation
         /\ Op(op).kind = op.kind /\ Op(op).id = op.id /\ Op(op).span = op.span
         /\ Op(op).deps = op.deps
         /\ op.kind \in {"ins", "del"} /\ op.id \in Timestamp /\ op.deps \subseteq Timestamp
         /\ op.span \in Nat \ {0}
         /\ op.kind = "ins" => Op(op) = op /\ op.after \in Timestamp
         /\ op.kind = "del" => /\ Op(op).what = CoveredBy(op.what)
                               /\ op.what \in Seq(SpanType)
                               /\ op.span = 1
                               /\ op = Del(op.id, op.what, op.deps)
                               /\ CoveredBy(op.what) = Spanned(op.what, Len(op.what))
                               /\ CoveredBy(op.what) \subseteq Timestamp
<1>1. CASE op.kind = "ins"
  <2>1. op \in [kind : {"ins"}, id : Timestamp, after : Timestamp, span : Nat \ {0},
                deps : SUBSET Timestamp]
    BY <1>1 DEF RawOperation
  <2>2. Op(op) = op
    BY <1>1 DEF Op
  <2>3. op \in T!Operation
    BY <2>1, Copies DEF T!Operation
  <2> QED
    BY <1>1, <2>1, <2>2, <2>3
<1>2. CASE op.kind # "ins"
  <2>1. op \in [kind : {"del"}, id : Timestamp, what : Seq(SpanType), span : {1},
                deps : SUBSET Timestamp]
    BY <1>2 DEF RawOperation
  <2>2. op = Del(op.id, op.what, op.deps) /\ op.kind = "del" /\ op.what \in Seq(SpanType)
    BY <2>1 DEF Del
  <2> DEFINE what == CoveredBy(op.what)
  <2>3. what = Spanned(op.what, Len(op.what)) /\ what \subseteq Timestamp
    BY <2>2, CoveredIsSpanned
  <2>4. Op(op) = [op EXCEPT !.what = what]
    BY <1>2 DEF Op
  <2> HIDE DEF what
  <2>5. Op(op) = [kind |-> "del", id |-> op.id, what |-> what, span |-> 1, deps |-> op.deps]
    BY <2>2, <2>4 DEF Del
  <2>6. Op(op) \in T!Operation
    BY <2>1, <2>3, <2>5, Copies DEF T!Operation
  <2> QED
    BY <1>2, <2>1, <2>2, <2>3, <2>5, <2>6 DEF what
<1> QED
  BY <1>1, <1>2

\* The places of the list a replica should hold are those of its chunks.
LEMMA ShapeFacts ==
  ASSUME NEW items \in Seq(ItemType), NEW names
  PROVE  /\ Shape(items, names) \in Seq(ItemType)
         /\ Len(Shape(items, names)) = Len(items)
         /\ DOMAIN Shape(items, names) = 1 .. Len(items)
         /\ \A p \in 1 .. Len(items) :
              Shape(items, names)[p] = [id |-> items[p].id, live |-> items[p].id \notin names]
         /\ \A p \in 1 .. Len(items) : Shape(items, names)[p].id = items[p].id
         /\ \A p \in 1 .. Len(items) : Shape(items, names)[p].live <=> items[p].id \notin names
         /\ Names(Shape(items, names)) = Names(items)

<1>2. DOMAIN items = 1 .. Len(items) /\ Len(items) \in Nat
  OBVIOUS
<1>1. \A p \in 1 .. Len(items) : items[p] \in ItemType /\ items[p].id \in Timestamp
  <2>1. \A x \in ItemType : x.id \in Timestamp
    BY DEF ItemType
  <2> QED
    BY <2>1
<1> DEFINE shape == Shape(items, names)
<1>3. shape = [p \in 1 .. Len(items) |-> [id |-> items[p].id, live |-> items[p].id \notin names]]
  BY <1>2 DEF Shape
<1>4. \A p \in 1 .. Len(items) : [id |-> items[p].id, live |-> items[p].id \notin names] \in ItemType
  BY <1>1 DEF ItemType
<1> HIDE DEF shape
<1>5. /\ DOMAIN shape = 1 .. Len(items)
      /\ \A p \in 1 .. Len(items) :
           shape[p] = [id |-> items[p].id, live |-> items[p].id \notin names]
  BY <1>3
<1>6. shape \in Seq(ItemType) /\ Len(shape) = Len(items)
  BY <1>2, <1>3, <1>4
<1>7. \A p \in 1 .. Len(items) : shape[p].id = items[p].id
  BY <1>5
<1>8. ASSUME NEW p \in 1 .. Len(items) PROVE shape[p].live <=> items[p].id \notin names
  <2> DEFINE shows == items[p].id \notin names
             id == items[p].id
  <2>1. shape[p] = [id |-> id, live |-> shows] /\ shows \in BOOLEAN
    BY <1>5
  <2> HIDE DEF shows, id
  <2>2. shape[p].live = shows
    BY <2>1
  <2>3. shape[p].live <=> shows
    BY <2>1, <2>2
  <2> QED
    BY <2>3 DEF shows
<1>9. Names(shape) = Names(items)
  BY <1>2, <1>5, <1>7 DEF Names
<1> QED
  BY <1>5, <1>6, <1>7, <1>8, <1>9 DEF shape

\* What the deletions applied name, in the words of the specification.
LEMMA NamedFacts ==
  ASSUME Typed, NEW s \in Sids
  PROVE  \A y : y \in Named(s) <=> \E p \in T!Deletions(Ops, applied[s]) : y \in p.what
<1>1. ASSUME NEW op \in issued PROVE op \in RawOperation /\ Op(op) \in Ops
  BY DEF Typed, Ops
<1>2. ASSUME NEW y \in Named(s) PROVE \E p \in T!Deletions(Ops, applied[s]) : y \in p.what
  <2>1. PICK op \in issued : op.kind = "del" /\ op.id \in applied[s] /\ y \in CoveredBy(op.what)
    BY <1>2 DEF Named
  <2>2. Op(op).kind = "del" /\ Op(op).id \in applied[s] /\ y \in Op(op).what /\ Op(op) \in Ops
    BY <1>1, <2>1, OpFacts
  <2> QED
    BY <2>2 DEF T!Deletions
<1>3. ASSUME NEW y, NEW p \in T!Deletions(Ops, applied[s]), y \in p.what PROVE y \in Named(s)
  <2>1. PICK op \in issued : p = Op(op)
    BY DEF T!Deletions, Ops
  <2>2. p.kind = "del" /\ p.id \in applied[s]
    BY DEF T!Deletions
  <2>3. op.kind = "del" /\ op.id \in applied[s] /\ y \in CoveredBy(op.what)
    BY <1>1, <1>3, <2>1, <2>2, OpFacts
  <2> QED
    BY <2>3 DEF Named
<1> QED
  BY <1>2, <1>3

\* Chunks and lists name the same items.
LEMMA IdealFacts ==
  ASSUME Typed, NEW s \in Sids
  PROVE  /\ rga[s] \in Seq(ChunkType)
         /\ Items(rga[s]) \in Seq(ItemType) /\ Len(Items(rga[s])) \in Nat
         /\ Ideal[s] = Shape(Items(rga[s]), Named(s))
         /\ Ideal[s] \in Seq(ItemType)
         /\ Len(Ideal[s]) = Len(Items(rga[s]))
         /\ DOMAIN Ideal[s] = 1 .. Len(Items(rga[s])) /\ DOMAIN Items(rga[s]) = 1 .. Len(Items(rga[s]))
         /\ \A p \in 1 .. Len(Items(rga[s])) :
              /\ Ideal[s][p] = [id |-> Items(rga[s])[p].id, live |-> Items(rga[s])[p].id \notin Named(s)]
              /\ Ideal[s][p].id = Items(rga[s])[p].id
              /\ Ideal[s][p].live <=> Items(rga[s])[p].id \notin Named(s)
         /\ Names(Ideal[s]) = Names(Items(rga[s])) /\ IdsOf(rga[s]) = Names(Items(rga[s]))
<1>1. rga[s] \in Seq(ChunkType)
  BY DEF Typed
<1>2. Items(rga[s]) \in Seq(ItemType) /\ Len(Items(rga[s])) \in Nat
  BY <1>1, ItemsIsList
<1>3. Ideal[s] = Shape(Items(rga[s]), Named(s))
  BY DEF Ideal
<1>4. IdsOf(rga[s]) = Names(Items(rga[s]))
  BY <1>1, NamesAreCovered
<1> DEFINE items == Items(rga[s])
<1>5. DOMAIN items = 1 .. Len(items)
  BY <1>2
<1> QED
  BY <1>1, <1>2, <1>3, <1>4, <1>5, ShapeFacts

\* The chunks hold the items in their places, whatever else `ref' may tell.
LEMMA ListsPlaced ==
  ASSUME Typed, T!IInv, NEW s \in Sids, NEW ref,
         \A y \in Names(Items(rga[s])) : ref[y] = T!Reference(Ops, y)
  PROVE  WellPlaced(Items(rga[s]), ref) /\ ChunksPlaced(rga[s], ref)
<1> DEFINE items == Items(rga[s])
           list == Ideal[s]
<1>1. /\ rga[s] \in Seq(ChunkType) /\ items \in Seq(ItemType) /\ Len(items) \in Nat
      /\ Len(list) = Len(items) /\ list \in Seq(ItemType)
      /\ DOMAIN list = 1 .. Len(items) /\ DOMAIN items = 1 .. Len(items)
      /\ \A p \in 1 .. Len(items) : list[p].id = items[p].id
      /\ Names(list) = Names(items)
  BY IdealFacts
<1>2. T!WellPlaced(Ops, list)
  BY SidsAssumption, TextAssumption, T!ListsAreWellPlaced
<1> HIDE DEF items, list
<1>3. Distinct(list) /\ StrId \notin Names(list)
  BY <1>2, Copies DEF T!WellPlaced
<1>4. Distinct(items)
  BY <1>1, <1>3, Zenon DEF Distinct
<1>5. ASSUME NEW p \in DOMAIN items PROVE PlacedAt(items, ref, p)
  <2>1. T!Placed(Ops, list, p)
    BY <1>1, <1>2 DEF T!WellPlaced
  <2>2. PICK q \in 0 .. p - 1 : /\ NameAt(list, q) = T!Reference(Ops, list[p].id)
                                /\ \A n \in q + 1 .. p - 1 : Less(list[p].id, list[n].id)
    BY <2>1, Copies DEF T!Placed
  <2>3. items[p].id \in Names(items) /\ items[p].id = list[p].id
    BY <1>1 DEF Names
  <2>4. q = 0 \/ q \in 1 .. Len(items)
    BY <1>1
  <2>5. NameAt(items, q) = NameAt(list, q)
    BY <1>1, <2>4 DEF NameAt
  <2>6. \A n \in q + 1 .. p - 1 : n \in 1 .. Len(items)
    BY <1>1
  <2>7. ref[items[p].id] = T!Reference(Ops, items[p].id)
    BY <2>3 DEF items
  <2> QED
    BY <1>1, <2>2, <2>3, <2>5, <2>6, <2>7, ZenonT(30) DEF PlacedAt
<1>6. ASSUME NEW y \in Names(items) PROVE ref[y] \in Timestamp /\ ref[y].time < y.time
  <2>1. ref[y] = T!Reference(Ops, y)
    BY DEF items
  <2> QED
    BY <1>1, <1>2, <2>1, Copies DEF T!WellPlaced
<1>7. WellPlaced(items, ref)
  BY <1>1, <1>3, <1>4, <1>5, <1>6 DEF WellPlaced
<1> QED
  BY <1>1, <1>7, PlacedChunks DEF items

\* Links depend on the references of the items that are in the list.
LEMMA SameRefs ==
  ASSUME NEW chunks, NEW names, NEW ref, NEW other, \A y \in names : other[y] = ref[y]
  PROVE  /\ LinksOk(chunks, names, ref) => LinksOk(chunks, names, other)
         /\ LinksFull(chunks, names, ref) => LinksFull(chunks, names, other)
<1>1. ASSUME NEW c PROVE Follows(c, names, ref) <=> Follows(c, names, other)
  BY DEF Follows
<1> QED
  BY <1>1 DEF LinksOk, LinksFull, LinkOk, LinkFull
-----------------------------------------------------------------------------
(***************************************************************************)
(* An insertion: the walk along the chunks puts the run where the          *)
(* specification's walk along the items puts it.                           *)
(***************************************************************************)
\* The two walks stop at one place.
LEMMA SameFront ==
  ASSUME NEW items \in Seq(ItemType), Distinct(items), StrId \notin Names(items),
         NEW after, NEW id, NEW front, WalkEnds(items, after, id, front)
  PROVE  front = T!FrontOf(items, after, id)
<1> DEFINE f == T!FrontOf(items, after, id)
           place == T!PlaceOf(items, after)
<1>1. /\ Len(items) \in Nat /\ DOMAIN items = 1 .. Len(items)
      /\ front \in 0 .. Len(items)
      /\ front = Len(items) \/ Less(items[front + 1].id, id)
  BY DEF WalkEnds
<1>2. PICK p \in 0 .. front : /\ NameAt(items, p) = after
                              /\ \A k \in p + 1 .. front : ~Less(items[k].id, id)
  BY DEF WalkEnds
<1>3. /\ place \in 0 .. Len(items)
      /\ after \in Names(items) => place > 0 /\ items[place].id = after
      /\ after \notin Names(items) => place = 0
  BY SidsAssumption, TextAssumption, T!PlaceOfNames, Copies
<1>4. /\ f \in place .. Len(items)
      /\ f = Len(items) \/ Less(items[f + 1].id, id)
      /\ \A k \in place + 1 .. f : ~Less(items[k].id, id)
  BY SidsAssumption, TextAssumption, T!FrontStops, Copies
<1> DEFINE len == Len(items)
<1>10. /\ len \in Nat /\ front \in 0 .. len /\ place \in 0 .. len /\ f \in place .. len
       /\ DOMAIN items = 1 .. len
  BY <1>1, <1>3, <1>4
<1> HIDE DEF f, place, len
<1>11. /\ p \in Nat /\ p <= front /\ front \in Nat /\ place \in Nat /\ f \in Nat
       /\ front <= len /\ place <= f /\ f <= len
       /\ p # 0 => p \in 1 .. len
       /\ place > 0 => place \in 1 .. len
  BY <1>10
<1>5. place = p
  <2>1. CASE p = 0
    BY <1>2, <1>3, <2>1 DEF NameAt
  <2>2. CASE p # 0
    <3>1. p \in DOMAIN items /\ items[p].id = after
      <4>1. p \in DOMAIN items
        BY <1>10, <1>11, <2>2
      <4> QED
        BY <1>2, <2>2, <4>1 DEF NameAt
    <3>2. after \in Names(items)
      BY <3>1 DEF Names
    <3>3. place \in DOMAIN items /\ items[place].id = after
      <4>1. place \in DOMAIN items
        BY <1>3, <1>10, <1>11, <3>2
      <4> QED
        BY <1>3, <3>2, <4>1
    <3> QED
      BY <3>1, <3>3 DEF Distinct
  <2> QED
    BY <2>1, <2>2
<1>9. /\ len \in Nat /\ front \in 0 .. len /\ front \in Nat /\ p \in Nat /\ p <= front
      /\ f \in Nat /\ p <= f /\ f <= len
  BY <1>5, <1>10, <1>11
<1>6. ~(f < front)
  <2> SUFFICES ASSUME f < front PROVE FALSE
    OBVIOUS
  <2>1. f + 1 \in p + 1 .. front /\ f # len
    BY <1>9
  <2> QED
    BY <1>2, <1>4, <2>1 DEF len
<1>7. ~(front < f)
  <2> SUFFICES ASSUME front < f PROVE FALSE
    OBVIOUS
  <2>1. front + 1 \in p + 1 .. f /\ front # len
    BY <1>9
  <2> QED
    BY <1>1, <1>4, <1>5, <2>1 DEF len
<1>8. front = f
  BY <1>6, <1>7, <1>9
<1> QED
  BY <1>8 DEF f

\* The timestamps of a run.
LEMMA IntervalStamps ==
  ASSUME NEW id \in Timestamp, NEW span \in Nat
  PROVE  Interval(id, span) \subseteq Timestamp
<1>1. \A i \in 0 .. span - 1 : Ts(id.sid, id.time + i) \in Timestamp
  BY DEF Ts, Timestamp
<1> QED
  BY <1>1 DEF Interval

\* Items are equal when their fields are.
LEMMA SameItem ==
  ASSUME NEW x \in ItemType, NEW y \in ItemType, x.id = y.id, x.live <=> y.live
  PROVE  x = y
BY DEF ItemType

\* A run goes into the list a replica should hold as it goes into the chunks.
LEMMA GrownIsInserted ==
  ASSUME NEW items \in Seq(ItemType), Distinct(items), StrId \notin Names(items),
         NEW op \in T!Operation, op.kind = "ins", op.id \in Timestamp, op.span \in Nat \ {0},
         op.id \notin Names(items), Names(items) \cap Interval(op.id, op.span) = {},
         NEW result \in Seq(ItemType), Grown(items, result, op.after, op.id, op.span),
         NEW names, \A y \in Interval(op.id, op.span) : y \notin names
  PROVE  /\ Shape(result, names) = T!Inserted(Shape(items, names), op)
         /\ items = Shape(items, names) => result = T!Inserted(Shape(items, names), op)
         /\ Names(result) = Names(items) \cup Interval(op.id, op.span)
<1> DEFINE list == Shape(items, names)
           new == T!Inserted(list, op)
           run == RunOf(NewChunk(op.id, op.span))
           span == op.span
           id == op.id
<1>1. PICK a \in Seq(ItemType), b \in Seq(ItemType) :
        /\ items = a \o b /\ result = (a \o run) \o b
        /\ WalkEnds(items, op.after, op.id, Len(a))
  BY DEF Grown
<1>2. span \in Nat /\ span > 0
  OBVIOUS
<1>3. /\ run \in Seq(ItemType) /\ Len(run) = span
      /\ \A k \in 1 .. span : /\ run[k] = [id |-> Ts(id.sid, id.time + k - 1), live |-> TRUE]
                              /\ Ts(id.sid, id.time + k - 1) \in Timestamp
  <2> DEFINE c == NewChunk(id, span)
  <2>1. c \in ChunkType /\ c.id = id /\ c.span = span /\ c.deleted = FALSE
    <3>1. id \in Timestamp /\ span \in Nat \ {0}
      OBVIOUS
    <3> HIDE DEF id, span
    <3> QED
      BY <3>1, NewChunkType
  <2> HIDE DEF c
  <2>2. (~c.deleted) = TRUE
    BY <2>1
  <2> QED
    BY <2>1, <2>2, RunFacts DEF c
<1>4. /\ list \in Seq(ItemType) /\ Len(list) = Len(items)
      /\ \A p \in 1 .. Len(items) : list[p] = [id |-> items[p].id, live |-> items[p].id \notin names]
      /\ \A p \in 1 .. Len(items) : list[p].id = items[p].id
      /\ Names(list) = Names(items)
  BY ShapeFacts
<1> HIDE DEF run, list
<1>5. /\ Len(a) \in Nat /\ Len(b) \in Nat /\ Len(items) = Len(a) + Len(b)
      /\ \A p \in 1 .. Len(a) : items[p] = a[p]
      /\ \A p \in Len(a) + 1 .. Len(a) + Len(b) : items[p] = b[p - Len(a)]
      /\ Len(result) = (Len(a) + span) + Len(b)
      /\ \A p \in 1 .. Len(a) : result[p] = a[p]
      /\ \A p \in Len(a) + 1 .. Len(a) + span : result[p] = run[p - Len(a)]
      /\ \A p \in (Len(a) + span) + 1 .. (Len(a) + span) + Len(b) : result[p] = b[p - (Len(a) + span)]
  <2> DEFINE ar == a \o run
  <2>1. ar = a \o run
    OBVIOUS
  <2> HIDE DEF ar
  <2>2. /\ ar \in Seq(ItemType) /\ Len(ar) = Len(a) + span
        /\ \A p \in 1 .. Len(a) : ar[p] = a[p]
        /\ \A p \in Len(a) + 1 .. Len(a) + span : ar[p] = run[p - Len(a)]
    <3>1. a \in Seq(ItemType) /\ run \in Seq(ItemType)
      BY <1>3
    <3>2. /\ ar \in Seq(ItemType) /\ Len(ar) = Len(a) + Len(run)
          /\ \A p \in 1 .. Len(a) : ar[p] = a[p]
          /\ \A p \in Len(a) + 1 .. Len(a) + Len(run) : ar[p] = run[p - Len(a)]
      BY <2>1, <3>1, JoinedAt
    <3> QED
      BY <1>3, <3>2
  <2>3. result = ar \o b
    BY <1>1 DEF ar
  <2>4. Len(a) \in Nat /\ Len(b) \in Nat
    OBVIOUS
  <2>5. /\ Len(result) = Len(ar) + Len(b)
        /\ \A p \in 1 .. Len(ar) : result[p] = ar[p]
        /\ \A p \in Len(ar) + 1 .. Len(ar) + Len(b) : result[p] = b[p - Len(ar)]
    BY <2>2, <2>3, JoinedAt, SMTT(30)
  <2>6. /\ Len(items) = Len(a) + Len(b)
        /\ \A p \in 1 .. Len(a) : items[p] = a[p]
        /\ \A p \in Len(a) + 1 .. Len(a) + Len(b) : items[p] = b[p - Len(a)]
    BY <1>1, JoinedAt
  <2> QED
    BY <1>2, <2>2, <2>4, <2>5, <2>6, SMTT(30)
<1> DEFINE front == Len(a)
<1>6. front = T!FrontOf(list, op.after, op.id) /\ front \in 0 .. Len(list)
  <2>1. \A p \in 1 .. Len(items) : list[p].id = items[p].id
    BY <1>4
  <2>2. DOMAIN items = 1 .. Len(items) /\ DOMAIN list = 1 .. Len(items) /\ Len(items) \in Nat
    BY <1>4
  <2>3. Distinct(list)
    BY <2>1, <2>2, Zenon DEF Distinct
  <2>4. WalkEnds(list, op.after, op.id, Len(a))
    <3>1. /\ Len(a) \in 0 .. Len(items)
          /\ Len(a) = Len(items) \/ Less(items[Len(a) + 1].id, id)
      BY <1>1 DEF WalkEnds
    <3>2. PICK p \in 0 .. Len(a) : /\ NameAt(items, p) = op.after
                                   /\ \A k \in p + 1 .. Len(a) : ~Less(items[k].id, id)
      BY <1>1 DEF WalkEnds
    <3>3. NameAt(list, p) = NameAt(items, p)
      <4>1. p = 0 \/ p \in 1 .. Len(items)
        BY <2>2, <3>1
      <4> QED
        BY <2>1, <4>1 DEF NameAt
    <3>4. \A k \in p + 1 .. Len(a) : k \in 1 .. Len(items)
      BY <1>5, <2>2
    <3>5. Len(a) # Len(items) => Len(a) + 1 \in 1 .. Len(items)
      BY <1>5, <2>2
    <3>6. Len(a) = Len(list) \/ Less(list[Len(a) + 1].id, id)
      BY <1>4, <2>1, <3>1, <3>5
    <3>7. \A k \in p + 1 .. Len(a) : ~Less(list[k].id, id)
      BY <2>1, <3>2, <3>4
    <3> QED
      BY <1>4, <3>1, <3>2, <3>3, <3>6, <3>7 DEF WalkEnds
  <2>5. StrId \notin Names(list)
    BY <1>4
  <2> QED
    BY <1>4, <1>5, <2>3, <2>4, <2>5, SameFront
<1>7. /\ new \in Seq(ItemType) /\ Len(new) = Len(items) + span
      /\ \A i \in 1 .. front : new[i] = list[i]
      /\ \A i \in front + 1 .. front + span :
           new[i] = [id |-> Ts(id.sid, id.time + (i - front - 1)), live |-> TRUE]
      /\ \A i \in front + span + 1 .. Len(items) + span : new[i] = list[i - span]
  <2>1. id \in T!Timestamp /\ list \in Seq(T!ItemType) /\ id \notin T!Names(list)
    BY <1>4, Copies
  <2>3. new = T!Inserted(list, op) /\ span = op.span
    OBVIOUS
  <2> HIDE DEF front, new, span
  <2>4. op.id \in T!Timestamp /\ op.span = span
    BY <2>1, <2>3
  <2>2. T!Holds(T!Inserted(list, op), list, op, span, front)
    BY SidsAssumption, TextAssumption, <1>2, <1>6, <2>1, <2>3, <2>4, T!InsertedHolds
  <2>5. T!Holds(new, list, op, span, front)
    BY <2>2, <2>3
  <2> QED
    BY <1>4, <2>5, Copies DEF T!Item, T!Holds
<1>8. \A y \in Interval(op.id, op.span) : y \in Timestamp
  BY <1>2, IntervalStamps
<1>9. \A k \in 1 .. span : Ts(id.sid, id.time + k - 1) \in Interval(id, span)
  <2>1. \A k \in 1 .. span : k - 1 \in 0 .. span - 1 /\ id.time + k - 1 = id.time + (k - 1)
    BY <1>2 DEF Timestamp
  <2> QED
    BY <2>1 DEF Interval
<1> DEFINE shape == Shape(result, names)
           m == Len(a)
           n == Len(b)
<1>10. /\ shape \in Seq(ItemType) /\ Len(shape) = Len(result)
       /\ \A p \in 1 .. Len(result) : shape[p].id = result[p].id
       /\ \A p \in 1 .. Len(result) : shape[p].live <=> result[p].id \notin names
  BY ShapeFacts
<1>11. \A p \in 1 .. Len(items) : list[p].live <=> items[p].id \notin names
  BY ShapeFacts DEF list
<1> HIDE DEF shape, new, id, span, front
<1>12. /\ m \in Nat /\ n \in Nat /\ span \in Nat /\ front = m
       /\ Len(items) = m + n /\ Len(result) = (m + span) + n
  BY <1>2, <1>5 DEF front
<1>13. ASSUME NEW p \in 1 .. Len(result)
       PROVE  /\ \/ p \in 1 .. m /\ p \in 1 .. m + n
                 \/ p \in m + 1 .. m + span /\ p - m \in 1 .. span
                 \/ /\ p \in (m + span) + 1 .. (m + span) + n
                    /\ p - span \in m + 1 .. m + n /\ (p - span) - m = p - (m + span)
                    /\ p - span \in 1 .. m + n
  <2>1. p \in 1 .. (m + span) + n
    BY <1>12
  <2> HIDE DEF m, n
  <2> QED
    BY <1>12, <2>1
<1>14. ASSUME NEW p \in 1 .. Len(result)
       PROVE  shape[p] = new[p] /\ (items = list => result[p] = new[p])
  <2>1. CASE p \in 1 .. m /\ p \in 1 .. m + n
    <3>1. result[p] = items[p] /\ new[p] = list[p] /\ p \in 1 .. Len(items)
      BY <1>5, <1>7, <1>12, <2>1
    <3>2. shape[p].id = list[p].id /\ (shape[p].live <=> list[p].live)
      BY <1>4, <1>10, <1>11, <3>1, SMTT(30)
    <3>3. shape[p] \in ItemType /\ list[p] \in ItemType
      BY <1>4, <1>10, <3>1
    <3> QED
      BY <3>1, <3>2, <3>3, SameItem
  <2>2. CASE p \in m + 1 .. m + span /\ p - m \in 1 .. span
    <3> DEFINE y == Ts(id.sid, id.time + (p - m) - 1)
    <3>1. result[p] = [id |-> y, live |-> TRUE] /\ y \in Interval(id, span)
      BY <1>3, <1>5, <1>9, <2>2
    <3>2. new[p] = [id |-> y, live |-> TRUE]
      <4>1. id.time + (p - m - 1) = id.time + (p - m) - 1
        BY <1>12, <2>2 DEF id, Timestamp
      <4> QED
        BY <1>7, <1>12, <2>2, <4>1
    <3>3. y \notin names
      BY <3>1 DEF id, span
    <3> HIDE DEF y
    <3>4. result[p].id = y /\ new[p].id = y /\ new[p].live = TRUE
      BY <3>1, <3>2
    <3>5. shape[p].id = new[p].id /\ (shape[p].live <=> new[p].live)
      BY <1>10, <3>3, <3>4
    <3>6. shape[p] \in ItemType /\ new[p] \in ItemType
      BY <1>7, <1>10, <1>12
    <3> QED
      BY <3>1, <3>2, <3>5, <3>6, SameItem
  <2>3. CASE /\ p \in (m + span) + 1 .. (m + span) + n
             /\ p - span \in m + 1 .. m + n /\ (p - span) - m = p - (m + span)
             /\ p - span \in 1 .. m + n
    <3> DEFINE q == p - span
    <3>1. q \in 1 .. Len(items) /\ result[p] = items[q]
      BY <1>5, <1>12, <2>3
    <3>2. new[p] = list[q]
      <4>1. p \in front + span + 1 .. Len(items) + span
        BY <1>12, <2>3
      <4> QED
        BY <1>7, <4>1
    <3> HIDE DEF q
    <3>3. shape[p].id = list[q].id /\ (shape[p].live <=> list[q].live)
      BY <1>4, <1>10, <1>11, <3>1, SMTT(30)
    <3>4. shape[p] \in ItemType /\ list[q] \in ItemType
      BY <1>4, <1>10, <3>1
    <3> QED
      BY <3>1, <3>2, <3>3, <3>4, SameItem
  <2> QED
    BY <1>13, <2>1, <2>2, <2>3
<1>15. Len(new) = Len(result)
  BY <1>7, <1>12
<1>16. shape = new
  BY <1>7, <1>10, <1>14, <1>15, SameAtAll
<1>17. items = list => result = new
  <2> SUFFICES ASSUME items = list PROVE result = new
    OBVIOUS
  <2>1. \A p \in 1 .. Len(result) : result[p] = new[p]
    BY <1>14
  <2> QED
    BY <1>7, <1>15, <2>1, SameAtAll
<1>18. Names(result) = Names(items) \cup Interval(op.id, op.span)
  <2>1. Names(result) = Names(new)
    BY <1>16, ShapeFacts DEF shape
  <2>2. list \in Seq(T!ItemType) /\ T!Distinct(list) /\ new = T!Inserted(list, op)
    <3>1. DOMAIN items = 1 .. Len(items) /\ DOMAIN list = 1 .. Len(items) /\ Len(items) \in Nat
      BY <1>4
    <3>2. Distinct(list)
      BY <1>4, <3>1, Zenon DEF Distinct
    <3> QED
      BY <1>4, <3>2, Copies DEF new
  <2>3. T!Names(list) \cap T!Interval(op.id, op.span) = {}
    BY <1>4, Copies
  <2>4. T!Names(new) = T!Names(list) \cup T!Interval(op.id, op.span)
    BY SidsAssumption, TextAssumption, <2>2, <2>3, T!InsertionAddsItems
  <2> QED
    BY <1>4, <2>1, <2>4, Copies
<1> QED
  BY <1>16, <1>17, <1>18 DEF shape, new, list

\* A deletion hides in the chunks what it hides in the list a replica should
\* hold, or, where links are missing, less.
LEMMA HiddenIsDeleted ==
  ASSUME NEW items \in Seq(ItemType), NEW op, NEW V \in SUBSET op.what,
         NEW names, NEW result, result = Hide(items, V)
  PROVE  /\ Shape(result, names \cup op.what) = T!Deleted(Shape(items, names), op)
         /\ V = op.what /\ items = Shape(items, names)
              => result = T!Deleted(Shape(items, names), op)
<1> DEFINE list == Shape(items, names)
           new == T!Deleted(list, op)
           shape == Shape(result, names \cup op.what)
<1>1. /\ result \in Seq(ItemType) /\ Len(result) = Len(items) /\ DOMAIN items = 1 .. Len(items)
      /\ \A p \in 1 .. Len(items) : result[p].id = items[p].id
  BY HideFacts
<1>2. /\ list \in Seq(ItemType) /\ Len(list) = Len(items)
      /\ \A p \in 1 .. Len(items) : list[p].id = items[p].id
      /\ \A p \in 1 .. Len(items) : list[p].live <=> items[p].id \notin names
  BY ShapeFacts
<1>3. /\ shape \in Seq(ItemType) /\ Len(shape) = Len(items)
      /\ \A p \in 1 .. Len(items) : shape[p].id = result[p].id
      /\ \A p \in 1 .. Len(items) : shape[p].live <=> result[p].id \notin names \cup op.what
  BY <1>1, ShapeFacts
<1> HIDE DEF list, shape
<1>4. /\ new \in Seq(ItemType) /\ Len(new) = Len(items)
      /\ \A p \in 1 .. Len(items) : new[p].id = list[p].id
      /\ \A p \in 1 .. Len(items) : new[p].live <=> list[p].live /\ list[p].id \notin op.what
  <2>1. list \in Seq(T!ItemType) /\ new = T!Deleted(list, op)
    BY <1>2, Copies
  <2> HIDE DEF new
  <2>2. /\ new \in Seq(T!ItemType) /\ Len(new) = Len(list)
        /\ \A i \in DOMAIN list :
             /\ new[i].id = list[i].id
             /\ new[i].live <=> list[i].live /\ list[i].id \notin op.what
    BY SidsAssumption, TextAssumption, <2>1, T!DeletionHidesItems
  <2>3. DOMAIN list = 1 .. Len(items)
    BY <1>2
  <2> QED
    BY <1>2, <2>2, <2>3, Copies
<1> HIDE DEF new
<1>5. ASSUME NEW p \in 1 .. Len(items)
      PROVE  shape[p] = new[p] /\ (V = op.what /\ items = list => result[p] = new[p])
  <2>1. shape[p] \in ItemType /\ new[p] \in ItemType /\ result[p] \in ItemType /\ items[p] \in ItemType
    BY <1>1, <1>3, <1>4
  <2>2. shape[p].id = new[p].id /\ (shape[p].live <=> new[p].live)
    BY <1>1, <1>2, <1>3, <1>4
  <2>3. ASSUME V = op.what, items = list PROVE result[p] = new[p]
    <3>1. result[p].id = new[p].id
      BY <1>1, <1>2, <1>4
    <3>2. result[p] = IF items[p].id \in V THEN [id |-> items[p].id, live |-> FALSE] ELSE items[p]
      BY <1>1 DEF Hide
    <3>3. result[p].live <=> items[p].live /\ items[p].id \notin V
      BY <3>2
    <3>4. result[p].live <=> new[p].live
      BY <1>2, <1>4, <2>3, <3>3
    <3> QED
      BY <2>1, <3>1, <3>4, SameItem
  <2> QED
    BY <2>1, <2>2, <2>3, SameItem
<1>6. shape = new
  BY <1>3, <1>4, <1>5, SameAtAll
<1>7. V = op.what /\ items = list => result = new
  BY <1>1, <1>4, <1>5, SameAtAll
<1> QED
  BY <1>6, <1>7 DEF shape, list, new

\* A deletion that reaches all it names hides what the list hides.
LEMMA HidingIsDeleting ==
  ASSUME NEW items \in Seq(ItemType), NEW op, NEW names, items = Shape(items, names)
  PROVE  Hide(items, op.what) = T!Deleted(items, op)
<1>1. ASSUME NEW V \in SUBSET op.what, NEW result, result = Hide(items, V)
      PROVE  /\ Shape(result, names \cup op.what) = T!Deleted(Shape(items, names), op)
             /\ V = op.what /\ items = Shape(items, names)
                  => result = T!Deleted(Shape(items, names), op)
  BY <1>1, HiddenIsDeleted
<1>2. \A V \in SUBSET op.what : V = op.what => Hide(items, V) = T!Deleted(Shape(items, names), op)
  BY <1>1
<1>3. op.what \in SUBSET op.what
  OBVIOUS
<1>4. Hide(items, op.what) = T!Deleted(Shape(items, names), op)
  BY <1>2, <1>3, Zenon
<1> QED
  BY <1>4
-----------------------------------------------------------------------------
(***************************************************************************)
(* What an operation makes of the chunks of a replica.                     *)
(***************************************************************************)
\* The references when the operation is there.
RefWith(op) == [y \in Timestamp |-> T!Reference(Ops \cup {Op(op)}, y)]

NamedBy(op) == IF op.kind = "del" THEN CoveredBy(op.what) ELSE {}

\* The chunks hold what the specification says, with links as they should be.
AppliedTo(s, op, result) ==
  /\ result \in Seq(ChunkType)
  /\ Shape(Items(result), Named(s) \cup NamedBy(op)) = T!Integrated(Ideal[s], Op(op))
  /\ LinksOk(result, Names(Items(result)), RefWith(op))
  /\ reloads = 0 => /\ LinksFull(result, Names(Items(result)), RefWith(op))
                    /\ Items(result) = T!Integrated(Ideal[s], Op(op))

\* What every application of an operation may use.
LEMMA ComesHere ==
  ASSUME Inv, NEW s \in Sids, NEW op \in RawOperation, T!Comes(s, Op(op))
  PROVE  /\ rga[s] \in Seq(ChunkType)
         /\ ChunksPlaced(rga[s], RefWith(op)) /\ WellPlaced(Items(rga[s]), RefWith(op))
         /\ LinksOk(rga[s], Names(Items(rga[s])), RefWith(op))
         /\ reloads = 0 => LinksFull(rga[s], Names(Items(rga[s])), RefWith(op))
         /\ IdsOf(rga[s]) = Names(Items(rga[s]))
         /\ Names(Items(rga[s])) \subseteq Timestamp
<1>1. Typed /\ T!IInv /\ LinksGood
  BY DEF Inv
<1>2. /\ rga[s] \in Seq(ChunkType) /\ IdsOf(rga[s]) = Names(Items(rga[s]))
      /\ Names(Ideal[s]) = Names(Items(rga[s]))
  BY <1>1, IdealFacts
<1>3. Names(Items(rga[s])) \subseteq Timestamp
  BY <1>2 DEF IdsOf
<1>4. \A y \in Names(Items(rga[s])) : T!Reference(Ops \cup {Op(op)}, y) = T!Reference(Ops, y)
  <2>1. Op(op) \in T!Operation
    BY OpFacts
  <2>2. \A y \in T!Names(Ideal[s]) : T!Reference(Ops \cup {Op(op)}, y) = T!Reference(Ops, y)
    BY SidsAssumption, TextAssumption, <1>1, <2>1, T!ComesReferences
  <2> QED
    BY <1>2, <2>2, Copies
<1>5. \A y \in Names(Items(rga[s])) : /\ RefWith(op)[y] = T!Reference(Ops, y)
                                      /\ RefWith(op)[y] = Ref[y]
  BY <1>3, <1>4 DEF RefWith, Ref
<1>6. WellPlaced(Items(rga[s]), RefWith(op)) /\ ChunksPlaced(rga[s], RefWith(op))
  BY <1>1, <1>5, ListsPlaced
<1>7. /\ LinksOk(rga[s], Names(Items(rga[s])), Ref)
      /\ reloads = 0 => LinksFull(rga[s], Names(Items(rga[s])), Ref)
  BY <1>1 DEF LinksGood
<1> QED
  BY <1>2, <1>3, <1>5, <1>6, <1>7, SameRefs

\* A deletion that was applied named items the replica has.
LEMMA NamedAreThere ==
  ASSUME Typed, T!IInv, NEW s \in Sids
  PROVE  Named(s) \subseteq Names(Items(rga[s]))
<1>1. Names(Ideal[s]) = Names(Items(rga[s])) /\ T!Names(Ideal[s]) = Names(Ideal[s])
  BY IdealFacts, Copies
<1>2. ASSUME NEW y \in Named(s) PROVE y \in T!Names(Ideal[s])
  <2>1. PICK p \in T!Deletions(Ops, applied[s]) : y \in p.what
    BY <1>2, NamedFacts
  <2>2. p \in Ops /\ p.kind = "del" /\ p.id \in applied[s]
    BY <2>1 DEF T!Deletions
  <2>3. p.what \subseteq T!Known(Ops, p.deps)
    BY <2>2 DEF T!IInv, T!RefersToKnown
  <2>4. p.deps \subseteq applied[s]
    BY <2>2 DEF T!IInv, T!Causal
  <2>5. T!Known(Ops, p.deps) \subseteq T!Known(Ops, applied[s])
    BY <2>4, SidsAssumption, TextAssumption, T!KnownIsMonotonic
  <2>6. T!Names(Ideal[s]) = T!Known(Ops, applied[s])
    BY DEF T!IInv, T!Contents
  <2> QED
    BY <2>1, <2>3, <2>5, <2>6
<1> QED
  BY <1>1, <1>2

\* The id of the node is a timestamp.
LEMMA RootStamp == StrId \in Timestamp
BY TextAssumption DEF StrId, Ts, Timestamp

\* An insertion a replica may receive puts its run where the specification
\* puts it, in the chunks as in the list.
LEMMA AppliesInsertion ==
  ASSUME Inv, NEW s \in Sids, NEW op \in RawOperation, op.kind = "ins", T!Comes(s, Op(op))
  PROVE  AppliedTo(s, op, Insert(rga[s], op.after, op.id, op.span))
<1> DEFINE chunks == rga[s]
           ref == RefWith(op)
           names == Names(Items(chunks))
           result == Insert(chunks, op.after, op.id, op.span)
<1>1. Typed /\ T!IInv
  BY DEF Inv
<1>2. /\ Op(op) = op /\ op \in T!Operation /\ op.id \in Timestamp /\ op.span \in Nat \ {0}
      /\ op.after \in Timestamp
  BY OpFacts
<1>3. /\ chunks \in Seq(ChunkType)
      /\ ChunksPlaced(chunks, ref) /\ WellPlaced(Items(chunks), ref)
      /\ LinksOk(chunks, names, ref)
      /\ reloads = 0 => LinksFull(chunks, names, ref)
      /\ IdsOf(chunks) = names /\ names \subseteq Timestamp
  BY ComesHere
<1>4. /\ Ideal[s] = Shape(Items(chunks), Named(s)) /\ T!Names(Ideal[s]) = names
      /\ Items(chunks) \in Seq(ItemType)
  BY <1>1, IdealFacts, Copies
<1>5. Named(s) \cup NamedBy(op) = Named(s)
  BY DEF NamedBy
<1>6. T!Integrated(Ideal[s], Op(op)) = T!Inserted(Ideal[s], op)
  BY <1>2 DEF T!Integrated
<1>7. reloads = 0 => Items(chunks) = Ideal[s]
  BY DEF Inv, ShowsIdeal
<1>8. /\ T!UniqueIds(Ops \cup {op})
      /\ op.after \in {StrId} \cup names
  <2>1. /\ T!UniqueIds(Ops \cup {op})
        /\ op.after \in {T!StrId} \cup T!Known(Ops, op.deps)
        /\ T!Known(Ops, op.deps) \subseteq T!Names(Ideal[s])
    BY <1>1, <1>2, SidsAssumption, TextAssumption, T!ComesFacts
  <2> QED
    BY <1>4, <2>1, Copies
<1>9. /\ \A y \in Timestamp : ref[y] = T!Reference(Ops \cup {op}, y)
  BY <1>2 DEF RefWith
<1> HIDE DEF chunks, ref, names, result
<1>10. CASE op.id \in names
  <2>1. ref[op.id] = op.after
    <3>1. T!Reference(Ops \cup {op}, op.id) = op.after
      BY <1>8, SidsAssumption, TextAssumption, T!ReferenceOfInsertion
    <3> QED
      BY <1>2, <1>9, <3>1
  <2>2. Keeps(chunks, result, ref)
    BY <1>2, <1>3, <1>8, <1>10, <2>1, RootStamp, InsertAgain DEF result
  <2>3. T!Inserted(Ideal[s], op) = Ideal[s]
    BY <1>4, <1>10 DEF T!Inserted
  <2>4. /\ result \in Seq(ChunkType) /\ Items(result) = Items(chunks)
        /\ LinksOk(result, names, ref)
        /\ reloads = 0 => LinksFull(result, names, ref)
    BY <1>3, <2>2 DEF Keeps
  <2> QED
    BY <1>4, <1>5, <1>6, <1>7, <2>3, <2>4 DEF AppliedTo, result, chunks, names, ref
<1>11. CASE op.id \notin names
  <2>1. /\ Interval(op.id, op.span) \cap names = {}
        /\ \A y \in names : T!Reference(Ops \cup {op}, y) \notin Interval(op.id, op.span)
        /\ \A y \in Interval(op.id, op.span) \ {op.id} :
             T!Reference(Ops \cup {op}, y) = Ts(y.sid, y.time - 1)
        /\ T!Reference(Ops \cup {op}, op.id) = op.after
        /\ op.after.time < op.id.time
    <3>1. T!Comes(s, op) /\ op.id \notin T!Names(Ideal[s])
      BY <1>2, <1>4, <1>11
    <3>2. /\ T!Interval(op.id, op.span) \cap T!Names(Ideal[s]) = {}
          /\ \A y \in T!Names(Ideal[s]) : T!Reference(Ops \cup {op}, y) \notin T!Interval(op.id, op.span)
          /\ \A y \in T!Interval(op.id, op.span) \ {op.id} :
               T!Reference(Ops \cup {op}, y) = T!Ts(y.sid, y.time - 1)
          /\ T!Reference(Ops \cup {op}, op.id) = op.after
          /\ op.after.time < op.id.time
      BY <1>1, <1>2, <3>1, SidsAssumption, TextAssumption, T!ComesFresh
    <3> QED
      BY <1>4, <3>2, Copies
  <2>2. Interval(op.id, op.span) \subseteq Timestamp
    BY <1>2, IntervalStamps
  <2>3. Fresh(names, ref, op.id, op.span, op.after)
    BY <1>2, <1>3, <1>9, <2>1, <2>2 DEF Fresh
  <2>4. Inserts(chunks, result, ref, op.after, op.id, op.span)
    BY <1>2, <1>3, <1>8, <2>3, RootStamp, InsertNew DEF result
  <2>5. /\ result \in Seq(ChunkType)
        /\ Grown(Items(chunks), Items(result), op.after, op.id, op.span)
        /\ LinksOk(result, names \cup Interval(op.id, op.span), ref)
        /\ reloads = 0 => LinksFull(result, names \cup Interval(op.id, op.span), ref)
    BY <1>3, <2>4 DEF Inserts
  <2>6. \A y \in Interval(op.id, op.span) : y \notin Named(s)
    BY <1>1, <2>1, NamedAreThere DEF names, chunks
  <2>7. Distinct(Items(chunks)) /\ StrId \notin Names(Items(chunks))
    BY <1>3 DEF WellPlaced
  <2>8. Items(result) \in Seq(ItemType)
    BY <2>5, ItemsIsList
  <2>9. Names(Items(chunks)) = names
    BY DEF names
  <2> DEFINE items == Items(chunks)
             grown == Items(result)
  <2> HIDE DEF items, grown
  <2>10. /\ items \in Seq(ItemType) /\ Distinct(items) /\ StrId \notin Names(items)
         /\ op.id \notin Names(items) /\ Names(items) \cap Interval(op.id, op.span) = {}
         /\ grown \in Seq(ItemType) /\ Grown(items, grown, op.after, op.id, op.span)
    BY <1>4, <1>11, <2>1, <2>5, <2>7, <2>8, <2>9 DEF items, grown
  <2>11. /\ Shape(grown, Named(s)) = T!Inserted(Shape(items, Named(s)), op)
         /\ items = Shape(items, Named(s)) => grown = T!Inserted(Shape(items, Named(s)), op)
         /\ Names(grown) = Names(items) \cup Interval(op.id, op.span)
    BY <1>2, <2>6, <2>10, GrownIsInserted
  <2> QED
    BY <1>4, <1>5, <1>6, <1>7, <2>5, <2>9, <2>11 DEF AppliedTo, items, grown, result, chunks, names, ref
<1> QED
  BY <1>10, <1>11 DEF result, chunks

\* The spans of a deletion are of runs that the replica has.
RunsHere(s, op) ==
  \A k \in DOMAIN op.what :
    SpanRuns(Names(Items(rga[s])), RefWith(op), op.what[k].sid, op.what[k].time,
             (op.what[k].time + op.what[k].span) - 1)

\* A deletion a replica may receive hides what it names, in the chunks as in
\* the list (before the first load), and keeps the order.
LEMMA AppliesDeletion ==
  ASSUME Inv, NEW s \in Sids, NEW op \in RawOperation, op.kind = "del", T!Comes(s, Op(op)),
         RunsHere(s, op)
  PROVE  AppliedTo(s, op, Delete(rga[s], op.what))
<1> DEFINE chunks == rga[s]
           ref == RefWith(op)
           names == Names(Items(chunks))
           result == Delete(chunks, op.what)
           what == op.what
           W == CoveredBy(what)
<1>1. Typed /\ T!IInv
  BY DEF Inv
<1>2. /\ Op(op).kind = "del" /\ Op(op).what = W
      /\ what \in Seq(SpanType) /\ W = Spanned(what, Len(what))
  BY OpFacts
<1>3. /\ chunks \in Seq(ChunkType)
      /\ WellPlaced(Items(chunks), ref)
      /\ LinksOk(chunks, names, ref)
      /\ reloads = 0 => LinksFull(chunks, names, ref)
      /\ IdsOf(chunks) = names
  BY ComesHere
<1>4. Ideal[s] = Shape(Items(chunks), Named(s)) /\ Items(chunks) \in Seq(ItemType)
  BY <1>1, IdealFacts
<1>5. Named(s) \cup NamedBy(op) = Named(s) \cup W
  BY DEF NamedBy
<1>6. T!Integrated(Ideal[s], Op(op)) = T!Deleted(Ideal[s], Op(op))
  BY <1>2 DEF T!Integrated
<1>7. reloads = 0 => Items(chunks) = Ideal[s]
  BY DEF Inv, ShowsIdeal
<1>8. reloads = 0 => Whole(chunks, what, ref)
  <2>1. \A k \in 1 .. Len(what) : RunsOn(chunks, what[k], ref)
    <3>1. DOMAIN what = 1 .. Len(what)
      BY <1>2
    <3> QED
      BY <1>3, <3>1 DEF RunsHere, RunsOn
  <2> QED
    BY <1>3, <2>1 DEF Whole
<1> HIDE DEF chunks, ref, names, result, what, W
<1>9. Hidden(chunks, result, what, Len(what), ref)
  BY <1>2, <1>3, DeleteHides DEF result, what
<1>10. PICK V \in SUBSET W : /\ Items(result) = Hide(Items(chunks), V)
                             /\ reloads = 0 => V = W
  BY <1>2, <1>8, <1>9 DEF Hidden
<1>11. /\ result \in Seq(ChunkType) /\ LinksOk(result, names, ref)
       /\ reloads = 0 => LinksFull(result, names, ref)
  BY <1>3, <1>9 DEF Hidden, SameLinks
<1>12. Names(Items(result)) = names
  BY <1>4, <1>10, HideFacts DEF names
<1> DEFINE items == Items(chunks)
           hidden == Items(result)
<1> HIDE DEF items, hidden
<1>13. items \in Seq(ItemType) /\ V \in SUBSET Op(op).what /\ hidden = Hide(items, V)
  BY <1>2, <1>4, <1>10 DEF items, hidden
<1>14. /\ Shape(hidden, Named(s) \cup Op(op).what) = T!Deleted(Shape(items, Named(s)), Op(op))
       /\ V = Op(op).what /\ items = Shape(items, Named(s))
            => hidden = T!Deleted(Shape(items, Named(s)), Op(op))
  BY <1>13, HiddenIsDeleted
<1> QED
  BY <1>2, <1>4, <1>5, <1>6, <1>7, <1>10, <1>11, <1>12, <1>14
     DEF AppliedTo, items, hidden, result, chunks, names, ref, what
-----------------------------------------------------------------------------
(***************************************************************************)
(* A step that applies an operation keeps the invariant.                   *)
(***************************************************************************)
\* A clock issues a timestamp no operation has.
LEMMA NewId ==
  ASSUME Inv, NEW s \in Sids, NEW p \in issued
  PROVE  p.id # Ts(s, time[s])
<1>1. Typed /\ T!IInv
  BY DEF Inv
<1>2. p \in RawOperation /\ Op(p) \in Ops
  BY <1>1 DEF Typed, Ops
<1>3. Op(p).id = p.id /\ Op(p).span = p.span /\ p.id \in Timestamp /\ p.span \in Nat \ {0}
  BY <1>2, OpFacts
<1>4. p.id.time + p.span <= time[p.id.sid] /\ time \in [Sids -> Nat]
  BY <1>1, <1>2, <1>3 DEF T!IInv, T!ClocksAhead, T!NextTime, T!TypeOK
<1> SUFFICES ASSUME p.id = Ts(s, time[s]) PROVE FALSE
  OBVIOUS
<1>5. p.id.sid = s /\ p.id.time = time[s]
  BY DEF Ts
<1> QED
  BY <1>3, <1>4, <1>5 DEF Timestamp

\* The operation is one of those issued, or has a timestamp of its own.
OwnId(s, op) == op \in issued \/ op.id = Ts(s, time[s])

\* A new operation has a new id.
LEMMA IdsStayUnique ==
  ASSUME Inv, NEW s \in Sids, NEW op, OwnId(s, op), issued' = issued \cup {op}
  PROVE  IdsAreUnique'
BY NewId DEF Inv, IdsAreUnique, OwnId

\* One operation more, in the terms of the specification.
LEMMA OpsGrow ==
  ASSUME NEW op, issued' = issued \cup {op}
  PROVE  Ops' = Ops \cup {Op(op)}
BY DEF Ops

\* What deletions name grows where one is applied.
LEMMA NamedGrows ==
  ASSUME Inv, NEW s \in Sids, NEW op \in RawOperation, OwnId(s, op), issued' = issued \cup {op},
         applied' = [applied EXCEPT ![s] = @ \cup {op.id}], NEW t \in Sids
  PROVE  Named(t)' = IF t = s THEN Named(t) \cup NamedBy(op) ELSE Named(t)
<1>1. IdsAreUnique'
  BY IdsStayUnique
<1>2. applied \in [Sids -> SUBSET T!Timestamp]
  BY DEF Inv, T!IInv, T!TypeOK
<1>3. applied'[t] = IF t = s THEN applied[t] \cup {op.id} ELSE applied[t]
  BY <1>2
<1>4. op.id \in applied[t] => op \in issued
  <2> SUFFICES ASSUME op.id \in applied[t], op \notin issued PROVE FALSE
    OBVIOUS
  <2>1. op.id = Ts(s, time[s])
    BY DEF OwnId
  <2>2. op.id \in T!Ids(Ops)
    BY DEF Inv, T!IInv, T!Causal
  <2>3. PICK p \in issued : Op(p).id = op.id
    BY <2>2 DEF T!Ids, Ops
  <2>4. p.id = op.id
    BY <2>3, OpFacts DEF Inv, Typed
  <2> QED
    BY <2>1, <2>4, NewId
<1> DEFINE before == {o \in issued : o.kind = "del" /\ o.id \in applied[t]}
           after == {o \in issued' : o.kind = "del" /\ o.id \in applied'[t]}
<1>5. CASE t = s /\ op.kind = "del"
  <2>1. after = before \cup {op}
    BY <1>1, <1>3, <1>5 DEF IdsAreUnique
  <2>2. Named(t)' = UNION {CoveredBy(o.what) : o \in after}
    BY DEF Named
  <2>3. Named(t) = UNION {CoveredBy(o.what) : o \in before}
    BY DEF Named
  <2> HIDE DEF after, before
  <2> QED
    BY <1>5, <2>1, <2>2, <2>3 DEF NamedBy
<1>6. CASE ~(t = s /\ op.kind = "del")
  <2>1. after = before
    BY <1>1, <1>3, <1>4, <1>6 DEF IdsAreUnique
  <2>2. Named(t)' = UNION {CoveredBy(o.what) : o \in after}
    BY DEF Named
  <2>3. Named(t) = UNION {CoveredBy(o.what) : o \in before}
    BY DEF Named
  <2> HIDE DEF after, before
  <2> QED
    BY <1>6, <2>1, <2>2, <2>3 DEF NamedBy
<1> QED
  BY <1>5, <1>6

\* What the step makes of the chunks.
LEMMA StepApplies ==
  ASSUME Inv, NEW s \in Sids, NEW op \in RawOperation, T!Comes(s, Op(op)),
         op.kind = "del" => RunsHere(s, op), ApplyOperation(s, op)
  PROVE  /\ AppliedTo(s, op, rga'[s])
         /\ \A t \in Sids : t # s => rga'[t] = rga[t]
         /\ rga' = [t \in Sids |-> rga'[t]]
<1>1. rga \in [Sids -> Seq(ChunkType)]
  BY DEF Inv, Typed
<1>2. rga' = [rga EXCEPT ![s] = ApplyToNode(rga[s], op)]
  BY DEF ApplyOperation
<1>3. /\ rga'[s] = ApplyToNode(rga[s], op)
      /\ \A t \in Sids : t # s => rga'[t] = rga[t]
      /\ rga' = [t \in Sids |-> rga'[t]]
  BY <1>1, <1>2
<1>4. AppliedTo(s, op, ApplyToNode(rga[s], op))
  <2>1. CASE op.kind = "ins"
    BY <2>1, AppliesInsertion DEF ApplyToNode
  <2>2. CASE op.kind # "ins"
    <3>1. op.kind = "del"
      BY <2>2, OpFacts
    <3> QED
      BY <3>1, AppliesDeletion DEF ApplyToNode
  <2> QED
    BY <2>1, <2>2
<1> QED
  BY <1>3, <1>4

\* Applying an operation is a step of the specification on the ideal list.
LEMMA StepIsApply ==
  ASSUME Inv, NEW s \in Sids, NEW op \in RawOperation, T!Comes(s, Op(op)), OwnId(s, op),
         op.kind = "del" => RunsHere(s, op), ApplyOperation(s, op), issued' = issued \cup {op}
  PROVE  T!Apply(s, Op(op)) /\ Ideal'[s] = T!Integrated(Ideal[s], Op(op))
<1>1. /\ AppliedTo(s, op, rga'[s])
      /\ \A t \in Sids : t # s => rga'[t] = rga[t]
  BY StepApplies
<1>2. applied' = [applied EXCEPT ![s] = @ \cup {op.id}]
  BY DEF ApplyOperation
<1>3. \A t \in Sids : Named(t)' = IF t = s THEN Named(t) \cup NamedBy(op) ELSE Named(t)
  BY <1>2, NamedGrows
<1>4. Ideal' = [t \in Sids |-> Shape(Items(rga'[t]), Named(t)')]
  BY DEF Ideal
<1>5. Ideal'[s] = T!Integrated(Ideal[s], Op(op))
  BY <1>1, <1>3, <1>4 DEF AppliedTo
<1>6. \A t \in Sids : t # s => Ideal'[t] = Ideal[t]
  BY <1>1, <1>3, <1>4 DEF Ideal
<1>7. Ideal' = [Ideal EXCEPT ![s] = T!Integrated(Ideal[s], Op(op))]
  <2>1. DOMAIN Ideal = Sids /\ Ideal = [t \in Sids |-> Ideal[t]]
    BY DEF Ideal
  <2>2. Ideal' = [t \in Sids |-> Ideal'[t]]
    BY <1>4
  <2> QED
    BY <1>5, <1>6, <2>1, <2>2, Zenon
<1>8. /\ time' = [time EXCEPT ![s] = T!Larger(@, Op(op).id.time + Op(op).span)]
      /\ applied' = [applied EXCEPT ![s] = @ \cup {Op(op).id}]
  BY OpFacts, Copies DEF ApplyOperation
<1> QED
  BY <1>5, <1>7, <1>8 DEF T!Apply

\* The rest of the invariant, once the specification's is kept.
LEMMA StepKeepsInv ==
  ASSUME Inv, NEW s \in Sids, NEW op \in RawOperation, T!Comes(s, Op(op)), OwnId(s, op),
         op.kind = "del" => RunsHere(s, op), ApplyOperation(s, op), issued' = issued \cup {op},
         op \in issued \/ op.deps = applied[s], T!IInv'
  PROVE  Inv'
<1>1. Typed /\ T!IInv /\ LinksGood /\ DeletesRuns /\ Op(op) \in T!Operation
  BY OpFacts DEF Inv
<1>2. /\ AppliedTo(s, op, rga'[s])
      /\ \A t \in Sids : t # s => rga'[t] = rga[t]
      /\ rga' = [t \in Sids |-> rga'[t]]
  BY StepApplies
<1>3. reloads' = reloads
  BY DEF ApplyOperation
<1>4. Ops' = Ops \cup {Op(op)} /\ Ref' = RefWith(op)
  BY OpsGrow DEF Ref, RefWith
<1>5. Typed'
  <2>1. rga' \in [Sids -> Seq(ChunkType)]
    <3>1. \A t \in Sids : rga'[t] \in Seq(ChunkType)
      BY <1>1, <1>2 DEF AppliedTo, Typed
    <3> QED
      BY <1>2, <3>1
  <2>2. IsFiniteSet(issued')
    BY <1>1, FS_AddElement DEF Typed
  <2> QED
    BY <1>1, <1>3, <2>1, <2>2 DEF Typed
<1>6. IdsAreUnique'
  BY IdsStayUnique
<1>7. ASSUME NEW t \in Sids
      PROVE  /\ T!Names(Ideal[t]) = Names(Items(rga[t])) /\ T!Names(Ideal[t]) \subseteq Timestamp
             /\ \A y \in T!Names(Ideal[t]) : RefWith(op)[y] = Ref[y]
             /\ \A ids \in SUBSET T!Ids(Ops) : T!Known(Ops', ids) = T!Known(Ops, ids)
             /\ \A ids \in SUBSET T!Ids(Ops) : \A y \in T!Known(Ops, ids) :
                  y \in Timestamp => RefWith(op)[y] = Ref[y]
  <2>1. T!Names(Ideal[t]) = Names(Items(rga[t])) /\ IdsOf(rga[t]) = Names(Items(rga[t]))
    BY <1>1, IdealFacts, Copies
  <2>2. /\ \A y \in T!Names(Ideal[t]) : T!Reference(Ops \cup {Op(op)}, y) = T!Reference(Ops, y)
        /\ \A ids \in SUBSET T!Ids(Ops) : T!Known(Ops \cup {Op(op)}, ids) = T!Known(Ops, ids)
        /\ \A ids \in SUBSET T!Ids(Ops) : \A y \in T!Known(Ops, ids) :
             T!Reference(Ops \cup {Op(op)}, y) = T!Reference(Ops, y)
    BY <1>1, SidsAssumption, TextAssumption, T!ComesReferences
  <2>3. T!Names(Ideal[t]) \subseteq Timestamp
    BY <2>1 DEF IdsOf
  <2> QED
    BY <1>4, <2>1, <2>2, <2>3 DEF RefWith, Ref
<1>8. DeletesRuns'
  <2>1. ASSUME NEW p \in issued', p.kind = "del", NEW k \in DOMAIN p.what
        PROVE  SpanRuns(T!Known(Ops', p.deps), Ref', p.what[k].sid, p.what[k].time,
                        (p.what[k].time + p.what[k].span) - 1)
    <3> DEFINE sid == p.what[k].sid
               t1 == p.what[k].time
               t2 == (p.what[k].time + p.what[k].span) - 1
    <3>1. /\ p \in RawOperation /\ p.what \in Seq(SpanType) /\ sid \in Sids /\ t1 \in Nat
      <4>1. p \in RawOperation
        BY <1>1 DEF Typed
      <4>2. p.what \in Seq(SpanType)
        BY <2>1, <4>1, OpFacts
      <4>3. p.what[k] \in SpanType
        BY <2>1, <4>2
      <4> QED
        BY <4>1, <4>2, <4>3 DEF SpanType
    <3>2. \A t \in t1 .. t2 : Ts(sid, t) \in Timestamp
      BY <3>1 DEF Ts, Timestamp
    <3>3. CASE p \in issued
      <4>1. SpanRuns(T!Known(Ops, p.deps), Ref, sid, t1, t2)
        BY <1>1, <2>1, <3>3 DEF DeletesRuns
      <4>2. p.deps \in SUBSET T!Ids(Ops)
        <5>1. Op(p) \in Ops /\ Op(p).deps = p.deps
          BY <3>1, <3>3, OpFacts DEF Ops
        <5> QED
          BY <1>1, <5>1 DEF T!IInv, T!Causal
      <4>3. T!Known(Ops', p.deps) = T!Known(Ops, p.deps)
        BY <1>7, <4>2
      <4>4. \A t \in t1 .. t2 : Ts(sid, t) \in T!Known(Ops, p.deps)
        BY <4>1 DEF SpanRuns
      <4>5. \A t \in t1 .. t2 : Ref'[Ts(sid, t)] = Ref[Ts(sid, t)]
        BY <1>4, <1>7, <3>2, <4>2, <4>4
      <4> QED
        BY <4>1, <4>3, <4>5 DEF SpanRuns
    <3>4. CASE p \notin issued
      <4>1. p = op /\ op.deps = applied[s]
        BY <3>4
      <4>2. SpanRuns(Names(Items(rga[s])), RefWith(op), sid, t1, t2)
        BY <2>1, <4>1 DEF RunsHere
      <4>3. T!Names(Ideal[s]) = T!Known(Ops, applied[s]) /\ applied[s] \in SUBSET T!Ids(Ops)
        BY <1>1 DEF T!IInv, T!Contents, T!Causal
      <4>4. Names(Items(rga[s])) = T!Known(Ops', p.deps)
        BY <1>7, <4>1, <4>3
      <4> QED
        BY <1>4, <4>2, <4>4
    <3> QED
      BY <3>3, <3>4
  <2> QED
    BY <2>1 DEF DeletesRuns
<1>9. LinksGood'
  <2>1. ASSUME NEW t \in Sids
        PROVE  /\ LinksOk(rga'[t], Names(Items(rga'[t])), Ref')
               /\ reloads' = 0 => LinksFull(rga'[t], Names(Items(rga'[t])), Ref')
    <3>1. CASE t = s
      BY <1>2, <1>3, <1>4, <3>1 DEF AppliedTo
    <3>2. CASE t # s
      <4>1. /\ LinksOk(rga[t], Names(Items(rga[t])), Ref)
            /\ reloads = 0 => LinksFull(rga[t], Names(Items(rga[t])), Ref)
        BY <1>1 DEF LinksGood
      <4>2. \A y \in Names(Items(rga[t])) : Ref'[y] = Ref[y]
        BY <1>4, <1>7
      <4> QED
        BY <1>2, <1>3, <3>2, <4>1, <4>2, SameRefs
    <3> QED
      BY <3>1, <3>2
  <2> QED
    BY <2>1 DEF LinksGood
<1>10. ShowsIdeal'
  <2> SUFFICES ASSUME reloads' = 0, NEW t \in Sids PROVE Items(rga'[t]) = Ideal'[t]
    BY DEF ShowsIdeal
  <2>1. CASE t = s
    <3>1. Ideal'[s] = T!Integrated(Ideal[s], Op(op))
      BY StepIsApply
    <3> QED
      BY <1>2, <1>3, <2>1, <3>1 DEF AppliedTo
  <2>2. CASE t # s
    <3>1. applied' = [applied EXCEPT ![s] = @ \cup {op.id}]
      BY DEF ApplyOperation
    <3>2. Named(t)' = Named(t)
      BY <2>2, <3>1, NamedGrows
    <3>3. Ideal'[t] = Ideal[t]
      BY <1>2, <2>2, <3>2 DEF Ideal
    <3> QED
      BY <1>2, <1>3, <2>2, <3>3 DEF Inv, ShowsIdeal
  <2> QED
    BY <2>1, <2>2
<1> QED
  BY <1>5, <1>6, <1>8, <1>9, <1>10 DEF Inv
-----------------------------------------------------------------------------
(***************************************************************************)
(* Chunks that hold what some of the operations make, with all links,      *)
(* whoever keeps them: a replica that was never loaded, or a replay of a   *)
(* history (see Log).                                                      *)
(***************************************************************************)
\* The references of operations.
RefOf(ops) == [y \in Timestamp |-> T!Reference(ops, y)]

Built(ops, ids, chunks) ==
  /\ chunks \in Seq(ChunkType)
  /\ T!Listed(ops, ids, Items(chunks))
  /\ LinksOk(chunks, Names(Items(chunks)), RefOf(ops))
  /\ LinksFull(chunks, Names(Items(chunks)), RefOf(ops))

\* What the deletions with these ids name.
NamedIn(ops, ids) == UNION {p.what : p \in T!Deletions(ops, ids)}

\* Two such lists of chunks hold the same items.
LEMMA BuiltOnce ==
  ASSUME NEW ops, NEW ids, NEW a, NEW b, Built(ops, ids, a), Built(ops, ids, b)
  PROVE  Items(a) = Items(b)
BY SidsAssumption, TextAssumption, T!ListedOnce DEF Built

\* The chunks of a replica are such, as long as nothing was loaded.
LEMMA BuiltHere ==
  ASSUME Inv, reloads = 0, NEW s \in Sids
  PROVE  Built(Ops, applied[s], rga[s])
<1>1. Typed /\ T!IInv /\ LinksGood /\ ShowsIdeal
  BY DEF Inv
<1>2. T!Listed(Ops, applied[s], Ideal[s])
  BY <1>1, SidsAssumption, TextAssumption, T!ListedHere
<1>3. Items(rga[s]) = Ideal[s] /\ rga[s] \in Seq(ChunkType)
  BY <1>1 DEF ShowsIdeal, Typed
<1>4. RefOf(Ops) = Ref
  BY DEF RefOf, Ref
<1> QED
  BY <1>1, <1>2, <1>3, <1>4 DEF Built, LinksGood

\* What its list says of the chunks.
LEMMA BuiltPlaced ==
  ASSUME NEW ops, NEW ids, NEW chunks, Built(ops, ids, chunks)
  PROVE  /\ chunks \in Seq(ChunkType) /\ Items(chunks) \in Seq(ItemType)
         /\ WellPlaced(Items(chunks), RefOf(ops)) /\ ChunksPlaced(chunks, RefOf(ops))
         /\ IdsOf(chunks) = Names(Items(chunks)) /\ Names(Items(chunks)) = T!Known(ops, ids)
         /\ Distinct(Items(chunks)) /\ StrId \notin Names(Items(chunks))
         /\ Names(Items(chunks)) \subseteq Timestamp
         /\ Items(chunks) = Shape(Items(chunks), NamedIn(ops, ids))
         /\ NamedIn(ops, ids) \subseteq Names(Items(chunks))
<1> DEFINE items == Items(chunks)
           ref == RefOf(ops)
<1>1. /\ chunks \in Seq(ChunkType) /\ T!Listed(ops, ids, items) /\ T!WellPlaced(ops, items)
      /\ T!Names(items) = T!Known(ops, ids)
  BY DEF Built, T!Listed
<1>2. /\ items \in Seq(ItemType) /\ Len(items) \in Nat /\ DOMAIN items = 1 .. Len(items)
      /\ IdsOf(chunks) = Names(items)
  BY <1>1, ItemsIsList, NamesAreCovered
<1>3. Names(items) = T!Known(ops, ids) /\ Names(items) \subseteq Timestamp
  BY <1>1, <1>2, Copies DEF IdsOf
<1> HIDE DEF items
<1>4. Distinct(items) /\ StrId \notin Names(items)
  BY <1>1, Copies DEF T!WellPlaced
<1>5. ASSUME NEW p \in DOMAIN items PROVE PlacedAt(items, ref, p)
  <2>1. T!Placed(ops, items, p)
    BY <1>1, <1>5 DEF T!WellPlaced
  <2>2. PICK q \in 0 .. p - 1 : /\ NameAt(items, q) = T!Reference(ops, items[p].id)
                                /\ \A n \in q + 1 .. p - 1 : Less(items[p].id, items[n].id)
    BY <2>1, Copies DEF T!Placed
  <2>3. items[p].id \in Names(items)
    BY <1>5 DEF Names
  <2>4. ref[items[p].id] = T!Reference(ops, items[p].id)
    BY <1>3, <2>3 DEF RefOf
  <2> QED
    BY <2>2, <2>4, ZenonT(30) DEF PlacedAt
<1>6. ASSUME NEW y \in Names(items) PROVE ref[y] \in Timestamp /\ ref[y].time < y.time
  <2>1. ref[y] = T!Reference(ops, y)
    BY <1>3 DEF RefOf
  <2> QED
    BY <1>1, <2>1, Copies DEF T!WellPlaced
<1>7. WellPlaced(items, ref)
  BY <1>4, <1>5, <1>6 DEF WellPlaced
<1>8. ChunksPlaced(chunks, ref)
  BY <1>1, <1>7, PlacedChunks DEF items
<1>9. ASSUME NEW p \in 1 .. Len(items)
      PROVE  items[p] = Shape(items, NamedIn(ops, ids))[p]
  <2>1. items[p].live <=> \A d \in T!Deletions(ops, ids) : items[p].id \notin d.what
    BY <1>1, <1>2, Zenon DEF T!Listed
  <2>2. items[p].live <=> items[p].id \notin NamedIn(ops, ids)
    BY <2>1 DEF NamedIn
  <2>3. /\ Shape(items, NamedIn(ops, ids))[p].id = items[p].id
        /\ Shape(items, NamedIn(ops, ids))[p].live <=> items[p].id \notin NamedIn(ops, ids)
        /\ Shape(items, NamedIn(ops, ids))[p] \in ItemType /\ items[p] \in ItemType
    BY <1>2, ShapeFacts
  <2> QED
    BY <2>2, <2>3, SameItem
<1>10. items = Shape(items, NamedIn(ops, ids))
  BY <1>2, <1>9, ShapeFacts
<1>11. NamedIn(ops, ids) \subseteq Names(items)
  BY <1>1, <1>3 DEF T!Listed, NamedIn
<1> QED
  BY <1>1, <1>2, <1>3, <1>4, <1>7, <1>8, <1>10, <1>11 DEF items

\* An insertion takes the chunks to the next such list.
LEMMA BuiltGrows ==
  ASSUME Inv, NEW op \in issued, op.kind = "ins", NEW ids, op.deps \subseteq ids,
         NEW chunks, Built(Ops, ids, chunks)
  PROVE  Built(Ops, ids \cup {op.id}, Insert(chunks, op.after, op.id, op.span))
<1> DEFINE ref == RefOf(Ops)
           names == Names(Items(chunks))
           result == Insert(chunks, op.after, op.id, op.span)
           named == NamedIn(Ops, ids)
<1>1. Typed /\ T!IInv /\ op \in RawOperation
  BY DEF Inv, Typed
<1>2. /\ Op(op) = op /\ op \in T!Operation /\ op.id \in Timestamp /\ op.span \in Nat \ {0}
      /\ op.after \in Timestamp /\ op \in Ops
  BY <1>1, OpFacts DEF Ops
<1>3. /\ chunks \in Seq(ChunkType) /\ Items(chunks) \in Seq(ItemType)
      /\ ChunksPlaced(chunks, ref) /\ WellPlaced(Items(chunks), ref)
      /\ LinksOk(chunks, names, ref) /\ LinksFull(chunks, names, ref)
      /\ IdsOf(chunks) = names /\ names \subseteq Timestamp
      /\ Items(chunks) = Shape(Items(chunks), named) /\ named \subseteq names
      /\ T!Listed(Ops, ids, Items(chunks)) /\ T!Names(Items(chunks)) = names
      /\ Distinct(Items(chunks)) /\ StrId \notin names
  BY BuiltPlaced, Copies DEF Built
<1>4. /\ \A y \in Timestamp : ref[y] = T!Reference(Ops, y)
  BY DEF RefOf
<1>5. T!Listed(Ops, ids \cup {op.id}, T!Integrated(Items(chunks), op))
  BY <1>1, <1>2, <1>3, SidsAssumption, TextAssumption, T!ListedNext
<1>6. T!Integrated(Items(chunks), op) = T!Inserted(Items(chunks), op)
  BY DEF T!Integrated
<1> HIDE DEF ref, names, result, named
<1>7. CASE op.id \in names
  <2>1. /\ T!UniqueIds(Ops)
        /\ op.after \in {T!StrId} \cup T!Known(Ops, op.deps)
        /\ T!Known(Ops, op.deps) \subseteq T!Known(Ops, ids)
    BY <1>1, <1>2, SidsAssumption, TextAssumption, T!DisjointIdsDiffer, T!KnownIsMonotonic
       DEF T!IInv, T!RefersToKnown
  <2>2. T!Reference(Ops, op.id) = op.after
    BY <1>2, <2>1, SidsAssumption, TextAssumption, T!ReferenceOfInsertion
  <2>3. ref[op.id] = op.after /\ op.after \in {StrId} \cup names
    BY <1>2, <1>3, <1>4, <2>1, <2>2, Copies DEF T!Listed
  <2>4. Keeps(chunks, result, ref)
    BY <1>2, <1>3, <1>7, <2>3, RootStamp, InsertAgain DEF result
  <2>5. /\ result \in Seq(ChunkType) /\ Items(result) = Items(chunks)
        /\ LinksOk(result, names, ref) /\ LinksFull(result, names, ref)
    BY <1>3, <2>4 DEF Keeps
  <2>6. T!Inserted(Items(chunks), op) = Items(chunks)
    BY <1>3, <1>7 DEF T!Inserted
  <2> QED
    BY <1>5, <1>6, <2>5, <2>6 DEF Built, result, ref, names
<1>8. CASE op.id \notin names
  <2>1. /\ T!Interval(op.id, op.span) \cap T!Names(Items(chunks)) = {}
        /\ \A y \in T!Names(Items(chunks)) : T!Reference(Ops, y) \notin T!Interval(op.id, op.span)
        /\ \A y \in T!Interval(op.id, op.span) \ {op.id} :
             T!Reference(Ops, y) = T!Ts(y.sid, y.time - 1)
        /\ T!Reference(Ops, op.id) = op.after
        /\ op.after \in {T!StrId} \cup T!Names(Items(chunks)) /\ op.after.time < op.id.time
    BY <1>1, <1>2, <1>3, <1>8, SidsAssumption, TextAssumption, T!ListedFresh
  <2>2. Interval(op.id, op.span) \subseteq Timestamp
    BY <1>2, IntervalStamps
  <2>3. /\ Fresh(names, ref, op.id, op.span, op.after)
        /\ op.after \in {StrId} \cup names /\ Interval(op.id, op.span) \cap names = {}
    BY <1>2, <1>3, <1>4, <2>1, <2>2, Copies DEF Fresh
  <2>4. Inserts(chunks, result, ref, op.after, op.id, op.span)
    BY <1>2, <1>3, <2>3, RootStamp, InsertNew DEF result
  <2>5. /\ result \in Seq(ChunkType) /\ Items(result) \in Seq(ItemType)
        /\ Grown(Items(chunks), Items(result), op.after, op.id, op.span)
        /\ LinksOk(result, names \cup Interval(op.id, op.span), ref)
        /\ LinksFull(result, names \cup Interval(op.id, op.span), ref)
    BY <1>3, <2>4, ItemsIsList DEF Inserts
  <2>6. \A y \in Interval(op.id, op.span) : y \notin named
    BY <1>3, <2>3
  <2> DEFINE items == Items(chunks)
             grown == Items(result)
  <2>7. names = Names(items)
    BY DEF names
  <2> HIDE DEF items, grown
  <2>8. /\ items \in Seq(ItemType) /\ Distinct(items) /\ StrId \notin Names(items)
        /\ op.id \notin Names(items) /\ Names(items) \cap Interval(op.id, op.span) = {}
        /\ grown \in Seq(ItemType) /\ Grown(items, grown, op.after, op.id, op.span)
        /\ items = Shape(items, named)
    BY <1>3, <1>8, <2>3, <2>5, <2>7 DEF items, grown
  <2>9. /\ grown = T!Inserted(Shape(items, named), op)
        /\ Names(grown) = Names(items) \cup Interval(op.id, op.span)
    BY <1>2, <2>6, <2>8, GrownIsInserted
  <2>10. Items(result) = T!Inserted(Items(chunks), op)
    BY <2>8, <2>9 DEF items, grown
  <2>11. Names(Items(result)) = names \cup Interval(op.id, op.span)
    BY <2>7, <2>9 DEF grown
  <2> QED
    BY <1>5, <1>6, <2>5, <2>10, <2>11 DEF Built, result, ref
<1> QED
  BY <1>7, <1>8 DEF result

\* So does a deletion.
LEMMA BuiltHides ==
  ASSUME Inv, NEW op \in issued, op.kind = "del", NEW ids, op.deps \subseteq ids,
         NEW chunks, Built(Ops, ids, chunks)
  PROVE  Built(Ops, ids \cup {op.id}, Delete(chunks, op.what))
<1> DEFINE ref == RefOf(Ops)
           names == Names(Items(chunks))
           what == op.what
           result == Delete(chunks, what)
           named == NamedIn(Ops, ids)
           W == CoveredBy(what)
<1>1. Typed /\ T!IInv /\ DeletesRuns /\ op \in RawOperation
  BY DEF Inv, Typed
<1>2. /\ Op(op).kind = "del" /\ Op(op).what = W /\ Op(op).id = op.id /\ Op(op).deps = op.deps
      /\ what \in Seq(SpanType) /\ W = Spanned(what, Len(what)) /\ Op(op) \in Ops
  BY <1>1, OpFacts DEF Ops
<1>3. /\ chunks \in Seq(ChunkType) /\ Items(chunks) \in Seq(ItemType)
      /\ ChunksPlaced(chunks, ref) /\ WellPlaced(Items(chunks), ref)
      /\ LinksOk(chunks, names, ref) /\ LinksFull(chunks, names, ref)
      /\ IdsOf(chunks) = names
      /\ Items(chunks) = Shape(Items(chunks), named)
      /\ T!Listed(Ops, ids, Items(chunks)) /\ names = T!Known(Ops, ids)
  BY BuiltPlaced DEF Built
<1>4. T!Listed(Ops, ids \cup {op.id}, T!Integrated(Items(chunks), Op(op)))
  BY <1>1, <1>2, <1>3, SidsAssumption, TextAssumption, T!ListedNext
<1>5. T!Integrated(Items(chunks), Op(op)) = T!Deleted(Items(chunks), Op(op))
  BY <1>2 DEF T!Integrated
<1>6. T!Known(Ops, op.deps) \subseteq names
  BY <1>3, SidsAssumption, TextAssumption, T!KnownIsMonotonic
<1>7. RefOf(Ops) = Ref
  BY DEF RefOf, Ref
<1>8. Whole(chunks, what, ref)
  <2>1. ASSUME NEW k \in 1 .. Len(what) PROVE RunsOn(chunks, what[k], ref)
    <3>1. k \in DOMAIN op.what
      BY <1>2, <2>1
    <3>2. SpanRuns(T!Known(Ops, op.deps), Ref, what[k].sid, what[k].time,
                   (what[k].time + what[k].span) - 1)
      BY <1>1, <3>1 DEF DeletesRuns
    <3> QED
      BY <1>3, <1>6, <1>7, <3>2 DEF RunsOn, SpanRuns
  <2> QED
    BY <1>3, <2>1 DEF Whole
<1> HIDE DEF ref, names, result, what, W, named
<1>9. Hidden(chunks, result, what, Len(what), ref)
  BY <1>2, <1>3, DeleteHides DEF result, what
<1>10. Items(result) = Hide(Items(chunks), W)
  BY <1>2, <1>8, <1>9 DEF Hidden
<1>11. /\ result \in Seq(ChunkType) /\ LinksOk(result, names, ref) /\ LinksFull(result, names, ref)
  BY <1>3, <1>9 DEF Hidden, SameLinks
<1>12. Names(Items(result)) = names
  BY <1>3, <1>10, HideFacts DEF names
<1> DEFINE items == Items(chunks)
           hidden == Items(result)
<1> HIDE DEF items, hidden
<1>13. items \in Seq(ItemType) /\ hidden = Hide(items, Op(op).what) /\ items = Shape(items, named)
  BY <1>2, <1>3, <1>10 DEF items, hidden
<1>14. hidden = T!Deleted(items, Op(op))
  BY <1>13, HidingIsDeleting
<1>15. Items(result) = T!Deleted(Items(chunks), Op(op))
  BY <1>13, <1>14 DEF items, hidden
<1> QED
  BY <1>4, <1>5, <1>11, <1>12, <1>15 DEF Built, result, ref, what

\* StrNode::ins and StrNode::delete on any chunks that have what the operation
\* depends on.
LEMMA BuiltNext ==
  ASSUME Inv, NEW op \in issued, NEW ids, op.deps \subseteq ids,
         NEW chunks, Built(Ops, ids, chunks)
  PROVE  Built(Ops, ids \cup {op.id}, ApplyToNode(chunks, op))
<1>1. op.kind \in {"ins", "del"}
  BY OpFacts DEF Inv, Typed
<1> QED
  BY <1>1, BuiltGrows, BuiltHides DEF ApplyToNode

\* A new operation leaves what the others make as it was.
LEMMA BuiltStays ==
  ASSUME Inv, NEW s \in Sids, NEW op \in RawOperation, T!Comes(s, Op(op)),
         NEW ids \in SUBSET T!Ids(Ops), NEW chunks, Built(Ops, ids, chunks)
  PROVE  Built(Ops \cup {Op(op)}, ids, chunks)
<1> DEFINE names == Names(Items(chunks))
           more == Ops \cup {Op(op)}
<1>1. Typed /\ T!IInv /\ Op(op) \in T!Operation
  BY OpFacts DEF Inv
<1>2. T!Listed(Ops, ids, Items(chunks)) /\ names = T!Known(Ops, ids) /\ names \subseteq Timestamp
  BY BuiltPlaced DEF Built
<1>3. T!Listed(more, ids, Items(chunks))
  BY <1>1, <1>2, SidsAssumption, TextAssumption, T!ListedStays
<1>4. \A y \in T!Known(Ops, ids) : T!Reference(more, y) = T!Reference(Ops, y)
  BY <1>1, SidsAssumption, TextAssumption, T!ComesReferences
<1>5. \A y \in names : RefOf(more)[y] = RefOf(Ops)[y]
  BY <1>2, <1>4 DEF RefOf
<1>6. LinksOk(chunks, names, RefOf(more)) /\ LinksFull(chunks, names, RefOf(more))
  BY <1>5, SameRefs DEF Built
<1> QED
  BY <1>3, <1>6 DEF Built

\* What an operation depends on was issued before it, with a lesser id, and a
\* replica applied it before.
LEMMA DepsComeFirst ==
  ASSUME Inv
  PROVE  /\ \A s \in Sids : \A op \in issued : op.id \in applied[s] => op.deps \subseteq applied[s]
         /\ \A p, q \in issued : p.id \in q.deps => Less(p.id, q.id)
<1>1. Typed /\ T!Causal
  BY DEF Inv, T!IInv
<1>2. \A op \in issued : /\ op \in RawOperation /\ Op(op) \in Ops
                         /\ Op(op).id = op.id /\ Op(op).deps = op.deps
                         /\ op.id \in Timestamp /\ Op(op).span = op.span /\ op.span \in Nat \ {0}
  BY <1>1, OpFacts DEF Typed, Ops
<1>3. ASSUME NEW p \in issued, NEW q \in issued, p.id \in q.deps PROVE Less(p.id, q.id)
  <2>1. T!NextTime(Op(p)) <= Op(q).id.time
    BY <1>1, <1>2, <1>3 DEF T!Causal
  <2>2. p.id.time + p.span <= q.id.time
    BY <1>2, <2>1 DEF T!NextTime
  <2>3. p.id.time \in Nat /\ q.id.time \in Nat /\ p.span \in Nat \ {0}
    BY <1>2 DEF Timestamp
  <2> QED
    BY <2>2, <2>3 DEF Less
<1>4. ASSUME NEW s \in Sids, NEW op \in issued, op.id \in applied[s] PROVE op.deps \subseteq applied[s]
  BY <1>1, <1>2, <1>4 DEF T!Causal
<1> QED
  BY <1>3, <1>4

\* The items that some of what a replica applied makes, it has.
LEMMA BuiltIsHere ==
  ASSUME Inv, reloads = 0, NEW s \in Sids, NEW ids \in SUBSET applied[s],
         NEW chunks, Built(Ops, ids, chunks)
  PROVE  Names(Items(chunks)) \subseteq Names(Items(rga[s]))
<1>1. Built(Ops, applied[s], rga[s])
  BY BuiltHere
<1>2. /\ Names(Items(chunks)) = T!Known(Ops, ids)
      /\ Names(Items(rga[s])) = T!Known(Ops, applied[s])
  BY <1>1, BuiltPlaced
<1> QED
  BY <1>2, SidsAssumption, TextAssumption, T!KnownIsMonotonic

\* The links lead on in them.
LEMMA BuiltLeads ==
  ASSUME NEW ops, NEW ids, NEW chunks, Built(ops, ids, chunks)
  PROVE  /\ chunks \in Seq(ChunkType)
         /\ \A i \in DOMAIN chunks : chunks[i].link # NoLink => StartsAt(chunks, chunks[i].link) # {}
<1>1. chunks \in Seq(ChunkType) /\ ChunksPlaced(chunks, RefOf(ops))
      /\ LinksOk(chunks, IdsOf(chunks), RefOf(ops))
  BY BuiltPlaced DEF Built
<1> QED
  BY <1>1, LinksLeadOn DEF LeadOn
-----------------------------------------------------------------------------
(***************************************************************************)
(* Every action of RgaText, and the first state.                           *)
(***************************************************************************)
LEMMA OwnStamp ==
  ASSUME Inv, NEW s \in Sids
  PROVE  /\ Ts(s, time[s]) \in Timestamp /\ applied[s] \subseteq Timestamp
         /\ T!Ts(s, time[s]) = Ts(s, time[s])
         /\ T!Names(Ideal[s]) = Names(Items(rga[s])) /\ Names(Items(rga[s])) \subseteq Timestamp
         /\ rga[s] \in Seq(ChunkType)
<1>1. time[s] \in Nat /\ applied[s] \subseteq Timestamp
  BY Copies DEF Inv, T!IInv, T!TypeOK
<1>2. Ts(s, time[s]) \in Timestamp
  BY <1>1 DEF Ts, Timestamp
<1>3. /\ T!Names(Ideal[s]) = Names(Items(rga[s])) /\ IdsOf(rga[s]) = Names(Items(rga[s]))
      /\ rga[s] \in Seq(ChunkType)
  BY IdealFacts, Copies DEF Inv
<1> QED
  BY <1>1, <1>2, <1>3, Copies DEF IdsOf

\* An operation a replica issues.
LEMMA IssueKeepsInv ==
  ASSUME Inv, NEW s \in Sids, NEW op \in RawOperation,
         ApplyOperation(s, op), issued' = issued \cup {op},
         op.id = Ts(s, time[s]), op.deps = applied[s],
         op.kind = "ins" => op.after \in {StrId} \cup Names(Items(rga[s])),
         op.kind = "del" => CoveredBy(op.what) \subseteq Names(Items(rga[s])),
         op.kind = "del" => RunsHere(s, op)
  PROVE  Inv' /\ T!Comes(s, Op(op)) /\ OwnId(s, op)
<1>1. /\ Op(op) \in T!Operation /\ Op(op).kind = op.kind /\ Op(op).id = op.id /\ Op(op).deps = op.deps
      /\ op.kind = "ins" => Op(op).after = op.after
      /\ op.kind = "del" => Op(op).what = CoveredBy(op.what)
  BY OpFacts
<1>2. /\ Op(op).id = T!Ts(s, time[s]) /\ Op(op).deps = applied[s]
      /\ Op(op).kind = "ins" => Op(op).after \in {T!StrId} \cup T!Names(Ideal[s])
      /\ Op(op).kind = "del" => Op(op).what \subseteq T!Names(Ideal[s])
  BY <1>1, OwnStamp, Copies
<1>3. T!Comes(s, Op(op)) /\ OwnId(s, op)
  BY <1>2 DEF T!Comes, OwnId
<1>4. T!Apply(s, Op(op)) /\ Ops' = Ops \cup {Op(op)}
  BY <1>3, StepIsApply, OpsGrow
<1>5. T!IInv'
  BY <1>1, <1>2, <1>4, SidsAssumption, TextAssumption, T!IssueKeepsIInv DEF Inv
<1> QED
  BY <1>3, <1>5, StepKeepsInv

\* What str_ins issues.
LEMMA InsertionIssued ==
  ASSUME Inv, NEW s \in Sids, NEW index \in 0 .. Length(s), NEW span \in Nat \ {0}
  PROVE  \E op \in RawOperation :
           /\ op = InsStr(Ts(s, time[s]), IF index = 0 THEN StrId ELSE View(rga[s])[index],
                          span, applied[s])
           /\ op.kind = "ins" /\ op.id = Ts(s, time[s]) /\ op.deps = applied[s]
           /\ op.span = span
           /\ \/ op.after = StrId
              \/ \E p \in 1 .. Len(Items(rga[s])) :
                   Items(rga[s])[p].live /\ op.after = Items(rga[s])[p].id
           /\ op.after \in {StrId} \cup Names(Items(rga[s]))
<1> DEFINE after == IF index = 0 THEN StrId ELSE View(rga[s])[index]
           op == InsStr(Ts(s, time[s]), after, span, applied[s])
           items == Items(rga[s])
<1>1. /\ Ts(s, time[s]) \in Timestamp /\ applied[s] \subseteq Timestamp
      /\ Names(items) \subseteq Timestamp /\ rga[s] \in Seq(ChunkType)
  BY OwnStamp
<1>2. \/ after = StrId
      \/ \E p \in 1 .. Len(items) : items[p].live /\ after = items[p].id
  <2>1. CASE index = 0
    BY <2>1
  <2>2. CASE index # 0
    <3>1. index \in 1 .. Len(View(rga[s]))
      BY <2>2 DEF Length
    <3>2. PICK p : Shows(rga[s], index, p)
      BY <1>1, <3>1, EveryRankShows
    <3>3. p \in 1 .. Len(items) /\ items[p] = [id |-> View(rga[s])[index], live |-> TRUE]
      BY <1>1, <3>2, ShowsFacts
    <3> HIDE DEF items
    <3>4. items[p].live /\ items[p].id = View(rga[s])[index]
      BY <3>3
    <3> QED
      BY <2>2, <3>3, <3>4
  <2> QED
    BY <2>1, <2>2
<1>3. DOMAIN items = 1 .. Len(items)
  BY <1>1, ItemsIsList
<1> HIDE DEF after, items
<1>4. after \in {StrId} \cup Names(items)
  BY <1>2, <1>3 DEF Names
<1>5. after \in Timestamp
  BY <1>1, <1>4, RootStamp
<1>6. /\ op \in RawOperation /\ op.kind = "ins" /\ op.id = Ts(s, time[s]) /\ op.deps = applied[s]
      /\ op.span = span /\ op.after = after
  BY <1>1, <1>5 DEF InsStr, RawOperation
<1>7. op = InsStr(Ts(s, time[s]), IF index = 0 THEN StrId ELSE View(rga[s])[index], span, applied[s])
  BY DEF after
<1> HIDE DEF op
<1> QED
  BY <1>2, <1>4, <1>6, <1>7 DEF items

\* What str_del issues.
LEMMA DeletionIssued ==
  ASSUME Inv, NEW s \in Sids, NEW index \in 0 .. Length(s), NEW length \in 1 .. Length(s) - index
  PROVE  \E op \in RawOperation :
           /\ op = Del(Ts(s, time[s]), FindInterval(rga[s], index, length), applied[s])
           /\ op.kind = "del" /\ op.id = Ts(s, time[s]) /\ op.deps = applied[s]
           /\ op.what = FindInterval(rga[s], index, length)
           /\ CoveredBy(op.what) = Picked(rga[s], index, length)
           /\ CoveredBy(op.what) \subseteq Names(Items(rga[s]))
           /\ RunsHere(s, op)
<1> DEFINE what == FindInterval(rga[s], index, length)
           op == Del(Ts(s, time[s]), what, applied[s])
<1>1. /\ Ts(s, time[s]) \in Timestamp /\ applied[s] \subseteq Timestamp
      /\ rga[s] \in Seq(ChunkType) /\ Names(Items(rga[s])) = T!Names(Ideal[s])
  BY OwnStamp
<1>2. index \in Nat /\ length \in Nat
  OBVIOUS
<1>3. /\ what \in Seq(SpanType)
      /\ \A m \in 1 .. Len(what) : \E i \in 1 .. Len(rga[s]) : Within(what[m], rga[s][i])
      /\ Spanned(what, Len(what)) = Picked(rga[s], index, length)
  BY <1>1, <1>2, IntervalPicks
<1>4. op = Del(Ts(s, time[s]), FindInterval(rga[s], index, length), applied[s])
  OBVIOUS
<1> HIDE DEF what
<1>5. /\ op \in RawOperation /\ op.kind = "del" /\ op.id = Ts(s, time[s]) /\ op.deps = applied[s]
      /\ op.what = what
  BY <1>1, <1>3 DEF Del, RawOperation
<1> HIDE DEF op
<1>6. CoveredBy(op.what) = Picked(rga[s], index, length)
  BY <1>3, <1>5, CoveredIsSpanned
<1>7. CoveredBy(op.what) \subseteq Names(Items(rga[s]))
  <2>1. DOMAIN Items(rga[s]) = 1 .. Len(Items(rga[s]))
    BY <1>1, ItemsIsList
  <2> QED
    BY <1>6, <2>1 DEF Picked, Names
<1>8. T!Comes(s, Op(op))
  <2>1. Op(op).id = op.id /\ Op(op).deps = op.deps /\ Op(op).kind = "del" /\ Op(op).what = CoveredBy(op.what)
    BY <1>5, OpFacts
  <2> QED
    BY <1>1, <1>5, <1>7, <2>1, Copies DEF T!Comes
<1>9. RunsHere(s, op)
  <2>1. ChunksPlaced(rga[s], RefWith(op)) /\ IdsOf(rga[s]) = Names(Items(rga[s]))
    BY <1>5, <1>8, ComesHere
  <2>2. ASSUME NEW k \in DOMAIN op.what PROVE RunsOn(rga[s], op.what[k], RefWith(op))
    <3>1. k \in 1 .. Len(what) /\ op.what[k] = what[k] /\ what[k] \in SpanType
      BY <1>3, <1>5
    <3>2. PICK i \in 1 .. Len(rga[s]) : Within(what[k], rga[s][i])
      BY <1>3, <3>1
    <3> QED
      BY <1>1, <2>1, <3>1, <3>2, WithinRuns
  <2> QED
    BY <2>1, <2>2 DEF RunsHere, RunsOn
<1> QED
  BY <1>4, <1>5, <1>6, <1>7, <1>9 DEF what

\* A replica may delete the run of an insertion it applied.
LEMMA RunIsHere ==
  ASSUME Inv, NEW s \in Sids, NEW p \in issued, p.kind = "ins", p.id \in applied[s],
         NEW op, op = Del(Ts(s, time[s]),
                          <<[sid |-> p.id.sid, time |-> p.id.time, span |-> p.span]>>, applied[s])
  PROVE  /\ op \in RawOperation /\ op.kind = "del" /\ op.id = Ts(s, time[s]) /\ op.deps = applied[s]
         /\ CoveredBy(op.what) \subseteq Names(Items(rga[s]))
         /\ RunsHere(s, op)
<1> DEFINE tss == [sid |-> p.id.sid, time |-> p.id.time, span |-> p.span]
<1>1. Typed /\ T!IInv /\ p \in RawOperation /\ IdsAreUnique
  BY DEF Inv, Typed
<1>2. /\ p.id \in Timestamp /\ p.id.sid \in Sids /\ p.id.time \in Nat /\ p.span \in Nat \ {0}
      /\ Op(p) = p /\ p \in Ops
  BY <1>1, OpFacts DEF Timestamp, Ops
<1>3. tss \in SpanType /\ <<tss>> \in Seq(SpanType)
  BY <1>2 DEF SpanType
<1>4. /\ Ts(s, time[s]) \in Timestamp /\ applied[s] \subseteq Timestamp
  BY OwnStamp
<1>5. op.kind = "del" /\ op.id = Ts(s, time[s]) /\ op.deps = applied[s] /\ op.what = <<tss>>
  BY DEF Del
<1>6. op \in RawOperation
  BY <1>3, <1>4 DEF Del, RawOperation
<1>7. /\ T!Names(Ideal[s]) = Names(Items(rga[s])) /\ T!Names(Ideal[s]) = T!Known(Ops, applied[s])
  BY <1>1, OwnStamp DEF T!IInv, T!Contents
<1>8. Interval(p.id, p.span) \subseteq Names(Items(rga[s]))
  BY <1>2, <1>7, Copies DEF T!Known, T!Insertions
<1>9. p.id = Ts(tss.sid, tss.time)
  BY <1>2, StampIs
<1>10. CoveredBy(op.what) = Interval(p.id, p.span)
  <2>1. ToSet(<<tss>>) = {tss}
    BY DEF ToSet
  <2> QED
    BY <1>5, <1>9, <2>1 DEF CoveredBy
<1>11. ASSUME NEW t \in p.id.time .. (p.id.time + p.span) - 1
       PROVE  /\ Ts(p.id.sid, t) \in Interval(p.id, p.span)
              /\ t > p.id.time => RefWith(op)[Ts(p.id.sid, t)] = Ts(p.id.sid, t - 1)
  <2>1. t \in Nat /\ t - p.id.time \in 0 .. p.span - 1 /\ p.id.time + (t - p.id.time) = t
    BY <1>2
  <2>2. Ts(p.id.sid, t) \in Interval(p.id, p.span)
    BY <2>1 DEF Interval
  <2> DEFINE y == Ts(p.id.sid, t)
  <2>3. y \in Timestamp /\ y.sid = p.id.sid /\ y.time = t
    BY <1>2, <2>1, NamesStamps
  <2>4. ASSUME t > p.id.time PROVE T!Reference(Ops \cup {Op(op)}, y) = Ts(p.id.sid, t - 1)
    <3>1. y # p.id
      BY <2>3, <2>4, <1>2
    <3>2. /\ T!StrId \notin T!Interval(p.id, p.span)
          /\ T!Ts(Author, T!FirstTime) \notin T!Interval(p.id, p.span) \ {p.id}
      BY <1>1, <1>2, SidsAssumption, TextAssumption, T!NodeIsEarlier
    <3>3. y # T!Ts(Author, T!FirstTime)
      BY <2>2, <3>1, <3>2, Copies
    <3>4. \A q \in Ops : q.id \in T!Interval(q.id, q.span)
      <4>1. \A q \in Ops : q \in T!Operation
        BY <1>1 DEF T!IInv, T!TypeOK
      <4>2. \A q \in Ops : q.id \in T!Timestamp /\ q.span \in Nat /\ q.span > 0
        BY <4>1, SidsAssumption, TextAssumption, T!OperationFields
      <4> QED
        BY <4>2, SidsAssumption, TextAssumption, T!IntervalStarts
    <3>5. \A q \in Ops : q.id # y
      <4>1. \A q \in Ops : q # p => T!Interval(p.id, p.span) \cap T!Interval(q.id, q.span) = {}
        BY <1>1, <1>2 DEF T!IInv, T!DisjointOps
      <4> QED
        BY <2>2, <3>1, <3>4, <4>1, Copies
    <3>6. Op(op).kind = "del"
      BY <1>5, <1>6, OpFacts
    <3>7. ~ \E q \in Ops \cup {Op(op)} : q.kind = "ins" /\ q.id = y
      BY <3>5, <3>6
    <3>8. T!Reference(Ops \cup {Op(op)}, y) = T!Ts(y.sid, y.time - 1)
      BY <3>3, <3>7 DEF T!Reference
    <3> QED
      BY <2>3, <3>8, Copies
  <2> QED
    BY <2>2, <2>3, <2>4 DEF RefWith
<1>12. RunsHere(s, op)
  <2>1. SpanRuns(Names(Items(rga[s])), RefWith(op), p.id.sid, p.id.time, (p.id.time + p.span) - 1)
    BY <1>8, <1>11 DEF SpanRuns
  <2>2. DOMAIN <<tss>> = {1} /\ <<tss>>[1] = tss
    OBVIOUS
  <2> QED
    BY <1>5, <2>1, <2>2 DEF RunsHere
<1> QED
  BY <1>5, <1>6, <1>8, <1>10, <1>12

\* An operation that is received, the first time or again.
LEMMA ReceivedComes ==
  ASSUME Inv, NEW s \in Sids, NEW op \in issued, op.deps \subseteq applied[s]
  PROVE  /\ op \in RawOperation /\ Op(op) \in Ops /\ Op(op).deps = op.deps /\ Ops \cup {Op(op)} = Ops
         /\ T!Comes(s, Op(op)) /\ OwnId(s, op)
         /\ op.kind = "del" => RunsHere(s, op)
<1>1. Typed /\ T!IInv /\ DeletesRuns /\ op \in RawOperation /\ Op(op) \in Ops
  BY DEF Inv, Typed, Ops
<1>2. Op(op).deps = op.deps /\ T!Comes(s, Op(op)) /\ OwnId(s, op) /\ Ops \cup {Op(op)} = Ops
  BY <1>1, OpFacts DEF T!Comes, OwnId
<1>3. ASSUME op.kind = "del" PROVE RunsHere(s, op)
  <2>1. RefWith(op) = Ref
    BY <1>2 DEF RefWith, Ref
  <2>2. T!Known(Ops, op.deps) \subseteq Names(Items(rga[s]))
    <3>1. T!Known(Ops, op.deps) \subseteq T!Known(Ops, applied[s])
      BY SidsAssumption, TextAssumption, T!KnownIsMonotonic
    <3>2. T!Names(Ideal[s]) = T!Known(Ops, applied[s])
      BY <1>1 DEF T!IInv, T!Contents
    <3> QED
      BY <3>1, <3>2, OwnStamp
  <2> QED
    BY <1>1, <1>3, <2>1, <2>2 DEF DeletesRuns, RunsHere, SpanRuns
<1> QED
  BY <1>1, <1>2, <1>3

\* Receive keeps the invariant and is a Receive of the specification.
LEMMA ReceiveKeepsInv ==
  ASSUME Inv, NEW s \in Sids, NEW op \in issued, Receive(s, op)
  PROVE  Inv' /\ T!Receive(s, Op(op))
<1>1. /\ op.deps \subseteq applied[s] /\ ApplyOperation(s, op)
      /\ issued' = issued /\ issued' = issued \cup {op}
  BY DEF Receive
<1>2. /\ op \in RawOperation /\ Op(op) \in Ops /\ Op(op).deps = op.deps
      /\ T!Comes(s, Op(op)) /\ OwnId(s, op)
      /\ op.kind = "del" => RunsHere(s, op)
  BY <1>1, ReceivedComes
<1>3. T!Apply(s, Op(op)) /\ Ops' = Ops
  BY <1>1, <1>2, StepIsApply DEF Ops
<1>4. T!Receive(s, Op(op))
  BY <1>1, <1>2, <1>3 DEF T!Receive
<1>5. T!IInv'
  BY <1>2, <1>4, SidsAssumption, TextAssumption, T!ReceiveKeepsIInv DEF Inv
<1> QED
  BY <1>1, <1>2, <1>4, <1>5, StepKeepsInv

\* A load keeps the runs of the chunks and drops their links.
LEMMA DecodedFacts ==
  ASSUME NEW chunks \in Seq(ChunkType)
  PROVE  /\ Decoded(chunks) \in Seq(ChunkType) /\ Len(Decoded(chunks)) = Len(chunks)
         /\ Items(Decoded(chunks)) = Items(chunks)
         /\ \A c \in Parts(Decoded(chunks)) : c.link = NoLink
<1> DEFINE decoded == Decoded(chunks)
<1>1. DOMAIN chunks = 1 .. Len(chunks) /\ \A i \in 1 .. Len(chunks) : chunks[i] \in ChunkType
  OBVIOUS
<1>2. /\ DOMAIN decoded = 1 .. Len(chunks)
      /\ decoded = [i \in 1 .. Len(chunks) |-> decoded[i]]
      /\ \A i \in 1 .. Len(chunks) : decoded[i] = [chunks[i] EXCEPT !.link = NoLink]
  BY <1>1 DEF Decoded
<1> HIDE DEF decoded
<1>3. ASSUME NEW i \in 1 .. Len(chunks)
      PROVE  /\ decoded[i] \in ChunkType /\ decoded[i].link = NoLink
             /\ RunOf(decoded[i]) = RunOf(chunks[i])
  <2> DEFINE c == chunks[i]
             d == Chunk(c.id, c.span, c.deleted, NoLink)
  <2>1. c \in ChunkType /\ c = [id |-> c.id, span |-> c.span, deleted |-> c.deleted, link |-> c.link]
    BY <1>1, ChunkFields
  <2>2. decoded[i] = [c EXCEPT !.link = NoLink]
    BY <1>2
  <2> HIDE DEF c
  <2>3. decoded[i] = d
    BY <2>1, <2>2, NewFields
  <2>4. d.id = c.id /\ d.span = c.span /\ d.deleted = c.deleted /\ d.link = NoLink
    BY DEF Chunk
  <2>5. d \in ChunkType
    BY <2>1 DEF ChunkType, Chunk
  <2> HIDE DEF d
  <2>6. RunOf(d) = RunOf(c)
    BY <2>4 DEF RunOf
  <2> QED
    BY <2>3, <2>4, <2>5, <2>6 DEF c
<1>4. decoded \in Seq(ChunkType) /\ Len(decoded) = Len(chunks)
  BY <1>2, <1>3
<1>5. Items(decoded) = Items(chunks)
  BY <1>3, <1>4, SameItems
<1>6. \A c \in Parts(decoded) : c.link = NoLink
  BY <1>2, <1>3 DEF Parts
<1> QED
  BY <1>4, <1>5, <1>6 DEF decoded

\* Reload keeps the invariant and is a stutter of the specification.
LEMMA ReloadKeepsInv ==
  ASSUME Inv, NEW s \in Sids, Reload(s)
  PROVE  Inv' /\ UNCHANGED T!vars
<1>1. Typed /\ T!IInv /\ LinksGood
  BY DEF Inv
<1>2. /\ rga' = [rga EXCEPT ![s] = Decoded(rga[s])]
      /\ reloads' = reloads + 1 /\ time' = time /\ applied' = applied /\ issued' = issued
  BY DEF Reload
<1>3. ASSUME NEW t \in Sids
      PROVE  /\ rga'[t] \in Seq(ChunkType) /\ Items(rga'[t]) = Items(rga[t])
             /\ LinksOk(rga'[t], Names(Items(rga[t])), Ref)
  <2>1. rga[t] \in Seq(ChunkType) /\ LinksOk(rga[t], Names(Items(rga[t])), Ref)
    BY <1>1 DEF Typed, LinksGood
  <2>2. CASE t = s
    <3>1. rga'[t] = Decoded(rga[t])
      BY <1>1, <1>2, <2>2 DEF Typed
    <3> QED
      BY <2>1, <3>1, DecodedFacts DEF LinksOk, LinkOk
  <2>3. CASE t # s
    BY <1>1, <1>2, <2>1, <2>3 DEF Typed
  <2> QED
    BY <2>2, <2>3
<1>4. \A t \in Sids : Named(t)' = Named(t)
  BY <1>2 DEF Named
<1>5. Ideal' = Ideal /\ Ops' = Ops
  BY <1>2, <1>3, <1>4 DEF Ideal, Ops
<1>6. UNCHANGED T!vars
  BY <1>2, <1>5 DEF T!vars
<1>7. T!IInv'
  BY <1>1, <1>6, SidsAssumption, TextAssumption, T!StepKeepsIInv
<1>8. Typed' /\ reloads' # 0
  <2>1. rga' \in [Sids -> Seq(ChunkType)]
    BY <1>1, <1>2, <1>3 DEF Typed
  <2> QED
    BY <1>1, <1>2, <2>1 DEF Typed
<1>9. Ref' = Ref
  BY <1>5 DEF Ref
<1>10. IdsAreUnique' /\ DeletesRuns'
  BY <1>2, <1>5, <1>9 DEF Inv, IdsAreUnique, DeletesRuns
<1>11. LinksGood' /\ ShowsIdeal'
  BY <1>3, <1>8, <1>9 DEF LinksGood, ShowsIdeal
<1> QED
  BY <1>6, <1>7, <1>8, <1>10, <1>11 DEF Inv

\* The first state has the invariant, and is a first state of the
\* specification.
LEMMA InitHolds == Init => Inv /\ T!Init
<1> SUFFICES ASSUME Init PROVE Inv /\ T!Init
  OBVIOUS
<1> DEFINE first == NewChunk(Ts(Author, FirstTime), InitLen)
           chunks == IF InitLen = 0 THEN << >> ELSE <<first>>
           run == T!Run(Ts(Author, FirstTime), InitLen)
<1>1. Ts(Author, FirstTime) \in Timestamp /\ InitLen \in Nat
  BY TextAssumption DEF Ts, Timestamp, FirstTime
<1>2. /\ \A s \in Sids : rga[s] = chunks
      /\ rga = [s \in Sids |-> chunks]
      /\ time = [s \in Sids |-> FirstTime + InitLen]
      /\ applied = [s \in Sids |-> {}] /\ issued = {} /\ reloads = 0
  BY DEF Init
<1>3. /\ chunks \in Seq(ChunkType)
      /\ Items(chunks) = run
      /\ \A names, ref : /\ LinksOk(chunks, names, ref)
                         /\ names = Names(Items(chunks)) => LinksFull(chunks, names, ref)
  <2>1. CASE InitLen = 0
    <3>1. chunks = << >> /\ chunks \in Seq(ChunkType)
      BY <2>1
    <3>2. Items(chunks) = << >> /\ Parts(chunks) = {}
      BY <3>1, ItemsOfNone, PartsOfList
    <3>3. run = << >>
      BY <2>1 DEF T!Run
    <3> QED
      BY <3>1, <3>2, <3>3 DEF LinksOk, LinksFull
  <2>2. CASE InitLen # 0
    <3>1. /\ first \in ChunkType /\ first.id = Ts(Author, FirstTime) /\ first.span = InitLen
          /\ first.link = NoLink /\ first.deleted = FALSE
      <4>1. InitLen \in Nat \ {0}
        BY <1>1, <2>2
      <4> QED
        BY <1>1, <4>1, NewChunkType
    <3>2. chunks = <<first>>
      BY <2>2
    <3> HIDE DEF first
    <3>3. chunks \in Seq(ChunkType) /\ Items(chunks) = RunOf(first)
      BY <3>1, <3>2, ItemsOfOne
    <3>4. Parts(chunks) = {first}
      BY <3>2, <3>3, PartsOfList
    <3>5. RunOf(first) = run
      <4>1. (~first.deleted) = TRUE
        BY <3>1
      <4>2. RunOf(first) = [k \in 1 .. InitLen |->
                              [id |-> Ts(first.id.sid, first.id.time + k - 1), live |-> TRUE]]
        BY <3>1, <4>1 DEF RunOf
      <4>3. \A k : T!Item(Ts(first.id.sid, first.id.time + k - 1))
                    = [id |-> Ts(first.id.sid, first.id.time + k - 1), live |-> TRUE]
        BY DEF T!Item
      <4>4. run = [k \in 1 .. InitLen |-> T!Item(Ts(first.id.sid, first.id.time + k - 1))]
        BY <3>1, Copies DEF T!Run
      <4> QED
        BY <4>2, <4>3, <4>4
    <3>6. ASSUME NEW ref PROVE LinkFull(first, Names(Items(chunks)), ref)
      <4>1. Names(Items(chunks)) = IdsOf(chunks)
        BY <3>3, NamesAreCovered
      <4>2. NextId(first) \notin IdsOf(chunks)
        <5>1. chunks[1] = first /\ DOMAIN chunks = {1}
          BY <3>2
        <5>2. ~Covers(first, NextId(first))
          BY <3>1, FirstCovered
        <5> QED
          BY <5>1, <5>2 DEF IdsOf
      <4> QED
        BY <4>1, <4>2 DEF LinkFull, Follows
    <3> QED
      BY <3>1, <3>3, <3>4, <3>5, <3>6 DEF LinksOk, LinksFull, LinkOk
  <2> QED
    BY <2>1, <2>2
<1> HIDE DEF chunks
<1>4. Typed
  BY <1>2, <1>3, FS_EmptySet DEF Typed
<1>5. \A s \in Sids : Named(s) = {}
  BY <1>2 DEF Named
<1>6. Ops = {} /\ Ideal = [s \in Sids |-> run]
  <2>1. Ops = {}
    BY <1>2 DEF Ops
  <2>2. ASSUME NEW s \in Sids PROVE Ideal[s] = run /\ Items(rga[s]) = run
    <3>1. /\ Items(rga[s]) = run /\ Items(rga[s]) \in Seq(ItemType)
          /\ Ideal[s] = Shape(Items(rga[s]), {})
      BY <1>2, <1>3, <1>4, <1>5, IdealFacts
    <3>2. \A p \in 1 .. Len(run) : run[p].live
      <4>1. DOMAIN run = 1 .. InitLen /\ Len(run) = InitLen
        BY <1>1 DEF T!Run
      <4>2. ASSUME NEW p \in 1 .. InitLen PROVE run[p].live
        BY DEF T!Run, T!Item
      <4> QED
        BY <4>1, <4>2
    <3> HIDE DEF run
    <3>3. Shape(run, {}) = run
      <4>1. run \in Seq(ItemType)
        BY <3>1
      <4>2. /\ Shape(run, {}) \in Seq(ItemType) /\ Len(Shape(run, {})) = Len(run)
            /\ \A p \in 1 .. Len(run) : Shape(run, {})[p].id = run[p].id
            /\ \A p \in 1 .. Len(run) : Shape(run, {})[p].live
        BY <4>1, ShapeFacts
      <4>3. \A p \in 1 .. Len(run) : Shape(run, {})[p] = run[p]
        BY <3>2, <4>1, <4>2, SameItem
      <4> QED
        BY <4>1, <4>2, <4>3, SameAtAll
    <3> QED
      BY <3>1, <3>3
  <2> HIDE DEF run
  <2>3. Ideal = [s \in Sids |-> Ideal[s]]
    BY DEF Ideal
  <2> QED
    BY <2>1, <2>2, <2>3
<1>7. T!Init
  BY <1>2, <1>6, Copies DEF T!Init
<1>8. T!IInv
  BY <1>7, SidsAssumption, TextAssumption, T!InitHolds
<1>9. IdsAreUnique /\ DeletesRuns
  BY <1>2 DEF IdsAreUnique, DeletesRuns
<1>10. LinksGood
  BY <1>2, <1>3 DEF LinksGood
<1>11. ShowsIdeal
  BY <1>2, <1>3, <1>6 DEF ShowsIdeal
<1> QED
  BY <1>4, <1>7, <1>8, <1>9, <1>10, <1>11 DEF Inv

\* Every step keeps the invariant.
LEMMA StepKeeps == Inv /\ [Next]_vars => Inv'
<1> SUFFICES ASSUME Inv, [Next]_vars PROVE Inv'
  OBVIOUS
<1>1. CASE UNCHANGED vars
  <2>1. /\ rga' = rga /\ time' = time /\ applied' = applied /\ issued' = issued
        /\ reloads' = reloads
    BY <1>1 DEF vars
  <2>2. Ideal' = Ideal /\ Ops' = Ops
    BY <2>1 DEF Ideal, Ops, Named
  <2>3. T!IInv'
    <3>1. UNCHANGED T!vars
      BY <2>1, <2>2 DEF T!vars
    <3> QED
      BY <3>1, SidsAssumption, TextAssumption, T!StepKeepsIInv DEF Inv
  <2>4. Ref' = Ref
    BY <2>2 DEF Ref
  <2> QED
    BY <2>1, <2>2, <2>3, <2>4 DEF Inv, Typed, IdsAreUnique, DeletesRuns, LinksGood, ShowsIdeal
<1>2. ASSUME NEW s \in Sids, NEW index \in 0 .. Length(s), NEW span \in 1 .. MaxRun,
             StrIns(s, index, span)
      PROVE  Inv'
  <2>1. PICK op \in RawOperation :
           /\ Issue(s, op) /\ op.kind = "ins" /\ op.id = Ts(s, time[s]) /\ op.deps = applied[s]
           /\ op.after \in {StrId} \cup Names(Items(rga[s]))
    BY <1>2, InsertionIssued, TextAssumption DEF StrIns
  <2> QED
    BY <2>1, IssueKeepsInv DEF Issue
<1>3. ASSUME NEW s \in Sids, NEW index \in 0 .. Length(s), NEW length \in 1 .. Length(s) - index,
             StrDel(s, index, length)
      PROVE  Inv'
  <2>1. PICK op \in RawOperation :
           /\ Issue(s, op) /\ op.kind = "del" /\ op.id = Ts(s, time[s]) /\ op.deps = applied[s]
           /\ CoveredBy(op.what) \subseteq Names(Items(rga[s])) /\ RunsHere(s, op)
    BY <1>3, DeletionIssued DEF StrDel
  <2> QED
    BY <2>1, IssueKeepsInv DEF Issue
<1>4. ASSUME NEW s \in Sids, NEW op \in issued, Receive(s, op) PROVE Inv'
  BY <1>4, ReceiveKeepsInv
<1>5. ASSUME NEW s \in Sids, Reload(s) PROVE Inv'
  BY <1>5, ReloadKeepsInv
<1> QED
  BY <1>1, <1>2, <1>3, <1>4, <1>5 DEF Next

(***************************************************************************)
(* What the invariant says of the chunks.                                  *)
(***************************************************************************)
LEMMA PlacedHere ==
  ASSUME Inv, NEW s \in Sids
  PROVE  /\ rga[s] \in Seq(ChunkType) /\ ChunksPlaced(rga[s], Ref)
         /\ LinksOk(rga[s], IdsOf(rga[s]), Ref)
<1>1. Typed /\ T!IInv /\ LinksGood
  BY DEF Inv
<1>2. rga[s] \in Seq(ChunkType) /\ IdsOf(rga[s]) = Names(Items(rga[s]))
  BY <1>1, IdealFacts
<1>3. \A y \in Names(Items(rga[s])) : Ref[y] = T!Reference(Ops, y)
  BY <1>2 DEF Ref, IdsOf
<1> QED
  BY <1>1, <1>2, <1>3, ListsPlaced DEF LinksGood

\* The invariant says that links lead on.
LEMMA LinksDoLead == Inv => LinksLead
<1> SUFFICES ASSUME Inv, NEW s \in Sids, NEW i \in DOMAIN rga[s], NEW j \in DOMAIN rga[s]
             PROVE  LeadOn(rga[s], i, j)
  BY DEF LinksLead, LeadOn
<1> QED
  BY PlacedHere, LinksLeadOn

\* The invariant says that deletions reach all they name.
LEMMA DeletesDoReach == Inv => DeletesReach
<1> SUFFICES ASSUME Inv, reloads = 0, NEW s \in Sids, NEW op \in issued,
                    op.kind = "del", op.id \in applied[s],
                    NEW i \in DOMAIN rga[s], NEW t \in CoveredBy(op.what), Covers(rga[s][i], t)
             PROVE  rga[s][i].deleted
  BY DEF DeletesReach, DeletesAllCovered
<1>1. Typed /\ Items(rga[s]) = Ideal[s] /\ op \in RawOperation
  BY DEF Inv, ShowsIdeal, Typed
<1>2. t \in Timestamp /\ t \in Named(s)
  BY <1>1, OpFacts DEF Named
<1>3. rga[s] \in Seq(ChunkType) /\ i \in 1 .. Len(rga[s])
  BY <1>1, IdealFacts
<1> DEFINE k == t.time - rga[s][i].id.time + 1
           p == Start(rga[s], i) + k
<1>4. k \in 1 .. rga[s][i].span /\ t = Ts(rga[s][i].id.sid, rga[s][i].id.time + k - 1)
  <2>1. rga[s][i] \in ChunkType
    BY <1>3
  <2> QED
    BY <1>2, <2>1, CoveredStamps
<1> HIDE DEF k
<1>5. /\ p \in 1 .. Len(Items(rga[s])) /\ Items(rga[s])[p].id = t
      /\ Items(rga[s])[p].live = ~rga[s][i].deleted
  <2>1. /\ Start(rga[s], i) + k \in 1 .. Len(Items(rga[s]))
        /\ Items(rga[s])[Start(rga[s], i) + k] = [id |-> t, live |-> ~rga[s][i].deleted]
    BY <1>3, <1>4, ItemsOfChunk
  <2> QED
    BY <2>1
<1> HIDE DEF p
<1>6. Ideal[s][p].live <=> Items(rga[s])[p].id \notin Named(s)
  BY <1>1, <1>5, IdealFacts
<1>7. Items(rga[s])[p].live = FALSE
  <2>1. ~Items(rga[s])[p].live
    BY <1>1, <1>2, <1>5, <1>6
  <2> QED
    BY <1>5, <2>1
<1>8. rga[s][i].deleted \in BOOLEAN
  BY <1>3, ChunkFields
<1> QED
  BY <1>5, <1>7, <1>8

\* The invariant says that replicas agree.
LEMMA ReplicasConverge == Inv => Converged
<1> SUFFICES ASSUME Inv PROVE Converged
  OBVIOUS
<1>1. Typed /\ T!IInv
  BY DEF Inv
<1>2. T!Converged /\ T!OrderAgreed
  BY <1>1, SidsAssumption, TextAssumption, T!ListsConverge, T!ListsAgree
<1>3. ASSUME reloads = 0, NEW s \in Sids, NEW t \in Sids, applied[s] = applied[t]
      PROVE  Items(rga[s]) = Items(rga[t])
  <2>1. Items(rga[s]) = Ideal[s] /\ Items(rga[t]) = Ideal[t]
    BY <1>3 DEF Inv, ShowsIdeal
  <2>2. Ideal[s] = Ideal[t]
    BY <1>2, <1>3 DEF T!Converged
  <2> QED
    BY <2>1, <2>2
<1>4. ASSUME NEW s \in Sids, NEW t \in Sids
      PROVE  T!Compatible(Items(rga[s]), Items(rga[t]))
  <2>1. ASSUME NEW x \in Sids
        PROVE  /\ T!Names(Items(rga[x])) = T!Names(Ideal[x])
               /\ \A a, b : T!Before(Items(rga[x]), a, b) <=> T!Before(Ideal[x], a, b)
    <3>1. /\ DOMAIN Ideal[x] = DOMAIN Items(rga[x])
          /\ \A p \in DOMAIN Items(rga[x]) : Ideal[x][p].id = Items(rga[x])[p].id
      BY <1>1, IdealFacts, ZenonT(30)
    <3> QED
      BY <3>1 DEF T!Names, T!Before
  <2>2. T!Compatible(Ideal[s], Ideal[t])
    BY <1>2 DEF T!OrderAgreed
  <2> QED
    BY <2>1, <2>2 DEF T!Compatible
<1>5. reloads = 0 => Crdt!Converged
  BY <1>3 DEF Crdt!Converged
<1>6. Crdt!OrderAgreed
  <2>1. \A a, b : Crdt!Compatible(a, b) <=> T!Compatible(a, b)
    BY DEF Crdt!Compatible, T!Compatible, Crdt!Names, T!Names, Crdt!Before, T!Before
  <2> QED
    BY <1>4, <2>1 DEF Crdt!OrderAgreed
<1> QED
  BY <1>5, <1>6 DEF Converged

\* What was applied is there again when it comes again.
LEMMA AppliesAgain == Inv => Idempotent
<1> SUFFICES ASSUME Inv, NEW s \in Sids, NEW op \in issued, op.id \in applied[s],
                    op.kind = "ins" \/ reloads = 0
             PROVE  Items(ApplyToNode(rga[s], op)) = Items(rga[s])
  BY DEF Idempotent
<1>1. Typed /\ T!IInv /\ op \in RawOperation
  BY DEF Inv, Typed
<1>2. /\ Op(op) \in Ops /\ Op(op).id \in applied[s] /\ Op(op).deps = op.deps
      /\ Op(op).kind = op.kind /\ op.kind \in {"ins", "del"} /\ op.id \in Timestamp
      /\ op.span \in Nat \ {0}
      /\ op.kind = "ins" => Op(op) = op
  BY <1>1, OpFacts DEF Ops
<1>3. /\ T!Integrated(Ideal[s], Op(op)) = Ideal[s]
      /\ op.kind = "ins" => op.id \in T!Names(Ideal[s])
  BY <1>1, <1>2, SidsAssumption, TextAssumption, T!IntegratedAgain
<1>4. op.deps \subseteq applied[s]
  BY <1>1, <1>2 DEF T!IInv, T!Causal
<1>5. T!Comes(s, Op(op)) /\ (op.kind = "del" => RunsHere(s, op))
  BY <1>4, ReceivedComes
<1>6. CASE op.kind = "del"
  <2>1. AppliedTo(s, op, Delete(rga[s], op.what))
    BY <1>1, <1>5, <1>6, AppliesDeletion
  <2>2. Items(Delete(rga[s], op.what)) = Ideal[s] /\ Items(rga[s]) = Ideal[s]
    BY <1>3, <1>6, <2>1 DEF AppliedTo, Inv, ShowsIdeal
  <2> QED
    BY <1>6, <2>2 DEF ApplyToNode
<1>7. CASE op.kind = "ins"
  <2>1. /\ rga[s] \in Seq(ChunkType) /\ ChunksPlaced(rga[s], RefWith(op))
        /\ LinksOk(rga[s], IdsOf(rga[s]), RefWith(op))
        /\ IdsOf(rga[s]) = T!Names(Ideal[s])
    <3>1. T!Names(Ideal[s]) = Names(Items(rga[s]))
      BY OwnStamp
    <3> QED
      BY <1>1, <1>5, <3>1, ComesHere
  <2>2. RefWith(op)[op.id] = op.after /\ op.after \in {StrId} \cup IdsOf(rga[s])
    <3>1. op \in T!Operation /\ T!Comes(s, op) /\ op \in Ops \cup {op}
      BY <1>1, <1>2, <1>5, <1>7, OpFacts
    <3>2. /\ T!UniqueIds(Ops \cup {op})
          /\ op.after \in {T!StrId} \cup T!Known(Ops, op.deps)
          /\ T!Known(Ops, op.deps) \subseteq T!Names(Ideal[s])
      BY <1>1, <1>7, <3>1, SidsAssumption, TextAssumption, T!ComesFacts
    <3>3. T!Reference(Ops \cup {op}, op.id) = op.after
      BY <1>7, <3>1, <3>2, SidsAssumption, TextAssumption, T!ReferenceOfInsertion
    <3>4. RefWith(op)[op.id] = T!Reference(Ops \cup {op}, op.id)
      BY <1>2, <1>7 DEF RefWith
    <3> QED
      BY <2>1, <3>2, <3>3, <3>4, Copies
  <2>3. Keeps(rga[s], Insert(rga[s], op.after, op.id, op.span), RefWith(op))
    BY <1>2, <1>3, <1>7, <2>1, <2>2, RootStamp, InsertAgain
  <2> QED
    BY <1>7, <2>3 DEF Keeps, ApplyToNode
<1> QED
  BY <1>2, <1>6, <1>7

(***************************************************************************)
(* The refinement.  Crdt and T are instances of one specification, and as  *)
(* long as nothing was loaded their lists are the same.                    *)
(***************************************************************************)
LEMMA SameSpecification ==
  /\ \A id, span : Crdt!Run(id, span) = T!Run(id, span)
  /\ \A items, i : Crdt!NameOf(items, i) = T!NameOf(items, i)
  /\ \A items : Crdt!Visible(items) = T!Visible(items)
  /\ \A items, op : Crdt!Integrated(items, op) = T!Integrated(items, op)
  /\ \A a, b : Crdt!Larger(a, b) = Larger(a, b)
<1>1. /\ \A sid, time0 : Crdt!Ts(sid, time0) = T!Ts(sid, time0)
      /\ \A id : Crdt!Item(id) = T!Item(id)
      /\ \A items : Crdt!Names(items) = T!Names(items)
      /\ \A a, b : Crdt!Less(a, b) <=> T!Less(a, b)
      /\ \A S : Crdt!Min(S) = T!Min(S)
  BY DEF Crdt!Ts, T!Ts, Crdt!Item, T!Item, Crdt!Names, T!Names, Crdt!Less, T!Less, Crdt!Min, T!Min
<1>2. /\ \A items, id : Crdt!PlaceOf(items, id) = T!PlaceOf(items, id)
      /\ \A id, span : Crdt!Run(id, span) = T!Run(id, span)
      /\ \A items, i : Crdt!NameOf(items, i) = T!NameOf(items, i)
      /\ \A items : Crdt!Visible(items) = T!Visible(items)
      /\ \A items, op : Crdt!Deleted(items, op) = T!Deleted(items, op)
      /\ \A a, b : Crdt!Larger(a, b) = Larger(a, b)
  BY <1>1 DEF Crdt!PlaceOf, T!PlaceOf, Crdt!Run, T!Run, Crdt!NameOf, T!NameOf, Crdt!StrId, T!StrId,
     Crdt!Visible, T!Visible, Crdt!Deleted, T!Deleted, Crdt!Larger, Larger
<1>3. \A items, after, id : Crdt!FrontOf(items, after, id) = T!FrontOf(items, after, id)
  BY <1>1, <1>2 DEF Crdt!FrontOf, T!FrontOf
<1>4. \A items, op : Crdt!Inserted(items, op) = T!Inserted(items, op)
  BY <1>1, <1>2, <1>3 DEF Crdt!Inserted, T!Inserted
<1> QED
  BY <1>2, <1>4 DEF Crdt!Integrated, T!Integrated

\* There are not more of them.
LEMMA SpecifiedCount ==
  ASSUME NEW S, IsFiniteSet(S)
  PROVE  /\ Crdt!Cardinality({Op(op) : op \in S}) \in Nat
         /\ Crdt!Cardinality({Op(op) : op \in S}) <= Cardinality(S)
<1> DEFINE image == {Op(op) : op \in S}
           f == [op \in S |-> Op(op)]
<1>1. f \in Surjection(S, image)
  BY DEF Surjection
<1>2. Cardinality(image) <= Cardinality(S) /\ Cardinality(image) \in Nat
  BY <1>1, FS_Surjection, FS_CardinalityType
<1> HIDE DEF image
<1>3. Crdt!Cardinality(image) = Cardinality(image)
  BY DEF Cardinality, Crdt!Cardinality
<1> QED
  BY <1>2, <1>3 DEF image

\* The lists of the refinement.
Lists == [s \in Sids |-> Items(rga[s])]

\* Before the first load the chunks show the ideal list.
LEMMA ListsShowIdeal ==
  ASSUME Inv, reloads = 0
  PROVE  Lists = Ideal
<1>1. \A s \in Sids : Items(rga[s]) = Ideal[s]
  BY DEF Inv, ShowsIdeal
<1>2. Ideal = [s \in Sids |-> Ideal[s]]
  BY DEF Ideal
<1> QED
  BY <1>1, <1>2 DEF Lists

\* The first chunks are the first list.
LEMMA StartsAsSpecified == Init => Crdt!Init
<1> SUFFICES ASSUME Init PROVE Crdt!Init
  OBVIOUS
<1>1. T!Init /\ Lists = Ideal
  BY InitHolds, ListsShowIdeal DEF Init
<1>2. /\ Lists = [s \in Sids |-> Crdt!Run(Crdt!Ts(Author, Crdt!FirstTime), InitLen)]
      /\ time = [s \in Sids |-> Crdt!FirstTime + InitLen]
      /\ applied = [s \in Sids |-> {}]
      /\ Ops = {}
  BY <1>1, SameSpecification DEF T!Init, Crdt!FirstTime, T!FirstTime, T!Ts, Crdt!Ts
<1> QED
  BY <1>2 DEF Crdt!Init, Lists, Ops

\* What a replica makes of an operation is what the specification says.
LEMMA AppliesAsSpecified ==
  ASSUME Inv, Inv', reloads = 0, reloads' = 0, NEW s \in Sids, NEW op, T!Apply(s, op)
  PROVE  Crdt!Apply(s, op)
<1>1. Lists = Ideal
  BY ListsShowIdeal
<1>2. Lists' = Ideal'
  <2>1. \A t \in Sids : Items(rga'[t]) = Ideal'[t]
    BY DEF Inv, ShowsIdeal
  <2>2. Ideal' = [t \in Sids |-> Ideal'[t]]
    BY DEF Ideal
  <2> QED
    BY <2>1, <2>2 DEF Lists
<1>3. /\ Lists' = [Lists EXCEPT ![s] = Crdt!Integrated(@, op)]
      /\ time' = [time EXCEPT ![s] = Crdt!Larger(@, op.id.time + op.span)]
      /\ applied' = [applied EXCEPT ![s] = @ \cup {op.id}]
  BY <1>1, <1>2, SameSpecification, Copies DEF T!Apply
<1> QED
  BY <1>3 DEF Crdt!Apply, Lists

\* Before the first load, issuing an operation is a step of the list.
LEMMA IssuesAsSpecified ==
  ASSUME Inv, Inv', reloads = 0, reloads' = 0, NEW s \in Sids, NEW op \in RawOperation,
         Issue(s, op), T!Comes(s, Op(op)), OwnId(s, op), op.kind = "del" => RunsHere(s, op)
  PROVE  Crdt!Issue(s, Op(op))
<1>1. /\ Cardinality(issued) < MaxOps /\ ApplyOperation(s, op) /\ issued' = issued \cup {op}
  BY DEF Issue
<1>2. Crdt!Apply(s, Op(op))
  BY <1>1, StepIsApply, AppliesAsSpecified
<1>3. Ops' = Ops \cup {Op(op)}
  BY <1>1, OpsGrow
<1>4. Crdt!Cardinality(Ops) < MaxOps
  <2>1. IsFiniteSet(issued)
    BY DEF Inv, Typed
  <2>2. Cardinality(issued) \in Nat
    BY <2>1, FS_CardinalityType
  <2>3. Crdt!Cardinality(Ops) \in Nat /\ Crdt!Cardinality(Ops) <= Cardinality(issued)
    BY <2>1, SpecifiedCount DEF Ops
  <2> QED
    BY <1>1, <2>2, <2>3, TextAssumption
<1> QED
  BY <1>2, <1>3, <1>4 DEF Crdt!Issue, Ops

\* So is str_ins.
LEMMA InsertsAsSpecified ==
  ASSUME Inv, reloads = 0, reloads' = 0, NEW s \in Sids, NEW index \in 0 .. Length(s),
         NEW span \in 1 .. MaxRun, StrIns(s, index, span)
  PROVE  Crdt!Next
<1>1. PICK op \in RawOperation :
        /\ Issue(s, op) /\ op.kind = "ins" /\ op.id = Ts(s, time[s]) /\ op.deps = applied[s]
        /\ op.span = span
        /\ \/ op.after = StrId
           \/ \E p \in 1 .. Len(Items(rga[s])) :
                Items(rga[s])[p].live /\ op.after = Items(rga[s])[p].id
        /\ op.after \in {StrId} \cup Names(Items(rga[s]))
  BY InsertionIssued, TextAssumption DEF StrIns
<1>2. Inv' /\ T!Comes(s, Op(op)) /\ OwnId(s, op)
  BY <1>1, IssueKeepsInv DEF Issue
<1>3. Crdt!Issue(s, op)
  <2>1. Op(op) = op
    BY <1>1, OpFacts
  <2> QED
    BY <1>1, <1>2, <2>1, IssuesAsSpecified
<1>4. PICK i \in {0} \cup Crdt!Visible(Lists[s]) : op.after = Crdt!NameOf(Lists[s], i)
  <2>1. Lists[s] = Items(rga[s]) /\ DOMAIN Items(rga[s]) = 1 .. Len(Items(rga[s]))
    BY IdealFacts DEF Lists, Inv
  <2>2. CASE op.after = StrId
    BY <2>1, <2>2, SameSpecification, Copies DEF NameAt
  <2>3. ASSUME NEW p \in 1 .. Len(Items(rga[s])), Items(rga[s])[p].live,
               op.after = Items(rga[s])[p].id
        PROVE  p \in Crdt!Visible(Lists[s]) /\ op.after = Crdt!NameOf(Lists[s], p)
    BY <2>1, <2>3 DEF Crdt!Visible, Crdt!NameOf
  <2> QED
    BY <1>1, <2>2, <2>3
<1>5. op = Crdt!InsStr(Crdt!Ts(s, time[s]), Crdt!NameOf(Lists[s], i), span, applied[s])
  BY <1>1, <1>4 DEF RawOperation, Crdt!InsStr, Crdt!Ts, Ts
<1>6. Crdt!InsertText(s, i, span)
  BY <1>3, <1>5 DEF Crdt!InsertText, Lists
<1> QED
  BY <1>4, <1>6 DEF Crdt!Next, Lists

\* So is str_del.
LEMMA DeletesAsSpecified ==
  ASSUME Inv, reloads = 0, reloads' = 0, NEW s \in Sids, NEW index \in 0 .. Length(s),
         NEW length \in 1 .. Length(s) - index, StrDel(s, index, length)
  PROVE  Crdt!Next
<1>1. PICK op \in RawOperation :
        /\ Issue(s, op) /\ op.kind = "del" /\ op.id = Ts(s, time[s]) /\ op.deps = applied[s]
        /\ op.what = FindInterval(rga[s], index, length)
        /\ CoveredBy(op.what) = Picked(rga[s], index, length)
        /\ CoveredBy(op.what) \subseteq Names(Items(rga[s]))
        /\ RunsHere(s, op)
  BY DeletionIssued DEF StrDel
<1>2. Inv' /\ T!Comes(s, Op(op)) /\ OwnId(s, op)
  BY <1>1, IssueKeepsInv DEF Issue
<1>3. Crdt!Issue(s, Op(op))
  BY <1>1, <1>2, IssuesAsSpecified
<1>4. /\ rga[s] \in Seq(ChunkType) /\ Lists[s] = Items(rga[s])
      /\ DOMAIN Lists[s] = 1 .. Len(Items(rga[s])) /\ Len(Items(rga[s])) \in Nat
  BY IdealFacts DEF Lists, Inv
<1>5. PICK i, j \in 1 .. Len(Items(rga[s])) :
        /\ Items(rga[s])[i].live /\ Items(rga[s])[j].live /\ i <= j
        /\ Picked(rga[s], index, length)
             = {Items(rga[s])[n].id : n \in {m \in i .. j : Items(rga[s])[m].live}}
  <2>1. Len(View(rga[s])) \in Nat
    <3>1. View(rga[s]) \in Seq(Timestamp)
      BY <1>4, LivesAreLists, FlattenIsSeq
    <3> QED
      BY <3>1, LenProperties
  <2>2. index \in Nat /\ length \in Nat \ {0} /\ index + length <= Len(View(rga[s]))
    BY <2>1 DEF Length
  <2> QED
    BY <1>4, <2>2, PickedIsBetween, ZenonT(30)
<1> DEFINE what == {Lists[s][k].id : k \in Crdt!Visible(Lists[s]) \cap i .. j}
<1>6. i \in Crdt!Visible(Lists[s]) /\ j \in Crdt!Visible(Lists[s])
  BY <1>4, <1>5 DEF Crdt!Visible
<1>7. what = Picked(rga[s], index, length)
  <2>1. Crdt!Visible(Lists[s]) \cap i .. j = {m \in i .. j : Items(rga[s])[m].live}
    BY <1>4, <1>5 DEF Crdt!Visible
  <2> QED
    BY <1>4, <1>5, <2>1
<1>8. what # {}
  <2>1. i \in Crdt!Visible(Lists[s]) \cap i .. j
    BY <1>5, <1>6
  <2> QED
    BY <2>1
<1>9. Op(op) = Crdt!Del(Crdt!Ts(s, time[s]), what, applied[s])
  <2>1. /\ Op(op) = [op EXCEPT !.what = CoveredBy(@)]
        /\ op = Del(op.id, op.what, op.deps)
    BY <1>1, OpFacts DEF Op
  <2>2. Op(op) = Del(op.id, CoveredBy(op.what), op.deps)
    BY <2>1 DEF Del
  <2> QED
    BY <1>1, <1>7, <2>2 DEF Del, Crdt!Del, Ts, Crdt!Ts
<1>10. Crdt!DeleteText(s, i, j)
  BY <1>3, <1>8, <1>9 DEF Crdt!DeleteText, Lists
<1> QED
  BY <1>6, <1>10 DEF Crdt!Next, Lists

\* So is what apply_patch does with an operation that arrives.
LEMMA ReceivesAsSpecified ==
  ASSUME Inv, reloads = 0, reloads' = 0, NEW s \in Sids, NEW op \in issued, Receive(s, op)
  PROVE  Crdt!Next
<1>1. Inv' /\ T!Receive(s, Op(op))
  BY ReceiveKeepsInv
<1>2. Crdt!Apply(s, Op(op))
  BY <1>1, AppliesAsSpecified DEF T!Receive
<1>3. Crdt!Receive(s, Op(op))
  BY <1>1, <1>2 DEF T!Receive, Crdt!Receive, Ops
<1>4. Op(op) \in Ops
  BY DEF Ops
<1> QED
  BY <1>3, <1>4 DEF Crdt!Next, Ops

\* Every step before the first load is a step of the list or a stutter.
LEMMA StepsAsSpecified ==
  Inv /\ [Next]_vars => [reloads' = 0 => Crdt!Next]_(Crdt!vars)
<1> SUFFICES ASSUME Inv, [Next]_vars
             PROVE  (reloads' = 0 => Crdt!Next) \/ UNCHANGED Crdt!vars
  OBVIOUS
<1>1. CASE UNCHANGED vars
  BY <1>1 DEF vars, Crdt!vars
<1>2. ASSUME Next, reloads' = 0 PROVE Crdt!Next
  <2>1. ASSUME NEW s \in Sids, Reload(s) PROVE FALSE
    BY <1>2, <2>1 DEF Reload, Inv, Typed
  <2>2. reloads = 0
    BY <1>2, <2>1, ZenonT(30) DEF Next, StrIns, StrDel, Issue, Receive, ApplyOperation
  <2> QED
    BY <1>2, <2>1, <2>2, InsertsAsSpecified, DeletesAsSpecified, ReceivesAsSpecified DEF Next
<1> QED
  BY <1>1, <1>2

(***************************************************************************)
(* The theorems.                                                           *)
(***************************************************************************)
\* The chunks of every replica hold the list the specification describes.
THEOREM RgaInvariance == Spec => []Inv
BY InitHolds, StepKeeps, PTL DEF Spec

\* The chunks never overlap, and every link leads to the chunk that holds the
\* next item of the run, further back (the field `s` of nodes/rga.rs).
THEOREM LinksAreGood == Spec => []LinksLead
BY RgaInvariance, LinksDoLead, PTL

\* Replicas that applied the same operations show the same text, and no two
\* ever disagree on the order of two items, loads or not.
THEOREM ReplicasAgree == Spec => []Converged
BY RgaInvariance, ReplicasConverge, PTL

\* Until the first load, delete_span hides every item its spans cover,
\* however the chunks were split and merged since the deletion was issued.
THEOREM DeletionsReach == Spec => []DeletesReach
BY RgaInvariance, DeletesDoReach, PTL

\* An operation that comes again changes no item (the `find` guards of insert).
THEOREM AppliedOnce == Spec => []Idempotent
BY RgaInvariance, AppliesAgain, PTL

\* Until the first load every step of the chunks is a step of the plain list:
\* splits, links, folds and merges implement the specification.
THEOREM ChunksImplementTheList == Spec => ImplementsTextCrdt
<1>1. Spec => [][reloads' = 0 => Crdt!Next]_(Crdt!vars)
  BY RgaInvariance, StepsAsSpecified, PTL DEF Spec
<1> QED
  BY <1>1, StartsAsSpecified DEF Spec, ImplementsTextCrdt
=============================================================================
