-------------------------- MODULE TextCrdt_proofs --------------------------
(***************************************************************************)
(* Proofs about TextCrdt, for any number of sessions, operations and       *)
(* characters: replicas that applied the same operations hold the same     *)
(* list, and no two ever disagree on the order of two items.               *)
(***************************************************************************)
EXTENDS TextCrdt, Facts

ItemType == [id : Timestamp, live : BOOLEAN]

\* An item is listed once.
Distinct(items) == \A i, j \in DOMAIN items : items[i].id = items[j].id => i = j

\* What the assumptions say of the constants.
LEMMA Constants ==
  /\ Author \in Sids /\ Author \in Nat
  /\ InitLen \in Nat /\ FirstTime \in Nat
  /\ \A span \in 1 .. MaxRun : span \in Nat \ {0}
  /\ StrId \in Timestamp /\ StrId.time = 1
BY TextAssumption, SidsAssumption DEF FirstTime, StrId, Ts, Timestamp
-----------------------------------------------------------------------------
\* The place of an item, or 0 for a name that is not in the list.
LEMMA PlaceOfNames ==
  ASSUME NEW items \in Seq(ItemType), NEW id
  PROVE  /\ PlaceOf(items, id) \in 0 .. Len(items)
         /\ id \in Names(items) => /\ PlaceOf(items, id) > 0
                                   /\ items[PlaceOf(items, id)].id = id
         /\ id \notin Names(items) => PlaceOf(items, id) = 0
<1>1. DOMAIN items = 1 .. Len(items) /\ Len(items) \in Nat
  OBVIOUS
<1>2. CASE id \in Names(items)
  <2>1. \E i \in DOMAIN items : items[i].id = id
    BY <1>2 DEF Names
  <2>2. /\ PlaceOf(items, id) \in DOMAIN items
        /\ items[PlaceOf(items, id)].id = id
    BY <1>2, <2>1 DEF PlaceOf
  <2> QED
    BY <1>1, <1>2, <2>2
<1>3. CASE id \notin Names(items)
  BY <1>1, <1>3 DEF PlaceOf
<1> QED
  BY <1>2, <1>3

\* insert_after_ref: where the walk that starts behind the reference stops.
LEMMA FrontStops ==
  ASSUME NEW items \in Seq(ItemType), NEW after, NEW id
  PROVE  /\ FrontOf(items, after, id) \in PlaceOf(items, after) .. Len(items)
         /\ FrontOf(items, after, id) \in 0 .. Len(items)
         /\ \/ FrontOf(items, after, id) = Len(items)
            \/ Less(items[FrontOf(items, after, id) + 1].id, id)
         /\ \A k \in PlaceOf(items, after) + 1 .. FrontOf(items, after, id) :
              ~Less(items[k].id, id)
<1> DEFINE from == PlaceOf(items, after)
           stops == {j \in from .. Len(items) :
                       j = Len(items) \/ Less(items[j + 1].id, id)}
           front == FrontOf(items, after, id)
<1>1. from \in 0 .. Len(items) /\ Len(items) \in Nat
  BY PlaceOfNames
<1> HIDE DEF from
<1>2. stops \subseteq Nat /\ Len(items) \in stops
  BY <1>1
<1>3. PICK m \in stops : \A n \in stops : m <= n
  BY <1>2, LeastNumber, Zenon
<1>4. front \in stops /\ \A n \in stops : front <= n
  <2>1. front = CHOOSE x \in stops : \A y \in stops : x <= y
    BY DEF FrontOf, Min, from
  <2> HIDE DEF stops, front
  <2> QED
    BY <1>3, <2>1
<1>5. ASSUME NEW k \in from + 1 .. front, Less(items[k].id, id)
      PROVE  FALSE
  <2>1. k - 1 \in from .. Len(items) /\ (k - 1) + 1 = k
    BY <1>1, <1>4
  <2>2. k - 1 \in stops
    BY <1>5, <2>1
  <2> HIDE DEF stops, front
  <2> QED
    BY <1>1, <1>2, <1>4, <2>1, <2>2
<1>6. front \in from .. Len(items) /\ (front = Len(items) \/ Less(items[front + 1].id, id))
  BY <1>4
<1> HIDE DEF front
<1>7. front \in 0 .. Len(items)
  BY <1>1, <1>6
<1> QED
  BY <1>5, <1>6, <1>7 DEF from, front

\* The first places of an insertion hold the items that stay in front, then
\* come the new ones, then the rest.
LEMMA InsertedShape ==
  ASSUME NEW items \in Seq(ItemType), NEW op, op.id \in Timestamp,
         NEW span \in Nat, op.span = span, op.id \notin Names(items),
         NEW front \in 0 .. Len(items), front = FrontOf(items, op.after, op.id),
         NEW new, new = Inserted(items, op)
  PROVE  /\ new \in Seq(ItemType)
         /\ Len(new) = Len(items) + span
         /\ \A i \in 1 .. front : new[i] = items[i]
         /\ \A i \in front + 1 .. front + span :
              new[i] = Item(Ts(op.id.sid, op.id.time + (i - front - 1)))
         /\ \A i \in front + span + 1 .. Len(items) + span : new[i] = items[i - span]
<1> DEFINE a == SubSeq(items, 1, front)
           run == Run(op.id, span)
           b == SubSeq(items, front + 1, Len(items))
<1>1. new = a \o run \o b
  BY DEF Inserted
<1>2. /\ Len(items) \in Nat /\ front \in Nat /\ front <= Len(items)
      /\ \A i \in 1 .. Len(items) : items[i] \in ItemType
  OBVIOUS
<1>3. /\ a \in Seq(ItemType) /\ Len(a) = front
      /\ \A i \in 1 .. front : a[i] = items[i]
  <2>1. \A i \in 1 .. front : items[i] \in ItemType
    BY <1>2
  <2> QED
    BY <1>2, <2>1, SubSeqProperties
<1>4. /\ b \in Seq(ItemType) /\ Len(b) = Len(items) - front
      /\ \A i \in 1 .. Len(items) - front : b[i] = items[front + i]
  <2>1. \A i \in front + 1 .. Len(items) : items[i] \in ItemType
    BY <1>2
  <2>2. /\ b \in Seq(ItemType)
        /\ Len(b) = IF front + 1 <= Len(items) THEN Len(items) - (front + 1) + 1 ELSE 0
        /\ \A i \in 1 .. Len(items) - (front + 1) + 1 : b[i] = items[front + 1 + i - 1]
    BY <1>2, <2>1, SubSeqProperties
  <2> HIDE DEF b
  <2> QED
    BY <1>2, <2>2
<1>5. /\ run \in Seq(ItemType) /\ Len(run) = span
      /\ \A i \in 1 .. span : run[i] = Item(Ts(op.id.sid, op.id.time + i - 1))
  BY DEF Run, Item, Ts, Timestamp, ItemType
<1> HIDE DEF a, b, run
<1>6. /\ a \o run \in Seq(ItemType) /\ Len(a \o run) = front + span
      /\ \A i \in 1 .. front + span :
           (a \o run)[i] = IF i <= front THEN a[i] ELSE run[i - front]
  <2>1. /\ a \o run \in Seq(ItemType) /\ Len(a \o run) = Len(a) + Len(run)
        /\ \A i \in 1 .. Len(a) + Len(run) :
             (a \o run)[i] = IF i <= Len(a) THEN a[i] ELSE run[i - Len(a)]
    BY <1>3, <1>5, ConcatProperties
  <2> QED
    BY <1>3, <1>5, <2>1, Zenon
<1> DEFINE c == a \o run
<1>11. /\ c \in Seq(ItemType) /\ Len(c) = front + span
       /\ \A i \in 1 .. front + span : c[i] = IF i <= front THEN a[i] ELSE run[i - front]
  BY <1>6, Zenon
<1> HIDE DEF c
<1>7. /\ new \in Seq(ItemType) /\ Len(new) = Len(items) + span
      /\ \A i \in 1 .. Len(items) + span :
           new[i] = IF i <= front + span THEN c[i] ELSE b[i - (front + span)]
  <2>1. /\ c \o b \in Seq(ItemType) /\ Len(c \o b) = Len(c) + Len(b)
        /\ \A i \in 1 .. Len(c) + Len(b) :
             (c \o b)[i] = IF i <= Len(c) THEN c[i] ELSE b[i - Len(c)]
    <3>1. c \in Seq(ItemType) /\ b \in Seq(ItemType)
      BY <1>4, <1>11
    <3> QED
      BY <3>1, ConcatProperties
  <2>2. Len(c) = front + span /\ Len(c) + Len(b) = Len(items) + span /\ new = c \o b
    <3>1. Len(c) = front + span
      BY <1>11
    <3>2. new = c \o b
      BY <1>1 DEF c
    <3>3. front + span + (Len(items) - front) = Len(items) + span
      BY <1>2
    <3> QED
      BY <1>4, <3>1, <3>2, <3>3
  <2> QED
    BY <2>1, <2>2, Zenon
<1>8. \A i \in 1 .. front : new[i] = items[i]
  <2> SUFFICES ASSUME NEW i \in 1 .. front
               PROVE  new[i] = items[i]
    OBVIOUS
  <2>1. /\ i \in 1 .. Len(items) + span /\ i <= front + span /\ i \in 1 .. front + span
        /\ i <= front
    BY <1>2
  <2>2. new[i] = c[i] /\ c[i] = a[i]
    BY <1>7, <1>11, <2>1, Zenon
  <2> QED
    BY <1>3, <2>2
<1>9. ASSUME NEW i \in front + 1 .. front + span
      PROVE  new[i] = Item(Ts(op.id.sid, op.id.time + (i - front - 1)))
  <2>1. new[i] = run[i - front] /\ i - front \in 1 .. span
    <3>1. /\ i \in 1 .. Len(items) + span /\ i <= front + span /\ i \in 1 .. front + span
          /\ ~(i <= front) /\ i - front \in 1 .. span
      BY <1>2
    <3>2. new[i] = c[i] /\ c[i] = run[i - front]
      BY <1>7, <1>11, <3>1, Zenon
    <3> QED
      BY <3>1, <3>2
  <2>2. op.id.time + (i - front) - 1 = op.id.time + (i - front - 1)
    BY <1>2 DEF Timestamp
  <2> QED
    BY <1>5, <2>1, <2>2
<1>10. ASSUME NEW i \in front + span + 1 .. Len(items) + span
       PROVE  new[i] = items[i - span]
  <2>1. new[i] = b[i - (front + span)] /\ i - (front + span) \in 1 .. Len(items) - front
    BY <1>2, <1>7
  <2>2. front + (i - (front + span)) = i - span
    BY <1>2
  <2> QED
    BY <1>4, <2>1, <2>2
<1> QED
  BY <1>7, <1>8, <1>9, <1>10
-----------------------------------------------------------------------------
\* The list is one the invariant describes: no item twice, the node is no
\* item, every item is placed by its reference, which is earlier.
WellPlaced(ops, items) ==
  /\ items \in Seq(ItemType)
  /\ Distinct(items)
  /\ StrId \notin Names(items)
  /\ \A j \in DOMAIN items : Placed(ops, items, j)
  /\ \A id \in Names(items) : Reference(ops, id) \in Timestamp /\ Reference(ops, id).time < id.time

\* The names of items are timestamps.
LEMMA NamesAreTimestamps ==
  ASSUME NEW items \in Seq(ItemType)
  PROVE  /\ Len(items) \in Nat /\ DOMAIN items = 1 .. Len(items)
         /\ \A i \in 1 .. Len(items) : items[i].id \in Timestamp
         /\ Names(items) \subseteq Timestamp
<1>1. Len(items) \in Nat /\ DOMAIN items = 1 .. Len(items)
  OBVIOUS
<1>2. \A i \in 1 .. Len(items) : items[i] \in ItemType
  OBVIOUS
<1>3. \A i \in 1 .. Len(items) : items[i].id \in Timestamp
  BY <1>2 DEF ItemType
<1> QED
  BY <1>1, <1>3 DEF Names

\* No two items stand before each other.
LEMMA BeforeIsAsymmetric ==
  ASSUME NEW items \in Seq(ItemType), Distinct(items), NEW x, NEW y,
         Before(items, x, y), Before(items, y, x)
  PROVE  FALSE
<1>1. PICK i \in DOMAIN items, j \in DOMAIN items :
        i < j /\ items[i].id = x /\ items[j].id = y
  BY DEF Before
<1>2. PICK k \in DOMAIN items, l \in DOMAIN items :
        k < l /\ items[k].id = y /\ items[l].id = x
  BY DEF Before
<1>3. i = l /\ j = k
  BY <1>1, <1>2 DEF Distinct
<1>4. DOMAIN items = 1 .. Len(items) /\ Len(items) \in Nat
  OBVIOUS
<1> QED
  BY <1>1, <1>2, <1>3, <1>4

\* The order of an item and an earlier one is that of its reference and the
\* earlier one: nothing earlier stands between an item and its reference.
LEMMA OrderedByReference ==
  ASSUME NEW ops, NEW items, WellPlaced(ops, items), NEW x \in Names(items), NEW y \in Names(items),
         Less(x, y), NEW p, p = Reference(ops, y)
  PROVE  /\ p = x => Before(items, x, y)
         /\ p = StrId => Before(items, y, x)
         /\ p # x /\ p # StrId =>
              /\ p \in Names(items)
              /\ Before(items, x, y) => Before(items, x, p)
              /\ Before(items, y, x) => Before(items, p, x)
<1>1. /\ items \in Seq(ItemType) /\ Len(items) \in Nat
      /\ DOMAIN items = 1 .. Len(items)
      /\ \A i \in 1 .. Len(items) : items[i].id \in Timestamp
  BY NamesAreTimestamps DEF WellPlaced
<1>2. PICK k \in 1 .. Len(items) : items[k].id = x
  BY <1>1 DEF Names
<1>3. PICK j \in 1 .. Len(items) : items[j].id = y
  BY <1>1 DEF Names
<1>4. PICK i \in 0 .. j - 1 :
        /\ NameOf(items, i) = p
        /\ \A n \in i + 1 .. j - 1 : Less(y, items[n].id)
  BY <1>1, <1>3 DEF WellPlaced, Placed
<1>5. ~Less(y, x)
  BY <1>1, <1>2, <1>3, LessIsAsymmetric
<1>6. k <= i \/ k > j
  <2>1. k # j
    BY <1>1, <1>2, <1>3, LessIsAsymmetric
  <2>2. k \notin i + 1 .. j - 1
    BY <1>2, <1>4, <1>5
  <2> QED
    BY <2>1, <2>2, <1>1
<1>7. \A a, b \in 1 .. Len(items) : a < b => Before(items, items[a].id, items[b].id)
  BY <1>1 DEF Before
<1>8. CASE i = 0
  <2>1. p = StrId /\ k > j /\ x # StrId
    BY <1>1, <1>2, <1>4, <1>6, <1>8 DEF NameOf, WellPlaced
  <2> QED
    BY <1>2, <1>3, <1>7, <2>1
<1>9. CASE i > 0
  <2>1. /\ i \in 1 .. Len(items) /\ i < j /\ items[i].id = p
        /\ p \in Names(items) /\ p # StrId
    BY <1>1, <1>4, <1>9 DEF NameOf, WellPlaced, Names
  <2>2. p = x => Before(items, x, y)
    BY <1>3, <1>7, <2>1
  <2>3. p # x => k # i
    BY <1>2, <2>1
  <2>4. k > j => Before(items, p, x) /\ Before(items, y, x)
    BY <1>1, <1>2, <1>3, <1>7, <2>1
  <2>5. k < i => Before(items, x, p) /\ Before(items, x, y)
    BY <1>1, <1>2, <1>3, <1>7, <2>1
  <2>6. ~(Before(items, x, y) /\ Before(items, y, x))
    BY <1>1, BeforeIsAsymmetric DEF WellPlaced
  <2> QED
    BY <1>1, <1>6, <2>1, <2>2, <2>3, <2>4, <2>5, <2>6
<1> QED
  BY <1>1, <1>4, <1>8, <1>9

\* Two lists with the same items behind the same references never disagree:
\* of two items in different order the later could be replaced by its
\* reference, and the times cannot go down for ever.
LEMMA NeverSwapped ==
  ASSUME NEW ops, NEW a, NEW b, WellPlaced(ops, a), WellPlaced(ops, b), NEW x, NEW y,
         Before(a, x, y), Before(b, y, x)
  PROVE  FALSE
<1> DEFINE Swapped(u, v) == \/ Before(a, u, v) /\ Before(b, v, u)
                            \/ Before(a, v, u) /\ Before(b, u, v)
           sums == {n \in Nat : \E u, v \in Names(a) \cap Names(b) :
                                  Swapped(u, v) /\ n = u.time + v.time}
<1>1. /\ a \in Seq(ItemType) /\ b \in Seq(ItemType) /\ Distinct(a) /\ Distinct(b)
      /\ \A u \in Names(a) \cap Names(b) :
           /\ u \in Timestamp /\ u.time \in Nat
           /\ Reference(ops, u) \in Timestamp /\ Reference(ops, u).time \in Nat
           /\ Reference(ops, u).time < u.time
  <2>1. \A u \in Names(a) \cap Names(b) : u \in Timestamp /\ Reference(ops, u) \in Timestamp
    BY NamesAreTimestamps DEF WellPlaced
  <2> QED
    BY <2>1 DEF WellPlaced, Timestamp
<1>2. \A u, v : Swapped(u, v) => u \in Names(a) \cap Names(b) /\ v \in Names(a) \cap Names(b)
  BY DEF Before, Names
<1>3. x.time + y.time \in sums
  BY <1>1, <1>2
<1>4. PICK m \in sums : \A n \in sums : m <= n
  <2> HIDE DEF sums
  <2>1. sums \subseteq Nat
    BY DEF sums
  <2> QED
    BY <1>3, <2>1, LeastNumber
<1>5. PICK u \in Names(a) \cap Names(b), v \in Names(a) \cap Names(b) :
        Swapped(u, v) /\ m = u.time + v.time
  OBVIOUS
<1>6. ASSUME NEW i \in Names(a) \cap Names(b), NEW j \in Names(a) \cap Names(b),
             Swapped(i, j), Less(i, j), m = i.time + j.time
      PROVE  FALSE
  <2> DEFINE p == Reference(ops, j)
  <2>1. /\ p # i /\ p # StrId
        /\ p \in Names(a) /\ p \in Names(b)
        /\ Before(a, i, j) => Before(a, i, p)
        /\ Before(a, j, i) => Before(a, p, i)
        /\ Before(b, i, j) => Before(b, i, p)
        /\ Before(b, j, i) => Before(b, p, i)
    <3>1. ~(Before(a, i, j) /\ Before(a, j, i)) /\ ~(Before(b, i, j) /\ Before(b, j, i))
      BY <1>1, BeforeIsAsymmetric
    <3>2. /\ p = i => Before(a, i, j) /\ Before(b, i, j)
          /\ p = StrId => Before(a, j, i) /\ Before(b, j, i)
      BY <1>6, OrderedByReference
    <3>3. p # i /\ p # StrId
      BY <1>6, <3>1, <3>2
    <3> HIDE DEF p
    <3> QED
      BY <1>6, <3>3, OrderedByReference DEF p
  <2>2. Swapped(i, p)
    BY <1>6, <2>1
  <2>3. i.time + p.time \in sums /\ i.time + p.time < m
    <3>1. i.time + p.time \in Nat /\ i.time + p.time < m
      BY <1>1, <1>6
    <3> QED
      BY <2>1, <2>2, <3>1
  <2> HIDE DEF sums, p
  <2>4. m <= i.time + p.time /\ m \in Nat
    BY <1>4, <2>3 DEF sums
  <2>5. i.time + p.time \in Nat
    BY <2>3 DEF sums
  <2> QED
    BY <2>3, <2>4, <2>5
<1>7. u # v
  <2>1. \A w : ~Before(a, w, w)
    BY <1>1, BeforeIsAsymmetric
  <2> QED
    BY <1>5, <2>1
<1>8. Swapped(v, u) /\ m = v.time + u.time
  BY <1>1, <1>5
<1> HIDE DEF Swapped, sums
<1>9. Less(u, v) \/ Less(v, u)
  BY <1>1, <1>7, LessIsTotal
<1> QED
  BY <1>5, <1>6, <1>8, <1>9

\* Two lists of the same items, each behind its reference, are in one order.
LEMMA SameItemsSameOrder ==
  ASSUME NEW ops, NEW a, NEW b, WellPlaced(ops, a), WellPlaced(ops, b), Names(a) = Names(b)
  PROVE  Len(a) = Len(b) /\ \A i \in 1 .. Len(a) : a[i].id = b[i].id
<1> DEFINE differ == {i \in 1 .. Len(a) : i > Len(b) \/ a[i].id # b[i].id}
<1>1. /\ Len(a) \in Nat /\ DOMAIN a = 1 .. Len(a)
      /\ Len(b) \in Nat /\ DOMAIN b = 1 .. Len(b)
  BY NamesAreTimestamps DEF WellPlaced
<1>2. /\ \A i \in 1 .. Len(a) : \E k \in 1 .. Len(b) : b[k].id = a[i].id
      /\ \A i \in 1 .. Len(b) : \E k \in 1 .. Len(a) : a[k].id = b[i].id
  BY <1>1 DEF Names
<1>3. /\ \A i, k \in 1 .. Len(a) : a[i].id = a[k].id => i = k
      /\ \A i, k \in 1 .. Len(b) : b[i].id = b[k].id => i = k
  BY <1>1 DEF WellPlaced, Distinct
<1>4. differ = {}
  <2> SUFFICES ASSUME differ # {} PROVE FALSE
    OBVIOUS
  <2>1. PICK m \in differ : \A n \in differ : m <= n
    <3>1. differ \subseteq Nat
      BY <1>1
    <3> HIDE DEF differ
    <3> QED
      BY <3>1, LeastNumber
  <2>2. m \in 1 .. Len(a) /\ (m > Len(b) \/ a[m].id # b[m].id)
    OBVIOUS
  <2>3. ASSUME NEW k \in 1 .. Len(a), k < m
        PROVE  k <= Len(b) /\ a[k].id = b[k].id
    <3>1. k \notin differ
      <4> HIDE DEF differ
      <4> QED
        BY <1>1, <2>1, <2>2, <2>3
    <3> QED
      BY <1>1, <3>1
  <2> HIDE DEF differ
  <2>4. PICK k \in 1 .. Len(b) : b[k].id = a[m].id
    BY <1>2, <2>2
  <2>5. k >= m
    BY <1>1, <1>3, <2>2, <2>3, <2>4
  <2>6. m <= Len(b) /\ a[m].id # b[m].id /\ k > m
    BY <1>1, <2>2, <2>4, <2>5
  <2>7. Before(b, b[m].id, a[m].id)
    BY <1>1, <2>2, <2>4, <2>6 DEF Before
  <2>8. PICK l \in 1 .. Len(a) : a[l].id = b[m].id
    BY <1>1, <1>2, <2>2, <2>6
  <2>9. l > m
    BY <1>1, <1>3, <2>2, <2>3, <2>6, <2>8
  <2>10. Before(a, a[m].id, b[m].id)
    BY <1>1, <2>2, <2>8, <2>9 DEF Before
  <2> QED
    BY <2>7, <2>10, NeverSwapped
<1>5. Len(a) <= Len(b) /\ \A i \in 1 .. Len(a) : a[i].id = b[i].id
  <2>1. \A i \in 1 .. Len(a) : i <= Len(b) /\ a[i].id = b[i].id
    BY <1>1, <1>4
  <2> QED
    BY <1>1, <2>1
<1>6. Len(b) <= Len(a)
  <2> SUFFICES ASSUME Len(a) < Len(b) PROVE FALSE
    BY <1>1
  <2>1. PICK k \in 1 .. Len(a) : a[k].id = b[Len(b)].id
    BY <1>1, <1>2
  <2> QED
    BY <1>1, <1>3, <1>5, <2>1
<1>7. Len(a) = Len(b)
  <2>1. \A m, n \in Nat : m <= n /\ n <= m => m = n
    OBVIOUS
  <2> QED
    BY <1>1, <1>5, <1>6, <2>1, Zenon
<1> QED
  BY <1>5, <1>7, Zenon
-----------------------------------------------------------------------------
(***************************************************************************)
(* Facts about a set of operations: what is known once some are applied,   *)
(* and what an operation that is issued leaves as it was.                  *)
(***************************************************************************)
UniqueIds(ops) == \A p, q \in ops : p.id = q.id => p = q

\* The fields of an operation.
LEMMA OperationFields ==
  ASSUME NEW op \in Operation
  PROVE  /\ op.kind \in {"ins", "del"}
         /\ op.id \in Timestamp /\ op.id.time \in Nat /\ op.id.sid \in Sids
         /\ op.span \in Nat /\ op.span > 0
         /\ op.deps \subseteq Timestamp
         /\ NextTime(op) \in Nat /\ op.id.time < NextTime(op)
         /\ op.kind = "ins" => op.after \in Timestamp
         /\ op.kind = "del" => op.what \subseteq Timestamp /\ op.span = 1
BY DEF Operation, Timestamp, NextTime

\* A run of timestamps starts with its own id.
LEMMA IntervalStarts ==
  ASSUME NEW id \in Timestamp, NEW span \in Nat, span > 0
  PROVE  id \in Interval(id, span)
<1>1. 0 \in 0 .. span - 1 /\ id = Ts(id.sid, id.time + 0)
  BY DEF Ts, Timestamp
<1> QED
  BY <1>1 DEF Interval

\* An interval holds timestamps.
LEMMA IntervalStamps ==
  ASSUME NEW id \in Timestamp, NEW span \in Nat
  PROVE  Interval(id, span) \subseteq Timestamp
BY DEF Interval, Ts, Timestamp

\* Operations that share no timestamp have different ids.
LEMMA DisjointIdsDiffer ==
  ASSUME TypeOK, DisjointOps
  PROVE  UniqueIds(issued)
<1> SUFFICES ASSUME NEW p \in issued, NEW q \in issued, p.id = q.id
             PROVE  p = q
  BY DEF UniqueIds
<1>1. p.id \in Interval(p.id, p.span) /\ q.id \in Interval(q.id, q.span)
  BY OperationFields, IntervalStarts DEF TypeOK
<1> QED
  BY <1>1 DEF DisjointOps

\* The reference of an insertion's first item is the one the insertion names.
LEMMA ReferenceOfInsertion ==
  ASSUME NEW ops, UniqueIds(ops), NEW op \in ops, op.kind = "ins"
  PROVE  Reference(ops, op.id) = op.after
<1> DEFINE found == CHOOSE p \in ops : p.kind = "ins" /\ p.id = op.id
<1>1. found \in ops /\ found.id = op.id
  OBVIOUS
<1>2. found = op
  BY <1>1 DEF UniqueIds
<1> QED
  BY <1>2 DEF Reference

\* An operation that is issued changes the reference of no item but its own.
LEMMA ReferenceStays ==
  ASSUME NEW ops, NEW op, UniqueIds(ops \cup {op}), NEW id, id # op.id
  PROVE  Reference(ops \cup {op}, id) = Reference(ops, id)
<1>1. CASE \E p \in ops : p.kind = "ins" /\ p.id = id
  <2>1. PICK p \in ops : p.kind = "ins" /\ p.id = id
    BY <1>1
  <2>2. Reference(ops \cup {op}, p.id) = p.after /\ Reference(ops, p.id) = p.after
    BY <2>1, ReferenceOfInsertion DEF UniqueIds
  <2> QED
    BY <2>1, <2>2
<1>2. CASE ~\E p \in ops : p.kind = "ins" /\ p.id = id
  <2>1. ~\E p \in ops \cup {op} : p.kind = "ins" /\ p.id = id
    BY <1>2
  <2> QED
    BY <1>2, <2>1 DEF Reference
<1> QED
  BY <1>1, <1>2

\* It adds nothing to what the operations before it make known.
LEMMA KnownStays ==
  ASSUME NEW ops, NEW op, UniqueIds(ops \cup {op}), NEW ids, ids \subseteq Ids(ops)
  PROVE  /\ Insertions(ops \cup {op}, ids) = Insertions(ops, ids)
         /\ Deletions(ops \cup {op}, ids) = Deletions(ops, ids)
         /\ Known(ops \cup {op}, ids) = Known(ops, ids)
<1>1. op.id \in ids => op \in ops
  BY DEF UniqueIds, Ids
<1>2. /\ Insertions(ops \cup {op}, ids) = Insertions(ops, ids)
      /\ Deletions(ops \cup {op}, ids) = Deletions(ops, ids)
  BY <1>1 DEF Insertions, Deletions
<1> QED
  BY <1>2 DEF Known

\* What an insertion adds to what is known once it is applied.
LEMMA KnownGrows ==
  ASSUME NEW ops, NEW op \in ops, UniqueIds(ops), NEW ids
  PROVE  /\ op.kind = "ins" =>
              /\ Known(ops, ids \cup {op.id}) = Known(ops, ids) \cup Interval(op.id, op.span)
              /\ Deletions(ops, ids \cup {op.id}) = Deletions(ops, ids)
         /\ op.kind = "del" =>
              /\ Known(ops, ids \cup {op.id}) = Known(ops, ids)
              /\ Deletions(ops, ids \cup {op.id}) = Deletions(ops, ids) \cup {op}
<1>1. \A p \in ops : p.id \in ids \cup {op.id} <=> p.id \in ids \/ p = op
  BY DEF UniqueIds
<1>2. CASE op.kind = "ins"
  <2>1. Insertions(ops, ids \cup {op.id}) = Insertions(ops, ids) \cup {op}
    BY <1>1, <1>2 DEF Insertions
  <2>2. Deletions(ops, ids \cup {op.id}) = Deletions(ops, ids)
    BY <1>1, <1>2 DEF Deletions
  <2>3. Known(ops, ids \cup {op.id}) = Known(ops, ids) \cup Interval(op.id, op.span)
    BY <2>1 DEF Known
  <2> QED
    BY <1>2, <2>2, <2>3
<1>3. CASE op.kind = "del"
  <2>1. Insertions(ops, ids \cup {op.id}) = Insertions(ops, ids)
    BY <1>1, <1>3 DEF Insertions
  <2>2. Deletions(ops, ids \cup {op.id}) = Deletions(ops, ids) \cup {op}
    BY <1>1, <1>3 DEF Deletions
  <2>3. Known(ops, ids \cup {op.id}) = Known(ops, ids)
    BY <2>1 DEF Known
  <2> QED
    BY <1>3, <2>2, <2>3
<1>4. CASE op.kind \notin {"ins", "del"}
  BY <1>4
<1> QED
  BY <1>2, <1>3, <1>4

\* More operations bring more items.
LEMMA KnownIsMonotonic ==
  ASSUME NEW ops, NEW ids, NEW more, ids \subseteq more
  PROVE  Known(ops, ids) \subseteq Known(ops, more)
BY DEF Known, Insertions
-----------------------------------------------------------------------------
(***************************************************************************)
(* What the invariant says of the lists.                                   *)
(***************************************************************************)
LEMMA FirstRunStamps ==
  ASSUME NEW id \in FirstRun
  PROVE  /\ id \in Timestamp /\ id.sid = Author
         /\ FirstTime <= id.time /\ id.time < FirstTime + InitLen
BY Constants DEF FirstRun, Interval, Ts, Timestamp

\* An item comes after the node, and before the operations that may name it.
LEMMA KnownStamps ==
  ASSUME TypeOK, ClocksAhead, NEW ids, NEW id \in Known(issued, ids)
  PROVE  id \in Timestamp /\ FirstTime <= id.time /\ id # StrId
<1>1. CASE id \in FirstRun
  BY <1>1, FirstRunStamps, Constants DEF FirstTime
<1>2. CASE id \notin FirstRun
  <2>1. PICK p \in Insertions(issued, ids) : id \in Interval(p.id, p.span)
    BY <1>2 DEF Known
  <2>2. /\ p \in issued /\ p.id \in Timestamp /\ p.span \in Nat /\ p.id.time \in Nat
    BY <2>1, OperationFields DEF TypeOK, Insertions
  <2>3. id \in Timestamp /\ id.time \in Nat /\ p.id.time <= id.time
    BY <2>1, <2>2, IntervalBounds, IntervalStamps
  <2>4. FirstTime + InitLen <= p.id.time
    BY <2>2 DEF ClocksAhead
  <2> QED
    BY <2>2, <2>3, <2>4, Constants DEF FirstTime
<1> QED
  BY <1>1, <1>2

\* The items an author had are earlier than what it issues.
LEMMA DepsAreEarlier ==
  ASSUME TypeOK, ClocksAhead, Causal, NEW op \in issued, NEW id \in Known(issued, op.deps)
  PROVE  id.time < op.id.time
<1>0. op.id.time \in Nat /\ FirstTime + InitLen <= op.id.time
  BY OperationFields DEF TypeOK, ClocksAhead
<1>1. CASE id \in FirstRun
  BY <1>0, <1>1, FirstRunStamps, Constants DEF Timestamp
<1>2. CASE id \notin FirstRun
  <2>1. PICK p \in Insertions(issued, op.deps) : id \in Interval(p.id, p.span)
    BY <1>2 DEF Known
  <2>2. /\ p \in issued /\ p.id \in op.deps
        /\ p.id \in Timestamp /\ p.span \in Nat /\ p.id.time \in Nat
    BY <2>1, OperationFields DEF TypeOK, Insertions
  <2>3. id.time \in Nat /\ id.time < p.id.time + p.span
    BY <2>1, <2>2, IntervalBounds
  <2>4. NextTime(p) <= op.id.time
    BY <2>2 DEF Causal
  <2> QED
    BY <1>0, <2>2, <2>3, <2>4 DEF NextTime
<1> QED
  BY <1>1, <1>2

\* A reference is earlier than what refers to it.
LEMMA ReferencesAreEarlier ==
  ASSUME TypeOK, ClocksAhead, Causal, DisjointOps, RefersToKnown,
         NEW ids, NEW id \in Known(issued, ids)
  PROVE  Reference(issued, id) \in Timestamp /\ Reference(issued, id).time < id.time
<1>1. /\ id \in Timestamp /\ id.sid \in Sids /\ id.time \in Nat /\ id.time >= 3
  BY KnownStamps DEF FirstTime, Timestamp
<1>2. CASE \E op \in issued : op.kind = "ins" /\ op.id = id
  <2>1. PICK op \in issued : op.kind = "ins" /\ op.id = id
    BY <1>2
  <2>2. Reference(issued, id) = op.after
    BY <2>1, DisjointIdsDiffer, ReferenceOfInsertion
  <2>3. op.after \in {StrId} \cup Known(issued, op.deps)
    BY <2>1 DEF RefersToKnown
  <2>4. CASE op.after = StrId
    BY <1>1, <2>2, <2>4, Constants
  <2>5. CASE op.after \in Known(issued, op.deps)
    BY <2>1, <2>2, <2>5, DepsAreEarlier, KnownStamps
  <2> QED
    BY <2>3, <2>4, <2>5
<1>3. CASE ~\E op \in issued : op.kind = "ins" /\ op.id = id
  <2>1. CASE id = Ts(Author, FirstTime)
    BY <1>1, <1>3, <2>1, Constants DEF Reference
  <2>2. CASE id # Ts(Author, FirstTime)
    <3>1. Reference(issued, id) = Ts(id.sid, id.time - 1)
      BY <1>3, <2>2 DEF Reference
    <3> QED
      BY <1>1, <3>1 DEF Ts, Timestamp
  <2> QED
    BY <2>1, <2>2
<1> QED
  BY <1>2, <1>3

\* The lists of all replicas are well placed.
LEMMA ListsAreWellPlaced ==
  ASSUME IInv, NEW s \in Sids
  PROVE  WellPlaced(issued, text[s])
<1>1. text[s] \in Seq(ItemType)
  BY DEF IInv, TypeOK, ItemType
<1>2. Distinct(text[s])
  BY DEF IInv, Contents, Distinct
<1>3. Names(text[s]) = Known(issued, applied[s])
  BY DEF IInv, Contents
<1>4. StrId \notin Names(text[s])
  BY <1>3, KnownStamps DEF IInv
<1>5. \A id \in Names(text[s]) :
        Reference(issued, id) \in Timestamp /\ Reference(issued, id).time < id.time
  BY <1>3, ReferencesAreEarlier DEF IInv
<1> QED
  BY <1>1, <1>2, <1>4, <1>5 DEF WellPlaced, IInv, AllPlaced

\* Replicas with the same operations hold the same list.
LEMMA ListsConverge == IInv => Converged
<1> SUFFICES ASSUME IInv, NEW s \in Sids, NEW t \in Sids, applied[s] = applied[t]
             PROVE  text[s] = text[t]
  BY DEF Converged
<1> DEFINE a == text[s]
           b == text[t]
<1>1. WellPlaced(issued, a) /\ WellPlaced(issued, b)
  BY ListsAreWellPlaced
<1>2. Names(a) = Names(b)
  BY DEF IInv, Contents
<1>3. /\ \A i \in DOMAIN a :
           a[i].live <=> \A op \in Deletions(issued, applied[s]) : a[i].id \notin op.what
      /\ \A i \in DOMAIN b :
           b[i].live <=> \A op \in Deletions(issued, applied[s]) : b[i].id \notin op.what
  BY DEF IInv, Contents
<1>4. a \in Seq(ItemType) /\ b \in Seq(ItemType)
  BY <1>1 DEF WellPlaced
<1> HIDE DEF a, b
<1>5. Len(a) = Len(b) /\ \A i \in 1 .. Len(a) : a[i].id = b[i].id
  BY <1>1, <1>2, SameItemsSameOrder
<1>6. ASSUME NEW i \in 1 .. Len(a)
      PROVE  a[i] = b[i]
  <2>1. i \in DOMAIN a /\ i \in DOMAIN b /\ a[i].id = b[i].id
    BY <1>4, <1>5
  <2>2. a[i] \in ItemType /\ b[i] \in ItemType
    BY <1>4, <1>5
  <2>3. a[i].live <=> b[i].live
    BY <1>3, <2>1
  <2>4. a[i].live = b[i].live
    BY <2>2, <2>3 DEF ItemType
  <2> QED
    BY <2>1, <2>2, <2>4 DEF ItemType
<1>7. a = b
  BY <1>4, <1>5, <1>6, SeqEqual
<1> QED
  BY <1>7 DEF a, b

\* No two replicas disagree on the order of two items.
LEMMA ListsAgree == IInv => OrderAgreed
BY ListsAreWellPlaced, NeverSwapped DEF OrderAgreed, Compatible
-----------------------------------------------------------------------------
(***************************************************************************)
(* An insertion keeps every item behind its reference with only later ones *)
(* between: the walk stopped at the first item that is earlier than the    *)
(* new ones, so what it pushes back is earlier than they are.              *)
(***************************************************************************)
LEMMA InsertionKeepsPlaces ==
  ASSUME NEW ops, NEW op \in Operation, op.kind = "ins", UniqueIds(ops \cup {op}),
         NEW items \in Seq(ItemType), StrId \notin Names(items),
         \A j \in DOMAIN items : Placed(ops, items, j),
         Names(items) \cap Interval(op.id, op.span) = {},
         op.after \in {StrId} \cup Names(items),
         \A p \in ops : p # op => p.id \notin Interval(op.id, op.span),
         Ts(Author, FirstTime) \notin Interval(op.id, op.span) \ {op.id},
         NEW new, new = Inserted(items, op)
  PROVE  \A j \in DOMAIN new : Placed(ops \cup {op}, new, j)
<1> DEFINE span == op.span
           front == FrontOf(items, op.after, op.id)
           ref == PlaceOf(items, op.after)
           more == ops \cup {op}
<1>1. /\ op.id \in Timestamp /\ op.id.time \in Nat /\ op.id.sid \in Sids
      /\ span \in Nat /\ span > 0
  BY OperationFields
<1>2. op.id \notin Names(items) /\ op.id \in Interval(op.id, op.span)
  BY <1>1, IntervalStarts
<1>3. /\ Len(items) \in Nat /\ DOMAIN items = 1 .. Len(items)
      /\ \A i \in 1 .. Len(items) : items[i].id \in Timestamp
  BY NamesAreTimestamps
<1>4. /\ ref \in 0 .. Len(items) /\ NameOf(items, ref) = op.after
  BY PlaceOfNames DEF NameOf
<1>5. /\ front \in ref .. Len(items) /\ front \in 0 .. Len(items)
      /\ front = Len(items) \/ Less(items[front + 1].id, op.id)
      /\ \A k \in ref + 1 .. front : ~Less(items[k].id, op.id)
  BY FrontStops
<1>6. /\ new \in Seq(ItemType)
      /\ Len(new) = Len(items) + span
      /\ \A i \in 1 .. front : new[i] = items[i]
      /\ \A i \in front + 1 .. front + span :
           new[i] = Item(Ts(op.id.sid, op.id.time + (i - front - 1)))
      /\ \A i \in front + span + 1 .. Len(items) + span : new[i] = items[i - span]
  <2>1. front = FrontOf(items, op.after, op.id) /\ op.span = span
    OBVIOUS
  <2> HIDE DEF front, span
  <2> QED
    <3>1. /\ op.id \in Timestamp /\ span \in Nat /\ op.id \notin Names(items)
          /\ front \in 0 .. Len(items)
      BY <1>1, <1>2, <1>5
    <3> QED
      BY <2>1, <3>1, InsertedShape
<1>7. DOMAIN new = 1 .. Len(items) + span
  BY <1>6
<1>8. \A i \in 1 .. Len(items) : Reference(more, items[i].id) = Reference(ops, items[i].id)
  <2> SUFFICES ASSUME NEW i \in 1 .. Len(items)
               PROVE  Reference(more, items[i].id) = Reference(ops, items[i].id)
    OBVIOUS
  <2>1. items[i].id \in Names(items)
    BY <1>3 DEF Names
  <2>2. items[i].id # op.id
    BY <1>2, <2>1
  <2> QED
    BY <2>2, ReferenceStays
<1>9. Reference(more, op.id) = op.after
  BY ReferenceOfInsertion
<1>10. \A n \in 1 .. span - 1 :
         Reference(more, Ts(op.id.sid, op.id.time + n)) = Ts(op.id.sid, op.id.time + (n - 1))
  <2> SUFFICES ASSUME NEW n \in 1 .. span - 1
               PROVE  Reference(more, Ts(op.id.sid, op.id.time + n))
                        = Ts(op.id.sid, op.id.time + (n - 1))
    OBVIOUS
  <2> DEFINE id == Ts(op.id.sid, op.id.time + n)
  <2>1. id \in Interval(op.id, op.span) /\ id # op.id
    <3>1. n \in 0 .. op.span - 1
      BY <1>1
    <3>2. id.time # op.id.time
      BY <1>1 DEF Ts
    <3> QED
      BY <3>1, <3>2 DEF Interval
  <2>2. ~\E p \in more : p.kind = "ins" /\ p.id = id
    BY <2>1
  <2>3. id # Ts(Author, FirstTime)
    BY <2>1
  <2>4. id.sid = op.id.sid /\ id.time - 1 = op.id.time + (n - 1)
    BY <1>1 DEF Ts
  <2> HIDE DEF id
  <2>5. Reference(more, id) = Ts(id.sid, id.time - 1)
    BY <2>2, <2>3 DEF Reference
  <2> QED
    BY <2>4, <2>5 DEF id
<1> DEFINE len == Len(items)
<1>a. /\ len \in Nat /\ front \in Nat /\ ref \in Nat /\ span \in Nat /\ span > 0
      /\ ref <= front /\ front <= len
  BY <1>1, <1>3, <1>4, <1>5
<1>b. /\ \A i \in Nat : 1 <= i /\ i <= front => new[i] = items[i]
      /\ \A i \in Nat : front < i /\ i <= front + span =>
           new[i].id = Ts(op.id.sid, op.id.time + (i - front - 1))
      /\ \A i \in Nat : front + span < i /\ i <= len + span => new[i] = items[i - span]
  <2>1. \A id : Item(id).id = id
    BY DEF Item
  <2> HIDE DEF front, span
  <2> QED
    BY <1>6, <1>a, <2>1
<1> HIDE DEF front, ref, more, span, len
<1>11. \A i \in 0 .. front : NameOf(new, i) = NameOf(items, i)
  BY <1>5, <1>6 DEF NameOf
<1>12. ASSUME NEW x \in Timestamp, Less(x, op.id), NEW n \in Nat
       PROVE  Less(x, Ts(op.id.sid, op.id.time + n))
  <2>1. x.time \in Nat /\ x.sid \in Nat /\ op.id.sid \in Nat
    BY <1>1, SidsAboveReserved DEF Timestamp
  <2> QED
    BY <1>1, <1>12, <2>1 DEF Less, Ts
<1> SUFFICES ASSUME NEW j \in 1 .. Len(items) + span
             PROVE  Placed(more, new, j)
  BY <1>7 DEF more
<1>13. CASE j <= front
  <2>1. j \in 1 .. Len(items) /\ new[j] = items[j]
    BY <1>3, <1>5, <1>6, <1>13
  <2>2. PICK i \in 0 .. j - 1 :
          /\ NameOf(items, i) = Reference(ops, items[j].id)
          /\ \A k \in i + 1 .. j - 1 : Less(items[j].id, items[k].id)
    BY <1>3, <2>1 DEF Placed
  <2>3. NameOf(new, i) = Reference(more, new[j].id)
    BY <1>5, <1>8, <1>11, <1>13, <2>1, <2>2
  <2>4. \A k \in i + 1 .. j - 1 : Less(new[j].id, new[k].id)
    BY <1>5, <1>6, <1>13, <2>1, <2>2
  <2> QED
    BY <2>2, <2>3, <2>4 DEF Placed
<1>14. CASE j = front + 1
  <2>1. new[j].id = op.id
    <3>1. new[j].id = Ts(op.id.sid, op.id.time + (j - front - 1)) /\ j - front - 1 = 0
      BY <1>a, <1>b, <1>14
    <3> QED
      BY <1>1, <3>1 DEF Ts, Timestamp
  <2>2. ref \in 0 .. j - 1 /\ NameOf(new, ref) = Reference(more, new[j].id)
    BY <1>4, <1>5, <1>9, <1>11, <1>14, <2>1
  <2>3. ASSUME NEW k \in ref + 1 .. j - 1
        PROVE  Less(new[j].id, new[k].id)
    <3>1. k \in 1 .. Len(items) /\ new[k] = items[k] /\ ~Less(items[k].id, op.id)
      BY <1>5, <1>a, <1>b, <1>14 DEF len
    <3>2. items[k].id \in Timestamp /\ items[k].id # op.id
      BY <1>2, <1>3, <3>1 DEF Names
    <3> QED
      BY <1>1, <2>1, <3>1, <3>2, LessIsTotal
  <2> QED
    BY <2>2, <2>3 DEF Placed
<1>15. CASE j \in front + 2 .. front + span
  <2> DEFINE n == j - front - 1
  <2>1. n \in 1 .. span - 1 /\ j - 1 \in front + 1 .. front + span /\ j - 1 - front - 1 = n - 1
        /\ j - 1 \in 0 .. j - 1 /\ j - 1 # 0
    BY <1>1, <1>5, <1>15
  <2>2. new[j].id = Ts(op.id.sid, op.id.time + n)
    BY <1>a, <1>b, <1>15
  <2>3. NameOf(new, j - 1) = Ts(op.id.sid, op.id.time + (n - 1))
    <3>1. NameOf(new, j - 1) = new[j - 1].id
      BY <2>1 DEF NameOf
    <3>2. new[j - 1].id = Ts(op.id.sid, op.id.time + (j - 1 - front - 1))
      BY <1>a, <1>b, <1>15
    <3> QED
      BY <2>1, <3>1, <3>2
  <2>4. NameOf(new, j - 1) = Reference(more, new[j].id)
    BY <1>10, <2>1, <2>2, <2>3
  <2>5. \A k \in (j - 1) + 1 .. j - 1 : Less(new[j].id, new[k].id)
    BY <1>5, <1>15
  <2> QED
    BY <2>1, <2>4, <2>5 DEF Placed
<1>16. CASE j > front + span
  <2> DEFINE old == j - span
             x == items[old].id
  <2>1. old \in 1 .. Len(items) /\ old > front /\ new[j] = items[old]
    BY <1>a, <1>b, <1>16 DEF len
  <2>2. PICK i \in 0 .. old - 1 :
          /\ NameOf(items, i) = Reference(ops, x)
          /\ \A k \in i + 1 .. old - 1 : Less(x, items[k].id)
    BY <1>3, <2>1 DEF Placed
  <2>3. x \in Timestamp /\ new[j].id = x /\ Reference(more, x) = Reference(ops, x)
    BY <1>3, <1>8, <2>1
  <2> HIDE DEF x
  <2>4. CASE i > front
    <3>1. i + span \in 0 .. j - 1 /\ i + span # 0 /\ i # 0 /\ new[i + span] = items[i]
      <4>1. i + span \in Nat /\ front + span < i + span /\ i + span <= len + span
        BY <1>a, <2>1, <2>2, <2>4 DEF len
      <4>2. new[i + span] = items[(i + span) - span]
        BY <1>b, <4>1
      <4>3. (i + span) - span = i /\ i + span \in 0 .. j - 1 /\ i + span # 0 /\ i # 0
        BY <1>a, <2>1, <2>2, <2>4
      <4> QED
        BY <4>2, <4>3
    <3>2. NameOf(new, i + span) = Reference(more, new[j].id)
      BY <2>2, <2>3, <3>1 DEF NameOf
    <3>3. ASSUME NEW k \in i + span + 1 .. j - 1
          PROVE  Less(new[j].id, new[k].id)
      <4>1. k - span \in i + 1 .. old - 1 /\ new[k] = items[k - span]
        <5>1. k \in Nat /\ front + span < k /\ k <= len + span
          BY <1>a, <2>1, <2>2, <2>4 DEF len
        <5> QED
          BY <1>a, <1>b, <5>1
      <4> QED
        BY <2>2, <2>3, <4>1
    <3> QED
      BY <3>1, <3>2, <3>3 DEF Placed
  <2>5. CASE i <= front
    <3>1. i \in 0 .. j - 1 /\ i \in 0 .. front
      BY <1>1, <1>5, <2>1, <2>2, <2>5
    <3>2. NameOf(new, i) = Reference(more, new[j].id)
      BY <1>11, <2>2, <2>3, <3>1
    <3>3. Less(x, op.id)
      <4>1. front + 1 \in 1 .. Len(items) /\ Less(items[front + 1].id, op.id)
        BY <1>5, <1>a, <2>1 DEF len
      <4>2. CASE old = front + 1
        BY <4>1, <4>2 DEF x
      <4>3. CASE old > front + 1
        <5>1. Less(x, items[front + 1].id)
          BY <1>5, <2>1, <2>2, <2>5, <4>3
        <5> QED
          BY <1>1, <1>3, <2>3, <4>1, <5>1, LessIsTransitive
      <4> QED
        BY <1>5, <2>1, <4>2, <4>3
    <3>4. ASSUME NEW k \in i + 1 .. j - 1
          PROVE  Less(new[j].id, new[k].id)
      <4>1. CASE k <= front
        <5>1. k \in i + 1 .. old - 1 /\ new[k] = items[k]
          BY <1>5, <1>6, <2>1, <2>2, <4>1
        <5> QED
          BY <2>2, <2>3, <5>1
      <4>2. CASE k \in front + 1 .. front + span
        <5>1. new[k].id = Ts(op.id.sid, op.id.time + (k - front - 1))
          BY <1>a, <1>b, <4>2
        <5>2. k - front - 1 \in Nat
          BY <1>1, <1>5, <4>2
        <5> QED
          BY <1>12, <2>3, <3>3, <5>1, <5>2
      <4>3. CASE k > front + span
        <5>1. k - span \in i + 1 .. old - 1 /\ new[k] = items[k - span]
          <6>1. k \in Nat /\ front + span < k /\ k <= len + span
            BY <1>a, <2>1, <2>2, <2>5, <4>3 DEF len
          <6> QED
            BY <1>a, <1>b, <2>2, <2>5, <6>1
        <5> QED
          BY <2>2, <2>3, <5>1
      <4> QED
        BY <1>1, <1>5, <2>2, <4>1, <4>2, <4>3
    <3> QED
      BY <3>1, <3>2, <3>4 DEF Placed
  <2> QED
    BY <1>5, <2>2, <2>4, <2>5
<1> QED
  BY <1>1, <1>5, <1>13, <1>14, <1>15, <1>16

\* The items of `new` are items of `items`, or show and have one of the ids.
OldOrNew(items, new, ids) ==
  \A j \in DOMAIN new :
    \/ \E i \in DOMAIN items : new[j] = items[i]
    \/ new[j].id \in ids /\ new[j].live = TRUE

\* An insertion adds its items, which show, and moves no other out of the list.
LEMMA InsertionAddsItems ==
  ASSUME NEW op \in Operation, op.kind = "ins",
         NEW items \in Seq(ItemType), Distinct(items),
         Names(items) \cap Interval(op.id, op.span) = {},
         NEW new, new = Inserted(items, op)
  PROVE  /\ new \in Seq(ItemType)
         /\ Distinct(new)
         /\ Names(new) = Names(items) \cup Interval(op.id, op.span)
         /\ OldOrNew(items, new, Interval(op.id, op.span))
<1> DEFINE span == op.span
           front == FrontOf(items, op.after, op.id)
           len == Len(items)
           Stamp(n) == Ts(op.id.sid, op.id.time + n)
<1>1. /\ op.id \in Timestamp /\ op.id.time \in Nat /\ op.id.sid \in Sids
      /\ span \in Nat /\ span > 0
  BY OperationFields
<1>2. op.id \notin Names(items)
  BY <1>1, IntervalStarts
<1>3. len \in Nat /\ DOMAIN items = 1 .. len /\ front \in 0 .. len
  BY NamesAreTimestamps, FrontStops
<1>4. /\ new \in Seq(ItemType)
      /\ Len(new) = Len(items) + span
      /\ \A i \in 1 .. front : new[i] = items[i]
      /\ \A i \in front + 1 .. front + span :
           new[i] = Item(Ts(op.id.sid, op.id.time + (i - front - 1)))
      /\ \A i \in front + span + 1 .. Len(items) + span : new[i] = items[i - span]
  <2>1. front = FrontOf(items, op.after, op.id) /\ op.span = span
    OBVIOUS
  <2>2. front \in 0 .. Len(items) /\ op.id \in Timestamp /\ span \in Nat
    BY <1>1, <1>3
  <2> HIDE DEF front, span
  <2> QED
    BY <1>2, <2>1, <2>2, InsertedShape
<1>5. Interval(op.id, op.span) = {Stamp(n) : n \in 0 .. span - 1}
  BY DEF Interval
<1>6. \A m, n \in Nat : Stamp(m) = Stamp(n) => m = n
  <2> SUFFICES ASSUME NEW m \in Nat, NEW n \in Nat, Stamp(m) = Stamp(n)
               PROVE  m = n
    OBVIOUS
  <2>1. Stamp(m).time = op.id.time + m /\ Stamp(n).time = op.id.time + n
    BY DEF Ts
  <2> QED
    BY <1>1, <2>1
<1>7. DOMAIN new = 1 .. len + span
  BY <1>4
<1> HIDE DEF front, span, len, Stamp
<1>8. front \in Nat /\ front <= len
  BY <1>3
<1>9. /\ \A i \in Nat : 1 <= i /\ i <= front => new[i] = items[i]
      /\ \A i \in Nat : front < i /\ i <= front + span =>
           new[i].id = Stamp(i - front - 1) /\ new[i].live = TRUE
      /\ \A i \in Nat : front + span < i /\ i <= len + span => new[i] = items[i - span]
  <2>1. \A id : Item(id).id = id /\ Item(id).live = TRUE
    BY DEF Item
  <2> QED
    BY <1>1, <1>3, <1>4, <2>1 DEF len, Stamp
\* Where an item was before: it is old or one of the new ones.
<1> DEFINE Old(j) == IF j <= front THEN j ELSE j - span
           IsOld(j) == j <= front \/ j > front + span
<1>10. ASSUME NEW j \in 1 .. len + span
       PROVE  IF IsOld(j)
              THEN Old(j) \in 1 .. len /\ new[j] = items[Old(j)]
              ELSE /\ j - front - 1 \in 0 .. span - 1
                   /\ new[j].id = Stamp(j - front - 1) /\ new[j].live = TRUE
  <2>1. CASE j <= front
    BY <1>1, <1>3, <1>8, <1>9, <2>1
  <2>2. CASE front < j /\ j <= front + span
    <3>1. new[j].id = Stamp(j - front - 1) /\ new[j].live = TRUE
      BY <1>1, <1>3, <1>8, <1>9, <2>2
    <3> QED
      BY <1>1, <1>3, <1>8, <2>2, <3>1
  <2>3. CASE j > front + span
    <3>1. new[j] = items[j - span]
      BY <1>1, <1>3, <1>8, <1>9, <2>3
    <3> QED
      BY <1>1, <1>3, <1>8, <2>3, <3>1
  <2>4. j <= front \/ (front < j /\ j <= front + span) \/ j > front + span
    BY <1>1, <1>3, <1>8
  <2> QED
    BY <2>1, <2>2, <2>3, <2>4
<1>11. \A j \in 1 .. len + span :
         IF IsOld(j) THEN new[j].id \in Names(items)
                     ELSE new[j].id \in Interval(op.id, op.span)
  BY <1>3, <1>5, <1>10 DEF Names
<1>12. Distinct(new)
  <2> SUFFICES ASSUME NEW i \in 1 .. len + span, NEW j \in 1 .. len + span,
                      new[i].id = new[j].id
               PROVE  i = j
    BY <1>7 DEF Distinct
  <2>1. IsOld(i) <=> IsOld(j)
    <3> HIDE DEF IsOld
    <3> QED
      BY <1>11
  <2>2. CASE IsOld(i)
    <3>1. Old(i) = Old(j)
      <4> HIDE DEF IsOld, Old
      <4> QED
        <5>1. /\ Old(i) \in 1 .. len /\ new[i] = items[Old(i)]
              /\ Old(j) \in 1 .. len /\ new[j] = items[Old(j)]
          BY <1>10, <2>1, <2>2
        <5>2. Old(i) \in DOMAIN items /\ Old(j) \in DOMAIN items
          BY <1>3, <5>1
        <5> QED
          BY <5>1, <5>2 DEF Distinct
    <3> QED
      BY <1>1, <1>3, <1>8, <2>1, <2>2, <3>1
  <2>3. CASE ~IsOld(i)
    <3>1. i - front - 1 = j - front - 1
      <4> HIDE DEF IsOld, Old
      <4>1. /\ i - front - 1 \in 0 .. span - 1 /\ new[i].id = Stamp(i - front - 1)
            /\ j - front - 1 \in 0 .. span - 1 /\ new[j].id = Stamp(j - front - 1)
        BY <1>10, <2>1, <2>3
      <4>2. i - front - 1 \in Nat /\ j - front - 1 \in Nat
        BY <1>1, <4>1
      <4> QED
        BY <1>6, <4>1, <4>2
    <3> QED
      BY <1>8, <3>1
  <2> QED
    BY <2>2, <2>3
<1>13. Names(new) = Names(items) \cup Interval(op.id, op.span)
  <2>1. Names(new) \subseteq Names(items) \cup Interval(op.id, op.span)
    BY <1>7, <1>11 DEF Names
  <2>2. ASSUME NEW id \in Names(items)
        PROVE  id \in Names(new)
    <3>1. PICK i \in 1 .. len : items[i].id = id
      BY <1>3 DEF Names
    <3>2. CASE i <= front
      <4>1. new[i] = items[i] /\ i \in 1 .. len + span
        BY <1>1, <1>3, <1>8, <1>9, <3>2
      <4> QED
        BY <1>7, <3>1, <4>1 DEF Names
    <3>3. CASE i > front
      <4>1. /\ i + span \in Nat /\ front + span < i + span /\ i + span <= len + span
            /\ (i + span) - span = i /\ i + span \in 1 .. len + span
        BY <1>1, <1>3, <1>8, <3>3
      <4>2. new[i + span] = items[i]
        BY <1>9, <4>1
      <4> QED
        BY <1>7, <3>1, <4>1, <4>2 DEF Names
    <3> QED
      BY <1>8, <3>2, <3>3
  <2>3. ASSUME NEW id \in Interval(op.id, op.span)
        PROVE  id \in Names(new)
    <3>1. PICK n \in 0 .. span - 1 : id = Stamp(n)
      BY <1>5
    <3>2. /\ front + 1 + n \in Nat /\ front < front + 1 + n /\ front + 1 + n <= front + span
          /\ (front + 1 + n) - front - 1 = n /\ front + 1 + n \in 1 .. len + span
      BY <1>1, <1>3, <1>8
    <3>3. new[front + 1 + n].id = Stamp(n)
      BY <1>9, <3>2
    <3> QED
      BY <1>7, <3>1, <3>2, <3>3 DEF Names
  <2> QED
    BY <2>1, <2>2, <2>3
<1>14. ASSUME NEW j \in DOMAIN new
       PROVE  \/ \E i \in DOMAIN items : new[j] = items[i]
              \/ new[j].id \in Interval(op.id, op.span) /\ new[j].live = TRUE
  <2> HIDE DEF IsOld, Old
  <2> QED
    BY <1>3, <1>7, <1>10, <1>11
<1> QED
  BY <1>4, <1>12, <1>13, <1>14 DEF OldOrNew

\* A deletion hides the items it names and keeps the list as it is otherwise.
LEMMA DeletionHidesItems ==
  ASSUME NEW op, NEW items \in Seq(ItemType), NEW new, new = Deleted(items, op)
  PROVE  /\ new \in Seq(ItemType)
         /\ Len(new) = Len(items) /\ DOMAIN new = DOMAIN items
         /\ Names(new) = Names(items)
         /\ \A i \in DOMAIN items :
              /\ new[i].id = items[i].id
              /\ new[i].live <=> items[i].live /\ items[i].id \notin op.what
<1>1. /\ Len(items) \in Nat /\ DOMAIN items = 1 .. Len(items)
      /\ \A i \in 1 .. Len(items) : items[i] \in ItemType
  OBVIOUS
<1>2. \A i \in 1 .. Len(items) :
        /\ new[i] \in ItemType
        /\ new[i].id = items[i].id
        /\ new[i].live <=> items[i].live /\ items[i].id \notin op.what
  BY <1>1 DEF Deleted, ItemType
<1>3. DOMAIN new = 1 .. Len(items) /\ new = [i \in 1 .. Len(items) |-> new[i]]
  BY <1>1 DEF Deleted
<1>4. new \in Seq(ItemType) /\ Len(new) = Len(items)
  BY <1>1, <1>2, <1>3
<1>5. Names(new) = Names(items)
  BY <1>1, <1>2, <1>3 DEF Names
<1> QED
  BY <1>1, <1>2, <1>3, <1>4, <1>5
-----------------------------------------------------------------------------
(***************************************************************************)
(* One operation applied by one replica, for the first time or again.      *)
(***************************************************************************)
\* An item is known only once the operation that created it is applied.
LEMMA KnownOnceApplied ==
  ASSUME NEW ops \in SUBSET Operation,
         \A p, q \in ops : p # q => Interval(p.id, p.span) \cap Interval(q.id, q.span) = {},
         \A p \in ops : FirstTime + InitLen <= p.id.time,
         NEW op \in ops, NEW ids, NEW id \in Interval(op.id, op.span) \cap Known(ops, ids)
  PROVE  op.id \in ids
<1>1. op.id \in Timestamp /\ op.span \in Nat /\ op.id.time \in Nat
  BY OperationFields
<1>2. id \notin FirstRun
  <2> SUFFICES ASSUME id \in FirstRun PROVE FALSE
    OBVIOUS
  <2>1. id.time \in Nat /\ op.id.time <= id.time
    BY <1>1, IntervalBounds
  <2>2. id.time < FirstTime + InitLen
    BY FirstRunStamps
  <2>3. FirstTime + InitLen <= op.id.time
    OBVIOUS
  <2> QED
    BY <1>1, <2>1, <2>2, <2>3, Constants
<1>3. PICK p \in Insertions(ops, ids) : id \in Interval(p.id, p.span)
  BY <1>2 DEF Known
<1>4. p \in ops /\ p.id \in ids
  BY <1>3 DEF Insertions
<1> QED
  BY <1>3, <1>4

\* What keeps the ids and the references of a list keeps its places.
LEMMA PlacesStay ==
  ASSUME NEW ops, NEW more, NEW items \in Seq(ItemType), NEW new, DOMAIN new = DOMAIN items,
         \A i \in DOMAIN items : new[i].id = items[i].id,
         \A id \in Names(items) : Reference(more, id) = Reference(ops, id),
         NEW j \in DOMAIN items, Placed(ops, items, j)
  PROVE  Placed(more, new, j)
<1>1. DOMAIN items = 1 .. Len(items) /\ Len(items) \in Nat /\ j \in 1 .. Len(items)
  OBVIOUS
<1>2. PICK i \in 0 .. j - 1 :
        /\ NameOf(items, i) = Reference(ops, items[j].id)
        /\ \A k \in i + 1 .. j - 1 : Less(items[j].id, items[k].id)
  BY DEF Placed
<1>3. NameOf(new, i) = NameOf(items, i)
  BY <1>1, <1>2 DEF NameOf
<1>4. new[j].id = items[j].id /\ Reference(more, new[j].id) = Reference(ops, items[j].id)
  BY DEF Names
<1>5. \A k \in i + 1 .. j - 1 : Less(new[j].id, new[k].id)
  BY <1>1, <1>2, <1>4
<1> QED
  BY <1>2, <1>3, <1>4, <1>5 DEF Placed

\* Applying an operation keeps what the lists hold and where.
LEMMA ApplyKeepsLists ==
  ASSUME IInv, NEW s \in Sids, NEW op \in Operation, Apply(s, op),
         issued' = issued \cup {op}, op.deps \subseteq applied[s],
         DisjointOps', RefersToKnown', FirstTime + InitLen <= op.id.time,
         op.id \in Ids(issued) => op \in issued
  PROVE  /\ text' \in [Sids -> Seq(ItemType)]
         /\ Contents'
         /\ AllPlaced'
<1> DEFINE more == issued \cup {op}
           items == text[s]
           new == Integrated(items, op)
           ran == Interval(op.id, op.span)
<1>1. /\ text \in [Sids -> Seq(ItemType)] /\ applied \in [Sids -> SUBSET Timestamp]
      /\ issued \subseteq Operation /\ more \in SUBSET Operation
  BY DEF IInv, TypeOK, ItemType
<1>2. /\ \A p, q \in more : p # q => Interval(p.id, p.span) \cap Interval(q.id, q.span) = {}
      /\ \A p \in more : FirstTime + InitLen <= p.id.time
  BY DEF DisjointOps, IInv, ClocksAhead
<1>3. UniqueIds(more) /\ UniqueIds(issued)
  <2>1. UniqueIds(issued)
    BY DisjointIdsDiffer DEF IInv
  <2> QED
    BY <2>1 DEF UniqueIds, Ids
<1>4. ASSUME NEW t \in Sids
      PROVE  /\ applied[t] \subseteq Ids(issued)
             /\ Known(more, applied[t]) = Known(issued, applied[t])
             /\ Deletions(more, applied[t]) = Deletions(issued, applied[t])
             /\ Names(text[t]) = Known(issued, applied[t])
  <2>1. applied[t] \subseteq Ids(issued)
    BY DEF IInv, Causal
  <2>2. Names(text[t]) = Known(issued, applied[t])
    BY DEF IInv, Contents
  <2> QED
    BY <1>3, <2>1, <2>2, KnownStays
<1>5. ASSUME NEW t \in Sids, NEW id \in ran \cap Names(text[t])
      PROVE  op.id \in applied[t]
  <2>1. id \in Known(more, applied[t])
    BY <1>4
  <2> HIDE DEF ran
  <2>2. op \in more
    OBVIOUS
  <2> HIDE DEF more
  <2> QED
    BY <1>1, <1>2, <2>1, <2>2, KnownOnceApplied DEF ran
<1>6. op.id \in Timestamp /\ op.span \in Nat /\ op.span > 0 /\ op.id \in ran
  BY OperationFields, IntervalStarts
<1>7. ASSUME NEW t \in Sids, NEW id \in Names(text[t])
      PROVE  Reference(more, id) = Reference(issued, id)
  <2>1. CASE op \in issued
    <3>1. more = issued
      BY <2>1
    <3> QED
      BY <3>1
  <2>2. CASE op \notin issued
    <3>1. op.id \notin applied[t]
      BY <1>4, <2>2
    <3>2. id # op.id
      BY <1>5, <1>6, <3>1
    <3> QED
      BY <1>3, <3>2, ReferenceStays
  <2> QED
    BY <2>1, <2>2
<1>8. /\ text' = [text EXCEPT ![s] = new]
      /\ applied' = [applied EXCEPT ![s] = @ \cup {op.id}]
  BY DEF Apply
<1>9. ASSUME NEW t \in Sids
      PROVE  /\ Distinct(text[t])
             /\ \A j \in DOMAIN text[t] : Placed(issued, text[t], j)
             /\ \A i \in DOMAIN text[t] :
                  text[t][i].live
                    <=> \A d \in Deletions(issued, applied[t]) : text[t][i].id \notin d.what
  BY DEF IInv, Contents, AllPlaced, Distinct
<1> DEFINE Holds(list, ids) ==
             /\ Names(list) = Known(more, ids)
             /\ Distinct(list)
             /\ \A i \in DOMAIN list :
                  list[i].live <=> \A d \in Deletions(more, ids) : list[i].id \notin d.what
             /\ \A j \in DOMAIN list : Placed(more, list, j)
<1>10. ASSUME NEW t \in Sids
       PROVE  Holds(text[t], applied[t])
  <2>1. \A j \in DOMAIN text[t] : Placed(more, text[t], j)
    <3> HIDE DEF more
    <3> QED
      BY <1>1, <1>7, <1>9, PlacesStay
  <2> QED
    BY <1>4, <1>9, <2>1
<1>11. items \in Seq(ItemType)
  BY <1>1
<1>12. ASSUME op.kind = "ins", op.id \in Names(items)
       PROVE  new \in Seq(ItemType) /\ Holds(new, applied[s] \cup {op.id})
  <2>1. op.id \in applied[s]
    BY <1>5, <1>6, <1>12
  <2>2. new = items /\ applied[s] \cup {op.id} = applied[s]
    BY <1>12, <2>1 DEF Integrated, Inserted
  <2> HIDE DEF Holds, new
  <2> QED
    BY <1>10, <1>11, <2>2
<1>13. ASSUME op.kind = "ins", op.id \notin Names(items)
       PROVE  new \in Seq(ItemType) /\ Holds(new, applied[s] \cup {op.id})
  <2>1. new = Inserted(items, op)
    BY <1>13 DEF Integrated
  <2>2. op.id \notin applied[s]
    <3>1. ASSUME op.id \in applied[s]
          PROVE  op.id \in Known(more, applied[s])
      <4>1. op \in Insertions(more, applied[s])
        BY <1>13, <3>1 DEF Insertions
      <4> QED
        BY <1>6, <4>1 DEF Known
    <3> QED
      BY <1>4, <1>13, <3>1
  <2>3. Names(items) \cap ran = {}
    BY <1>5, <2>2
  <2>4. op.after \in {StrId} \cup Names(items)
    <3>1. op.after \in {StrId} \cup Known(more, op.deps)
      BY <1>13 DEF RefersToKnown
    <3>2. Known(more, op.deps) \subseteq Known(more, applied[s])
      BY KnownIsMonotonic
    <3> QED
      BY <1>4, <3>1, <3>2
  <2>5. StrId \notin Names(items)
    BY <1>4, KnownStamps DEF IInv
  <2>6. \A p \in issued : p # op => p.id \notin ran
    <3> SUFFICES ASSUME NEW p \in issued, p # op, p.id \in ran
                 PROVE  FALSE
      OBVIOUS
    <3>1. p.id \in Interval(p.id, p.span)
      BY <1>1, OperationFields, IntervalStarts
    <3> QED
      BY <1>2, <3>1
  <2>7. Ts(Author, FirstTime) \notin ran \ {op.id}
    <3> SUFFICES ASSUME Ts(Author, FirstTime) \in ran
                 PROVE  Ts(Author, FirstTime) = op.id
      OBVIOUS
    <3>1. Ts(Author, FirstTime).time >= op.id.time /\ Ts(Author, FirstTime).sid = op.id.sid
      BY <1>6, IntervalBounds
    <3>2. op.id.time = FirstTime /\ op.id.sid = Author
      BY <1>6, <3>1, Constants DEF Ts, Timestamp
    <3> QED
      BY <1>6, <3>2 DEF Ts, Timestamp
  <2> HIDE DEF ran, items, new
  <2>8. /\ new \in Seq(ItemType)
        /\ Distinct(new)
        /\ Names(new) = Names(items) \cup ran
        /\ OldOrNew(items, new, ran)
    <3>1. Distinct(items)
      BY <1>9 DEF items
    <3>2. Names(items) \cap Interval(op.id, op.span) = {}
      BY <2>3 DEF ran
    <3>3. /\ new \in Seq(ItemType)
          /\ Distinct(new)
          /\ Names(new) = Names(items) \cup Interval(op.id, op.span)
          /\ OldOrNew(items, new, Interval(op.id, op.span))
      BY <1>11, <1>13, <2>1, <3>1, <3>2, InsertionAddsItems
    <3> QED
      BY <3>3 DEF ran
  <2>9. \A j \in DOMAIN new : Placed(more, new, j)
    <3>1. \A j \in DOMAIN items : Placed(issued, items, j)
      BY <1>9 DEF items
    <3> QED
      BY <1>3, <1>11, <1>13, <2>1, <2>3, <2>4, <2>5, <2>6, <2>7, <3>1, InsertionKeepsPlaces
      DEF ran
  <2>10. /\ Known(more, applied[s] \cup {op.id}) = Known(issued, applied[s]) \cup ran
         /\ Deletions(more, applied[s] \cup {op.id}) = Deletions(issued, applied[s])
    <3>1. op \in more
      OBVIOUS
    <3>2. /\ Known(more, applied[s]) = Known(issued, applied[s])
          /\ Deletions(more, applied[s]) = Deletions(issued, applied[s])
      BY <1>4
    <3> HIDE DEF more
    <3>3. /\ Known(more, applied[s] \cup {op.id}) = Known(more, applied[s]) \cup Interval(op.id, op.span)
          /\ Deletions(more, applied[s] \cup {op.id}) = Deletions(more, applied[s])
      BY <1>3, <1>13, <3>1, KnownGrows
    <3> QED
      BY <3>2, <3>3 DEF ran
  <2>11. \A d \in Deletions(issued, applied[s]) : d.what \subseteq Names(items)
    <3> SUFFICES ASSUME NEW d \in Deletions(issued, applied[s])
                 PROVE  d.what \subseteq Known(issued, applied[s])
      BY <1>4 DEF items
    <3>1. d \in issued /\ d.kind = "del" /\ d.id \in applied[s]
      BY DEF Deletions
    <3>2. d.what \subseteq Known(issued, d.deps)
      BY <3>1 DEF IInv, RefersToKnown
    <3>3. d.deps \subseteq applied[s]
      BY <3>1 DEF IInv, Causal
    <3> QED
      BY <3>2, <3>3, KnownIsMonotonic
  <2>12. ASSUME NEW j \in DOMAIN new
         PROVE  new[j].live
                  <=> \A d \in Deletions(issued, applied[s]) : new[j].id \notin d.what
    <3>1. CASE \E i \in DOMAIN items : new[j] = items[i]
      BY <1>9, <3>1 DEF items
    <3>2. CASE new[j].id \in ran /\ new[j].live = TRUE
      BY <2>3, <2>11, <3>2
    <3> QED
      BY <2>8, <3>1, <3>2 DEF OldOrNew
  <2>13. Names(new) = Known(more, applied[s] \cup {op.id})
    BY <1>4, <2>8, <2>10 DEF items
  <2> HIDE DEF more
  <2> QED
    BY <2>8, <2>9, <2>10, <2>12, <2>13
<1>14. ASSUME op.kind = "del"
       PROVE  new \in Seq(ItemType) /\ Holds(new, applied[s] \cup {op.id})
  <2>1. new = Deleted(items, op)
    BY <1>14 DEF Integrated
  <2> HIDE DEF items, new
  <2>2. /\ new \in Seq(ItemType) /\ DOMAIN new = DOMAIN items
        /\ Names(new) = Names(items)
        /\ \A i \in DOMAIN items :
             /\ new[i].id = items[i].id
             /\ new[i].live <=> items[i].live /\ items[i].id \notin op.what
    BY <1>11, <2>1, DeletionHidesItems
  <2>3. /\ Known(more, applied[s] \cup {op.id}) = Known(issued, applied[s])
        /\ Deletions(more, applied[s] \cup {op.id}) = Deletions(issued, applied[s]) \cup {op}
    <3>1. op \in more
      OBVIOUS
    <3> HIDE DEF more
    <3> QED
      BY <1>3, <1>4, <1>14, <3>1, KnownGrows
  <2>4. Distinct(new)
    <3>1. Distinct(items)
      BY <1>9 DEF items
    <3> QED
      BY <2>2, <3>1 DEF Distinct
  <2>5. \A j \in DOMAIN new : Placed(more, new, j)
    <3>1. /\ \A j \in DOMAIN items : Placed(issued, items, j)
          /\ \A id \in Names(items) : Reference(more, id) = Reference(issued, id)
      BY <1>7, <1>9 DEF items
    <3> HIDE DEF more
    <3> QED
      BY <1>11, <2>2, <3>1, PlacesStay
  <2>6. ASSUME NEW j \in DOMAIN new
        PROVE  new[j].live
                 <=> \A d \in Deletions(issued, applied[s]) \cup {op} : new[j].id \notin d.what
    BY <1>9, <2>2 DEF items
  <2>7. Names(new) = Known(more, applied[s] \cup {op.id})
    BY <1>4, <2>2, <2>3 DEF items
  <2> HIDE DEF more
  <2> QED
    BY <2>2, <2>3, <2>4, <2>5, <2>6, <2>7
<1>15. new \in Seq(ItemType) /\ Holds(new, applied[s] \cup {op.id})
  <2> HIDE DEF Holds, new, items
  <2> QED
    BY <1>12, <1>13, <1>14, OperationFields
<1> HIDE DEF new, items
<1>16. text' \in [Sids -> Seq(ItemType)]
  BY <1>1, <1>8, <1>15
<1>17. ASSUME NEW t \in Sids
       PROVE  Holds(text'[t], applied'[t])
  <2>1. CASE t = s
    <3>1. text'[t] = new /\ applied'[t] = applied[s] \cup {op.id}
      BY <1>1, <1>8, <2>1
    <3> HIDE DEF Holds
    <3> QED
      BY <1>15, <3>1
  <2>2. CASE t # s
    <3>1. text'[t] = text[t] /\ applied'[t] = applied[t]
      BY <1>1, <1>8, <2>2
    <3> HIDE DEF Holds
    <3> QED
      BY <1>10, <3>1
  <2> QED
    BY <2>1, <2>2
<1>18. issued' = more
  OBVIOUS
<1> HIDE DEF more
<1>19. Contents'
  <2> SUFFICES ASSUME NEW t \in Sids
               PROVE  /\ Names(text'[t]) = Known(issued', applied'[t])
                      /\ \A i, j \in DOMAIN text'[t] :
                           text'[t][i].id = text'[t][j].id => i = j
                      /\ \A i \in DOMAIN text'[t] :
                           text'[t][i].live <=>
                             \A d \in Deletions(issued', applied'[t]) : text'[t][i].id \notin d.what
    BY DEF Contents
  <2> QED
    BY <1>17, <1>18 DEF Distinct
<1>20. AllPlaced'
  <2> SUFFICES ASSUME NEW t \in Sids, NEW j \in DOMAIN text'[t]
               PROVE  Placed(issued', text'[t], j)
    BY DEF AllPlaced
  <2> QED
    BY <1>17, <1>18
<1> QED
  BY <1>16, <1>19, <1>20
-----------------------------------------------------------------------------
\* Model::apply_operation moves the clock past what it applies, and only forward.
LEMMA ApplyMovesClock ==
  ASSUME TypeOK, NEW s \in Sids, NEW op \in Operation, Apply(s, op)
  PROVE  /\ time' \in [Sids -> Nat]
         /\ \A t \in Sids : time[t] <= time'[t]
         /\ NextTime(op) <= time'[s]
         /\ applied' \in [Sids -> SUBSET Timestamp]
         /\ applied'[s] = applied[s] \cup {op.id}
         /\ \A t \in Sids \ {s} : applied'[t] = applied[t]
<1>1. /\ time \in [Sids -> Nat] /\ applied \in [Sids -> SUBSET Timestamp]
      /\ NextTime(op) \in Nat /\ op.id \in Timestamp
  BY OperationFields DEF TypeOK
<1>2. /\ time' = [time EXCEPT ![s] = Larger(time[s], NextTime(op))]
      /\ applied' = [applied EXCEPT ![s] = applied[s] \cup {op.id}]
  BY DEF Apply, NextTime
<1>3. /\ Larger(time[s], NextTime(op)) \in Nat
      /\ time[s] <= Larger(time[s], NextTime(op))
      /\ NextTime(op) <= Larger(time[s], NextTime(op))
  BY <1>1 DEF Larger
<1> QED
  BY <1>1, <1>2, <1>3

\* The first state has the invariant.
LEMMA InitHolds == Init => IInv
<1> SUFFICES ASSUME Init PROVE IInv
  OBVIOUS
<1> DEFINE first == Ts(Author, FirstTime)
           run == Run(first, InitLen)
<1>1. first \in Timestamp /\ first.sid = Author /\ first.time = FirstTime
  BY Constants DEF Ts, Timestamp
<1>2. /\ text = [s \in Sids |-> run] /\ time = [s \in Sids |-> FirstTime + InitLen]
      /\ applied = [s \in Sids |-> {}] /\ issued = {}
  BY DEF Init
<1>3. /\ run \in Seq(ItemType) /\ DOMAIN run = 1 .. InitLen
      /\ \A k \in 1 .. InitLen :
           run[k].id = Ts(Author, FirstTime + k - 1) /\ run[k].live = TRUE
  BY Constants, <1>1 DEF Run, Item, ItemType, Ts, Timestamp
<1> HIDE DEF run
<1>4. TypeOK
  BY <1>2, <1>3, Constants DEF TypeOK, ItemType
<1>12. \A t : Ts(Author, t).time = t /\ Ts(Author, t).sid = Author
  BY DEF Ts
<1>5. ClocksAhead /\ DisjointOps /\ Causal /\ RefersToKnown
  <2>1. ClocksAhead
    BY <1>2, Constants DEF ClocksAhead
  <2> QED
    BY <1>2, <2>1 DEF DisjointOps, Causal, RefersToKnown, Ids
<1>6. Names(run) = FirstRun
  <2>1. FirstRun = {Ts(Author, FirstTime + i) : i \in 0 .. InitLen - 1}
    BY <1>1 DEF FirstRun, Interval
  <2>2. \A k \in 1 .. InitLen : k - 1 \in 0 .. InitLen - 1 /\ FirstTime + k - 1 = FirstTime + (k - 1)
    BY Constants
  <2>3. Names(run) \subseteq FirstRun
    BY <1>3, <2>1, <2>2 DEF Names
  <2>4. ASSUME NEW i \in 0 .. InitLen - 1
        PROVE  Ts(Author, FirstTime + i) \in Names(run)
    <3>1. i + 1 \in 1 .. InitLen /\ FirstTime + (i + 1) - 1 = FirstTime + i
      BY Constants
    <3>2. run[i + 1].id = Ts(Author, FirstTime + i)
      BY <1>3, <3>1
    <3> QED
      BY <1>3, <3>1, <3>2 DEF Names
  <2> QED
    BY <2>1, <2>3, <2>4
<1>7. Known(issued, {}) = FirstRun /\ Deletions(issued, {}) = {}
  BY <1>2 DEF Known, Insertions, Deletions
<1>8. Distinct(run)
  <2> SUFFICES ASSUME NEW i \in 1 .. InitLen, NEW j \in 1 .. InitLen, run[i].id = run[j].id
               PROVE  i = j
    BY <1>3 DEF Distinct
  <2>1. /\ run[i].id = Ts(Author, FirstTime + i - 1)
        /\ run[j].id = Ts(Author, FirstTime + j - 1)
    BY <1>3
  <2>2. Ts(Author, FirstTime + i - 1).time = Ts(Author, FirstTime + j - 1).time
    BY <2>1
  <2>3. FirstTime + i - 1 = FirstTime + j - 1
    <3> HIDE DEF FirstTime, Ts
    <3> QED
      BY <1>12, <2>2
  <2> QED
    BY <2>3, Constants
<1>9. Contents
  BY <1>2, <1>3, <1>6, <1>7, <1>8 DEF Contents, Distinct
<1>10. ASSUME NEW j \in 1 .. InitLen
       PROVE  Placed(issued, run, j)
  <2>1. Reference(issued, run[j].id)
          = IF run[j].id = first THEN StrId ELSE Ts(run[j].id.sid, run[j].id.time - 1)
    BY <1>2 DEF Reference
  <2>2. run[j].id.time = FirstTime + j - 1 /\ run[j].id.sid = Author
    BY <1>3, <1>12, Zenon
  <2>3. CASE j = 1
    <3>1. FirstTime + j - 1 = FirstTime
      BY <2>3, Constants
    <3>2. run[j].id = first
      BY <1>3, <3>1
    <3>3. NameOf(run, 0) = Reference(issued, run[j].id)
      BY <2>1, <3>2 DEF NameOf
    <3>4. 0 \in 0 .. j - 1 /\ 0 + 1 .. j - 1 = {}
      BY <2>3
    <3> QED
      BY <3>3, <3>4 DEF Placed
  <2>4. CASE j # 1
    <3>1. /\ j - 1 \in 1 .. InitLen /\ j - 1 \in 0 .. j - 1 /\ j - 1 # 0
          /\ (j - 1) + 1 .. j - 1 = {}
          /\ FirstTime + j - 1 - 1 = FirstTime + (j - 1) - 1 /\ FirstTime + j - 1 # FirstTime
      BY <2>4, Constants
    <3>2. run[j].id # first
      BY <1>1, <2>2, <3>1
    <3>3. Reference(issued, run[j].id) = Ts(Author, FirstTime + (j - 1) - 1)
      <4> HIDE DEF first
      <4>1. Reference(issued, run[j].id) = Ts(run[j].id.sid, run[j].id.time - 1)
        BY <2>1, <3>2
      <4>2. run[j].id.sid = Author /\ run[j].id.time - 1 = FirstTime + (j - 1) - 1
        BY <2>2, Constants
      <4> QED
        BY <4>1, <4>2
    <3>4. NameOf(run, j - 1) = Ts(Author, FirstTime + (j - 1) - 1)
      BY <1>3, <3>1 DEF NameOf
    <3> QED
      BY <3>1, <3>3, <3>4 DEF Placed
  <2> QED
    BY <2>3, <2>4
<1>11. AllPlaced
  BY <1>2, <1>3, <1>10 DEF AllPlaced
<1> QED
  BY <1>4, <1>5, <1>9, <1>11 DEF IInv

\* A replica issues an operation: its timestamps are new, and later than all
\* the replica knows, so what it refers to it depends on.
LEMMA IssueKeepsIInv ==
  ASSUME IInv, NEW s \in Sids, NEW op \in Operation, Apply(s, op),
         issued' = issued \cup {op},
         op.id = Ts(s, time[s]), op.deps = applied[s],
         op.kind = "ins" => op.after \in {StrId} \cup Names(text[s]),
         op.kind = "del" => op.what \subseteq Names(text[s])
  PROVE  IInv'
<1>1. /\ time \in [Sids -> Nat] /\ applied \in [Sids -> SUBSET Timestamp]
      /\ issued \subseteq Operation /\ FirstTime + InitLen <= time[s]
  BY DEF IInv, TypeOK, ClocksAhead
<1>2. /\ op.id.sid = s /\ op.id.time = time[s]
      /\ op.id \in Timestamp /\ op.span \in Nat /\ op.span > 0
      /\ NextTime(op) \in Nat /\ op.id.time < NextTime(op)
  BY OperationFields DEF Ts
<1>3. /\ time' \in [Sids -> Nat]
      /\ \A t \in Sids : time[t] <= time'[t]
      /\ NextTime(op) <= time'[s]
      /\ applied' \in [Sids -> SUBSET Timestamp]
      /\ applied'[s] = applied[s] \cup {op.id}
      /\ \A t \in Sids \ {s} : applied'[t] = applied[t]
  BY ApplyMovesClock DEF IInv
<1>4. ASSUME NEW p \in issued
      PROVE  /\ p.id \in Timestamp /\ p.id.sid \in Sids /\ p.id.time \in Nat
             /\ p.span \in Nat /\ p.span > 0 /\ NextTime(p) \in Nat
             /\ FirstTime + InitLen <= p.id.time /\ NextTime(p) <= time[p.id.sid]
             /\ \A t \in Sids : p.id \in applied[t] => NextTime(p) <= time[t]
  BY <1>1, OperationFields DEF IInv, ClocksAhead
<1>5. \A p \in issued : p.id # op.id
  BY <1>2, <1>4 DEF NextTime
<1>6. ClocksAhead'
  <2>1. \A t \in Sids : FirstTime + InitLen <= time'[t]
    <3>1. \A t \in Sids : FirstTime + InitLen <= time[t] /\ time[t] \in Nat /\ time'[t] \in Nat
      BY <1>1, <1>3 DEF IInv, ClocksAhead
    <3> QED
      BY <1>3, <3>1, Constants
  <2>2. ASSUME NEW p \in issued'
        PROVE  FirstTime + InitLen <= p.id.time /\ NextTime(p) <= time'[p.id.sid]
    <3>1. CASE p = op
      BY <1>1, <1>2, <1>3, <3>1
    <3>2. CASE p \in issued
      <4>1. time[p.id.sid] \in Nat /\ time'[p.id.sid] \in Nat
        BY <1>1, <1>3, <1>4, <3>2
      <4> QED
        BY <1>3, <1>4, <3>2, <4>1
    <3> QED
      BY <3>1, <3>2
  <2>3. ASSUME NEW t \in Sids, NEW p \in issued', p.id \in applied'[t]
        PROVE  NextTime(p) <= time'[t]
    <3>1. CASE p = op
      <4>1. t = s
        <5>1. op.id \notin applied[t]
          BY <1>5 DEF IInv, Causal, Ids
        <5> QED
          BY <1>3, <2>3, <3>1, <5>1
      <4> QED
        BY <1>3, <3>1, <4>1
    <3>2. CASE p \in issued
      <4>1. p.id \in applied[t]
        BY <1>3, <1>5, <2>3, <3>2
      <4>2. time[t] \in Nat /\ time'[t] \in Nat
        BY <1>1, <1>3
      <4> QED
        BY <1>3, <1>4, <3>2, <4>1, <4>2
    <3> QED
      BY <3>1, <3>2
  <2> QED
    BY <2>1, <2>2, <2>3 DEF ClocksAhead
<1>7. DisjointOps'
  <2> SUFFICES ASSUME NEW p \in issued,
                      NEW t \in Interval(op.id, op.span) \cap Interval(p.id, p.span)
               PROVE  FALSE
    BY DEF IInv, DisjointOps
  <2>1. /\ t.sid = s /\ t.time \in Nat /\ time[s] <= t.time
        /\ t.sid = p.id.sid /\ t.time < p.id.time + p.span
    BY <1>2, <1>4, IntervalBounds
  <2> QED
    BY <1>1, <1>4, <2>1 DEF NextTime
<1>8. Causal'
  <2>1. \A t \in Sids : applied'[t] \subseteq Ids(issued')
    BY <1>3 DEF IInv, Causal, Ids
  <2>2. \A p \in issued' : p.deps \subseteq Ids(issued')
    BY DEF IInv, Causal, Ids
  <2>3. ASSUME NEW t \in Sids, NEW p \in issued', p.id \in applied'[t]
        PROVE  p.deps \subseteq applied'[t]
    <3>1. CASE p = op
      <4>1. t = s
        <5>1. op.id \notin applied[t]
          BY <1>5 DEF IInv, Causal, Ids
        <5> QED
          BY <1>3, <2>3, <3>1, <5>1
      <4> QED
        BY <1>3, <3>1, <4>1
    <3>2. CASE p \in issued
      <4>1. p.id \in applied[t]
        BY <1>3, <1>5, <2>3, <3>2
      <4>2. p.deps \subseteq applied[t]
        BY <3>2, <4>1 DEF IInv, Causal
      <4> QED
        BY <1>3, <4>2
    <3> QED
      BY <3>1, <3>2
  <2>4. ASSUME NEW p \in issued', NEW q \in issued', p.id \in q.deps
        PROVE  NextTime(p) <= q.id.time
    <3>1. p \in issued
      <4>1. q.deps \subseteq Ids(issued)
        BY DEF IInv, Causal
      <4> QED
        BY <1>5, <2>4, <4>1 DEF Ids
    <3>2. CASE q = op
      BY <1>2, <1>4, <2>4, <3>1, <3>2
    <3>3. CASE q \in issued
      BY <2>4, <3>1, <3>3 DEF IInv, Causal
    <3> QED
      BY <3>2, <3>3
  <2> QED
    BY <2>1, <2>2, <2>3, <2>4 DEF Causal
<1>9. UniqueIds(issued \cup {op})
  <2>1. UniqueIds(issued)
    BY DisjointIdsDiffer DEF IInv
  <2> QED
    BY <1>5, <2>1 DEF UniqueIds
<1>10. RefersToKnown'
  <2>1. \A ids \in SUBSET Ids(issued) : Known(issued', ids) = Known(issued, ids)
    BY <1>9, KnownStays
  <2>2. ASSUME NEW p \in issued'
        PROVE  IF p.kind = "ins" THEN p.after \in {StrId} \cup Known(issued', p.deps)
                                 ELSE p.what \subseteq Known(issued', p.deps)
    <3>1. p.deps \subseteq Ids(issued)
      BY DEF IInv, Causal
    <3>2. Known(issued', p.deps) = Known(issued, p.deps)
      BY <2>1, <3>1
    <3>3. CASE p = op
      <4>1. Names(text[s]) = Known(issued, p.deps)
        BY <3>3 DEF IInv, Contents
      <4>2. p.kind = "ins" \/ p.kind = "del"
        BY <3>3, OperationFields
      <4> QED
        BY <3>2, <3>3, <4>1, <4>2
    <3>4. CASE p \in issued
      BY <3>2, <3>4 DEF IInv, RefersToKnown
    <3> QED
      BY <3>3, <3>4
  <2> QED
    BY <2>2 DEF RefersToKnown
<1>11. text' \in [Sids -> Seq(ItemType)] /\ Contents' /\ AllPlaced'
  <2>1. FirstTime + InitLen <= op.id.time /\ (op.id \in Ids(issued) => op \in issued)
    BY <1>1, <1>2, <1>5 DEF Ids
  <2> QED
    BY <1>7, <1>10, <2>1, ApplyKeepsLists
<1>12. TypeOK'
  BY <1>1, <1>3, <1>11 DEF TypeOK, ItemType
<1> QED
  BY <1>6, <1>7, <1>8, <1>10, <1>11, <1>12 DEF IInv

\* A replica receives an operation another one issued, once or again.
LEMMA ReceiveKeepsIInv ==
  ASSUME IInv, NEW s \in Sids, NEW op \in issued, Receive(s, op)
  PROVE  IInv'
<1>1. /\ time \in [Sids -> Nat] /\ applied \in [Sids -> SUBSET Timestamp]
      /\ issued \subseteq Operation /\ op \in Operation
  BY DEF IInv, TypeOK
<1>2. /\ op.deps \subseteq applied[s] /\ Apply(s, op)
      /\ issued' = issued /\ issued' = issued \cup {op}
  BY DEF Receive
<1>3. /\ time' \in [Sids -> Nat]
      /\ \A t \in Sids : time[t] <= time'[t]
      /\ NextTime(op) <= time'[s]
      /\ applied' \in [Sids -> SUBSET Timestamp]
      /\ applied'[s] = applied[s] \cup {op.id}
      /\ \A t \in Sids \ {s} : applied'[t] = applied[t]
  BY <1>1, <1>2, ApplyMovesClock DEF IInv
<1>4. UniqueIds(issued)
  BY DisjointIdsDiffer DEF IInv
<1>5. DisjointOps'
  BY <1>2 DEF IInv, DisjointOps
<1>6. RefersToKnown'
  BY <1>2 DEF IInv, RefersToKnown
<1>7. ClocksAhead'
  <2>1. ASSUME NEW t \in Sids
        PROVE  FirstTime + InitLen <= time'[t]
    <3>1. FirstTime + InitLen <= time[t] /\ time[t] \in Nat /\ time'[t] \in Nat
      BY <1>1, <1>3 DEF IInv, ClocksAhead
    <3> QED
      BY <1>3, <3>1, Constants
  <2>2. ASSUME NEW p \in issued
        PROVE  FirstTime + InitLen <= p.id.time /\ NextTime(p) <= time'[p.id.sid]
    <3>1. /\ p.id.sid \in Sids /\ NextTime(p) \in Nat
          /\ FirstTime + InitLen <= p.id.time /\ NextTime(p) <= time[p.id.sid]
      BY <1>1, OperationFields DEF IInv, ClocksAhead
    <3>2. time[p.id.sid] \in Nat /\ time'[p.id.sid] \in Nat
      BY <1>1, <1>3, <3>1
    <3> QED
      BY <1>3, <3>1, <3>2
  <2>3. ASSUME NEW t \in Sids, NEW p \in issued, p.id \in applied'[t]
        PROVE  NextTime(p) <= time'[t]
    <3>1. NextTime(p) \in Nat /\ time[t] \in Nat /\ time'[t] \in Nat
      BY <1>1, <1>3, OperationFields
    <3>2. CASE p.id \in applied[t]
      <4>1. NextTime(p) <= time[t]
        BY <3>2 DEF IInv, ClocksAhead
      <4> QED
        BY <1>3, <3>1, <4>1
    <3>3. CASE p.id \notin applied[t]
      <4>1. t = s /\ p.id = op.id
        BY <1>3, <2>3, <3>3
      <4>2. p = op
        BY <1>4, <4>1 DEF UniqueIds
      <4> QED
        BY <1>3, <4>1, <4>2
    <3> QED
      BY <3>2, <3>3
  <2> QED
    BY <1>2, <2>1, <2>2, <2>3 DEF ClocksAhead
<1>8. Causal'
  <2>1. \A t \in Sids : applied'[t] \subseteq Ids(issued)
    BY <1>3 DEF IInv, Causal, Ids
  <2>2. ASSUME NEW t \in Sids, NEW p \in issued, p.id \in applied'[t]
        PROVE  p.deps \subseteq applied'[t]
    <3>1. applied[t] \subseteq applied'[t]
      BY <1>3
    <3>2. CASE p.id \in applied[t]
      BY <3>1, <3>2 DEF IInv, Causal
    <3>3. CASE p.id \notin applied[t]
      <4>1. t = s /\ p.id = op.id
        BY <1>3, <2>2, <3>3
      <4>2. p = op
        BY <1>4, <4>1 DEF UniqueIds
      <4> QED
        BY <1>2, <3>1, <4>1, <4>2
    <3> QED
      BY <3>2, <3>3
  <2> QED
    BY <1>2, <2>1, <2>2 DEF IInv, Causal
<1>9. text' \in [Sids -> Seq(ItemType)] /\ Contents' /\ AllPlaced'
  <2>1. FirstTime + InitLen <= op.id.time /\ (op.id \in Ids(issued) => op \in issued)
    BY DEF IInv, ClocksAhead
  <2> QED
    BY <1>1, <1>2, <1>5, <1>6, <2>1, ApplyKeepsLists
<1>10. TypeOK'
  BY <1>1, <1>2, <1>3, <1>9 DEF TypeOK, ItemType
<1> QED
  BY <1>5, <1>6, <1>7, <1>8, <1>9, <1>10 DEF IInv

\* Every step keeps the invariant.
LEMMA StepKeepsIInv == IInv /\ [Next]_vars => IInv'
<1> SUFFICES ASSUME IInv, [Next]_vars PROVE IInv'
  OBVIOUS
<1>1. CASE UNCHANGED vars
  BY <1>1 DEF vars, IInv, TypeOK, ClocksAhead, DisjointOps, Causal, RefersToKnown, Contents,
              AllPlaced
<1>2. ASSUME NEW s \in Sids
      PROVE  /\ text[s] \in Seq(ItemType) /\ time[s] \in Nat
             /\ applied[s] \subseteq Timestamp /\ Ts(s, time[s]) \in Timestamp
             /\ Names(text[s]) \subseteq Timestamp
  <2>1. /\ text[s] \in Seq(ItemType) /\ time[s] \in Nat /\ applied[s] \subseteq Timestamp
    BY DEF IInv, TypeOK, ItemType
  <2> QED
    BY <2>1, NamesAreTimestamps DEF Ts, Timestamp
<1>3. ASSUME NEW s \in Sids, NEW i \in {0} \cup Visible(text[s]), NEW span \in 1 .. MaxRun,
             InsertText(s, i, span)
      PROVE  IInv'
  <2> DEFINE name == NameOf(text[s], i)
             op == InsStr(Ts(s, time[s]), name, span, applied[s])
  <2>1. name \in {StrId} \cup Names(text[s])
    BY DEF NameOf, Names, Visible
  <2>2. name \in Timestamp /\ span \in Nat \ {0}
    BY <1>2, <2>1, Constants
  <2>3. Apply(s, op) /\ issued' = issued \cup {op}
    BY <1>3 DEF InsertText, Issue
  <2> HIDE DEF name
  <2>4. /\ op \in Operation /\ op.kind = "ins" /\ op.after = name
        /\ op.id = Ts(s, time[s]) /\ op.deps = applied[s]
    BY <1>2, <2>2 DEF Operation, InsStr
  <2> HIDE DEF op
  <2> QED
    BY <2>1, <2>3, <2>4, IssueKeepsIInv
<1>4. ASSUME NEW s \in Sids, NEW i \in Visible(text[s]), NEW j \in Visible(text[s]),
             DeleteText(s, i, j)
      PROVE  IInv'
  <2> DEFINE what == {text[s][k].id : k \in Visible(text[s]) \cap i .. j}
             op == Del(Ts(s, time[s]), what, applied[s])
  <2>1. what \subseteq Names(text[s])
    BY DEF Names, Visible
  <2>2. Apply(s, op) /\ issued' = issued \cup {op}
    BY <1>4 DEF DeleteText, Issue
  <2> HIDE DEF what
  <2>3. /\ op \in Operation /\ op.kind = "del" /\ op.what = what
        /\ op.id = Ts(s, time[s]) /\ op.deps = applied[s]
    BY <1>2, <2>1 DEF Operation, Del
  <2> HIDE DEF op
  <2> QED
    BY <2>1, <2>2, <2>3, IssueKeepsIInv
<1>5. ASSUME NEW s \in Sids, NEW op \in issued, Receive(s, op)
      PROVE  IInv'
  BY <1>5, ReceiveKeepsIInv
<1> QED
  BY <1>1, <1>3, <1>4, <1>5 DEF Next
-----------------------------------------------------------------------------
(***************************************************************************)
(* The theorems.                                                           *)
(***************************************************************************)
\* Operations stay disjoint and causal, and every list holds the items of the
\* operations applied, each behind its reference (StrNode of nodes/rga.rs).
THEOREM TextInvariance == Spec => []IInv
BY InitHolds, StepKeepsIInv, PTL DEF Spec

\* Replicas that applied the same operations hold the same list of items, in
\* whatever causal order the operations reached them.
THEOREM TextConverges == Spec => []Converged
BY TextInvariance, ListsConverge, PTL

\* At no moment do two replicas disagree on the order of two items both have,
\* whatever each of them has still to receive.
THEOREM OrdersAgree == Spec => []OrderAgreed
BY TextInvariance, ListsAgree, PTL

\* An operation that was applied before changes no list.
LEMMA IntegratedAgain ==
  ASSUME IInv, NEW s \in Sids, NEW op \in issued, op.id \in applied[s]
  PROVE  /\ Integrated(text[s], op) = text[s]
         /\ op.kind = "ins" => op.id \in Names(text[s])
<1>1. text \in [Sids -> Seq(ItemType)] /\ op \in Operation
  BY DEF IInv, TypeOK, ItemType
<1>2. ASSUME op.kind = "ins" PROVE op.id \in Names(text[s])
  <2>1. op \in Insertions(issued, applied[s])
    BY <1>2 DEF Insertions
  <2>2. op.id \in Interval(op.id, op.span)
    BY <1>1, OperationFields, IntervalStarts
  <2> QED
    BY <2>1, <2>2 DEF IInv, Contents, Known
<1>3. CASE op.kind = "ins"
  BY <1>2, <1>3 DEF Integrated, Inserted
<1>4. CASE op.kind # "ins"
  <2> DEFINE items == text[s]
             new == Deleted(items, op)
  <2>1. op \in Deletions(issued, applied[s])
    BY <1>1, <1>4, OperationFields DEF Deletions
  <2>2. \A i \in DOMAIN items : items[i].id \in op.what => ~items[i].live
    BY <2>1 DEF IInv, Contents
  <2>3. items \in Seq(ItemType)
    BY <1>1
  <2> HIDE DEF items
  <2>4. DOMAIN items = 1 .. Len(items) /\ \A i \in DOMAIN items : items[i] \in ItemType
    BY <2>3
  <2>5. \A i \in DOMAIN items : new[i] = items[i]
    BY <2>2, <2>4 DEF Deleted, ItemType
  <2>6. new = items
    BY <2>3, <2>4, <2>5 DEF Deleted
  <2> QED
    BY <1>4, <2>6 DEF Integrated, items
<1> QED
  BY <1>2, <1>3, <1>4

\* Nor the clock.
LEMMA AppliedAgain ==
  ASSUME IInv, NEW s \in Sids, NEW op \in issued, op.id \in applied[s], Receive(s, op)
  PROVE  UNCHANGED vars
<1>1. /\ text \in [Sids -> Seq(ItemType)] /\ time \in [Sids -> Nat]
      /\ applied \in [Sids -> SUBSET Timestamp] /\ op \in Operation
  BY DEF IInv, TypeOK, ItemType
<1>2. /\ text' = [text EXCEPT ![s] = Integrated(text[s], op)]
      /\ time' = [time EXCEPT ![s] = Larger(time[s], NextTime(op))]
      /\ applied' = [applied EXCEPT ![s] = applied[s] \cup {op.id}]
      /\ issued' = issued
  BY DEF Receive, Apply, NextTime
<1>3. Integrated(text[s], op) = text[s]
  BY IntegratedAgain
<1>4. Larger(time[s], NextTime(op)) = time[s]
  <2>1. NextTime(op) <= time[s] /\ NextTime(op) \in Nat /\ time[s] \in Nat
    BY <1>1, OperationFields DEF IInv, ClocksAhead
  <2> QED
    BY <2>1 DEF Larger
<1>5. text' = text /\ time' = time /\ applied' = applied
  BY <1>1, <1>2, <1>3, <1>4
<1> QED
  BY <1>2, <1>5 DEF vars

\* Delivering an operation twice is harmless (the `find` guards of nodes/rga.rs).
THEOREM DeliveredTwice == Spec => Repeatable
<1>1. IInv /\ [Next]_vars
        => [\A s \in Sids : \A op \in issued :
              op.id \in applied[s] /\ Receive(s, op) => UNCHANGED vars]_vars
  BY AppliedAgain
<1> QED
  BY TextInvariance, <1>1, PTL DEF Spec, Repeatable
-----------------------------------------------------------------------------
(***************************************************************************)
(* What holds of an operation a replica is about to apply, its own or one  *)
(* another replica issued.  The chunks of RgaText rest on these facts.     *)
(***************************************************************************)
\* The replica issues the operation, or was sent it and has what it depends on.
Comes(s, op) ==
  \/ op \in issued /\ op.deps \subseteq applied[s]
  \/ /\ op.id = Ts(s, time[s]) /\ op.deps = applied[s]
     /\ op.kind = "ins" => op.after \in {StrId} \cup Names(text[s])
     /\ op.kind = "del" => op.what \subseteq Names(text[s])

\* Its timestamps are its own, and what it names the replica has.
LEMMA ComesFacts ==
  ASSUME IInv, NEW s \in Sids, NEW op \in Operation, Comes(s, op)
  PROVE  /\ op \notin issued => \A p \in issued : p.id # op.id
         /\ UniqueIds(issued \cup {op})
         /\ \A p \in issued : p # op => Interval(p.id, p.span) \cap Interval(op.id, op.span) = {}
         /\ FirstTime + InitLen <= op.id.time
         /\ op.deps \subseteq applied[s] /\ op.deps \subseteq Ids(issued)
         /\ op.kind = "ins" => op.after \in {StrId} \cup Known(issued, op.deps)
         /\ op.kind = "del" => op.what \subseteq Known(issued, op.deps)
         /\ Known(issued, op.deps) \subseteq Names(text[s])
         /\ \A y \in Known(issued, op.deps) : y.time < op.id.time
<1>1. /\ time \in [Sids -> Nat] /\ applied \in [Sids -> SUBSET Timestamp]
      /\ issued \subseteq Operation /\ applied[s] \subseteq Ids(issued)
  BY DEF IInv, TypeOK, Causal
<1>2. Names(text[s]) = Known(issued, applied[s])
  BY DEF IInv, Contents
<1>3. op.id \in Timestamp /\ op.span \in Nat /\ op.span > 0 /\ op.id.time \in Nat
  BY OperationFields
<1>4. UniqueIds(issued)
  BY DisjointIdsDiffer DEF IInv
<1>5. ASSUME op \in issued, op.deps \subseteq applied[s]
      PROVE  /\ \A p \in issued : p # op => Interval(p.id, p.span) \cap Interval(op.id, op.span) = {}
             /\ FirstTime + InitLen <= op.id.time
             /\ op.kind = "ins" => op.after \in {StrId} \cup Known(issued, op.deps)
             /\ op.kind = "del" => op.what \subseteq Known(issued, op.deps)
             /\ \A y \in Known(issued, op.deps) : y.time < op.id.time
             /\ op.deps \subseteq Ids(issued)
  <2>1. \A y \in Known(issued, op.deps) : y.time < op.id.time
    BY <1>5, DepsAreEarlier DEF IInv
  <2>2. /\ op.kind = "ins" => op.after \in {StrId} \cup Known(issued, op.deps)
        /\ op.kind = "del" => op.what \subseteq Known(issued, op.deps)
    BY <1>5 DEF IInv, RefersToKnown
  <2> QED
    BY <1>5, <2>1, <2>2 DEF IInv, DisjointOps, ClocksAhead, Causal
<1>6. ASSUME op.id = Ts(s, time[s]), op.deps = applied[s],
             op.kind = "ins" => op.after \in {StrId} \cup Names(text[s]),
             op.kind = "del" => op.what \subseteq Names(text[s])
      PROVE  /\ \A p \in issued : p.id # op.id
             /\ \A p \in issued : Interval(p.id, p.span) \cap Interval(op.id, op.span) = {}
             /\ FirstTime + InitLen <= op.id.time
             /\ \A y \in Known(issued, op.deps) : y.time < op.id.time
  <2>1. op.id.sid = s /\ op.id.time = time[s] /\ time[s] \in Nat
    BY <1>1, <1>6 DEF Ts
  <2>2. FirstTime + InitLen <= time[s]
    BY DEF IInv, ClocksAhead
  <2>3. ASSUME NEW p \in issued
        PROVE  /\ p.id \in Timestamp /\ p.id.time \in Nat /\ p.span \in Nat /\ p.span > 0
               /\ p.id.time + p.span <= time[p.id.sid]
               /\ p.id \in applied[s] => p.id.time + p.span <= time[s]
    BY <1>1, OperationFields DEF IInv, ClocksAhead, NextTime
  <2>4. ASSUME NEW p \in issued PROVE p.id # op.id
    BY <2>1, <2>3
  <2>5. ASSUME NEW p \in issued, NEW t \in Interval(p.id, p.span) \cap Interval(op.id, op.span)
        PROVE  FALSE
    <3>1. /\ t.sid = s /\ t.time \in Nat /\ time[s] <= t.time
          /\ t.sid = p.id.sid /\ t.time < p.id.time + p.span
      BY <1>3, <2>1, <2>3, IntervalBounds
    <3> QED
      BY <2>1, <2>3, <3>1
  <2>6. ASSUME NEW y \in Known(issued, op.deps) PROVE y.time < op.id.time
    <3>1. CASE y \in FirstRun
      BY <2>1, <2>2, <3>1, FirstRunStamps, Constants DEF Timestamp
    <3>2. CASE y \notin FirstRun
      <4>1. PICK p \in Insertions(issued, applied[s]) : y \in Interval(p.id, p.span)
        BY <1>6, <3>2 DEF Known
      <4>2. p \in issued /\ p.id \in applied[s]
        BY <4>1 DEF Insertions
      <4>3. y.time \in Nat /\ y.time < p.id.time + p.span
        BY <2>3, <4>1, <4>2, IntervalBounds
      <4> QED
        BY <2>1, <2>3, <4>2, <4>3
    <3> QED
      BY <3>1, <3>2
  <2> QED
    BY <2>1, <2>2, <2>4, <2>5, <2>6
<1>7. op.deps \subseteq applied[s]
  BY DEF Comes
<1>8. Known(issued, op.deps) \subseteq Names(text[s])
  BY <1>2, <1>7, KnownIsMonotonic
<1>9. CASE op \in issued /\ op.deps \subseteq applied[s]
  <2>1. issued \cup {op} = issued
    BY <1>9
  <2> QED
    BY <1>4, <1>5, <1>7, <1>8, <1>9, <2>1
<1>10. CASE /\ op.id = Ts(s, time[s]) /\ op.deps = applied[s]
            /\ op.kind = "ins" => op.after \in {StrId} \cup Names(text[s])
            /\ op.kind = "del" => op.what \subseteq Names(text[s])
  <2>1. UniqueIds(issued \cup {op})
    BY <1>4, <1>6, <1>10 DEF UniqueIds
  <2>2. op.deps \subseteq Ids(issued)
    BY <1>1, <1>10
  <2> QED
    BY <1>2, <1>6, <1>7, <1>8, <1>10, <2>1, <2>2
<1> QED
  BY <1>9, <1>10 DEF Comes

\* No list learns of another reference for what it holds.
LEMMA ComesReferences ==
  ASSUME IInv, NEW s \in Sids, NEW op \in Operation, Comes(s, op), NEW t \in Sids
  PROVE  /\ \A y \in Names(text[t]) : Reference(issued \cup {op}, y) = Reference(issued, y)
         /\ \A ids \in SUBSET Ids(issued) : Known(issued \cup {op}, ids) = Known(issued, ids)
         /\ \A ids \in SUBSET Ids(issued) : \A y \in Known(issued, ids) :
              Reference(issued \cup {op}, y) = Reference(issued, y)
<1>1. /\ UniqueIds(issued \cup {op}) /\ FirstTime + InitLen <= op.id.time
      /\ op \notin issued => \A p \in issued : Interval(p.id, p.span) \cap Interval(op.id, op.span) = {}
  BY ComesFacts
<1>2. op.id \in Interval(op.id, op.span) /\ op.id.time \in Nat
  BY OperationFields, IntervalStarts
<1>3. ASSUME op \notin issued, NEW ids, NEW y \in Known(issued, ids) PROVE y # op.id
  <2>1. CASE y \in FirstRun
    BY <1>1, <1>2, <2>1, FirstRunStamps, Constants DEF Timestamp
  <2>2. CASE y \notin FirstRun
    <3>1. PICK p \in Insertions(issued, ids) : y \in Interval(p.id, p.span)
      BY <2>2, <1>3 DEF Known
    <3>2. p \in issued
      BY <3>1 DEF Insertions
    <3> QED
      BY <1>1, <1>2, <1>3, <3>1, <3>2
  <2> QED
    BY <2>1, <2>2
<1>4. ASSUME NEW ids, NEW y \in Known(issued, ids)
      PROVE  Reference(issued \cup {op}, y) = Reference(issued, y)
  <2>1. CASE op \in issued
    <3>1. issued \cup {op} = issued
      BY <2>1
    <3> QED
      BY <3>1
  <2>2. CASE op \notin issued
    BY <1>1, <1>3, <1>4, <2>2, ReferenceStays
  <2> QED
    BY <2>1, <2>2
<1>5. Names(text[t]) = Known(issued, applied[t])
  BY DEF IInv, Contents
<1> QED
  BY <1>1, <1>4, <1>5, KnownStays

\* A run that is not in the list is new to it, and each of its items but the
\* first stands behind the one before.
LEMMA ComesFresh ==
  ASSUME IInv, NEW s \in Sids, NEW op \in Operation, Comes(s, op), op.kind = "ins",
         op.id \notin Names(text[s])
  PROVE  /\ Interval(op.id, op.span) \cap Names(text[s]) = {}
         /\ \A y \in Names(text[s]) : Reference(issued \cup {op}, y) \notin Interval(op.id, op.span)
         /\ \A y \in Interval(op.id, op.span) \ {op.id} :
              Reference(issued \cup {op}, y) = Ts(y.sid, y.time - 1)
         /\ Reference(issued \cup {op}, op.id) = op.after
         /\ op.after \in {StrId} \cup Names(text[s]) /\ op.after.time < op.id.time
<1>1. /\ UniqueIds(issued \cup {op}) /\ FirstTime + InitLen <= op.id.time
      /\ \A p \in issued : p # op => Interval(p.id, p.span) \cap Interval(op.id, op.span) = {}
      /\ op.after \in {StrId} \cup Known(issued, op.deps)
      /\ Known(issued, op.deps) \subseteq Names(text[s])
      /\ \A y \in Known(issued, op.deps) : y.time < op.id.time
  BY ComesFacts
<1>2. /\ op.id \in Timestamp /\ op.id \in Interval(op.id, op.span) /\ op.id.time \in Nat /\ op.span \in Nat
      /\ issued \subseteq Operation
  BY OperationFields, IntervalStarts DEF IInv, TypeOK
<1>3. Names(text[s]) = Known(issued, applied[s])
  BY DEF IInv, Contents
<1>4. \A y \in Interval(op.id, op.span) : y.time \in Nat /\ op.id.time <= y.time
  BY <1>2, IntervalBounds
<1>5. ASSUME NEW y \in Interval(op.id, op.span), y \in Names(text[s])
      PROVE  FALSE
  <2>1. y \notin FirstRun
    BY <1>1, <1>2, <1>4, FirstRunStamps, Constants
  <2>2. PICK p \in Insertions(issued, applied[s]) : y \in Interval(p.id, p.span)
    BY <1>3, <1>5, <2>1 DEF Known
  <2>3. p = op
    BY <1>1, <1>5, <2>2 DEF Insertions
  <2>4. op.id \in Known(issued, applied[s])
    BY <1>2, <2>2, <2>3 DEF Known
  <2> QED
    BY <1>3, <2>4
<1>6. ASSUME NEW y \in Names(text[s])
      PROVE  Reference(issued \cup {op}, y) \notin Interval(op.id, op.span)
  <2>1. Reference(issued \cup {op}, y) = Reference(issued, y)
    BY ComesReferences
  <2>2. PICK j \in DOMAIN text[s] : text[s][j].id = y
    BY DEF Names
  <2>3. Placed(issued, text[s], j)
    BY DEF IInv, AllPlaced
  <2>4. PICK i \in 0 .. j - 1 : NameOf(text[s], i) = Reference(issued, y)
    BY <2>2, <2>3 DEF Placed
  <2>5. text[s] \in Seq(ItemType) /\ j \in 1 .. Len(text[s]) /\ Len(text[s]) \in Nat
    <3>1. text[s] \in Seq(ItemType)
      BY DEF IInv, TypeOK, ItemType
    <3> QED
      BY <3>1, NamesAreTimestamps
  <2>6. Reference(issued, y) \in {StrId} \cup Names(text[s])
    <3>1. i = 0 \/ i \in 1 .. Len(text[s])
      BY <2>5
    <3> QED
      BY <2>4, <2>5, <3>1 DEF NameOf, Names
  <2>7. StrId \notin Interval(op.id, op.span)
    BY <1>1, <1>2, <1>4, Constants DEF FirstTime
  <2> QED
    BY <1>5, <2>1, <2>6, <2>7
<1>7. ASSUME NEW y \in Interval(op.id, op.span), y # op.id
      PROVE  Reference(issued \cup {op}, y) = Ts(y.sid, y.time - 1)
  <2>1. ASSUME NEW p \in issued \cup {op}, p.id = y PROVE FALSE
    <3>1. p \in issued /\ p # op
      BY <1>7, <2>1
    <3>2. p.id \in Interval(p.id, p.span)
      BY <1>2, <3>1, OperationFields, IntervalStarts
    <3> QED
      BY <1>1, <1>7, <2>1, <3>1, <3>2
  <2>2. op.id.sid = y.sid /\ op.id.time < y.time
    <3>1. y.sid = op.id.sid /\ y.time \in Nat /\ op.id.time <= y.time
      BY <1>2, IntervalBounds
    <3>2. y \in Timestamp
      BY <1>2, IntervalStamps
    <3>3. y.time # op.id.time
      BY <1>2, <1>7, <3>1, <3>2 DEF Timestamp
    <3> QED
      BY <1>2, <3>1, <3>3
  <2>3. y # Ts(Author, FirstTime)
    <3> SUFFICES ASSUME y = Ts(Author, FirstTime) PROVE FALSE
      OBVIOUS
    <3>1. y.time = FirstTime
      BY DEF Ts
    <3> QED
      BY <1>1, <1>2, <2>2, <3>1, Constants
  <2> QED
    BY <2>1, <2>3 DEF Reference
<1>8. Reference(issued \cup {op}, op.id) = op.after
  BY <1>1, ReferenceOfInsertion
<1>9. op.after.time < op.id.time
  BY <1>1, <1>2, Constants DEF FirstTime
<1> QED
  BY <1>1, <1>5, <1>6, <1>7, <1>8, <1>9

\* The shape of an insertion, under one name.
Holds(new, items, op, span, front) ==
  /\ new \in Seq(ItemType)
  /\ Len(new) = Len(items) + span
  /\ \A i \in 1 .. front : new[i] = items[i]
  /\ \A i \in front + 1 .. front + span :
       new[i] = Item(Ts(op.id.sid, op.id.time + (i - front - 1)))
  /\ \A i \in front + span + 1 .. Len(items) + span : new[i] = items[i - span]

\* Inserted puts the run at the front it was given.
LEMMA InsertedHolds ==
  ASSUME NEW items \in Seq(ItemType), NEW op, op.id \in Timestamp,
         NEW span \in Nat, op.span = span, op.id \notin Names(items),
         NEW front \in 0 .. Len(items), front = FrontOf(items, op.after, op.id)
  PROVE  Holds(Inserted(items, op), items, op, span, front)
BY InsertedShape DEF Holds
-----------------------------------------------------------------------------
(***************************************************************************)
(* A list that holds what some of the operations make, whoever keeps it: a *)
(* replica, or a replay of a history.                                      *)
(***************************************************************************)
Listed(ops, ids, items) ==
  /\ WellPlaced(ops, items)
  /\ Names(items) = Known(ops, ids)
  /\ \A i \in DOMAIN items :
       items[i].live <=> \A p \in Deletions(ops, ids) : items[i].id \notin p.what
  /\ \A p \in Deletions(ops, ids) : p.what \subseteq Known(ops, ids)

\* There is only one such list.
LEMMA ListedOnce ==
  ASSUME NEW ops, NEW ids, NEW a, NEW b, Listed(ops, ids, a), Listed(ops, ids, b)
  PROVE  a = b
<1>1. /\ WellPlaced(ops, a) /\ WellPlaced(ops, b) /\ Names(a) = Names(b)
      /\ a \in Seq(ItemType) /\ b \in Seq(ItemType)
  BY DEF Listed, WellPlaced
<1>2. Len(a) = Len(b) /\ \A i \in 1 .. Len(a) : a[i].id = b[i].id
  BY <1>1, SameItemsSameOrder
<1>3. ASSUME NEW i \in 1 .. Len(a) PROVE a[i] = b[i]
  <2>1. i \in DOMAIN a /\ i \in DOMAIN b /\ a[i].id = b[i].id
        /\ a[i] \in ItemType /\ b[i] \in ItemType
    BY <1>1, <1>2
  <2>2. a[i].live <=> b[i].live
    BY <2>1, Zenon DEF Listed
  <2> QED
    BY <2>1, <2>2 DEF ItemType
<1> QED
  BY <1>1, <1>2, <1>3

\* The list of a replica holds what it applied.
LEMMA ListedHere ==
  ASSUME IInv, NEW s \in Sids
  PROVE  Listed(issued, applied[s], text[s])
<1>1. WellPlaced(issued, text[s])
  BY ListsAreWellPlaced
<1>2. ASSUME NEW p \in Deletions(issued, applied[s])
      PROVE  p.what \subseteq Known(issued, applied[s])
  <2>1. p \in issued /\ p.kind = "del" /\ p.id \in applied[s]
    BY DEF Deletions
  <2>2. p.what \subseteq Known(issued, p.deps) /\ p.deps \subseteq applied[s]
    BY <2>1 DEF IInv, RefersToKnown, Causal
  <2> QED
    BY <2>2, KnownIsMonotonic
<1> QED
  BY <1>1, <1>2 DEF Listed, IInv, Contents

\* The items of an operation that is issued are later than the node.
LEMMA NodeIsEarlier ==
  ASSUME IInv, NEW op \in issued
  PROVE  /\ op \in Operation /\ FirstTime + InitLen <= op.id.time
         /\ StrId \notin Interval(op.id, op.span)
         /\ Ts(Author, FirstTime) \notin Interval(op.id, op.span) \ {op.id}
<1>1. op \in Operation /\ FirstTime + InitLen <= op.id.time
  BY DEF IInv, TypeOK, ClocksAhead
<1>2. op.id \in Timestamp /\ op.id.time \in Nat /\ op.span \in Nat
  BY <1>1, OperationFields
<1>3. \A y \in Interval(op.id, op.span) : y.time \in Nat /\ op.id.time <= y.time /\ y.sid = op.id.sid
  BY <1>2, IntervalBounds
<1>4. StrId \notin Interval(op.id, op.span)
  BY <1>1, <1>2, <1>3, Constants DEF FirstTime
<1>5. ASSUME Ts(Author, FirstTime) \in Interval(op.id, op.span) \ {op.id} PROVE FALSE
  <2>1. /\ op.id.time <= Ts(Author, FirstTime).time /\ op.id.sid = Ts(Author, FirstTime).sid
    BY <1>3, <1>5
  <2>2. Ts(Author, FirstTime).time = FirstTime /\ Ts(Author, FirstTime).sid = Author
    BY DEF Ts
  <2>3. op.id.time = FirstTime /\ op.id.sid = Author
    BY <1>1, <1>2, <2>1, <2>2, Constants
  <2>4. op.id = Ts(Author, FirstTime)
    BY <1>2, <2>3 DEF Ts, Timestamp
  <2> QED
    BY <1>5, <2>4
<1> QED
  BY <1>1, <1>4, <1>5

\* Behind which items a run belongs that a list does not hold yet.
LEMMA ListedFresh ==
  ASSUME IInv, NEW op \in issued, op.kind = "ins", NEW ids, op.deps \subseteq ids,
         NEW items, Listed(issued, ids, items), op.id \notin Names(items)
  PROVE  /\ Interval(op.id, op.span) \cap Names(items) = {}
         /\ \A y \in Names(items) : Reference(issued, y) \notin Interval(op.id, op.span)
         /\ \A y \in Interval(op.id, op.span) \ {op.id} :
              Reference(issued, y) = Ts(y.sid, y.time - 1)
         /\ Reference(issued, op.id) = op.after
         /\ op.after \in {StrId} \cup Names(items) /\ op.after.time < op.id.time
<1>1. /\ UniqueIds(issued) /\ issued \subseteq Operation /\ op \in Operation
      /\ FirstTime + InitLen <= op.id.time /\ StrId \notin Interval(op.id, op.span)
      /\ Ts(Author, FirstTime) \notin Interval(op.id, op.span) \ {op.id}
  BY NodeIsEarlier, DisjointIdsDiffer DEF IInv, TypeOK
<1>2. /\ op.id \in Timestamp /\ op.id \in Interval(op.id, op.span) /\ op.id.time \in Nat
      /\ op.span \in Nat
  BY <1>1, OperationFields, IntervalStarts
<1>3. /\ WellPlaced(issued, items) /\ Names(items) = Known(issued, ids)
      /\ items \in Seq(ItemType)
  BY DEF Listed, WellPlaced
<1>4. /\ \A p, q \in issued : p # q => Interval(p.id, p.span) \cap Interval(q.id, q.span) = {}
      /\ \A p \in issued : FirstTime + InitLen <= p.id.time
  BY DEF IInv, DisjointOps, ClocksAhead
<1>5. op.id \notin ids
  <2> SUFFICES ASSUME op.id \in ids PROVE FALSE
    OBVIOUS
  <2>1. op \in Insertions(issued, ids)
    BY DEF Insertions
  <2>2. op.id \in Known(issued, ids)
    BY <1>2, <2>1 DEF Known
  <2> QED
    BY <1>3, <2>2
<1>6. ASSUME NEW y \in Interval(op.id, op.span), y \in Names(items) PROVE FALSE
  <2>1. issued \in SUBSET Operation /\ y \in Interval(op.id, op.span) \cap Known(issued, ids)
    BY <1>1, <1>3, <1>6
  <2>2. op.id \in ids
    BY <1>4, <2>1, KnownOnceApplied
  <2> QED
    BY <1>5, <2>2
<1>7. ASSUME NEW y \in Names(items) PROVE Reference(issued, y) \notin Interval(op.id, op.span)
  <2>1. PICK j \in DOMAIN items : items[j].id = y
    BY DEF Names
  <2>2. Placed(issued, items, j) /\ j \in 1 .. Len(items) /\ Len(items) \in Nat
    BY <1>3, <2>1, NamesAreTimestamps DEF WellPlaced
  <2>3. PICK i \in 0 .. j - 1 : NameOf(items, i) = Reference(issued, y)
    BY <2>1, <2>2 DEF Placed
  <2>4. i = 0 \/ i \in 1 .. Len(items)
    BY <2>2
  <2>5. Reference(issued, y) \in {StrId} \cup Names(items)
    BY <1>3, <2>3, <2>4 DEF NameOf, Names
  <2> QED
    BY <1>1, <1>6, <2>5
<1>8. ASSUME NEW y \in Interval(op.id, op.span), y # op.id
      PROVE  Reference(issued, y) = Ts(y.sid, y.time - 1)
  <2>1. ASSUME NEW p \in issued, p.id = y PROVE FALSE
    <3>1. p.id \in Interval(p.id, p.span)
      BY <1>1, OperationFields, IntervalStarts
    <3>2. p = op
      BY <1>4, <1>8, <2>1, <3>1
    <3> QED
      BY <1>8, <2>1, <3>2
  <2>2. y # Ts(Author, FirstTime)
    BY <1>1, <1>8
  <2> QED
    BY <2>1, <2>2 DEF Reference
<1>9. Reference(issued, op.id) = op.after
  BY <1>1, ReferenceOfInsertion
<1>10. op.after \in {StrId} \cup Known(issued, op.deps)
  BY DEF IInv, RefersToKnown
<1>11. Known(issued, op.deps) \subseteq Known(issued, ids)
  BY KnownIsMonotonic
<1>12. op.after.time < op.id.time
  <2>1. CASE op.after = StrId
    BY <1>1, <1>2, <2>1, Constants DEF FirstTime
  <2>2. CASE op.after \in Known(issued, op.deps)
    BY <2>2, DepsAreEarlier DEF IInv
  <2> QED
    BY <1>10, <2>1, <2>2
<1> QED
  BY <1>3, <1>6, <1>7, <1>8, <1>9, <1>10, <1>11, <1>12

\* An insertion that the list does not hold yet adds its run.
LEMMA ListedGrows ==
  ASSUME IInv, NEW op \in issued, op.kind = "ins", NEW ids, op.deps \subseteq ids,
         NEW items, Listed(issued, ids, items), op.id \notin Names(items)
  PROVE  Listed(issued, ids \cup {op.id}, Inserted(items, op))
<1> DEFINE run == Interval(op.id, op.span)
           new == Inserted(items, op)
           more == ids \cup {op.id}
<1>1. /\ UniqueIds(issued) /\ op \in Operation /\ op.id \in Timestamp
      /\ StrId \notin run /\ Ts(Author, FirstTime) \notin run \ {op.id}
  BY NodeIsEarlier, OperationFields, DisjointIdsDiffer DEF IInv
<1>2. /\ run \cap Names(items) = {} /\ op.after \in {StrId} \cup Names(items)
  BY ListedFresh
<1>3. /\ WellPlaced(issued, items) /\ Names(items) = Known(issued, ids)
      /\ items \in Seq(ItemType) /\ Distinct(items) /\ StrId \notin Names(items)
      /\ \A j \in DOMAIN items : Placed(issued, items, j)
  BY DEF Listed, WellPlaced
<1>4. issued \cup {op} = issued
  OBVIOUS
<1>5. ASSUME NEW p \in issued, p # op PROVE p.id \notin run
  <2>1. p.id \in Interval(p.id, p.span)
    BY OperationFields, IntervalStarts DEF IInv, TypeOK
  <2> QED
    BY <1>5, <2>1 DEF IInv, DisjointOps
<1>6. \A j \in DOMAIN new : Placed(issued, new, j)
  <2>1. UniqueIds(issued \cup {op})
    BY <1>1, <1>4
  <2>2. \A j \in DOMAIN new : Placed(issued \cup {op}, new, j)
    BY <1>1, <1>2, <1>3, <1>5, <2>1, InsertionKeepsPlaces
  <2> QED
    BY <1>4, <2>2
<1>7. /\ new \in Seq(ItemType) /\ Distinct(new)
      /\ Names(new) = Names(items) \cup run
      /\ OldOrNew(items, new, run)
  BY <1>1, <1>2, <1>3, InsertionAddsItems
<1>8. /\ Known(issued, more) = Known(issued, ids) \cup run
      /\ Deletions(issued, more) = Deletions(issued, ids)
  BY <1>1, KnownGrows
<1>9. \A y \in Names(new) : Reference(issued, y) \in Timestamp /\ Reference(issued, y).time < y.time
  <2>1. Names(new) = Known(issued, more)
    BY <1>3, <1>7, <1>8
  <2> QED
    BY <2>1, ReferencesAreEarlier DEF IInv
<1>10. WellPlaced(issued, new)
  BY <1>1, <1>3, <1>6, <1>7, <1>9 DEF WellPlaced
<1>11. ASSUME NEW j \in DOMAIN new
       PROVE  new[j].live <=> \A p \in Deletions(issued, more) : new[j].id \notin p.what
  <2>1. CASE \E i \in DOMAIN items : new[j] = items[i]
    <3>1. PICK i \in DOMAIN items : new[j] = items[i]
      BY <2>1
    <3>2. items[i].live <=> \A p \in Deletions(issued, ids) : items[i].id \notin p.what
      BY Zenon DEF Listed
    <3> QED
      BY <1>8, <3>1, <3>2, Zenon
  <2>2. CASE new[j].id \in run /\ new[j].live = TRUE
    <3>1. \A p \in Deletions(issued, ids) : p.what \subseteq Names(items)
      BY <1>3 DEF Listed
    <3> QED
      BY <1>2, <1>8, <2>2, <3>1
  <2> QED
    BY <1>7, <2>1, <2>2, Zenon DEF OldOrNew
<1>12. \A p \in Deletions(issued, more) : p.what \subseteq Known(issued, more)
  BY <1>8 DEF Listed
<1> QED
  BY <1>3, <1>7, <1>8, <1>10, <1>11, <1>12, Zenon DEF Listed

\* A deletion hides what it names.
LEMMA ListedHides ==
  ASSUME IInv, NEW op \in issued, op.kind = "del", NEW ids, op.deps \subseteq ids,
         NEW items, Listed(issued, ids, items)
  PROVE  Listed(issued, ids \cup {op.id}, Deleted(items, op))
<1> DEFINE new == Deleted(items, op)
           more == ids \cup {op.id}
<1>1. UniqueIds(issued)
  BY DisjointIdsDiffer DEF IInv
<1>2. /\ WellPlaced(issued, items) /\ Names(items) = Known(issued, ids)
      /\ items \in Seq(ItemType)
  BY DEF Listed, WellPlaced
<1>3. /\ new \in Seq(ItemType) /\ DOMAIN new = DOMAIN items /\ Names(new) = Names(items)
      /\ \A i \in DOMAIN items :
           /\ new[i].id = items[i].id
           /\ new[i].live <=> items[i].live /\ items[i].id \notin op.what
  BY <1>2, DeletionHidesItems
<1>4. /\ Known(issued, more) = Known(issued, ids)
      /\ Deletions(issued, more) = Deletions(issued, ids) \cup {op}
  <2>1. /\ Known(issued, ids \cup {op.id}) = Known(issued, ids)
        /\ Deletions(issued, ids \cup {op.id}) = Deletions(issued, ids) \cup {op}
    <3>1. op \in issued /\ UniqueIds(issued) /\ op.kind = "del"
      BY <1>1
    <3> HIDE DEF new, more
    <3> QED
      BY <3>1, KnownGrows, SMTT(30)
  <2> QED
    BY <2>1
<1> HIDE DEF new, more
<1>5. ASSUME NEW j \in DOMAIN new PROVE Placed(issued, new, j)
  <2>1. j \in DOMAIN items /\ Placed(issued, items, j)
    BY <1>2, <1>3 DEF WellPlaced
  <2> QED
    BY <1>2, <1>3, <2>1, PlacesStay
<1>6. WellPlaced(issued, new)
  BY <1>2, <1>3, <1>5 DEF WellPlaced, Distinct
<1>7. ASSUME NEW j \in DOMAIN new
      PROVE  new[j].live <=> \A p \in Deletions(issued, more) : new[j].id \notin p.what
  <2>1. items[j].live <=> \A p \in Deletions(issued, ids) : items[j].id \notin p.what
    BY <1>3, Zenon DEF Listed
  <2> QED
    BY <1>3, <1>4, <2>1, Zenon
<1>8. op.what \subseteq Known(issued, ids)
  <2>1. op.what \subseteq Known(issued, op.deps)
    BY DEF IInv, RefersToKnown
  <2> QED
    BY <2>1, KnownIsMonotonic
<1>9. \A p \in Deletions(issued, more) : p.what \subseteq Known(issued, more)
  BY <1>4, <1>8 DEF Listed
<1> QED
  BY <1>2, <1>3, <1>4, <1>6, <1>7, <1>9, Zenon DEF Listed, new, more

\* An insertion comes again where it was applied, and only there.
LEMMA ListedAgain ==
  ASSUME IInv, NEW op \in issued, op.kind = "ins", NEW ids,
         NEW items, Listed(issued, ids, items), op.id \in Names(items)
  PROVE  ids \cup {op.id} = ids
<1>1. op \in Operation /\ issued \in SUBSET Operation /\ op.id \in Interval(op.id, op.span)
  BY OperationFields, IntervalStarts DEF IInv, TypeOK
<1>2. op.id \in Known(issued, ids)
  BY DEF Listed
<1>3. op.id \in ids
  BY <1>1, <1>2, KnownOnceApplied DEF IInv, DisjointOps, ClocksAhead
<1> QED
  BY <1>3

\* An operation that has what it depends on takes the list to the next one.
LEMMA ListedNext ==
  ASSUME IInv, NEW op \in issued, NEW ids, op.deps \subseteq ids,
         NEW items, Listed(issued, ids, items)
  PROVE  Listed(issued, ids \cup {op.id}, Integrated(items, op))
<1>1. op.kind \in {"ins", "del"}
  BY OperationFields DEF IInv, TypeOK
<1>2. CASE op.kind = "del"
  BY <1>2, ListedHides DEF Integrated
<1>3. CASE op.kind = "ins" /\ op.id \notin Names(items)
  BY <1>3, ListedGrows DEF Integrated
<1>4. CASE op.kind = "ins" /\ op.id \in Names(items)
  <2>1. ids \cup {op.id} = ids
    BY <1>4, ListedAgain
  <2> QED
    BY <1>4, <2>1 DEF Integrated, Inserted
<1> QED
  BY <1>1, <1>2, <1>3, <1>4

\* A new operation leaves what the others make as it was.
LEMMA ListedStays ==
  ASSUME IInv, NEW s \in Sids, NEW op \in Operation, Comes(s, op),
         NEW ids \in SUBSET Ids(issued), NEW items, Listed(issued, ids, items)
  PROVE  Listed(issued \cup {op}, ids, items)
<1> DEFINE more == issued \cup {op}
<1>1. /\ Known(more, ids) = Known(issued, ids)
      /\ \A y \in Known(issued, ids) : Reference(more, y) = Reference(issued, y)
  BY ComesReferences
<1>2. Deletions(more, ids) = Deletions(issued, ids)
  BY ComesFacts, KnownStays
<1>3. /\ WellPlaced(issued, items) /\ Names(items) = Known(issued, ids)
      /\ items \in Seq(ItemType)
  BY DEF Listed, WellPlaced
<1> HIDE DEF more
<1>4. \A j \in DOMAIN items : Placed(more, items, j)
  BY <1>1, <1>3, PlacesStay DEF WellPlaced
<1>5. WellPlaced(more, items)
  BY <1>1, <1>3, <1>4 DEF WellPlaced
<1> QED
  BY <1>1, <1>2, <1>3, <1>5, Zenon DEF Listed, more
=============================================================================
