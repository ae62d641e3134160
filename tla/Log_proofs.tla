------------------------------ MODULE Log_proofs ------------------------------
(***************************************************************************)
(* Proofs about Log: replaying the history of a session, in the order of   *)
(* ids and from whatever baseline, gives its end model.  The end models    *)
(* are replicas of RgaText, whose invariant and whose lemmas on chunks     *)
(* that hold what some operations make are those of the instance R.        *)
(***************************************************************************)
EXTENDS Log, Facts, FiniteSetTheorems

\* A patch as the operation of the node it holds.
Stripped(p) ==
  IF p.kind = "ins"
  THEN [kind |-> "ins", id |-> p.id, after |-> p.after, span |-> p.span, deps |-> p.deps]
  ELSE p

Operations == {Stripped(p) : p \in issued}
HasApplied == [s \in Sids |-> Applied(s)]

R == INSTANCE RgaText_proofs WITH
       rga <- end, applied <- HasApplied, issued <- Operations, reloads <- 0,
       MaxOps <- MaxPatches, MaxRun <- 1, MaxReloads <- 0, Savers <- {}

PatchIds(set) == {p.id : p \in set}

\* What sessions keep: patches that were issued, and a baseline that holds
\* what the patches baked into it make.
Histories ==
  /\ IsFiniteSet(issued)
  /\ patches \in [Sids -> SUBSET issued]
  /\ baked \in [Sids -> SUBSET PatchIds(issued)]
  /\ start = [s \in Sids |-> start[s]]
  /\ \A s \in Sids : R!Built(R!Ops, baked[s], start[s])

\* The inductive invariant.
Inv == R!Inv /\ Histories
-----------------------------------------------------------------------------
(***************************************************************************)
(* The instance has its own copies of the operators of Rga.                *)
(***************************************************************************)
LEMMA CopiesOfClock ==
  /\ R!Timestamp = Timestamp /\ R!StrId = StrId /\ R!FirstTime = FirstTime
  /\ R!Origin = Origin /\ R!NoLink = NoLink
  /\ \A sid, time0 : R!Ts(sid, time0) = Ts(sid, time0)
  /\ \A a, b : R!Less(a, b) <=> Less(a, b)
  /\ \A a, b : R!Larger(a, b) = Larger(a, b)
  /\ \A id, span : R!Interval(id, span) = Interval(id, span)
<1>1. \A sid, time0 : R!Ts(sid, time0) = Ts(sid, time0)
  BY DEF R!Ts, Ts
<1>2. R!Timestamp = Timestamp /\ R!FirstTime = FirstTime
  BY DEF R!Timestamp, Timestamp, R!FirstTime, FirstTime
<1>3. R!StrId = StrId /\ R!Origin = Origin /\ R!NoLink = NoLink
  BY <1>1 DEF R!StrId, StrId, R!Origin, Origin, R!NoLink, NoLink, R!SystemSid, SystemSid
<1>4. \A a, b : R!Less(a, b) <=> Less(a, b)
  BY DEF R!Less, Less
<1>5. \A a, b : R!Larger(a, b) = Larger(a, b)
  BY DEF R!Larger, Larger
<1>6. \A id, span : R!Interval(id, span) = Interval(id, span)
  BY <1>1 DEF R!Interval, Interval
<1> QED
  BY <1>1, <1>2, <1>3, <1>4, <1>5, <1>6

\* The chunks and what finds them.
LEMMA CopiesOfChunks ==
  /\ \A c : R!NextTick(c) = NextTick(c)
  /\ \A c, t : R!Covers(c, t) <=> Covers(c, t)
  /\ \A chunks, t : R!Holding(chunks, t) = Holding(chunks, t)
  /\ \A chunks, t : R!FindById(chunks, t) = FindById(chunks, t)
  /\ \A chunks, t : R!StartsAt(chunks, t) = StartsAt(chunks, t)
  /\ \A chunks, t : R!PlaceOf(chunks, t) = PlaceOf(chunks, t)
  /\ \A id, span, deleted, link : R!Chunk(id, span, deleted, link) = Chunk(id, span, deleted, link)
  /\ \A id, span : R!NewChunk(id, span) = NewChunk(id, span)
  /\ \A chunks, i, pieces : R!Replace(chunks, i, pieces) = Replace(chunks, i, pieces)
  /\ \A c, at : R!Split(c, at) = Split(c, at)
  /\ \A S : R!Min(S) = Min(S) /\ R!Max(S) = Max(S)
  /\ \A s, i, e : R!InsertAt(s, i, e) = InsertAt(s, i, e) /\ R!RemoveAt(s, i) = RemoveAt(s, i)
  /\ \A s : R!FlattenSeq(s) = FlattenSeq(s)
<1>1. \A c : R!NextTick(c) = NextTick(c)
  BY DEF R!NextTick, NextTick
<1>2. \A c, t : R!Covers(c, t) <=> Covers(c, t)
  BY <1>1 DEF R!Covers, Covers
<1>3. \A chunks, t : R!Holding(chunks, t) = Holding(chunks, t)
  BY <1>2 DEF R!Holding, Holding
<1>4. \A chunks, t : R!FindById(chunks, t) = FindById(chunks, t)
  BY <1>3 DEF R!FindById, FindById
<1>5. \A chunks, t : R!StartsAt(chunks, t) = StartsAt(chunks, t)
  BY DEF R!StartsAt, StartsAt
<1>6. \A chunks, t : R!PlaceOf(chunks, t) = PlaceOf(chunks, t)
  BY <1>5 DEF R!PlaceOf, PlaceOf
<1>7. \A id, span, deleted, link : R!Chunk(id, span, deleted, link) = Chunk(id, span, deleted, link)
  BY DEF R!Chunk, Chunk
<1>8. \A id, span : R!NewChunk(id, span) = NewChunk(id, span)
  BY <1>7, CopiesOfClock DEF R!NewChunk, NewChunk
<1>9. \A chunks, i, pieces : R!Replace(chunks, i, pieces) = Replace(chunks, i, pieces)
  BY DEF R!Replace, Replace
<1>10. \A c, at : R!Split(c, at) = Split(c, at)
  BY <1>7, CopiesOfClock DEF R!Split, Split
<1>11. \A S : R!Min(S) = Min(S) /\ R!Max(S) = Max(S)
  BY DEF R!Min, Min, R!Max, Max
<1>12. \A s, i, e : R!InsertAt(s, i, e) = InsertAt(s, i, e) /\ R!RemoveAt(s, i) = RemoveAt(s, i)
  BY DEF R!InsertAt, InsertAt, R!RemoveAt, RemoveAt
<1>13. \A s : R!FlattenSeq(s) = FlattenSeq(s)
  BY DEF R!FlattenSeq, FlattenSeq
<1> QED
  BY <1>1, <1>2, <1>3, <1>4, <1>5, <1>6, <1>7, <1>8, <1>9, <1>10, <1>11, <1>12, <1>13

\* An insertion.
LEMMA CopyOfInsert ==
  \A chunks, after, id, span : R!Insert(chunks, after, id, span) = Insert(chunks, after, id, span)
<1>1. \A right, new : R!Stops(right, new) <=> Stops(right, new)
  BY CopiesOfClock DEF R!Stops, Stops
<1>2. \A c, new, ref : R!Continues(c, new, ref) <=> Continues(c, new, ref)
  BY CopiesOfChunks DEF R!Continues, Continues
<1>3. ASSUME NEW chunks, NEW new, NEW ref, NEW left
      PROVE  R!InsertAfterRef(chunks, new, ref, left) = InsertAfterRef(chunks, new, ref, left)
  <2> DEFINE halts == {j \in left .. Len(chunks) : j = Len(chunks) \/ Stops(chunks[j + 1], new)}
             last == Min(halts)
             open == {j \in left .. last : chunks[j].link = NoLink}
             linked == [j \in DOMAIN chunks |->
                          IF j \in open /\ Continues(chunks[j], new, ref)
                          THEN [chunks[j] EXCEPT !.link = new.id] ELSE chunks[j]]
  <2>1. /\ {j \in left .. Len(chunks) : j = Len(chunks) \/ R!Stops(chunks[j + 1], new)} = halts
        /\ R!Min(halts) = last
    BY <1>1, CopiesOfChunks
  <2>2. {j \in left .. last : chunks[j].link = R!NoLink} = open /\ R!Max(open) = Max(open)
    BY CopiesOfClock, CopiesOfChunks
  <2>3. [j \in DOMAIN chunks |->
           IF j \in open /\ R!Continues(chunks[j], new, ref)
           THEN [chunks[j] EXCEPT !.link = new.id] ELSE chunks[j]] = linked
    BY <1>2
  <2> HIDE DEF halts, last, open, linked
  <2>4. R!InsertAfterRef(chunks, new, ref, left)
          = IF last < Len(chunks) /\ chunks[last + 1].id = new.id
            THEN IF open # {} /\ Continues(chunks[Max(open)], new, ref)
                 THEN [linked EXCEPT ![last].link = NoLink] ELSE linked
            ELSE IF (open # {} /\ Continues(chunks[Max(open)], new, ref)) /\ ~chunks[last].deleted
            THEN [linked EXCEPT ![last].span = @ + new.span, ![last].link = NoLink]
            ELSE InsertAt(linked, last + 1, new)
    <3>1. R!InsertAfterRef(chunks, new, ref, left)
          = IF last < Len(chunks) /\ chunks[last + 1].id = new.id
            THEN IF open # {} /\ R!Continues(chunks[Max(open)], new, ref)
                 THEN [linked EXCEPT ![last].link = R!NoLink] ELSE linked
            ELSE IF (open # {} /\ R!Continues(chunks[Max(open)], new, ref)) /\ ~chunks[last].deleted
            THEN [linked EXCEPT ![last].span = @ + new.span, ![last].link = R!NoLink]
            ELSE R!InsertAt(linked, last + 1, new)
      BY <2>1, <2>2, <2>3, Zenon DEF R!InsertAfterRef
    <3> QED
      BY <1>2, <3>1, CopiesOfClock, CopiesOfChunks
  <2>5. InsertAfterRef(chunks, new, ref, left)
          = IF last < Len(chunks) /\ chunks[last + 1].id = new.id
            THEN IF open # {} /\ Continues(chunks[Max(open)], new, ref)
                 THEN [linked EXCEPT ![last].link = NoLink] ELSE linked
            ELSE IF (open # {} /\ Continues(chunks[Max(open)], new, ref)) /\ ~chunks[last].deleted
            THEN [linked EXCEPT ![last].span = @ + new.span, ![last].link = NoLink]
            ELSE InsertAt(linked, last + 1, new)
    BY Zenon DEF InsertAfterRef, halts, last, open, linked
  <2> QED
    BY <2>4, <2>5
<1>4. \A chunks, new, after : R!InsAfterRoot(chunks, new, after) = InsAfterRoot(chunks, new, after)
  BY <1>3, CopiesOfClock, CopiesOfChunks DEF R!InsAfterRoot, InsAfterRoot
<1>5. \A chunks, new, after, i : R!InsAfterChunk(chunks, new, after, i) = InsAfterChunk(chunks, new, after, i)
  BY <1>3, CopiesOfClock, CopiesOfChunks DEF R!InsAfterChunk, InsAfterChunk
<1> QED
  BY <1>4, <1>5, CopiesOfClock, CopiesOfChunks DEF R!Insert, Insert

\* A deletion.
LEMMA CopyOfDelete ==
  \A chunks, spans : R!Delete(chunks, spans) = Delete(chunks, spans)
<1>1. /\ \A c, t : R!TailPart(c, t) = TailPart(c, t)
      /\ \A c, t : R!FrontPart(c, t) = FrontPart(c, t)
      /\ \A pieces : R!LastDead(pieces) = LastDead(pieces)
  BY CopiesOfChunks DEF R!TailPart, TailPart, R!FrontPart, FrontPart, R!LastDead, LastDead
<1>2. \A c, t1, t2 : R!Cut(c, t1, t2) = Cut(c, t1, t2)
  BY <1>1 DEF R!Cut, Cut
<1>3. \A chunks, i, t1, t2 : R!CutAt(chunks, i, t1, t2) = CutAt(chunks, i, t1, t2)
  BY <1>2, CopiesOfChunks DEF R!CutAt, CutAt
<1>4. \A walk, i, cut, t2 : R!Onward(walk, i, cut, t2) = Onward(walk, i, cut, t2)
  BY CopiesOfClock, CopiesOfChunks DEF R!Onward, Onward
<1>5. \A walk, t1, t2 : R!DeleteTurn(walk, t1, t2) = DeleteTurn(walk, t1, t2)
  BY <1>3, <1>4, CopiesOfChunks DEF R!DeleteTurn, DeleteTurn
<1>6. ASSUME NEW chunks, NEW from, NEW t1, NEW t2
      PROVE  R!DeleteWalk(chunks, from, t1, t2) = DeleteWalk(chunks, from, t1, t2)
  <2> DEFINE first == [rga |-> chunks, from |-> from, on |-> TRUE]
             last == t2 - t1 + 2
  <2>1. /\ R!DeleteWalk(chunks, from, t1, t2)
             = (CHOOSE turn : turn = [n \in 0 .. last |->
                  IF n = 0 THEN first ELSE R!DeleteTurn(turn[n - 1], t1, t2)])[last]
        /\ DeleteWalk(chunks, from, t1, t2)
             = (CHOOSE turn : turn = [n \in 0 .. last |->
                  IF n = 0 THEN first ELSE DeleteTurn(turn[n - 1], t1, t2)])[last]
    BY Zenon DEF R!DeleteWalk, DeleteWalk
  <2> HIDE DEF first, last
  <2> QED
    BY <1>5, <2>1, Zenon
<1>7. \A chunks, i : R!Mergeable(chunks, i) <=> Mergeable(chunks, i)
  BY CopiesOfClock, CopiesOfChunks DEF R!Mergeable, Mergeable
<1>8. \A chunks, i : R!MergeTombstones(chunks, i) = MergeTombstones(chunks, i)
  BY <1>7, CopiesOfChunks DEF R!MergeTombstones, MergeTombstones
<1>9. \A walk, last : R!MergeTurn(walk, last) = MergeTurn(walk, last)
  BY <1>7, <1>8, CopiesOfClock, CopiesOfChunks DEF R!MergeTurn, MergeTurn
<1>10. \A chunks, from, last : R!MergeWalk(chunks, from, last) = MergeWalk(chunks, from, last)
  BY <1>9, Zenon DEF R!MergeWalk, MergeWalk
<1>11. \A chunks, from : R!MergeInFront(chunks, from) = MergeInFront(chunks, from)
  BY <1>8, CopiesOfChunks DEF R!MergeInFront, MergeInFront
<1>12. \A walk, from : R!MergeTombstones2(walk, from) = MergeTombstones2(walk, from)
  BY <1>10, <1>11 DEF R!MergeTombstones2, MergeTombstones2
<1>13. \A chunks, tss : R!DeleteSpan(chunks, tss) = DeleteSpan(chunks, tss)
  BY <1>6, <1>12, CopiesOfClock, CopiesOfChunks DEF R!DeleteSpan, DeleteSpan
<1> QED
  BY <1>13, Zenon DEF R!Delete, Delete

\* What a node shows.
LEMMA CopiesOfViews ==
  /\ \A chunks : R!Items(chunks) = Items(chunks)
  /\ \A chunks : R!View(chunks) = View(chunks)
  /\ \A chunks, pos, len : R!FindInterval(chunks, pos, len) = FindInterval(chunks, pos, len)
<1>1. /\ \A c : R!RunOf(c) = RunOf(c)
      /\ \A c : R!LiveIds(c) = LiveIds(c)
  BY CopiesOfClock DEF R!RunOf, RunOf, R!LiveIds, LiveIds
<1>2. /\ \A chunks : R!Items(chunks) = Items(chunks)
      /\ \A chunks : R!View(chunks) = View(chunks)
  BY <1>1, CopiesOfChunks DEF R!Items, Items, R!View, View
<1>3. ASSUME NEW chunks, NEW pos, NEW len
      PROVE  R!FindInterval(chunks, pos, len) = FindInterval(chunks, pos, len)
  <2> DEFINE before(i) == Len(View(SubSeq(chunks, 1, i - 1)))
             from(i) == Larger(pos, before(i)) - before(i)
             to(i) == Min({pos + len - before(i), chunks[i].span})
             spans == [i \in DOMAIN chunks |->
               IF chunks[i].deleted \/ to(i) <= from(i) THEN << >>
               ELSE <<[sid |-> chunks[i].id.sid, time |-> chunks[i].id.time + from(i),
                       span |-> to(i) - from(i)]>>]
  <2>1. /\ \A i : Len(R!View(SubSeq(chunks, 1, i - 1))) = before(i)
        /\ \A i : R!Larger(pos, before(i)) - before(i) = from(i)
        /\ \A i : R!Min({pos + len - before(i), chunks[i].span}) = to(i)
    BY <1>2, CopiesOfClock, CopiesOfChunks
  <2>2. FindInterval(chunks, pos, len) = FlattenSeq(spans)
    BY DEF FindInterval
  <2> HIDE DEF before, from, to
  <2>3. R!FindInterval(chunks, pos, len) = R!FlattenSeq(spans)
    BY <2>1 DEF R!FindInterval
  <2> QED
    BY <2>2, <2>3, CopiesOfChunks
<1> QED
  BY <1>2, <1>3

\* The constants are as the text of an instance needs them.
LEMMA Constants ==
  Author \in Sids /\ InitLen \in Nat /\ MaxPatches \in Nat /\ 1 \in Nat \ {0}
BY LogAssumption
-----------------------------------------------------------------------------
(***************************************************************************)
(* Patches as operations.                                                  *)
(***************************************************************************)
\* A patch and its operation have the same fields, letters aside.
LEMMA StrippedFields ==
  ASSUME NEW p
  PROVE  /\ Stripped(p).kind = p.kind /\ Stripped(p).id = p.id /\ Stripped(p).deps = p.deps
         /\ Stripped(p).span = p.span
         /\ p.kind = "ins" => Stripped(p).after = p.after
         /\ p.kind # "ins" => Stripped(p) = p
BY DEF Stripped

\* A patch does to a node what its operation does.
LEMMA AppliesAlike ==
  ASSUME NEW chunks, NEW p
  PROVE  ApplyPatch(chunks, p) = R!ApplyToNode(chunks, Stripped(p))
BY StrippedFields, CopyOfInsert, CopyOfDelete DEF ApplyPatch, R!ApplyToNode

\* What the invariant says of a patch.
LEMMA PatchFacts ==
  ASSUME Inv, NEW p \in issued
  PROVE  /\ Stripped(p) \in Operations /\ Stripped(p) \in R!RawOperation
         /\ p.id \in Timestamp /\ p.span \in Nat \ {0} /\ p.kind \in {"ins", "del"}
         /\ p.deps \subseteq Timestamp
<1>1. Stripped(p) \in Operations
  BY DEF Operations
<1>2. Stripped(p) \in R!RawOperation
  BY <1>1 DEF Inv, R!Inv, R!Typed
<1>3. /\ Stripped(p).id \in Timestamp /\ Stripped(p).span \in Nat \ {0}
      /\ Stripped(p).kind \in {"ins", "del"} /\ Stripped(p).deps \subseteq Timestamp
  BY <1>2, Constants, SidsAssumption, R!OpFacts, CopiesOfClock
<1> QED
  BY <1>1, <1>2, <1>3, StrippedFields

\* A patch depends on earlier ones.
LEMMA EarlierFirst ==
  ASSUME Inv, NEW p \in issued, NEW q \in issued, p.id \in q.deps
  PROVE  Less(p.id, q.id)
<1>1. /\ Stripped(p) \in Operations /\ Stripped(q) \in Operations
      /\ Stripped(p).id = p.id /\ Stripped(q).id = q.id /\ Stripped(q).deps = q.deps
  BY PatchFacts, StrippedFields
<1>2. \A a, b \in Operations : a.id \in b.deps => R!Less(a.id, b.id)
  BY Constants, SidsAssumption, R!DepsComeFirst DEF Inv
<1> QED
  BY <1>1, <1>2, CopiesOfClock

\* A session has what its patches depend on.
LEMMA DependsOnHere ==
  ASSUME Inv, NEW s \in Sids, NEW p \in patches[s]
  PROVE  p \in issued /\ p.deps \subseteq Applied(s)
<1>1. p \in issued /\ p.id \in Applied(s)
  BY DEF Inv, Histories, Applied
<1>2. Stripped(p) \in Operations /\ Stripped(p).id = p.id /\ Stripped(p).deps = p.deps
  BY <1>1, PatchFacts, StrippedFields
<1>3. \A op \in Operations : op.id \in HasApplied[s] => op.deps \subseteq HasApplied[s]
  BY Constants, SidsAssumption, R!DepsComeFirst DEF Inv
<1>4. HasApplied[s] = Applied(s)
  BY DEF HasApplied
<1> QED
  BY <1>1, <1>2, <1>3, <1>4
-----------------------------------------------------------------------------
(***************************************************************************)
(* A replay.                                                               *)
(***************************************************************************)
\* Of some patches there is an earliest one.
LEMMA EarliestIsFirst ==
  ASSUME Inv, NEW set \in SUBSET issued, set # {}
  PROVE  Earliest(set) \in set /\ \A q \in set : ~Less(q.id, Earliest(set).id)
<1>1. \A p \in set : p.id \in Timestamp /\ p.id.time \in Nat /\ p.id.sid \in Nat
  BY PatchFacts, SidsAssumption DEF Timestamp
<1> DEFINE times == {p.id.time : p \in set}
<1>2. PICK least \in times : \A n \in times : least <= n
  <2>1. times \subseteq Nat /\ times # {}
    BY <1>1
  <2> QED
    BY <2>1, LeastNumber
<1> DEFINE sids == {p.id.sid : p \in {q \in set : q.id.time = least}}
<1>3. PICK first \in sids : \A n \in sids : first <= n
  <2>1. sids \subseteq Nat /\ sids # {}
    BY <1>1
  <2> QED
    BY <2>1, LeastNumber
<1>4. PICK p \in set : p.id.time = least /\ p.id.sid = first
  OBVIOUS
<1>5. \A q \in set : least <= q.id.time /\ (q.id.time = least => first <= q.id.sid)
  BY <1>2, <1>3
<1>6. \A q \in set : ~Less(q.id, p.id)
  BY <1>1, <1>4, <1>5 DEF Less
<1>7. \E e \in set : \A q \in set : ~Less(q.id, e.id)
  BY <1>4, <1>6
<1> QED
  BY <1>7, Zenon DEF Earliest

TurnsExist(chunks, set, N) ==
  \E f : f = [n \in 0 .. N |-> IF n = 0 THEN [chunks |-> chunks, rest |-> set]
                                ELSE ReplayTurn(f[n - 1])]

\* The function from turns to what a replay has done exists.
LEMMA TurnsAreDefined ==
  ASSUME NEW chunks, NEW set, NEW n \in Nat
  PROVE  TurnsExist(chunks, set, n)
<1> DEFINE base == [chunks |-> chunks, rest |-> set]
           Has(m) == \E f : f = [k \in 0 .. m |-> IF k = 0 THEN base ELSE ReplayTurn(f[k - 1])]
           lacks == {m \in Nat : ~Has(m)}
<1> HIDE DEF base
<1>1. Has(0)
  <2> DEFINE f == [k \in 0 .. 0 |-> base]
  <2>1. f = [k \in 0 .. 0 |-> IF k = 0 THEN base ELSE ReplayTurn(f[k - 1])]
    OBVIOUS
  <2> QED
    BY <2>1
<1>2. ASSUME NEW m \in Nat, Has(m)
      PROVE  Has(m + 1)
  <2>1. PICK f : f = [k \in 0 .. m |-> IF k = 0 THEN base ELSE ReplayTurn(f[k - 1])]
    BY <1>2
  <2> DEFINE final == ReplayTurn(f[m])
             g == [k \in 0 .. m + 1 |-> IF k = m + 1 THEN final ELSE f[k]]
  <2>2. ASSUME NEW k \in 0 .. m + 1
        PROVE  g[k] = IF k = 0 THEN base ELSE ReplayTurn(g[k - 1])
    <3>1. CASE k = m + 1
      <4>1. k # 0 /\ k - 1 = m /\ m \in 0 .. m + 1 /\ m # m + 1
        BY <3>1
      <4>2. g[m] = f[m] /\ g[k] = final
        BY <3>1, <4>1
      <4> QED
        BY <4>1, <4>2
    <3>2. CASE k # m + 1
      <4>1. /\ k \in 0 .. m /\ g[k] = f[k]
            /\ k # 0 => k - 1 \in 0 .. m + 1 /\ k - 1 # m + 1 /\ g[k - 1] = f[k - 1]
        BY <3>2
      <4>2. f[k] = IF k = 0 THEN base ELSE ReplayTurn(f[k - 1])
        BY <2>1, <4>1
      <4> QED
        BY <4>1, <4>2
    <3> QED
      BY <3>1, <3>2
  <2>3. g = [k \in 0 .. m + 1 |-> g[k]]
    OBVIOUS
  <2> HIDE DEF g
  <2> QED
    BY <2>2, <2>3
<1> HIDE DEF Has
<1>3. lacks = {}
  <2> SUFFICES ASSUME lacks # {} PROVE FALSE
    OBVIOUS
  <2>1. PICK m \in lacks : \A k \in lacks : m <= k
    BY LeastNumber
  <2>2. m # 0 /\ m - 1 \in Nat /\ m - 1 \notin lacks
    BY <1>1, <2>1
  <2>3. Has(m - 1 + 1)
    BY <1>2, <2>2
  <2> QED
    BY <2>1, <2>3
<1> QED
  BY <1>3 DEF Has, base, TurnsExist

\* What a replay has done: the chunks hold what the patches taken so far make,
\* `left` more are to come.
Replayed(done, set, ids, left) ==
  /\ done.rest \subseteq set /\ IsFiniteSet(done.rest) /\ Cardinality(done.rest) = left
  /\ R!Built(R!Ops, ids \cup PatchIds(set \ done.rest), done.chunks)

\* The patches are there, and what they depend on is there or among them.
Whole(set, ids) ==
  set \subseteq issued /\ \A p \in set : p.deps \subseteq ids \cup PatchIds(set)

\* A turn takes one patch more, which has what it depends on.
LEMMA TurnReplays ==
  ASSUME Inv, NEW set, NEW ids, Whole(set, ids), NEW left \in Nat \ {0},
         NEW done, Replayed(done, set, ids, left)
  PROVE  Replayed(ReplayTurn(done), set, ids, left - 1)
<1> DEFINE next == Earliest(done.rest)
           fewer == done.rest \ {next}
           taken == ids \cup PatchIds(set \ done.rest)
           op == Stripped(next)
<1>1. done.rest \subseteq set /\ IsFiniteSet(done.rest) /\ Cardinality(done.rest) = left
  BY DEF Replayed
<1>2. done.rest # {} /\ done.rest \in SUBSET issued
  BY <1>1, FS_EmptySet DEF Whole
<1>3. next \in done.rest /\ \A q \in done.rest : ~Less(q.id, next.id)
  BY <1>2, EarliestIsFirst
<1>4. next \in issued /\ op \in Operations /\ op.id = next.id /\ op.deps = next.deps
  BY <1>2, <1>3, PatchFacts, StrippedFields
<1>5. op.deps \subseteq taken
  <2> SUFFICES ASSUME NEW d \in next.deps, d \notin ids PROVE d \in PatchIds(set \ done.rest)
    BY <1>4
  <2>1. PICK q \in set : q.id = d
    BY <1>1, <1>3 DEF Whole, PatchIds
  <2>2. Less(q.id, next.id)
    BY <1>4, <2>1, EarlierFirst DEF Whole
  <2> QED
    BY <1>3, <2>1, <2>2 DEF PatchIds
<1>6. R!Built(R!Ops, taken \cup {op.id}, R!ApplyToNode(done.chunks, op))
  <2>1. R!Built(R!Ops, taken, done.chunks)
    BY DEF Replayed
  <2> HIDE DEF op, taken
  <2> QED
    BY <1>4, <1>5, <2>1, Constants, SidsAssumption, R!BuiltNext DEF Inv
<1>7. taken \cup {op.id} = ids \cup PatchIds(set \ fewer)
  <2>1. set \ fewer = (set \ done.rest) \cup {next}
    BY <1>1, <1>3
  <2>2. PatchIds((set \ done.rest) \cup {next}) = PatchIds(set \ done.rest) \cup {next.id}
    BY DEF PatchIds
  <2> QED
    BY <1>4, <2>1, <2>2
<1>8. ReplayTurn(done) = [chunks |-> R!ApplyToNode(done.chunks, op), rest |-> fewer]
  BY AppliesAlike DEF ReplayTurn
<1>9. fewer \subseteq set /\ IsFiniteSet(fewer) /\ Cardinality(fewer) = left - 1
  BY <1>1, <1>3, FS_RemoveElement
<1>10. R!Built(R!Ops, ids \cup PatchIds(set \ fewer), R!ApplyToNode(done.chunks, op))
  BY <1>6, <1>7
<1> HIDE DEF fewer, taken, op
<1>11. /\ ReplayTurn(done).chunks = R!ApplyToNode(done.chunks, op)
       /\ ReplayTurn(done).rest = fewer
  BY <1>8
<1> QED
  BY <1>9, <1>10, <1>11 DEF Replayed

\* A replay makes of chunks what its patches make of them, in whatever order
\* they arrived.
LEMMA ReplayBuilds ==
  ASSUME Inv, NEW set, NEW ids, Whole(set, ids),
         NEW chunks, R!Built(R!Ops, ids, chunks)
  PROVE  R!Built(R!Ops, ids \cup PatchIds(set), Replay(chunks, set))
<1> DEFINE N == Cardinality(set)
           base == [chunks |-> chunks, rest |-> set]
<1>1. IsFiniteSet(set) /\ N \in Nat
  BY FS_Subset, FS_CardinalityType DEF Inv, Histories, Whole
<1>2. \E f : f = [n \in 0 .. N |-> IF n = 0 THEN base ELSE ReplayTurn(f[n - 1])]
  <2>1. TurnsExist(chunks, set, N)
    BY <1>1, TurnsAreDefined
  <2> HIDE DEF N
  <2> QED
    BY <2>1, Zenon DEF TurnsExist
<1> DEFINE turn == CHOOSE f0 : f0 = [n \in 0 .. N |-> IF n = 0 THEN base ELSE ReplayTurn(f0[n - 1])]
<1>3. turn = [n \in 0 .. N |-> IF n = 0 THEN base ELSE ReplayTurn(turn[n - 1])]
  BY <1>2
<1>4. Replay(chunks, set) = turn[N].chunks
  BY DEF Replay
<1> HIDE DEF turn, base, N
<1>5. /\ turn[0] = base
      /\ \A n \in 1 .. N : n - 1 \in 0 .. N /\ turn[n] = ReplayTurn(turn[n - 1])
  BY <1>1, <1>3
<1> DEFINE wrong == {n \in 0 .. N : ~Replayed(turn[n], set, ids, N - n)}
<1>6. wrong = {}
  <2> SUFFICES ASSUME wrong # {} PROVE FALSE
    OBVIOUS
  <2>1. PICK n \in wrong : \A k \in wrong : n <= k
    <3>1. wrong \subseteq Nat
      BY <1>1
    <3> HIDE DEF wrong
    <3> QED
      BY <3>1, LeastNumber
  <2>2. Replayed(base, set, ids, N)
    <3>1. PatchIds(set \ set) = {}
      BY DEF PatchIds
    <3> QED
      BY <1>1, <3>1 DEF Replayed, base, N
  <2>3. n # 0
    BY <1>1, <1>5, <2>1, <2>2
  <2>4. n - 1 \in 0 .. N /\ n - 1 \notin wrong /\ N - (n - 1) \in Nat \ {0} /\ N - n = N - (n - 1) - 1
    BY <1>1, <2>1, <2>3
  <2>5. Replayed(ReplayTurn(turn[n - 1]), set, ids, N - (n - 1) - 1)
    BY <2>4, TurnReplays
  <2> QED
    BY <1>1, <1>5, <2>1, <2>3, <2>4, <2>5
<1>7. Replayed(turn[N], set, ids, 0)
  BY <1>1, <1>6
<1>8. turn[N].rest = {}
  BY <1>7, FS_EmptySet DEF Replayed
<1> QED
  BY <1>4, <1>7, <1>8 DEF Replayed

\* The patches up to some timestamp are whole.
LEMMA PrefixIsWhole ==
  ASSUME Inv, NEW s \in Sids, NEW ts \in Timestamp,
         NEW set, \/ set = {p \in patches[s] : Less(p.id, ts)}
                  \/ set = {p \in patches[s] : ~Less(ts, p.id)}
                  \/ set = patches[s]
  PROVE  Whole(set, baked[s])
<1>1. patches[s] \subseteq issued /\ set \subseteq patches[s]
  BY DEF Inv, Histories
<1>2. \A p \in patches[s] : p.id \in Timestamp
  BY <1>1, PatchFacts
<1>3. ASSUME NEW p \in set, NEW d \in p.deps, d \notin baked[s] PROVE d \in PatchIds(set)
  <2>1. PICK q \in patches[s] : q.id = d
    BY <1>1, <1>3, DependsOnHere DEF Applied
  <2>2. Less(q.id, p.id)
    BY <1>1, <2>1, EarlierFirst
  <2>3. Less(p.id, ts) => Less(q.id, ts)
    BY <1>1, <1>2, <2>2, LessIsTransitive
  <2>4. Less(ts, q.id) => Less(ts, p.id)
    BY <1>1, <1>2, <2>2, LessIsTransitive
  <2> QED
    BY <2>1, <2>3, <2>4 DEF PatchIds
<1> QED
  BY <1>1, <1>3 DEF Whole

\* The chunks of a replay up to some timestamp, and of the whole.
LEMMA ReplaysBuild ==
  ASSUME Inv, NEW s \in Sids
  PROVE  /\ R!Built(R!Ops, Applied(s), ReplayToEnd(s))
         /\ \A ts \in Timestamp :
              /\ R!Built(R!Ops, baked[s] \cup PatchIds({p \in patches[s] : Less(p.id, ts)}),
                         ReplayTo(s, ts))
              /\ R!Built(R!Ops, baked[s] \cup PatchIds({p \in patches[s] : ~Less(ts, p.id)}),
                         Advanced(s, ts))
<1>1. R!Built(R!Ops, baked[s], start[s])
  BY DEF Inv, Histories
<1>2. StrId \in Timestamp
  BY Constants DEF StrId, Ts, Timestamp
<1>3. Whole(patches[s], baked[s])
  BY <1>2, PrefixIsWhole
<1>4. R!Built(R!Ops, baked[s] \cup PatchIds(patches[s]), ReplayToEnd(s))
  BY <1>1, <1>3, ReplayBuilds DEF ReplayToEnd
<1>5. ASSUME NEW ts \in Timestamp, NEW set, NEW chunks,
             \/ set = {p \in patches[s] : Less(p.id, ts)}
             \/ set = {p \in patches[s] : ~Less(ts, p.id)},
             chunks = Replay(start[s], set)
      PROVE  R!Built(R!Ops, baked[s] \cup PatchIds(set), chunks)
  <2>1. Whole(set, baked[s])
    BY <1>5, PrefixIsWhole
  <2> QED
    BY <1>1, <1>5, <2>1, ReplayBuilds
<1> QED
  BY <1>4, <1>5 DEF Applied, PatchIds, ReplayTo, Advanced

\* Replays give the end models.
LEMMA ReplaysEnd == Inv => ReplayIsEnd
<1> SUFFICES ASSUME Inv, NEW s \in Sids PROVE Items(ReplayToEnd(s)) = Items(end[s])
  BY DEF ReplayIsEnd
<1>1. R!Built(R!Ops, HasApplied[s], end[s])
  BY Constants, SidsAssumption, R!BuiltHere DEF Inv
<1>2. R!Built(R!Ops, HasApplied[s], ReplayToEnd(s))
  BY ReplaysBuild DEF HasApplied
<1>3. R!Items(ReplayToEnd(s)) = R!Items(end[s])
  BY <1>1, <1>2, Constants, SidsAssumption, R!BuiltOnce
<1> QED
  BY <1>3, CopiesOfViews
-----------------------------------------------------------------------------
(***************************************************************************)
(* Steps that give a patch to an end model.                                *)
(***************************************************************************)
\* The end model takes a patch as a replica takes its operation.
LEMMA ApplyIsApply ==
  ASSUME Inv, NEW s \in Sids, NEW patch, Apply(s, patch)
  PROVE  /\ R!ApplyOperation(s, Stripped(patch))
         /\ patches' = [patches EXCEPT ![s] = @ \cup {patch}]
         /\ start' = start /\ baked' = baked
<1> DEFINE op == Stripped(patch)
<1>1. end' = [end EXCEPT ![s] = R!ApplyToNode(@, op)]
  BY AppliesAlike DEF Apply
<1>2. time' = [time EXCEPT ![s] = R!Larger(@, op.id.time + op.span)]
  BY StrippedFields, CopiesOfClock DEF Apply
<1>3. patches' = [patches EXCEPT ![s] = @ \cup {patch}] /\ start' = start /\ baked' = baked
  BY DEF Apply
<1>4. \A t \in Sids : Applied(t)' = IF t = s THEN Applied(t) \cup {op.id} ELSE Applied(t)
  BY <1>3, StrippedFields DEF Applied, Inv, Histories
<1>5. HasApplied' = [HasApplied EXCEPT ![s] = @ \cup {op.id}]
  BY <1>4 DEF HasApplied
<1> HIDE DEF op
<1>6. R!ApplyOperation(s, op)
  BY <1>1, <1>2, <1>5 DEF R!ApplyOperation
<1> QED
  BY <1>3, <1>6 DEF op

\* A new patch, as its operation comes.
IssuesWell(s, op) ==
  /\ op \in R!RawOperation
  /\ op.id = R!Ts(s, time[s]) /\ op.deps = HasApplied[s]
  /\ op.kind = "ins" => op.after \in {R!StrId} \cup R!Names(R!Items(end[s]))
  /\ op.kind = "del" => R!CoveredBy(op.what) \subseteq R!Names(R!Items(end[s]))
  /\ op.kind = "del" => R!RunsHere(s, op)

\* A patch that is issued keeps the invariant: what the baselines hold does
\* not depend on it.
LEMMA IssueKeeps ==
  ASSUME Inv, NEW s \in Sids, NEW patch, Issue(s, patch), IssuesWell(s, Stripped(patch))
  PROVE  Inv'
<1> DEFINE op == Stripped(patch)
<1>1. /\ R!ApplyOperation(s, op) /\ patches' = [patches EXCEPT ![s] = @ \cup {patch}]
      /\ start' = start /\ baked' = baked /\ issued' = issued \cup {patch}
  BY ApplyIsApply DEF Issue
<1>2. Operations' = Operations \cup {op}
  BY <1>1 DEF Operations
<1>3. op \in R!RawOperation
  BY DEF IssuesWell
<1> HIDE DEF op
<1>4. R!Inv' /\ R!T!Comes(s, R!Op(op))
  BY <1>1, <1>2, <1>3, Constants, SidsAssumption, R!IssueKeepsInv DEF Inv, IssuesWell, op
<1>5. R!Ops' = R!Ops \cup {R!Op(op)}
  BY <1>2, Constants, SidsAssumption, R!OpsGrow
<1>6. ASSUME NEW t \in Sids PROVE R!Built(R!Ops', baked[t], start[t])
  <2>1. R!Built(R!Ops, baked[t], start[t])
    BY DEF Inv, Histories
  <2>2. baked[t] \in SUBSET R!T!Ids(R!Ops)
    <3>1. baked[t] \subseteq PatchIds(issued)
      BY DEF Inv, Histories
    <3>2. \A p \in issued : \E o \in R!Ops : o.id = p.id
      <4>1. \A p \in issued : /\ Stripped(p) \in Operations /\ Stripped(p) \in R!RawOperation
                              /\ Stripped(p).id = p.id
        BY PatchFacts, StrippedFields
      <4>2. \A o \in R!RawOperation : R!Op(o).id = o.id
        BY Constants, SidsAssumption, R!OpFacts
      <4> QED
        BY <4>1, <4>2 DEF R!Ops
    <3> QED
      BY <3>1, <3>2 DEF PatchIds, R!T!Ids
  <2>3. R!Built(R!Ops \cup {R!Op(op)}, baked[t], start[t])
    BY <1>3, <1>4, <2>1, <2>2, Constants, SidsAssumption, R!BuiltStays DEF Inv
  <2> QED
    BY <1>5, <2>3
<1>7. /\ IsFiniteSet(issued') /\ patches' \in [Sids -> SUBSET issued']
      /\ baked' \in [Sids -> SUBSET PatchIds(issued')]
      /\ start' = [t \in Sids |-> start'[t]]
  <2>1. IsFiniteSet(issued')
    BY <1>1, FS_AddElement DEF Inv, Histories
  <2>2. PatchIds(issued) \subseteq PatchIds(issued') /\ issued \subseteq issued' /\ patch \in issued'
    BY <1>1 DEF PatchIds
  <2> QED
    BY <1>1, <2>1, <2>2 DEF Inv, Histories
<1>8. \A t \in Sids : R!Built(R!Ops', baked'[t], start'[t])
  BY <1>1, <1>6
<1> QED
  BY <1>4, <1>7, <1>8 DEF Inv, Histories

\* So does a patch that is received, for the first time or again.
LEMMA ReceiveKeeps ==
  ASSUME Inv, NEW s \in Sids, NEW patch \in issued, Receive(s, patch)
  PROVE  Inv'
<1> DEFINE op == Stripped(patch)
<1>1. /\ R!ApplyOperation(s, op) /\ patches' = [patches EXCEPT ![s] = @ \cup {patch}]
      /\ start' = start /\ baked' = baked /\ issued' = issued
  BY ApplyIsApply DEF Receive
<1>2. /\ Operations' = Operations /\ op \in Operations
      /\ op.deps \subseteq HasApplied[s]
  BY <1>1, PatchFacts, StrippedFields DEF Operations, HasApplied, Receive
<1> HIDE DEF op
<1>3. R!Receive(s, op)
  BY <1>1, <1>2 DEF R!Receive
<1>4. R!Inv'
  BY <1>2, <1>3, Constants, SidsAssumption, R!ReceiveKeepsInv DEF Inv
<1>5. R!Ops' = R!Ops
  BY <1>2 DEF R!Ops
<1>6. \A t \in Sids : R!Built(R!Ops', baked'[t], start'[t])
  BY <1>1, <1>5 DEF Inv, Histories
<1>7. /\ IsFiniteSet(issued') /\ patches' \in [Sids -> SUBSET issued']
      /\ baked' \in [Sids -> SUBSET PatchIds(issued')]
      /\ start' = [t \in Sids |-> start'[t]]
  BY <1>1 DEF Inv, Histories
<1> QED
  BY <1>4, <1>6, <1>7 DEF Inv, Histories
-----------------------------------------------------------------------------
(***************************************************************************)
(* What is issued.                                                         *)
(***************************************************************************)
\* Typing a letter.
LEMMA TypeKeeps ==
  ASSUME Inv, NEW s \in Sids, NEW index \in 0 .. Len(View(end[s])), Type(s, index)
  PROVE  Inv'
<1> DEFINE after == IF index = 0 THEN StrId ELSE View(end[s])[index]
           patch == InsStr(NextTs(s), after, <<NextTs(s)>>, Applied(s))
<1>1. Issue(s, patch)
  BY DEF Type
<1>2. index \in 0 .. R!Length(s)
  BY CopiesOfViews DEF R!Length
<1>3. PICK op \in R!RawOperation :
        /\ op = R!InsStr(R!Ts(s, time[s]), IF index = 0 THEN R!StrId ELSE R!View(end[s])[index],
                         1, HasApplied[s])
        /\ op.kind = "ins" /\ op.id = R!Ts(s, time[s]) /\ op.deps = HasApplied[s]
        /\ op.after \in {R!StrId} \cup R!Names(R!Items(end[s]))
  BY <1>2, Constants, SidsAssumption, R!InsertionIssued DEF Inv
<1>4. Stripped(patch) = op
  BY <1>3, CopiesOfClock, CopiesOfViews DEF Stripped, InsStr, R!InsStr, NextTs, HasApplied
<1>5. IssuesWell(s, Stripped(patch))
  BY <1>3, <1>4 DEF IssuesWell
<1> QED
  BY <1>1, <1>5, IssueKeeps

\* Erasing letters.
LEMMA EraseKeeps ==
  ASSUME Inv, NEW s \in Sids, NEW index \in 0 .. Len(View(end[s])),
         NEW length \in 1 .. Len(View(end[s])) - index, Erase(s, index, length)
  PROVE  Inv'
<1> DEFINE patch == Del(NextTs(s), FindInterval(end[s], index, length), Applied(s))
<1>1. Issue(s, patch)
  BY DEF Erase
<1>2. index \in 0 .. R!Length(s) /\ length \in 1 .. R!Length(s) - index
  BY CopiesOfViews DEF R!Length
<1>3. PICK op \in R!RawOperation :
        /\ op = R!Del(R!Ts(s, time[s]), R!FindInterval(end[s], index, length), HasApplied[s])
        /\ op.kind = "del" /\ op.id = R!Ts(s, time[s]) /\ op.deps = HasApplied[s]
        /\ R!CoveredBy(op.what) \subseteq R!Names(R!Items(end[s]))
        /\ R!RunsHere(s, op)
  BY <1>2, Constants, SidsAssumption, R!DeletionIssued DEF Inv
<1>4. Stripped(patch) = op
  BY <1>3, CopiesOfClock, CopiesOfViews DEF Stripped, Del, R!Del, NextTs, HasApplied
<1>5. IssuesWell(s, Stripped(patch))
  BY <1>3, <1>4 DEF IssuesWell
<1> QED
  BY <1>1, <1>5, IssueKeeps

\* The undo of an insertion.
LEMMA UndoOfInsertion ==
  ASSUME Inv, NEW s \in Sids, NEW patch \in patches[s], patch.kind = "ins",
         NEW undo \in UndoPatch(s, patch)
  PROVE  IssuesWell(s, Stripped(undo))
<1> DEFINE p == Stripped(patch)
           what == <<[sid |-> p.id.sid, time |-> p.id.time, span |-> p.span]>>
<1>1. patch \in issued /\ patch.id \in Applied(s)
  BY DEF Inv, Histories, Applied
<1>2. p \in Operations /\ p.kind = "ins" /\ p.id \in HasApplied[s]
      /\ p.id = patch.id /\ p.span = patch.span
  BY <1>1, PatchFacts, StrippedFields DEF HasApplied
<1>3. undo = Del(NextTs(s), what, Applied(s))
  BY <1>2 DEF UndoPatch
<1> HIDE DEF p
<1>4. Stripped(undo) = R!Del(R!Ts(s, time[s]), what, HasApplied[s])
  BY <1>3, CopiesOfClock DEF Stripped, Del, R!Del, NextTs, HasApplied
<1>5. /\ Stripped(undo) \in R!RawOperation /\ Stripped(undo).kind = "del"
      /\ Stripped(undo).id = R!Ts(s, time[s]) /\ Stripped(undo).deps = HasApplied[s]
      /\ R!CoveredBy(Stripped(undo).what) \subseteq R!Names(R!Items(end[s]))
      /\ R!RunsHere(s, Stripped(undo))
  BY <1>2, <1>4, Constants, SidsAssumption, R!RunIsHere DEF Inv
<1> QED
  BY <1>5 DEF IssuesWell

\* Chunks whose links lead to chunks.
Led(chunks) ==
  /\ chunks \in Seq(R!ChunkType)
  /\ \A i \in DOMAIN chunks : chunks[i].link # NoLink => StartsAt(chunks, chunks[i].link) # {}

\* The walk of span_view_str stays on the chunks.
Walks(walk, chunks) ==
  /\ walk.taken \in Seq(Timestamp) /\ walk.left \in Nat /\ walk.offset \in Nat
  /\ walk.on \in BOOLEAN /\ walk.at \in DOMAIN chunks

\* Items taken off a chunk are timestamps.
LEMMA TakeIsList ==
  ASSUME NEW c \in R!ChunkType, NEW offset \in Nat, NEW a \in Nat, NEW b \in Nat
  PROVE  Take(c, offset, Min({a, b})) \in Seq(Timestamp)
<1>1. Min({a, b}) \in Nat
  <2>1. \E x \in {a, b} : \A y \in {a, b} : x <= y
    OBVIOUS
  <2>2. Min({a, b}) \in {a, b}
    BY <2>1 DEF Min
  <2> QED
    BY <2>2
<1>2. c.id \in Timestamp /\ c.id.sid \in Sids /\ c.id.time \in Nat
  BY CopiesOfClock DEF R!ChunkType, Timestamp
<1> DEFINE n == Min({a, b})
           item(k) == Ts(c.id.sid, c.id.time + offset + k - 1)
<1>3. Take(c, offset, n) = [k \in 1 .. n |-> item(k)]
  BY DEF Take
<1> HIDE DEF n
<1>4. \A k \in 1 .. n : item(k) \in Timestamp
  BY <1>1, <1>2 DEF Ts, Timestamp, n
<1> HIDE DEF item
<1>5. n \in Nat
  BY <1>1 DEF n
<1>6. Take(c, offset, n) \in Seq(Timestamp)
  BY <1>3, <1>4, <1>5
<1> QED
  BY <1>6 DEF n

\* A turn keeps the walk on the chunks.
LEMMA TurnWalks ==
  ASSUME NEW chunks, Led(chunks), NEW walk, Walks(walk, chunks), NEW isFirst \in BOOLEAN
  PROVE  Walks(SpanTurn(chunks, walk, isFirst), chunks)
<1> DEFINE c == chunks[walk.at]
           taken == IF c.deleted THEN << >>
                    ELSE Take(c, walk.offset, Min({Minus(c.span, walk.offset), walk.left}))
           enough == ~c.deleted /\ IF isFirst THEN c.span >= walk.left + walk.offset
                                              ELSE c.span > walk.left
           left == IF isFirst /\ ~c.deleted
                   THEN Minus(Minus(walk.left, Minus(c.span, walk.offset)), c.span)
                   ELSE Minus(walk.left, c.span)
           ends == enough \/ left = 0 \/ c.link = NoLink
           at == IF ends THEN walk.at ELSE PlaceOf(chunks, c.link)
<1>1. c \in R!ChunkType /\ c.span \in Nat
  <2>1. \A d \in R!ChunkType : d.span \in Nat
    BY DEF R!ChunkType
  <2>2. chunks \in Seq(R!ChunkType) /\ walk.at \in DOMAIN chunks
    BY DEF Led, Walks
  <2>3. c \in R!ChunkType
    BY <2>2
  <2> QED
    BY <2>1, <2>3
<1>2. \A a, b \in Nat : Minus(a, b) \in Nat
  BY DEF Minus
<1>3. walk.left \in Nat /\ walk.offset \in Nat /\ walk.taken \in Seq(Timestamp)
      /\ walk.at \in DOMAIN chunks
  BY DEF Walks
<1>4. taken \in Seq(Timestamp)
  <2> DEFINE some == Take(c, walk.offset, Min({Minus(c.span, walk.offset), walk.left}))
  <2>1. some \in Seq(Timestamp)
    BY <1>1, <1>2, <1>3, TakeIsList
  <2> HIDE DEF some
  <2> QED
    BY <2>1 DEF some
<1>5. left \in Nat
  BY <1>1, <1>2, <1>3
<1>6. at \in DOMAIN chunks
  <2>1. CASE c.link # NoLink
    <3>1. StartsAt(chunks, c.link) # {} /\ StartsAt(chunks, c.link) \subseteq DOMAIN chunks
      BY <1>3, <2>1 DEF Led, StartsAt
    <3>2. PlaceOf(chunks, c.link) \in DOMAIN chunks
      BY <3>1 DEF PlaceOf
    <3> HIDE DEF ends, c
    <3> QED
      BY <1>3, <3>2
  <2>2. CASE c.link = NoLink
    BY <1>3, <2>2
  <2> QED
    BY <2>1, <2>2
<1>7. SpanTurn(chunks, walk, isFirst)
        = IF ~walk.on THEN walk
          ELSE [taken |-> walk.taken \o taken, left |-> left, offset |-> 0, on |-> ~ends, at |-> at]
  BY Zenon DEF SpanTurn
<1>8. (~ends) \in BOOLEAN
  OBVIOUS
<1> DEFINE more == ~ends
<1> HIDE DEF taken, left, at, more, ends, enough, c
<1>9. walk.taken \o taken \in Seq(Timestamp)
  BY <1>3, <1>4
<1>10. Walks([taken |-> walk.taken \o taken, left |-> left, offset |-> 0, on |-> more, at |-> at], chunks)
  BY <1>5, <1>6, <1>8, <1>9 DEF Walks, more
<1> QED
  BY <1>7, <1>10 DEF more

SpanTurnsExist(chunks, i, offset, span, N) ==
  \E f : f = [n \in 0 .. N |->
    IF n = 0 THEN [taken |-> << >>, left |-> span, offset |-> offset, on |-> TRUE, at |-> i]
    ELSE SpanTurn(chunks, f[n - 1], n = 1)]

\* The function from turns to walks of span_view_str exists.
LEMMA SpanTurnsAreDefined ==
  ASSUME NEW chunks, NEW i, NEW offset, NEW span, NEW n \in Nat
  PROVE  SpanTurnsExist(chunks, i, offset, span, n)
<1> DEFINE base == [taken |-> << >>, left |-> span, offset |-> offset, on |-> TRUE, at |-> i]
           Has(m) == \E f : f = [k \in 0 .. m |->
                       IF k = 0 THEN base ELSE SpanTurn(chunks, f[k - 1], k = 1)]
           lacks == {m \in Nat : ~Has(m)}
<1> HIDE DEF base
<1>1. Has(0)
  <2> DEFINE f == [k \in 0 .. 0 |-> base]
  <2>1. f = [k \in 0 .. 0 |-> IF k = 0 THEN base ELSE SpanTurn(chunks, f[k - 1], k = 1)]
    OBVIOUS
  <2> QED
    BY <2>1
<1>2. ASSUME NEW m \in Nat, Has(m)
      PROVE  Has(m + 1)
  <2>1. PICK f : f = [k \in 0 .. m |-> IF k = 0 THEN base ELSE SpanTurn(chunks, f[k - 1], k = 1)]
    BY <1>2
  <2> DEFINE final == SpanTurn(chunks, f[m], m + 1 = 1)
             g == [k \in 0 .. m + 1 |-> IF k = m + 1 THEN final ELSE f[k]]
  <2>2. ASSUME NEW k \in 0 .. m + 1
        PROVE  g[k] = IF k = 0 THEN base ELSE SpanTurn(chunks, g[k - 1], k = 1)
    <3>1. CASE k = m + 1
      <4>1. k # 0 /\ k - 1 = m /\ m \in 0 .. m + 1 /\ m # m + 1
        BY <3>1
      <4>2. g[m] = f[m] /\ g[k] = final
        BY <3>1, <4>1
      <4> QED
        BY <3>1, <4>1, <4>2
    <3>2. CASE k # m + 1
      <4>1. /\ k \in 0 .. m /\ g[k] = f[k]
            /\ k # 0 => k - 1 \in 0 .. m + 1 /\ k - 1 # m + 1 /\ g[k - 1] = f[k - 1]
        BY <3>2
      <4>2. f[k] = IF k = 0 THEN base ELSE SpanTurn(chunks, f[k - 1], k = 1)
        BY <2>1, <4>1
      <4> QED
        BY <4>1, <4>2
    <3> QED
      BY <3>1, <3>2
  <2>3. g = [k \in 0 .. m + 1 |-> g[k]]
    OBVIOUS
  <2> HIDE DEF g
  <2>4. g = [k \in 0 .. m + 1 |-> IF k = 0 THEN base ELSE SpanTurn(chunks, g[k - 1], k = 1)]
    BY <2>2, <2>3, Zenon
  <2> QED
    BY <2>4
<1> HIDE DEF Has
<1>3. lacks = {}
  <2> SUFFICES ASSUME lacks # {} PROVE FALSE
    OBVIOUS
  <2>1. PICK m \in lacks : \A k \in lacks : m <= k
    BY LeastNumber
  <2>2. m # 0 /\ m - 1 \in Nat /\ m - 1 \notin lacks
    BY <1>1, <2>1
  <2>3. Has(m - 1 + 1)
    BY <1>2, <2>2
  <2> QED
    BY <2>1, <2>3
<1> QED
  BY <1>3 DEF Has, base, SpanTurnsExist

\* What a walk takes are timestamps.
LEMMA SpanWalkIsList ==
  ASSUME NEW chunks, Led(chunks), NEW i \in DOMAIN chunks, NEW offset \in Nat, NEW span \in Nat
  PROVE  SpanWalk(chunks, i, offset, span) \in Seq(Timestamp)
<1> DEFINE N == Len(chunks)
           base == [taken |-> << >>, left |-> span, offset |-> offset, on |-> TRUE, at |-> i]
<1>1. N \in Nat
  BY DEF Led
<1>2. \E f : f = [n \in 0 .. N |-> IF n = 0 THEN base ELSE SpanTurn(chunks, f[n - 1], n = 1)]
  <2>1. SpanTurnsExist(chunks, i, offset, span, N)
    BY <1>1, SpanTurnsAreDefined
  <2> HIDE DEF N
  <2> QED
    BY <2>1, Zenon DEF SpanTurnsExist
<1> DEFINE turn == CHOOSE f0 : f0 = [n \in 0 .. N |->
                     IF n = 0 THEN base ELSE SpanTurn(chunks, f0[n - 1], n = 1)]
<1>3. turn = [n \in 0 .. N |-> IF n = 0 THEN base ELSE SpanTurn(chunks, turn[n - 1], n = 1)]
  BY <1>2
<1>4. SpanWalk(chunks, i, offset, span) = turn[N].taken
  BY DEF SpanWalk
<1>5. Walks(base, chunks)
  BY DEF Walks
<1> HIDE DEF turn, base, N
<1>6. /\ turn[0] = base
      /\ \A n \in 1 .. N : n - 1 \in 0 .. N /\ turn[n] = SpanTurn(chunks, turn[n - 1], n = 1)
  BY <1>1, <1>3
<1> DEFINE wrong == {n \in 0 .. N : ~Walks(turn[n], chunks)}
<1>7. wrong = {}
  <2> SUFFICES ASSUME wrong # {} PROVE FALSE
    OBVIOUS
  <2>1. PICK n \in wrong : \A k \in wrong : n <= k
    <3>1. wrong \subseteq Nat
      BY <1>1
    <3> HIDE DEF wrong
    <3> QED
      BY <3>1, LeastNumber
  <2>2. n # 0
    BY <1>5, <1>6, <2>1
  <2>3. n \in 1 .. N /\ n - 1 \in 0 .. N /\ n - 1 \notin wrong
    BY <1>1, <2>1, <2>2
  <2>4. Walks(turn[n - 1], chunks) /\ (n = 1) \in BOOLEAN
    BY <2>3
  <2>5. Walks(SpanTurn(chunks, turn[n - 1], n = 1), chunks)
    BY <2>4, TurnWalks
  <2> QED
    BY <1>6, <2>1, <2>3, <2>5
<1>8. Walks(turn[N], chunks)
  BY <1>1, <1>7
<1> QED
  BY <1>4, <1>8 DEF Walks

\* What span_view_str reads off chunks are timestamps.
LEMMA SpanViewIsList ==
  ASSUME NEW chunks, Led(chunks), NEW tss \in R!SpanType
  PROVE  SpanView(chunks, tss) \in Seq(Timestamp)
<1> DEFINE first == Ts(tss.sid, tss.time)
           i == FindById(chunks, first)
<1>1. tss.sid \in Sids /\ tss.time \in Nat /\ tss.span \in Nat
  BY DEF R!SpanType
<1>2. CASE Holding(chunks, first) = {}
  <2>1. SpanView(chunks, tss) = << >>
    BY <1>2 DEF SpanView
  <2> QED
    BY <2>1
<1>3. CASE Holding(chunks, first) # {}
  <2>1. i \in Holding(chunks, first)
    BY <1>3 DEF FindById
  <2>2. i \in DOMAIN chunks /\ Covers(chunks[i], first)
    BY <2>1 DEF Holding
  <2>3. chunks[i].id.time \in Nat /\ chunks[i].id.time <= tss.time
    <3>1. \A d \in R!ChunkType : d.id.time \in Nat
      BY CopiesOfClock DEF R!ChunkType, Timestamp
    <3>2. chunks[i] \in R!ChunkType
      BY <2>2 DEF Led
    <3>3. chunks[i].id.time <= first.time /\ first.time = tss.time
      BY <2>2 DEF Covers, Ts
    <3> HIDE DEF i
    <3> QED
      BY <3>1, <3>2, <3>3
  <2>4. tss.time - chunks[i].id.time \in Nat
    BY <1>1, <2>3
  <2>5. SpanView(chunks, tss) = SpanWalk(chunks, i, tss.time - chunks[i].id.time, tss.span)
    BY <1>3 DEF SpanView
  <2> QED
    BY <1>1, <2>2, <2>4, <2>5, SpanWalkIsList
<1> QED
  BY <1>2, <1>3

\* The undo of a deletion: the items it hid, behind an item that is there.
LEMMA UndoOfDeletion ==
  ASSUME Inv, NEW s \in Sids, NEW patch \in patches[s], patch.kind # "ins",
         NEW undo \in UndoPatch(s, patch)
  PROVE  IssuesWell(s, Stripped(undo))
<1> DEFINE before == ReplayTo(s, patch.id)
           views == [k \in DOMAIN patch.what |-> SpanView(before, patch.what[k])]
           restored == FlattenSeq(views)
           after == PrevId(before, Ts(patch.what[1].sid, patch.what[1].time))
           ids == baked[s] \cup PatchIds({p \in patches[s] : Less(p.id, patch.id)})
<1>1. /\ patch \in issued /\ patch.id \in Timestamp /\ patch.what \in Seq(R!SpanType)
  <2>1. patch \in issued
    BY DEF Inv, Histories
  <2>2. Stripped(patch) = patch /\ patch \in R!RawOperation /\ patch.id \in Timestamp
    BY <2>1, PatchFacts, StrippedFields
  <2>3. patch.kind = "del"
    BY <2>1, PatchFacts
  <2> QED
    BY <2>1, <2>2, <2>3, Constants, SidsAssumption, R!OpFacts
<1>2. R!Built(R!Ops, ids, before)
  BY <1>1, ReplaysBuild
<1>3. Led(before)
  <2>1. /\ before \in Seq(R!ChunkType)
        /\ \A i \in DOMAIN before : before[i].link # R!NoLink => R!StartsAt(before, before[i].link) # {}
    BY <1>2, Constants, SidsAssumption, R!BuiltLeads
  <2> HIDE DEF before
  <2> QED
    BY <2>1, CopiesOfClock, CopiesOfChunks DEF Led
<1>4. restored \in Seq(Timestamp)
  <2>1. \A k \in DOMAIN patch.what : SpanView(before, patch.what[k]) \in Seq(Timestamp)
    BY <1>1, <1>3, SpanViewIsList
  <2>2. views \in Seq(Seq(Timestamp))
    <3> HIDE DEF before
    <3>1. DOMAIN patch.what = 1 .. Len(patch.what) /\ Len(patch.what) \in Nat
      BY <1>1
    <3> QED
      BY <2>1, <3>1
  <2> HIDE DEF views
  <2> QED
    BY <2>2, FlattenIsSeq
<1>5. after \in {StrId} \cup R!Names(R!Items(before))
  <2> HIDE DEF before
  <2>1. after \in {StrId} \cup {Items(before)[i].id : i \in DOMAIN Items(before)}
    BY DEF PrevId
  <2> QED
    BY <2>1, CopiesOfViews DEF R!Names
<1>6. R!Names(R!Items(before)) \subseteq R!Names(R!Items(end[s]))
  <2>1. ids \in SUBSET HasApplied[s]
    BY DEF HasApplied, Applied, PatchIds
  <2> HIDE DEF ids, before
  <2> QED
    BY <1>2, <2>1, Constants, SidsAssumption, R!BuiltIsHere DEF Inv
<1>7. undo = InsStr(NextTs(s), after, Letters(restored), Applied(s)) /\ restored # << >>
  BY Zenon DEF UndoPatch
<1>8. Len(Letters(restored)) \in Nat \ {0}
  <2>1. Letters(restored) = [k \in 1 .. Len(restored) |-> LetterOf(restored[k])]
    BY <1>4 DEF Letters
  <2>2. Len(restored) \in Nat \ {0}
    BY <1>4, <1>7
  <2> HIDE DEF restored
  <2>3. Letters(restored) \in Seq({LetterOf(restored[k]) : k \in 1 .. Len(restored)})
        /\ Len(Letters(restored)) = Len(restored)
    BY <2>1, <2>2
  <2> QED
    BY <2>2, <2>3
<1> HIDE DEF after, restored
<1> DEFINE span == Len(Letters(restored))
<1>9. Stripped(undo) = [kind |-> "ins", id |-> R!Ts(s, time[s]), after |-> after, span |-> span,
                        deps |-> HasApplied[s]]
  BY <1>7, CopiesOfClock DEF Stripped, InsStr, NextTs, HasApplied
<1> HIDE DEF span
<1>10. /\ R!Ts(s, time[s]) \in R!Timestamp /\ HasApplied[s] \subseteq R!Timestamp
       /\ R!Names(R!Items(end[s])) \subseteq R!Timestamp
  BY Constants, SidsAssumption, R!OwnStamp DEF Inv
<1>11. after \in {R!StrId} \cup R!Names(R!Items(end[s])) /\ R!StrId \in R!Timestamp
  BY <1>5, <1>6, CopiesOfClock, Constants, SidsAssumption, R!RootStamp
<1>12. Stripped(undo) \in R!RawOperation
  BY <1>8, <1>9, <1>10, <1>11 DEF R!RawOperation, span
<1> QED
  BY <1>9, <1>11, <1>12 DEF IssuesWell
-----------------------------------------------------------------------------
(***************************************************************************)
(* Every action, and the first state.                                      *)
(***************************************************************************)
\* Undo keeps the invariant.
LEMMA UndoKeeps ==
  ASSUME Inv, NEW s \in Sids, NEW patch \in issued, Undo(s, patch)
  PROVE  Inv'
<1>1. PICK undo \in UndoPatch(s, patch) : Issue(s, undo)
  BY DEF Undo
<1>2. patch \in patches[s]
  BY DEF Undo
<1>3. IssuesWell(s, Stripped(undo))
  BY <1>1, <1>2, UndoOfInsertion, UndoOfDeletion
<1> QED
  BY <1>1, <1>3, IssueKeeps

\* What only moves patches keeps the end models.
LEMMA EndsStay ==
  ASSUME Inv, end' = end, time' = time, issued' = issued, \A s \in Sids : Applied(s)' = Applied(s)
  PROVE  R!Inv' /\ R!Ops' = R!Ops
<1>1. Operations' = Operations /\ HasApplied' = HasApplied
  BY DEF Operations, HasApplied
<1>2. UNCHANGED R!vars
  BY <1>1 DEF R!vars
<1>3. R!Inv /\ [R!Next]_(R!vars) => R!Inv'
  BY Constants, SidsAssumption, R!StepKeeps
<1> QED
  BY <1>1, <1>2, <1>3 DEF Inv, R!Ops

\* advance_to keeps the invariant: the new baseline holds what is baked.
LEMMA AdvanceKeeps ==
  ASSUME Inv, NEW s \in Sids, NEW ts \in {p.id : p \in patches[s]}, AdvanceTo(s, ts)
  PROVE  Inv'
<1> DEFINE now == {p \in patches[s] : ~Less(ts, p.id)}
<1>1. /\ start' = [start EXCEPT ![s] = Advanced(s, ts)]
      /\ patches' = [patches EXCEPT ![s] = {p \in @ : Less(ts, p.id)}]
      /\ baked' = [baked EXCEPT ![s] = @ \cup PatchIds(now)]
      /\ end' = end /\ time' = time /\ issued' = issued
  BY DEF AdvanceTo, PatchIds
<1>2. /\ patches \in [Sids -> SUBSET issued] /\ baked \in [Sids -> SUBSET PatchIds(issued)]
      /\ start = [t \in Sids |-> start[t]]
  BY DEF Inv, Histories
<1>3. ts \in Timestamp
  BY <1>2, PatchFacts
<1>4. \A t \in Sids : Applied(t)' = Applied(t)
  <2>1. PatchIds(now) \cup PatchIds({p \in patches[s] : Less(ts, p.id)}) = PatchIds(patches[s])
    BY DEF PatchIds
  <2>2. PatchIds(patches'[s]) = PatchIds({p \in patches[s] : Less(ts, p.id)})
        /\ baked'[s] = baked[s] \cup PatchIds(now)
    BY <1>1, <1>2
  <2>3. \A t \in Sids : t # s => patches'[t] = patches[t] /\ baked'[t] = baked[t]
    BY <1>1, <1>2
  <2>4. /\ \A t \in Sids : Applied(t) = baked[t] \cup PatchIds(patches[t])
        /\ \A t \in Sids : Applied(t)' = baked'[t] \cup PatchIds(patches'[t])
    BY DEF Applied, PatchIds
  <2> HIDE DEF now
  <2>5. Applied(s)' = Applied(s)
    BY <2>1, <2>2, <2>4
  <2> QED
    BY <2>3, <2>4, <2>5
<1>5. R!Inv' /\ R!Ops' = R!Ops
  BY <1>1, <1>4, EndsStay
<1>6. \A t \in Sids : R!Built(R!Ops, baked'[t], start'[t])
  <2>1. R!Built(R!Ops, baked[s] \cup PatchIds(now), Advanced(s, ts))
    BY <1>3, ReplaysBuild
  <2>2. start'[s] = Advanced(s, ts) /\ baked'[s] = baked[s] \cup PatchIds(now)
    BY <1>1, <1>2
  <2>3. \A t \in Sids : t # s => start'[t] = start[t] /\ baked'[t] = baked[t]
    BY <1>1, <1>2
  <2>4. \A t \in Sids : R!Built(R!Ops, baked[t], start[t])
    BY DEF Inv, Histories
  <2> HIDE DEF now
  <2> QED
    BY <2>1, <2>2, <2>3, <2>4
<1>7. /\ IsFiniteSet(issued') /\ patches' \in [Sids -> SUBSET issued']
      /\ baked' \in [Sids -> SUBSET PatchIds(issued')]
      /\ start' = [t \in Sids |-> start'[t]]
  <2>1. IsFiniteSet(issued')
    BY <1>1 DEF Inv, Histories
  <2>2. PatchIds(now) \subseteq PatchIds(issued)
    BY <1>2 DEF PatchIds
  <2> HIDE DEF now
  <2> QED
    BY <1>1, <1>2, <2>1, <2>2
<1> QED
  BY <1>5, <1>6, <1>7 DEF Inv, Histories

\* The first state: every session has the baseline, and nothing was issued.
LEMMA InitHolds == Init => Inv
<1> SUFFICES ASSUME Init PROVE Inv
  OBVIOUS
<1>1. /\ end = [s \in Sids |-> Baseline] /\ start = [s \in Sids |-> Baseline]
      /\ time = [s \in Sids |-> FirstTime + InitLen]
      /\ patches = [s \in Sids |-> {}] /\ baked = [s \in Sids |-> {}] /\ issued = {}
  BY DEF Init
<1>2. \A s \in Sids : Applied(s) = {}
  BY <1>1 DEF Applied
<1>3. HasApplied = [s \in Sids |-> {}] /\ Operations = {}
  BY <1>1, <1>2 DEF HasApplied, Operations
<1>4. Baseline = IF InitLen = 0 THEN << >>
                 ELSE <<R!NewChunk(R!Ts(Author, R!FirstTime), InitLen)>>
  BY CopiesOfClock, CopiesOfChunks DEF Baseline
<1>5. R!Init
  BY <1>1, <1>3, <1>4, CopiesOfClock DEF R!Init
<1>6. R!Inv
  BY <1>5, Constants, SidsAssumption, R!InitHolds
<1>7. \A s \in Sids : R!Built(R!Ops, HasApplied[s], end[s])
  BY <1>6, Constants, SidsAssumption, R!BuiltHere
<1>8. \A s \in Sids : R!Built(R!Ops, baked[s], start[s])
  BY <1>1, <1>3, <1>7
<1>9. IsFiniteSet(issued)
  BY <1>1, FS_EmptySet
<1> QED
  BY <1>1, <1>6, <1>8, <1>9 DEF Inv, Histories

\* Every step keeps the invariant.
LEMMA StepKeeps == Inv /\ [Next]_vars => Inv'
<1> SUFFICES ASSUME Inv, [Next]_vars PROVE Inv'
  OBVIOUS
<1>1. ASSUME NEW s \in Sids, NEW index \in 0 .. Len(View(end[s])), Type(s, index) PROVE Inv'
  BY <1>1, TypeKeeps
<1>2. ASSUME NEW s \in Sids, NEW index \in 0 .. Len(View(end[s])),
             NEW length \in 1 .. Len(View(end[s])) - index, Erase(s, index, length)
      PROVE  Inv'
  BY <1>2, EraseKeeps
<1>3. ASSUME NEW s \in Sids, NEW patch \in issued, Receive(s, patch) PROVE Inv'
  BY <1>3, ReceiveKeeps
<1>4. ASSUME NEW s \in Sids, NEW patch \in issued, Undo(s, patch) PROVE Inv'
  BY <1>4, UndoKeeps
<1>5. ASSUME NEW s \in Sids, NEW ts \in {p.id : p \in patches[s]}, AdvanceTo(s, ts) PROVE Inv'
  BY <1>5, AdvanceKeeps
<1>6. CASE UNCHANGED vars
  <2>1. /\ start' = start /\ patches' = patches /\ end' = end /\ time' = time /\ baked' = baked
        /\ issued' = issued
    BY <1>6 DEF vars
  <2>2. \A s \in Sids : Applied(s)' = Applied(s)
    BY <2>1 DEF Applied
  <2>3. R!Inv' /\ R!Ops' = R!Ops
    BY <2>1, <2>2, EndsStay
  <2> QED
    BY <2>1, <2>3 DEF Inv, Histories
<1> QED
  BY <1>1, <1>2, <1>3, <1>4, <1>5, <1>6 DEF Next
-----------------------------------------------------------------------------
(***************************************************************************)
(* The theorems.                                                           *)
(***************************************************************************)
\* The end models are replicas of one text, and every baseline holds what the
\* patches baked into it make.
THEOREM HistoriesAreKept == Spec => []Inv
<1>1. Init => Inv
  BY InitHolds
<1>2. Inv /\ [Next]_vars => Inv'
  BY StepKeeps
<1> QED
  BY <1>1, <1>2, PTL DEF Spec

\* Replaying the history from its baseline in the order of ids gives the end
\* model, whatever order the patches arrived in, however often, and whatever
\* part of them was baked (replay_to_end, advance_to of log.rs).
THEOREM ReplaysReachTheEnd == Spec => []ReplayIsEnd
<1>1. Inv => ReplayIsEnd
  BY ReplaysEnd
<1> QED
  BY <1>1, HistoriesAreKept, PTL
=============================================================================
