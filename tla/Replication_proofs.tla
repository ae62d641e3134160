------------------------- MODULE Replication_proofs ------------------------
(***************************************************************************)
(* Proofs about Replication, for any number of sessions, patches and       *)
(* ticks.  IInv is inductive; the safety properties follow from it.        *)
(***************************************************************************)
EXTENDS Replication, Facts

-----------------------------------------------------------------------------
\* Every timestamp a running clock issues is later than the empty register.
LEMMA LaterThanUndefined ==
  ASSUME NEW a \in Timestamp, a.time > 0
  PROVE  Less(Undefined, a) /\ a # Undefined /\ ~Less(a, Undefined)
<1>1. a.sid \in Nat /\ a.sid > 3 /\ a.time \in Nat
  BY SidsAboveReserved DEF Timestamp
<1> QED
  BY <1>1 DEF Less, Undefined, Ts, SystemSid

\* ClockVector::observe moves the clock to or past the end of the span, and
\* only forward.
LEMMA ObserveMovesForward ==
  ASSUME NEW c \in ClockVector, NEW id \in Timestamp, NEW span \in Nat, span > 0
  PROVE  /\ Observe(c, id, span) \in ClockVector
         /\ Observe(c, id, span).sid = c.sid
         /\ c.time <= Observe(c, id, span).time
         /\ id.time + span <= Observe(c, id, span).time
         /\ id.time + span <= c.time => Observe(c, id, span).time = c.time
BY DEF ClockVector, Timestamp, Observe, Larger, NoPeer

\* ClockVector::observe leaves no peer entry at or past the clock's own time.
LEMMA ObserveKeepsPeersBehind ==
  ASSUME NEW c \in ClockVector, NEW id \in Timestamp, NEW span \in Nat, span > 0,
         \A q \in Sids : c.peers[q] < c.time
  PROVE  \A q \in Sids : Observe(c, id, span).peers[q] < Observe(c, id, span).time
BY DEF ClockVector, Timestamp, Observe, Larger, NoPeer

\* ClockVector::fork and Model::fork
LEMMA ForkKeepsTime ==
  ASSUME NEW c \in ClockVector, NEW t \in Sids, NEW f \in Forks(c, t),
         \A q \in Sids : c.peers[q] < c.time
  PROVE  /\ f \in ClockVector
         /\ f.sid = t
         /\ f.time = c.time
         /\ \A q \in Sids : f.peers[q] < f.time
<1>1. c.time \in Nat /\ c.peers \in [Sids -> Nat \cup {NoPeer}]
  BY DEF ClockVector
<1>2. CASE f = Fork(c, t)
  BY <1>1, <1>2 DEF ClockVector, Fork, NoPeer
<1>3. CASE f = [c EXCEPT !.sid = t]
  BY <1>1, <1>3 DEF ClockVector
<1> QED
  BY <1>2, <1>3 DEF Forks

\* A clock read back from a snapshot's clock table has the time it was saved with.
LEMMA ReloadKeepsTime ==
  ASSUME NEW c \in ClockVector, NEW mentioned, c.time > 0,
         \A q \in Sids : c.peers[q] < c.time
  PROVE  /\ Reloaded(c, mentioned) \in ClockVector
         /\ Reloaded(c, mentioned).sid = c.sid
         /\ Reloaded(c, mentioned).time = c.time
         /\ \A q \in Sids : Reloaded(c, mentioned).peers[q] < c.time
BY DEF ClockVector, Reloaded, Entry, NoPeer

\* The clock table takes every timestamp it took before a span was observed and
\* the span's own, unless an entry starts at the span and behind the timestamp.
LEMMA ObserveKeepsCover ==
  ASSUME NEW c \in ClockVector, NEW id \in Timestamp, NEW span \in Nat, span > 0,
         NEW value \in Timestamp, value.time < c.time, ~AheadOfEntry(c, value),
         /\ value.sid = id.sid /\ id.sid # c.sid /\ c.peers[id.sid] = NoPeer
           => value.time < id.time + span
  PROVE  ~AheadOfEntry(Observe(c, id, span), value)
<1>1. /\ c.time \in Nat /\ c.sid \in Sids /\ \A q \in Sids : c.peers[q] \in Nat \cup {-1}
      /\ value.time \in Nat /\ value.sid \in Sids /\ id.time \in Nat /\ id.sid \in Sids
      /\ value # Undefined
  BY SidsAboveReserved DEF ClockVector, Timestamp, NoPeer, Undefined, Ts, SystemSid
<1> DEFINE d == Observe(c, id, span)
           edge == id.time + span - 1
<1>2. /\ d.sid = c.sid /\ d.time = Larger(c.time, edge + 1)
      /\ d.peers[value.sid] = IF value.sid = id.sid /\ value.sid # c.sid
                              THEN Larger(c.peers[value.sid], edge) ELSE c.peers[value.sid]
  BY <1>1 DEF Observe
<1>3. value.time <= Entry(c, value.sid)
  BY <1>1 DEF AheadOfEntry, Entry, NoPeer
<1> HIDE DEF d
<1>4. value.time <= Entry(d, value.sid)
  BY <1>1, <1>2, <1>3 DEF Entry, Larger, NoPeer
<1> QED
  BY <1>1, <1>2, <1>4 DEF AheadOfEntry, Entry, Larger, NoPeer, d

\* The clock table takes the timestamp that was observed last of its session.
LEMMA ObserveCovers ==
  ASSUME NEW c \in ClockVector, NEW id \in Timestamp, NEW span \in Nat, span > 0
  PROVE  ~AheadOfEntry(Observe(c, id, span), id)
<1>1. /\ c.time \in Nat /\ c.sid \in Sids /\ c.peers[id.sid] \in Nat \cup {-1}
      /\ id.time \in Nat /\ id.sid \in Sids
  BY DEF ClockVector, Timestamp, NoPeer
<1> DEFINE d == Observe(c, id, span)
           edge == id.time + span - 1
<1>2. /\ d.sid = c.sid /\ d.time = Larger(c.time, edge + 1)
      /\ id.sid # c.sid => d.peers[id.sid] = Larger(c.peers[id.sid], edge)
  BY <1>1 DEF Observe
<1> HIDE DEF d
<1>3. id.time <= Entry(d, id.sid) /\ Entry(d, id.sid) \in Int
  BY <1>1, <1>2 DEF Entry, Larger, NoPeer
<1> QED
  BY <1>1, <1>3 DEF AheadOfEntry, d

\* Neither fork makes the clock table refuse what it took.
LEMMA ForkKeepsCover ==
  ASSUME NEW c \in ClockVector, NEW t \in Sids, NEW f \in Forks(c, t), c.time > 0,
         NEW value \in Timestamp, value.sid # t, t # c.sid, c.peers[c.sid] = NoPeer,
         ~AheadOfEntry(c, value)
  PROVE  ~AheadOfEntry(f, value)
<1>1. /\ c.time \in Nat /\ c.sid \in Sids /\ \A q \in Sids : c.peers[q] \in Nat \cup {-1}
      /\ value.time \in Nat /\ value.sid \in Sids
  BY DEF ClockVector, Timestamp, NoPeer
<1>2. Entry(f, value.sid) = Entry(c, value.sid)
  <2>1. CASE f = Fork(c, t)
    <3>1. /\ f.sid = t /\ f.time = c.time
          /\ f.peers[value.sid] = IF value.sid = c.sid THEN c.time - 1 ELSE c.peers[value.sid]
      BY <1>1, <2>1 DEF Fork, ClockVector
    <3> QED
      BY <1>1, <3>1 DEF Entry, NoPeer
  <2>2. CASE f = [c EXCEPT !.sid = t]
    <3>1. f.sid = t /\ f.time = c.time /\ f.peers = c.peers
      BY <2>2 DEF ClockVector
    <3> QED
      BY <1>1, <3>1 DEF Entry, NoPeer
  <2> QED
    BY <2>1, <2>2 DEF Forks
<1> QED
  BY <1>2 DEF AheadOfEntry

\* A clock table read back takes the ids of the sessions it lists.
LEMMA ReloadKeepsCover ==
  ASSUME NEW c \in ClockVector, NEW mentioned, c.time > 0, NEW value \in Timestamp,
         value.sid \in mentioned \cup {c.sid}, ~AheadOfEntry(c, value)
  PROVE  ~AheadOfEntry(Reloaded(c, mentioned), value)
<1>1. /\ c.time \in Nat /\ c.sid \in Sids /\ c.peers[value.sid] \in Nat \cup {-1}
      /\ value.time \in Nat /\ value.sid \in Sids
  BY DEF ClockVector, Timestamp, NoPeer
<1> DEFINE d == Reloaded(c, mentioned)
<1>2. /\ d.sid = c.sid /\ d.time = c.time
      /\ value.sid # c.sid => d.peers[value.sid] = Entry(c, value.sid)
  BY <1>1 DEF Reloaded
<1> HIDE DEF d
<1>3. Entry(d, value.sid) = Entry(c, value.sid)
  BY <1>1, <1>2 DEF Entry, NoPeer
<1> QED
  BY <1>3 DEF AheadOfEntry, d
-----------------------------------------------------------------------------
\* Model::apply_patch: what it does to the clock and to the root register,
\* whether the patch is new or a duplicate.
LEMMA ApplyKeepsClocks ==
  ASSUME TypeOK, PeersBehind, ClockAhead, NEW s \in Sids, NEW p \in Patch, Apply(s, p)
  PROVE  /\ clock' \in [Sids -> ClockVector]
         /\ \A r \in Sids : clock'[r].sid = r /\ clock[r].time <= clock'[r].time
         /\ NextTime(p) <= clock'[s].time
         /\ NextTime(p) <= clock[s].time => clock'[s].time = clock[s].time
         /\ PeersBehind'
         /\ ClockAhead'
<1> DEFINE moved == Observe(clock[s], p.id, p.span)
<1>1. /\ clock \in [Sids -> ClockVector]
      /\ \A r \in Sids : clock[r].sid = r /\ clock[r].time \in Nat
      /\ p.id \in Timestamp /\ p.span \in Nat /\ p.span > 0 /\ p.id.time \in Nat
  BY ReplicationAssumption DEF TypeOK, Patch, ClockVector, Timestamp
<1>2. /\ moved \in ClockVector
      /\ moved.sid = s
      /\ moved.time \in Nat
      /\ clock[s].time <= moved.time
      /\ NextTime(p) <= moved.time
      /\ NextTime(p) <= clock[s].time => moved.time = clock[s].time
  <2> HIDE DEF moved
  <2>1. /\ moved \in ClockVector
        /\ moved.sid = clock[s].sid
        /\ clock[s].time <= moved.time
        /\ p.id.time + p.span <= moved.time
        /\ p.id.time + p.span <= clock[s].time => moved.time = clock[s].time
    BY <1>1, ObserveMovesForward DEF moved
  <2> QED
    BY <1>1, <2>1 DEF NextTime, ClockVector
<1>3. \A q \in Sids : moved.peers[q] < moved.time
  BY <1>1, ObserveKeepsPeersBehind DEF PeersBehind
<1> HIDE DEF moved
<1>4. clock' = [clock EXCEPT ![s] = moved]
  BY DEF Apply, moved
<1>5. /\ clock' \in [Sids -> ClockVector]
      /\ clock'[s] = moved
      /\ \A r \in Sids \ {s} : clock'[r] = clock[r]
  BY <1>1, <1>2, <1>4
<1>6. \A r \in Sids : clock'[r].sid = r /\ clock[r].time <= clock'[r].time
  BY <1>1, <1>2, <1>5
<1>7. PeersBehind'
  BY <1>3, <1>5 DEF PeersBehind
<1>8. ClockAhead'
  <2> SUFFICES ASSUME NEW r \in Sids, NEW q \in applied'[r]
               PROVE  NextTime(q) <= clock'[r].time
    BY DEF ClockAhead
  <2>1. /\ r \in Sids /\ r # s => applied'[r] = applied[r]
        /\ applied'[s] = applied[s] \cup {p}
    BY DEF Apply, TypeOK
  <2>2. CASE q \in applied[r]
    <3>1. q \in Patch /\ NextTime(q) <= clock[r].time
      BY <2>2 DEF ClockAhead, TypeOK
    <3>2. /\ NextTime(q) \in Nat
          /\ clock[r].time \in Nat /\ clock'[r].time \in Nat
      BY <3>1, <1>1, <1>5, ReplicationAssumption
         DEF Patch, NextTime, Timestamp, ClockVector
    <3> QED
      BY <3>1, <3>2, <1>6
  <2>3. CASE r = s /\ q = p
    BY <2>3, <1>2, <1>5
  <2> QED
    BY <2>1, <2>2, <2>3
<1> QED
  BY <1>2, <1>5, <1>6, <1>7, <1>8

\* RootNode::set keeps the latest value, whatever order the patches came in.
LEMMA ApplyKeepsLatestRoot ==
  ASSUME TypeOK, NEW s \in Sids, NEW p \in Patch, Apply(s, p),
         IsLatest(root[s], Written(held[s])),
         p.id.time > 0, \A q \in held[s] : q.id.time > 0
  PROVE  /\ root'[s] \in {root[s], p.id}
         /\ IsLatest(root'[s], Written(held'[s]))
<1> DEFINE old == Written(held[s])
           new == Written(held'[s])
<1>1. /\ p.id \in Timestamp
      /\ old \subseteq Timestamp
      /\ \A w \in old : w.time > 0
  BY DEF TypeOK, Patch, Written
<1>2. /\ held'[s] = held[s] \cup {p}
      /\ root'[s] = SetRoot(root[s], p)
  BY <1>1 DEF Apply, TypeOK
<1>3. root'[s] \in {root[s], p.id}
  BY <1>2 DEF SetRoot
<1>4. new = old \cup (IF p.setsRoot THEN {p.id} ELSE {})
  BY <1>2 DEF Written
<1>5. IsLatest(root[s], old)
  OBVIOUS
<1> HIDE DEF old, new
<1>6. IsLatest(root'[s], new)
  <2>1. CASE ~p.setsRoot
    BY <2>1, <1>2, <1>4, <1>5 DEF SetRoot
  <2>2. CASE p.setsRoot /\ old = {}
    <3>1. Less(root[s], p.id)
      BY <2>2, <1>1, <1>5, LaterThanUndefined DEF IsLatest
    <3>2. root'[s] = p.id /\ new = {p.id}
      BY <2>2, <3>1, <1>2, <1>4 DEF SetRoot
    <3> QED
      BY <3>2 DEF IsLatest
  <2>3. CASE p.setsRoot /\ old # {} /\ Less(root[s], p.id)
    <3>1. root'[s] = p.id
      BY <2>3, <1>2 DEF SetRoot
    <3>2. ASSUME NEW w \in old
          PROVE  Less(w, p.id)
      <4>1. root[s] \in Timestamp /\ (w = root[s] \/ Less(w, root[s]))
        BY <2>3, <1>1, <1>5 DEF IsLatest
      <4> QED
        BY <2>3, <4>1, <1>1, LessIsTransitive
    <3> QED
      BY <2>3, <3>1, <3>2, <1>4 DEF IsLatest
  <2>4. CASE p.setsRoot /\ old # {} /\ ~Less(root[s], p.id)
    <3>1. root'[s] = root[s] /\ root[s] \in old
      BY <2>4, <1>2, <1>5 DEF SetRoot, IsLatest
    <3>2. p.id = root[s] \/ Less(p.id, root[s])
      BY <2>4, <3>1, <1>1, LessIsTotal
    <3> QED
      BY <2>4, <3>1, <3>2, <1>4, <1>5 DEF IsLatest
  <2> QED
    BY <2>1, <2>2, <2>3, <2>4
<1> QED
  BY <1>3, <1>6 DEF new

\* What a model applies it also holds, and the clock table takes its root, as
\* long as no old patch of the session the root came from starts an entry.
LEMMA ApplyKeepsRoot ==
  ASSUME TypeOK, TimesPositive, ClockAhead, RootIsLatest, RootCovered, PeersActive,
         NEW s \in Sids, NEW p \in Patch, Apply(s, p), p.id.time > 0,
         p.id.sid \in active \cup {s},
         outdated \subseteq outdated', active \subseteq active', s \in active',
         s \notin outdated' =>
           ~(/\ p.id.sid = root[s].sid /\ p.id.sid # s
             /\ clock[s].peers[p.id.sid] = NoPeer /\ NextTime(p) <= root[s].time)
  PROVE  /\ root' \in [Sids -> Timestamp \cup {Undefined}]
         /\ RootIsLatest' /\ RootCovered' /\ PeersActive'
<1>1. /\ clock[s] \in ClockVector /\ clock[s].sid = s /\ clock[s].time \in Nat
      /\ p.id \in Timestamp /\ p.id.time \in Nat /\ p.span \in Nat /\ p.span > 0
      /\ root[s] \in Timestamp \cup {Undefined}
  BY ReplicationAssumption DEF TypeOK, Patch, Timestamp, ClockVector
<1>2. /\ root' = [root EXCEPT ![s] = SetRoot(root[s], p)]
      /\ applied'[s] = applied[s] \cup {p} /\ held'[s] = held[s] \cup {p}
      /\ clock'[s] = Observe(clock[s], p.id, p.span)
      /\ \A r \in Sids \ {s} : /\ applied'[r] = applied[r] /\ held'[r] = held[r]
                               /\ root'[r] = root[r] /\ clock'[r] = clock[r]
  BY DEF Apply, TypeOK
<1>3. root'[s] \in {root[s], p.id} /\ IsLatest(root'[s], Written(held'[s]))
  <2>1. \A q \in held[s] : q.id.time > 0
    BY DEF TypeOK, TimesPositive
  <2> QED
    BY <2>1, ApplyKeepsLatestRoot DEF RootIsLatest
<1>4. root' \in [Sids -> Timestamp \cup {Undefined}]
  BY <1>1, <1>2 DEF SetRoot, TypeOK
<1>5. RootIsLatest'
  BY <1>2, <1>3 DEF RootIsLatest
<1>6. PeersActive'
  <2> SUFFICES ASSUME NEW q \in Sids, clock'[s].peers[q] # NoPeer
               PROVE  q \in active' /\ q # s
    BY <1>2 DEF PeersActive
  <2>1. CASE q = p.id.sid /\ q # s
    BY <2>1
  <2>2. CASE ~(q = p.id.sid /\ q # s)
    <3>1. clock'[s].peers[q] = clock[s].peers[q]
      BY <1>1, <1>2, <2>2 DEF Observe
    <3> QED
      BY <3>1 DEF PeersActive
  <2> QED
    BY <2>1, <2>2
<1>7. s \notin outdated' => ~AheadOfEntry(clock'[s], root'[s])
  <2> SUFFICES ASSUME s \notin outdated' PROVE ~AheadOfEntry(clock'[s], root'[s])
    OBVIOUS
  <2>1. CASE root'[s] = p.id
    BY <2>1, <1>1, <1>2, ObserveCovers
  <2>2. CASE root'[s] = root[s] /\ root[s] = Undefined
    BY <2>2 DEF AheadOfEntry
  <2>3. CASE root'[s] = root[s] /\ root[s] # Undefined
    <3>1. root[s] \in Timestamp /\ root[s].time \in Nat
      BY <1>1, <2>3 DEF Timestamp
    <3>2. ~AheadOfEntry(clock[s], root[s])
      BY DEF RootCovered
    <3>3. root[s].time < clock[s].time
      <4>1. PICK q \in held[s] : q.id = root[s]
        BY <2>3 DEF RootIsLatest, IsLatest, Written
      <4>2. q \in Patch /\ NextTime(q) <= clock[s].time
        BY DEF RootCovered, TypeOK, ClockAhead
      <4>3. q.id.time \in Nat /\ q.span \in Nat /\ q.span > 0
        BY <4>2, ReplicationAssumption DEF Patch, Timestamp
      <4> QED
        BY <1>1, <4>1, <4>2, <4>3 DEF NextTime
    <3>4. root[s].sid = p.id.sid /\ p.id.sid # s /\ clock[s].peers[p.id.sid] = NoPeer
            => root[s].time < p.id.time + p.span
      BY <1>1, <3>1 DEF NextTime
    <3> QED
      BY <1>1, <1>2, <2>3, <3>1, <3>2, <3>3, <3>4, ObserveKeepsCover
  <2> QED
    BY <1>3, <2>1, <2>2, <2>3
<1>8. RootCovered'
  BY <1>2, <1>7 DEF RootCovered
<1> QED
  BY <1>4, <1>5, <1>6, <1>8
-----------------------------------------------------------------------------
\* A patch is known by its id.
LEMMA IdsAreUnique ==
  ASSUME TypeOK, DisjointIds, NEW p \in issued, NEW q \in issued, p.id = q.id
  PROVE  p = q
<1>1. /\ p.id \in Timestamp /\ q.id \in Timestamp
      /\ p.span \in Nat /\ p.span > 0 /\ q.span \in Nat /\ q.span > 0
  BY ReplicationAssumption DEF TypeOK, Patch
<1>2. p.id \in Interval(p.id, p.span) /\ q.id \in Interval(q.id, q.span)
  <2>1. 0 \in 0 .. p.span - 1 /\ 0 \in 0 .. q.span - 1
    BY <1>1
  <2>2. p.id = Ts(p.id.sid, p.id.time + 0) /\ q.id = Ts(q.id.sid, q.id.time + 0)
    BY <1>1 DEF Ts, Timestamp
  <2> QED
    BY <2>1, <2>2 DEF Interval
<1> QED
  BY <1>2 DEF DisjointIds

\* The documents of Init have issued nothing.
LEMMA InitHolds == Init => IInv
<1> SUFFICES ASSUME Init PROVE IInv
  OBVIOUS
<1>1. NewClock(1, 1).time = 1 /\ \A s \in Sids : NewClock(s, 1) \in ClockVector
  BY DEF NewClock, ClockVector
<1>2. TypeOK
  BY <1>1, ReplicationAssumption DEF Init, TypeOK, NewClock
<1>3. TimesPositive /\ PeersBehind
  BY DEF Init, TimesPositive, PeersBehind, NewClock, NoPeer
<1>4. IssuersActive /\ IssuerAhead /\ DepsIssued /\ DisjointIds /\ IdsRespectCausality
  BY DEF Init, IssuersActive, IssuerAhead, DepsIssued, DisjointIds, IdsRespectCausality
<1>5. ClockAhead /\ RootIsLatest
  BY DEF Init, ClockAhead, RootIsLatest, IsLatest, Written
<1>6. Causal /\ PeersActive /\ RootCovered
  BY DEF Init, Causal, PeersActive, RootCovered, NewClock, AheadOfEntry
<1> QED
  BY <1>2, <1>3, <1>4, <1>5, <1>6 DEF IInv

\* A local edit takes timestamps no patch has, later than all its model saw.
LEMMA EditKeepsIInv ==
  ASSUME IInv, NEW s \in Sids, NEW span \in 1 .. MaxSpan, NEW setsRoot \in BOOLEAN,
         Edit(s, span, setsRoot)
  PROVE  IInv'
<1> DEFINE p == [id |-> Ts(s, clock[s].time), span |-> span,
                 deps |-> Ids(applied[s]), setsRoot |-> setsRoot]
<1>1. /\ Apply(s, p)
      /\ issued' = issued \cup {p}
      /\ active' = active /\ outdated' = outdated
      /\ s \in active
  BY DEF Edit
<1>2. /\ p \in Patch
      /\ p.id = Ts(s, clock[s].time) /\ p.id \in Timestamp
      /\ p.id.sid = s /\ p.id.time = clock[s].time /\ p.id.time > 0
      /\ p.span \in Nat /\ p.span > 0
      /\ p.deps = Ids(applied[s])
  BY ReplicationAssumption
     DEF IInv, TypeOK, TimesPositive, Patch, Timestamp, ClockVector, Ts, Ids
<1> HIDE DEF p
<1>3. /\ clock' \in [Sids -> ClockVector]
      /\ \A r \in Sids : clock'[r].sid = r /\ clock[r].time <= clock'[r].time
      /\ NextTime(p) <= clock'[s].time
      /\ PeersBehind' /\ ClockAhead'
  BY <1>1, <1>2, ApplyKeepsClocks DEF IInv
<1>4. /\ root' \in [Sids -> Timestamp \cup {Undefined}]
      /\ RootIsLatest' /\ RootCovered' /\ PeersActive'
  BY <1>1, <1>2, ApplyKeepsRoot DEF IInv
<1>5. TypeOK'
  BY <1>1, <1>2, <1>3, <1>4 DEF IInv, TypeOK, Apply
<1>6. /\ \A r \in Sids : clock[r].time \in Nat /\ clock'[r].time \in Nat
      /\ \A q \in issued : /\ q.id \in Timestamp /\ q.id.sid \in Sids
                           /\ q.id.time \in Nat /\ q.span \in Nat /\ q.span > 0
                           /\ NextTime(q) \in Nat
  BY <1>3, ReplicationAssumption DEF IInv, TypeOK, Patch, ClockVector, Timestamp, NextTime
<1>7. TimesPositive'
  BY <1>1, <1>2, <1>3, <1>6 DEF IInv, TimesPositive
<1>8. IssuersActive'
  BY <1>1, <1>2 DEF IInv, IssuersActive
<1>9. IssuerAhead'
  BY <1>1, <1>2, <1>3, <1>6 DEF IInv, IssuerAhead
<1>10. DepsIssued'
  BY <1>1, <1>2 DEF IInv, TypeOK, DepsIssued, Ids
<1>11. \A q \in issued : q.id.sid = s => NextTime(q) <= p.id.time
  BY <1>2 DEF IInv, IssuerAhead
<1>12. DisjointIds'
  <2> SUFFICES ASSUME NEW q \in issued,
                      NEW t \in Interval(p.id, p.span) \cap Interval(q.id, q.span)
               PROVE  FALSE
    BY <1>1 DEF IInv, DisjointIds
  <2>1. /\ t.sid = s /\ t.time \in Nat /\ p.id.time <= t.time
        /\ t.sid = q.id.sid /\ t.time < NextTime(q) /\ q.id.time <= t.time
    BY <1>2, <1>6, IntervalBounds DEF NextTime
  <2> QED
    BY <1>2, <1>6, <1>11, <2>1
<1>13. \A q \in issued : q.id # p.id
  BY <1>2, <1>6, <1>11 DEF NextTime
<1>14. IdsRespectCausality'
  <2> SUFFICES ASSUME NEW a \in issued', NEW b \in issued', a.id \in b.deps
               PROVE  NextTime(a) <= b.id.time
    BY DEF IdsRespectCausality
  <2>1. a \in issued
    BY <1>1, <1>2, <1>13 DEF IInv, TypeOK, DepsIssued, Ids
  <2>2. CASE b \in issued
    BY <2>1, <2>2 DEF IInv, IdsRespectCausality
  <2>3. CASE b = p
    <3>1. PICK c \in applied[s] : c.id = a.id
      BY <2>3, <1>2 DEF Ids
    <3>2. c = a
      BY <2>1, <3>1, IdsAreUnique DEF IInv, TypeOK
    <3> QED
      BY <2>3, <3>1, <3>2, <1>2 DEF IInv, ClockAhead
  <2> QED
    BY <2>2, <2>3, <1>1
<1>15. Causal'
  <2>1. /\ applied'[s] = applied[s] \cup {p}
        /\ \A r \in Sids : applied[r] \subseteq applied'[r]
        /\ \A r \in Sids \ {s} : applied'[r] = applied[r]
    BY <1>1 DEF Apply, IInv, TypeOK
  <2>2. \A q \in issued' : q \in applied'[q.id.sid]
    BY <1>1, <1>2, <1>6, <2>1 DEF IInv, Causal
  <2>3. \A r \in Sids : \A q \in applied'[r] : q.deps \subseteq Ids(applied'[r])
    BY <1>2, <2>1 DEF IInv, Causal, Ids
  <2>4. \A q \in issued : q.id.sid = s => q.id \in p.deps
    BY <1>2 DEF IInv, Causal, Ids
  <2> QED
    BY <1>1, <1>2, <2>2, <2>3, <2>4 DEF IInv, Causal
<1> QED
  BY <1>3, <1>4, <1>5, <1>7, <1>8, <1>9, <1>10, <1>12, <1>14, <1>15 DEF IInv

\* An entry starts at a patch of the session the root came from, and behind the
\* root, only when the patch comes again.
LEMMA FirstsAreNotOld ==
  ASSUME IInv, NEW s \in Sids, NEW p \in issued, p.deps \subseteq Ids(applied[s]),
         p \notin applied[s], p.id.sid = root[s].sid, NextTime(p) <= root[s].time
  PROVE  FALSE
<1>1. PICK q \in held[s] : q.id = root[s]
  <2>1. p.id.sid \in Sids /\ Undefined.sid \notin Sids
    BY SidsAboveReserved DEF IInv, TypeOK, Patch, Timestamp, Undefined, Ts, SystemSid
  <2> QED
    BY <2>1 DEF IInv, RootIsLatest, IsLatest, Written
<1>2. /\ q \in applied[s] /\ q \in issued /\ q.id.sid = p.id.sid
      /\ p.id.time \in Nat /\ q.id.time \in Nat
      /\ NextTime(p) \in Nat /\ NextTime(q) \in Nat
      /\ p.id.time < NextTime(p) /\ q.id.time < NextTime(q)
  BY <1>1, ReplicationAssumption
     DEF IInv, RootCovered, TypeOK, Patch, Timestamp, NextTime
<1>3. p.id \notin q.deps
  <2> SUFFICES ASSUME p.id \in q.deps PROVE FALSE
    OBVIOUS
  <2>1. PICK a \in applied[s] : a.id = p.id
    BY <1>2 DEF IInv, Causal, Ids
  <2>2. a = p
    BY <2>1, IdsAreUnique DEF IInv, TypeOK
  <2> QED
    BY <2>1, <2>2
<1>4. q.id \in p.deps
  BY <1>2, <1>3 DEF IInv, Causal
<1>5. NextTime(q) <= p.id.time
  BY <1>2, <1>4 DEF IInv, IdsRespectCausality
<1> QED
  BY <1>1, <1>2, <1>5

\* A patch that arrives, for the first time or again.
LEMMA ReceiveKeepsIInv ==
  ASSUME IInv, NEW s \in Sids, NEW p \in issued, Receive(s, p)
  PROVE  IInv'
<1>1. Apply(s, p) /\ issued' = issued /\ active' = active
  BY DEF Receive
<1>2. p \in Patch /\ p.id.time > 0 /\ \A q \in applied[s] : q.id.time > 0
  BY DEF IInv, TypeOK, TimesPositive
<1>3. /\ clock' \in [Sids -> ClockVector]
      /\ \A r \in Sids : clock'[r].sid = r /\ clock[r].time <= clock'[r].time
      /\ PeersBehind' /\ ClockAhead'
  BY <1>1, <1>2, ApplyKeepsClocks DEF IInv
<1>4. /\ root' \in [Sids -> Timestamp \cup {Undefined}]
      /\ RootIsLatest' /\ RootCovered' /\ PeersActive'
  <2>1. p.id.sid \in active /\ s \in active /\ outdated \subseteq outdated'
    BY DEF Receive, IInv, IssuersActive
  <2>2. s \notin outdated' => ~Outdates(s, p)
    BY DEF Receive
  <2>3. p \notin applied[s] => ~(p.id.sid = root[s].sid /\ NextTime(p) <= root[s].time)
    BY FirstsAreNotOld DEF Receive
  <2>4. s \notin outdated' =>
          ~(/\ p.id.sid = root[s].sid /\ p.id.sid # s
            /\ clock[s].peers[p.id.sid] = NoPeer /\ NextTime(p) <= root[s].time)
    BY <2>2, <2>3 DEF Outdates
  <2> QED
    BY <1>1, <1>2, <2>1, <2>4, ApplyKeepsRoot DEF IInv
<1>5. TypeOK'
  <2>1. outdated' \subseteq active'
    BY DEF Receive, IInv, TypeOK
  <2> QED
    BY <1>1, <1>3, <1>4, <2>1 DEF IInv, TypeOK, Apply
<1>6. /\ \A r \in Sids : clock[r].time \in Nat /\ clock'[r].time \in Nat
      /\ \A q \in issued : q.id.sid \in Sids /\ NextTime(q) \in Nat
  BY <1>3, ReplicationAssumption DEF IInv, TypeOK, Patch, ClockVector, Timestamp, NextTime
<1>7. TimesPositive' /\ IssuerAhead'
  BY <1>1, <1>3, <1>6 DEF IInv, TimesPositive, IssuerAhead
<1>8. IssuersActive' /\ DepsIssued' /\ DisjointIds' /\ IdsRespectCausality'
  BY <1>1 DEF IInv, IssuersActive, DepsIssued, DisjointIds, IdsRespectCausality
<1>9. Causal'
  <2>1. /\ applied'[s] = applied[s] \cup {p}
        /\ \A r \in Sids : applied[r] \subseteq applied'[r]
        /\ \A r \in Sids \ {s} : applied'[r] = applied[r]
        /\ p.deps \subseteq Ids(applied[s])
    BY DEF Receive, Apply, IInv, TypeOK
  <2>2. \A r \in Sids : \A q \in applied'[r] : q.deps \subseteq Ids(applied'[r])
    BY <2>1 DEF IInv, Causal, Ids
  <2> QED
    BY <1>1, <1>6, <2>1, <2>2 DEF IInv, Causal
<1> QED
  BY <1>3, <1>4, <1>5, <1>7, <1>8, <1>9 DEF IInv

\* A fork takes over the time of the model it copies.
LEMMA ForkKeepsIInv ==
  ASSUME IInv, NEW s \in Sids, NEW t \in Sids, ForkTo(s, t)
  PROVE  IInv'
<1> PICK forked \in Forks(clock[s], t) : clock' = [clock EXCEPT ![t] = forked]
  BY DEF ForkTo
<1>1. /\ t \notin active /\ active' = active \cup {t}
      /\ clock' = [clock EXCEPT ![t] = forked]
      /\ applied' = [applied EXCEPT ![t] = applied[s]]
      /\ root' = [root EXCEPT ![t] = root[s]]
      /\ held' = [held EXCEPT ![t] = held[s]]
      /\ outdated' = outdated \cup {r \in {t} : s \in outdated}
      /\ issued' = issued /\ s \in active
  BY DEF ForkTo
<1>2. /\ forked \in ClockVector /\ forked.sid = t /\ forked.time = clock[s].time
      /\ \A q \in Sids : forked.peers[q] < forked.time
  BY ForkKeepsTime DEF IInv, TypeOK, PeersBehind
<1>3. TypeOK'
  BY <1>1, <1>2 DEF IInv, TypeOK
<1>4. /\ clock'[t] = forked /\ applied'[t] = applied[s] /\ root'[t] = root[s]
      /\ held'[t] = held[s]
      /\ \A r \in Sids \ {t} : /\ clock'[r] = clock[r] /\ applied'[r] = applied[r]
                               /\ root'[r] = root[r] /\ held'[r] = held[r]
  BY <1>1 DEF IInv, TypeOK
<1>5. TimesPositive' /\ PeersBehind' /\ ClockAhead' /\ RootIsLatest'
  <2>1. TimesPositive'
    BY <1>1, <1>2, <1>4 DEF IInv, TimesPositive
  <2>2. PeersBehind'
    BY <1>2, <1>4 DEF IInv, PeersBehind
  <2>3. ClockAhead'
    BY <1>2, <1>4 DEF IInv, ClockAhead
  <2>4. RootIsLatest'
    BY <1>1, <1>4 DEF IInv, RootIsLatest
  <2> QED
    BY <2>1, <2>2, <2>3, <2>4
<1>6. IssuersActive' /\ DepsIssued' /\ DisjointIds' /\ IdsRespectCausality'
  BY <1>1 DEF IInv, IssuersActive, DepsIssued, DisjointIds, IdsRespectCausality
<1>7. IssuerAhead'
  <2>1. \A p \in issued : p.id.sid \in Sids \ {t}
    BY <1>1 DEF IInv, TypeOK, IssuersActive
  <2> QED
    BY <1>1, <1>4, <2>1 DEF IInv, IssuerAhead
<1>8. Causal'
  <2>1. \A p \in issued : p.id.sid \in Sids \ {t}
    BY <1>1 DEF IInv, TypeOK, IssuersActive
  <2> QED
    BY <1>1, <1>4, <2>1 DEF IInv, Causal
<1>9. PeersActive'
  <2>1. \A q \in Sids : forked.peers[q] # NoPeer => q \in active'
    <3>1. \A q \in Sids : clock[s].peers[q] # NoPeer => q \in active
      BY DEF IInv, PeersActive
    <3>2. CASE forked = Fork(clock[s], t)
      <4>1. clock[s].sid = s /\ clock[s] \in ClockVector
        BY DEF IInv, TypeOK
      <4> QED
        BY <1>1, <3>1, <3>2, <4>1 DEF Fork, ClockVector
    <3>3. CASE forked = [clock[s] EXCEPT !.sid = t]
      <4>1. forked.peers = clock[s].peers
        BY <3>3 DEF IInv, TypeOK, ClockVector
      <4> QED
        BY <1>1, <3>1, <4>1
    <3> QED
      BY <3>2, <3>3 DEF Forks
  <2>2. forked.peers[t] = NoPeer
    <3>1. clock[s].peers[t] = NoPeer
      BY <1>1 DEF IInv, PeersActive
    <3>2. CASE forked = Fork(clock[s], t)
      BY <3>2 DEF Fork
    <3>3. CASE forked = [clock[s] EXCEPT !.sid = t]
      <4>1. forked.peers = clock[s].peers
        BY <3>3 DEF IInv, TypeOK, ClockVector
      <4> QED
        BY <3>1, <4>1
    <3> QED
      BY <3>2, <3>3 DEF Forks
  <2> QED
    BY <1>1, <1>4, <2>1, <2>2 DEF IInv, PeersActive
<1>10. RootCovered'
  <2>1. s \notin outdated => ~AheadOfEntry(forked, root[s])
    <3> SUFFICES ASSUME s \notin outdated, root[s] # Undefined
                 PROVE  ~AheadOfEntry(forked, root[s])
      BY DEF AheadOfEntry
    <3>1. PICK q \in held[s] : q.id = root[s]
      BY DEF IInv, RootIsLatest, IsLatest, Written
    <3>2. root[s] \in Timestamp /\ root[s].sid # t
      BY <1>1, <3>1 DEF IInv, TypeOK, IssuersActive
    <3>3. /\ clock[s] \in ClockVector /\ clock[s].time > 0 /\ clock[s].sid = s /\ s # t
          /\ clock[s].peers[s] = NoPeer
      BY <1>1 DEF IInv, TypeOK, TimesPositive, PeersActive
    <3>4. ~AheadOfEntry(clock[s], root[s])
      BY DEF IInv, RootCovered
    <3> QED
      BY <3>2, <3>3, <3>4, ForkKeepsCover
  <2> QED
    BY <1>1, <1>4, <2>1 DEF IInv, RootCovered
<1> QED
  BY <1>3, <1>5, <1>6, <1>7, <1>8, <1>9, <1>10 DEF IInv

\* A snapshot keeps the time of the clock, whichever peers it drops, and the
\* root of a model whose clock table takes it.
LEMMA ReloadKeepsIInv ==
  ASSUME IInv, NEW s \in Sids, NEW mentioned \in SUBSET Sids, Reload(s, mentioned)
  PROVE  IInv'
<1> DEFINE loaded == Reloaded(clock[s], mentioned)
           lost == AheadOfEntry(clock[s], root[s])
<1>1. /\ clock' = [clock EXCEPT ![s] = loaded]
      /\ root' = IF lost THEN [root EXCEPT ![s] = Undefined] ELSE root
      /\ held' = IF lost THEN [held EXCEPT ![s] = {}] ELSE held
      /\ UNCHANGED <<active, applied, issued, outdated>>
  BY DEF Reload
<1>2. /\ loaded \in ClockVector /\ loaded.sid = s /\ loaded.time = clock[s].time
      /\ \A q \in Sids : loaded.peers[q] < loaded.time
  BY ReloadKeepsTime DEF IInv, TypeOK, PeersBehind, TimesPositive
<1>3. lost => s \in outdated
  BY DEF IInv, RootCovered
<1>4. s \notin outdated => ~AheadOfEntry(loaded, root[s])
  <2> SUFFICES ASSUME s \notin outdated, root[s] # Undefined
               PROVE  ~AheadOfEntry(loaded, root[s])
    BY DEF AheadOfEntry
  <2>1. root[s] \in Timestamp /\ root[s].sid \in mentioned \cup {s}
    <3>1. root[s] \in Timestamp
      BY DEF IInv, TypeOK
    <3> QED
      BY <3>1, SidsAboveReserved DEF Reload, Timestamp, SystemSid
  <2>2. /\ clock[s] \in ClockVector /\ clock[s].time > 0 /\ clock[s].sid = s
        /\ ~AheadOfEntry(clock[s], root[s])
    BY DEF IInv, TypeOK, TimesPositive, RootCovered
  <2> QED
    BY <2>1, <2>2, ReloadKeepsCover
<1>5. \A q \in Sids : loaded.peers[q] # NoPeer => q \in active /\ q # s
  <2> SUFFICES ASSUME NEW q \in Sids, loaded.peers[q] # NoPeer
               PROVE  q \in active /\ q # s
    OBVIOUS
  <2>1. q \in mentioned /\ q # clock[s].sid
    BY DEF Reloaded
  <2>2. \E p \in applied[s] : p.id.sid = q
    BY <2>1 DEF Reload
  <2> QED
    BY <2>1, <2>2 DEF IInv, TypeOK, IssuersActive
<1> HIDE DEF loaded, lost
<1>6. TypeOK'
  BY <1>1, <1>2 DEF IInv, TypeOK
<1>7. /\ clock'[s] = loaded
      /\ \A r \in Sids \ {s} : /\ clock'[r] = clock[r] /\ root'[r] = root[r]
                               /\ held'[r] = held[r]
      /\ lost => root'[s] = Undefined /\ held'[s] = {}
      /\ ~lost => root'[s] = root[s] /\ held'[s] = held[s]
  BY <1>1 DEF IInv, TypeOK
<1>8. \A r \in Sids : clock'[r].time = clock[r].time
  BY <1>2, <1>7
<1>9. PeersBehind'
  BY <1>2, <1>7 DEF IInv, PeersBehind
<1>10. TimesPositive' /\ ClockAhead' /\ IssuerAhead'
  BY <1>1, <1>8 DEF IInv, TypeOK, Patch, Timestamp, TimesPositive, ClockAhead, IssuerAhead
<1>11. IssuersActive' /\ DepsIssued' /\ DisjointIds' /\ IdsRespectCausality' /\ Causal'
  BY <1>1 DEF IInv, IssuersActive, DepsIssued, DisjointIds, IdsRespectCausality, Causal
<1>12. RootIsLatest'
  <2>1. Written({}) = {}
    BY DEF Written
  <2> QED
    BY <1>1, <1>3, <1>7, <2>1 DEF IInv, RootIsLatest, IsLatest
<1>13. PeersActive'
  BY <1>1, <1>5, <1>7 DEF IInv, PeersActive
<1>14. RootCovered'
  BY <1>1, <1>3, <1>4, <1>7 DEF IInv, RootCovered
<1> QED
  BY <1>6, <1>9, <1>10, <1>11, <1>12, <1>13, <1>14 DEF IInv
-----------------------------------------------------------------------------
\* Every action keeps the invariant: edit, receive, fork, reload.
LEMMA StepKeepsIInv == IInv /\ [Next]_vars => IInv'
<1> SUFFICES ASSUME IInv, [Next]_vars PROVE IInv'
  OBVIOUS
<1>1. CASE Next
  <2>1. PICK s \in Sids :
          \/ \E span \in 1 .. MaxSpan, setsRoot \in BOOLEAN : Edit(s, span, setsRoot)
          \/ \E p \in issued : Receive(s, p)
          \/ \E t \in Sids : ForkTo(s, t)
          \/ \E mentioned \in SUBSET Sids : Reload(s, mentioned)
    BY <1>1 DEF Next
  <2> QED
    BY <2>1, EditKeepsIInv, ReceiveKeepsIInv, ForkKeepsIInv, ReloadKeepsIInv
<1>2. CASE UNCHANGED vars
  BY <1>2 DEF vars, IInv, TypeOK, TimesPositive, IssuersActive, IssuerAhead, DepsIssued,
     DisjointIds, ClockAhead, IdsRespectCausality, PeersBehind, RootIsLatest, Causal,
     PeersActive, RootCovered
<1> QED
  BY <1>1, <1>2

\* The inductive invariant holds in every behaviour.
THEOREM Invariance == Spec => []IInv
BY InitHolds, StepKeepsIInv, PTL DEF Spec

\* Every variable keeps its type.
THEOREM TypeCorrect == Spec => []TypeOK
<1>1. IInv => TypeOK
  BY DEF IInv
<1> QED
  BY <1>1, Invariance, PTL

\* No timestamp is ever issued twice, by the clocks of clock/mod.rs.
THEOREM IdsStayDisjoint == Spec => []DisjointIds
<1>1. IInv => DisjointIds
  BY DEF IInv
<1> QED
  BY <1>1, Invariance, PTL

\* A clock is ahead of all its model applied, after forks and loads too.
THEOREM ClocksStayAhead == Spec => [](ClockAhead /\ PeersBehind)
<1>1. IInv => ClockAhead /\ PeersBehind
  BY DEF IInv
<1> QED
  BY <1>1, Invariance, PTL

\* The order of timestamps extends the order of causes.
THEOREM CausalityRespected == Spec => []IdsRespectCausality
<1>1. IInv => IdsRespectCausality
  BY DEF IInv
<1> QED
  BY <1>1, Invariance, PTL

\* The root register holds the latest of the values its model holds, so two
\* models that hold the same patches agree on it; a model holds all it applied,
\* unless it is a copy that got an old patch of the origin again.
THEOREM RootAgreed == Spec => [](RootIsLatest /\ RootConverges)
<1>1. IInv => RootIsLatest
  BY DEF IInv
<1>2. IInv => RootConverges
  <2> SUFFICES ASSUME IInv, NEW s \in active, NEW t \in active, held[s] = held[t]
               PROVE  root[s] = root[t]
    BY DEF RootConverges
  <2> DEFINE written == Written(held[s])
  <2>1. /\ s \in Sids /\ t \in Sids
        /\ written = Written(held[t])
        /\ written \subseteq Timestamp
    BY DEF IInv, TypeOK, Patch, Written
  <2>2. \A r \in {s, t} : IsLatest(root[r], written)
    BY <2>1 DEF IInv, RootIsLatest
  <2> HIDE DEF written
  <2>3. CASE written = {}
    BY <2>2, <2>3 DEF IsLatest
  <2>4. CASE written # {}
    <3>1. /\ root[s] \in Timestamp /\ root[t] \in Timestamp
          /\ root[s] = root[t] \/ Less(root[s], root[t])
          /\ root[s] = root[t] \/ Less(root[t], root[s])
      BY <2>1, <2>2, <2>4 DEF IsLatest
    <3> QED
      BY <3>1, LessIsAsymmetric
  <2> QED
    BY <2>3, <2>4
<1> QED
  BY <1>1, <1>2, Invariance, PTL

\* A patch that arrives again does not move the clock's time, nor the root of a
\* model that holds it.
THEOREM DuplicatesAreHarmless == Spec => Idempotent
<1>1. IInv /\ [Next]_vars =>
        [\A s \in Sids : \A p \in applied[s] :
           Receive(s, p) => /\ clock'[s].time = clock[s].time
                            /\ p \in held[s] => root' = root]_vars
  <2> SUFFICES ASSUME IInv, NEW s \in Sids, NEW p \in applied[s], Receive(s, p)
               PROVE  /\ clock'[s].time = clock[s].time
                      /\ p \in held[s] => root' = root
    OBVIOUS
  <2>1. /\ Apply(s, p) /\ p \in Patch /\ p \in issued
        /\ p.id \in Timestamp /\ p.id.time > 0
        /\ NextTime(p) <= clock[s].time
    BY DEF Receive, IInv, TypeOK, Patch, TimesPositive, ClockAhead
  <2>2. clock'[s].time = clock[s].time
    BY <2>1, ApplyKeepsClocks DEF IInv
  <2>3. p \in held[s] => SetRoot(root[s], p) = root[s]
    <3>1. CASE p.setsRoot /\ p \in held[s]
      <4>1. p.id \in Written(held[s]) /\ Written(held[s]) \subseteq Timestamp
        BY <3>1 DEF Written, IInv, TypeOK, Patch
      <4>2. root[s] \in Timestamp /\ (p.id = root[s] \/ Less(p.id, root[s]))
        BY <4>1 DEF IInv, RootIsLatest, IsLatest
      <4> QED
        BY <2>1, <4>2, LessIsAsymmetric DEF SetRoot
    <3>2. CASE ~p.setsRoot
      BY <3>2 DEF SetRoot
    <3> QED
      BY <3>1, <3>2
  <2> QED
    BY <2>1, <2>2, <2>3 DEF Apply, IInv, TypeOK
<1> QED
  BY <1>1, Invariance, PTL DEF Spec, Idempotent
=============================================================================
