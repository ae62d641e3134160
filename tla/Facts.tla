----------------------------- MODULE Facts -------------------------------
(***************************************************************************)
(* Facts that the proofs share: the order of compare in clock/mod.rs is    *)
(* total, a run of ticks occupies its timestamps, and what FlattenSeq of   *)
(* the community modules gives.                                            *)
(***************************************************************************)
EXTENDS Clock, SequencesExt, SequenceTheorems, WellFoundedInduction, TLAPS

\* Session ids are above the reserved ones (clock/mod.rs).
LEMMA SidsAboveReserved ==
  ASSUME NEW s \in Sids
  PROVE  s \in Nat /\ s > 3
BY SidsAssumption

\* Timestamps are totally ordered (compare in clock/mod.rs).
LEMMA LessIsTotal ==
  ASSUME NEW a \in Timestamp, NEW b \in Timestamp
  PROVE  a = b \/ Less(a, b) \/ Less(b, a)
<1>1. /\ a.sid \in Nat /\ b.sid \in Nat
      /\ a.time \in Nat /\ b.time \in Nat
  BY SidsAboveReserved DEF Timestamp
<1>2. a.sid = b.sid /\ a.time = b.time => a = b
  BY DEF Timestamp
<1> QED
  BY <1>1, <1>2 DEF Less

\* compare is transitive: chains of causes stay ordered.
LEMMA LessIsTransitive ==
  ASSUME NEW a \in Timestamp, NEW b \in Timestamp, NEW c \in Timestamp,
         Less(a, b), Less(b, c)
  PROVE  Less(a, c)
<1>1. \A x \in {a, b, c} : x.sid \in Nat /\ x.time \in Nat
  BY SidsAboveReserved DEF Timestamp
<1> QED
  BY <1>1 DEF Less

\* compare never puts two timestamps before each other.
LEMMA LessIsAsymmetric ==
  ASSUME NEW a \in Timestamp, NEW b \in Timestamp, Less(a, b)
  PROVE  a # b /\ ~Less(b, a)
<1>1. \A x \in {a, b} : x.sid \in Nat /\ x.time \in Nat
  BY SidsAboveReserved DEF Timestamp
<1> QED
  BY <1>1 DEF Less

\* The timestamps of a patch lie from its own id up to its next time.
LEMMA IntervalBounds ==
  ASSUME NEW id \in Timestamp, NEW span \in Nat, NEW t \in Interval(id, span)
  PROVE  t.sid = id.sid /\ t.time \in Nat /\ id.time <= t.time /\ t.time < id.time + span
BY DEF Interval, Ts, Timestamp

-----------------------------------------------------------------------------
\* A set of numbers that is not empty has a least one: what arguments by the
\* smallest counterexample rest on.
LEMMA LeastNumber ==
  ASSUME NEW T, T \subseteq Nat, T # {}
  PROVE  \E m \in T : \A n \in T : m <= n
<1> DEFINE less == {pair \in Nat \X Nat : pair[1] < pair[2]}
<1>1. OpToRel(<, Nat) = less
  BY Zenon DEF OpToRel
<1>2. PICK m \in T : \A n \in T : ~(<<n, m>> \in less)
  BY <1>1, NatLessThanWellFounded, WFMin, Zenon
<1>3. ASSUME NEW n \in T, n < m
      PROVE  <<n, m>> \in less
  BY <1>3
<1> HIDE DEF less
<1>4. \A n \in T : ~(n < m)
  BY <1>2, <1>3, Zenon
<1> QED
  BY <1>4, SMT
-----------------------------------------------------------------------------
(***************************************************************************)
(* FlattenSeq is defined by a recursive function: that there is one, and   *)
(* that it is the only one, is shown by the smallest counterexample.       *)
(***************************************************************************)
Flattens(f, seqs, n) ==
  \A i \in 1 .. n : f[i] = IF i = 1 THEN seqs[i] ELSE f[i - 1] \o seqs[i]

\* The function from a place to the lists up to it exists.
LEMMA FlattenExists ==
  ASSUME NEW seqs, NEW n \in Nat
  PROVE  \E f : f = [i \in 1 .. n |-> IF i = 1 THEN seqs[i] ELSE f[i - 1] \o seqs[i]]
<1> DEFINE Has(m) == \E f : f = [i \in 1 .. m |-> IF i = 1 THEN seqs[i] ELSE f[i - 1] \o seqs[i]]
           lacks == {m \in Nat : ~Has(m)}
<1>1. Has(0)
  <2>1. [i \in {} |-> 0] = [i \in 1 .. 0 |-> IF i = 1 THEN seqs[i] ELSE [j \in {} |-> 0][i - 1] \o seqs[i]]
    OBVIOUS
  <2> QED
    BY <2>1
<1>2. ASSUME NEW m \in Nat, Has(m)
      PROVE  Has(m + 1)
  <2>1. PICK f : f = [i \in 1 .. m |-> IF i = 1 THEN seqs[i] ELSE f[i - 1] \o seqs[i]]
    BY <1>2
  <2> DEFINE last == IF m = 0 THEN seqs[1] ELSE f[m] \o seqs[m + 1]
             g == [i \in 1 .. m + 1 |-> IF i = m + 1 THEN last ELSE f[i]]
  <2>2. ASSUME NEW i \in 1 .. m + 1
        PROVE  g[i] = IF i = 1 THEN seqs[i] ELSE g[i - 1] \o seqs[i]
    <3>1. CASE i = m + 1
      BY <3>1
    <3>2. CASE i # m + 1
      <4>1. /\ i \in 1 .. m /\ i - 1 # m + 1 /\ g[i] = f[i]
            /\ i # 1 => i - 1 \in 1 .. m + 1 /\ g[i - 1] = f[i - 1]
        BY <3>2
      <4>2. f[i] = IF i = 1 THEN seqs[i] ELSE f[i - 1] \o seqs[i]
        BY <2>1, <4>1
      <4> QED
        BY <4>1, <4>2
    <3> QED
      BY <3>1, <3>2
  <2>3. g = [i \in 1 .. m + 1 |-> g[i]]
    OBVIOUS
  <2> HIDE DEF g
  <2> QED
    BY <2>2, <2>3
<1> HIDE DEF Has
<1>3. lacks = {}
  <2> SUFFICES ASSUME lacks # {} PROVE FALSE
    OBVIOUS
  <2>1. PICK m \in lacks : \A k \in lacks : m <= k
    BY LeastNumber
  <2>2. m # 0 /\ m - 1 \in Nat /\ m - 1 \notin lacks
    BY <1>1, <2>1
  <2>3. Has(m - 1 + 1)
    BY <1>2, <2>2
  <2> QED
    BY <2>1, <2>3
<1> QED
  BY <1>3 DEF Has

\* FlattenSeq is the last value of such a function.
LEMMA FlattenIsDefined ==
  ASSUME NEW S, NEW seqs \in Seq(Seq(S)), seqs # << >>
  PROVE  \E f : /\ DOMAIN f = 1 .. Len(seqs)
                /\ Flattens(f, seqs, Len(seqs))
                /\ FlattenSeq(seqs) = f[Len(seqs)]
<1>1. Len(seqs) \in Nat /\ Len(seqs) # 0
  OBVIOUS
<1> DEFINE f == CHOOSE f : f = [i \in 1 .. Len(seqs) |-> IF i = 1 THEN seqs[i] ELSE f[i - 1] \o seqs[i]]
<1>2. f = [i \in 1 .. Len(seqs) |-> IF i = 1 THEN seqs[i] ELSE f[i - 1] \o seqs[i]]
  BY <1>1, FlattenExists
<1>3. FlattenSeq(seqs) = f[Len(seqs)]
  BY <1>1 DEF FlattenSeq
<1> HIDE DEF f
<1>4. DOMAIN f = 1 .. Len(seqs)
  BY <1>2
<1>5. Flattens(f, seqs, Len(seqs))
  BY <1>2 DEF Flattens
<1> QED
  BY <1>3, <1>4, <1>5

\* There is only one such function.
LEMMA FlattenIsUnique ==
  ASSUME NEW seqs, NEW n \in Nat, NEW f, NEW g, Flattens(f, seqs, n), Flattens(g, seqs, n)
  PROVE  \A i \in 1 .. n : f[i] = g[i]
<1> DEFINE differ == {i \in 1 .. n : f[i] # g[i]}
<1> SUFFICES ASSUME differ # {} PROVE FALSE
  OBVIOUS
<1>1. PICK m \in differ : \A k \in differ : m <= k
  <2>1. differ \subseteq Nat
    OBVIOUS
  <2> HIDE DEF differ
  <2> QED
    BY <2>1, LeastNumber
<1>2. m \in 1 .. n /\ f[m] # g[m]
  BY <1>1
<1>3. m = 1 \/ (m - 1 \in 1 .. n /\ f[m - 1] = g[m - 1])
  BY <1>1, <1>2
<1> QED
  BY <1>2, <1>3 DEF Flattens


\* A list of lists flattens to a list.
LEMMA FlattenIsSeq ==
  ASSUME NEW S, NEW seqs \in Seq(Seq(S))
  PROVE  FlattenSeq(seqs) \in Seq(S)
<1>1. CASE seqs = << >>
  BY <1>1 DEF FlattenSeq
<1>2. CASE seqs # << >>
  <2>1. PICK f : Flattens(f, seqs, Len(seqs)) /\ FlattenSeq(seqs) = f[Len(seqs)]
    BY <1>2, FlattenIsDefined
  <2>2. /\ Len(seqs) \in Nat /\ Len(seqs) # 0
        /\ \A i \in 1 .. Len(seqs) : seqs[i] \in Seq(S)
    BY <1>2
  <2> DEFINE bad == {i \in 1 .. Len(seqs) : f[i] \notin Seq(S)}
  <2>3. bad = {}
    <3> SUFFICES ASSUME bad # {} PROVE FALSE
      OBVIOUS
    <3>1. bad \subseteq Nat
      BY <2>2
    <3>2. PICK m \in bad : \A k \in bad : m <= k
      <4> HIDE DEF bad
      <4> QED
        BY <3>1, LeastNumber
    <3>3. m \in 1 .. Len(seqs) /\ f[m] \notin Seq(S)
      BY <3>2
    <3>4. m = 1 \/ (m - 1 \in 1 .. Len(seqs) /\ f[m - 1] \in Seq(S))
      BY <2>2, <3>2, <3>3
    <3>5. f[m] = IF m = 1 THEN seqs[m] ELSE f[m - 1] \o seqs[m]
      BY <2>1, <3>3 DEF Flattens
    <3>6. CASE m = 1
      BY <2>2, <3>3, <3>5, <3>6
    <3>7. CASE m # 1
      <4> DEFINE before == f[m - 1]
                 next == seqs[m]
      <4>1. before \in Seq(S) /\ next \in Seq(S)
        BY <2>2, <3>3, <3>4, <3>7
      <4>2. f[m] = before \o next
        BY <3>5, <3>7
      <4> HIDE DEF before, next
      <4> QED
        BY <3>3, <4>1, <4>2, ConcatProperties
    <3> QED
      BY <3>6, <3>7
  <2>4. Len(seqs) \in 1 .. Len(seqs) /\ Len(seqs) \notin bad
    BY <2>2, <2>3
  <2> QED
    BY <2>1, <2>4
<1> QED
  BY <1>1, <1>2

\* `\o` under a name that provers do not look into.
Joined(s, t) == s \o t

\* Joining is associative.
LEMMA JoinedIsAssociative ==
  ASSUME NEW S, NEW s \in Seq(S), NEW t \in Seq(S), NEW u \in Seq(S)
  PROVE  Joined(Joined(s, t), u) = Joined(s, Joined(t, u))
BY ConcatAssociative, SMT DEF Joined

\* One more list goes to the end.
LEMMA FlattenOfAppend ==
  ASSUME NEW S, NEW seqs \in Seq(Seq(S)), NEW last \in Seq(S)
  PROVE  FlattenSeq(Append(seqs, last)) = FlattenSeq(seqs) \o last
<1> DEFINE all == Append(seqs, last)
           n == Len(seqs)
<1>1. /\ all \in Seq(Seq(S)) /\ Len(all) = n + 1 /\ n \in Nat /\ all # << >>
      /\ \A i \in 1 .. n : all[i] = seqs[i]
      /\ all[n + 1] = last
  BY AppendProperties, LenProperties
<1> HIDE DEF all
<1>2. PICK f : Flattens(f, all, n + 1) /\ FlattenSeq(all) = f[n + 1]
  BY <1>1, FlattenIsDefined
<1>3. f[n + 1] = IF n = 0 THEN last ELSE f[n] \o last
  BY <1>1, <1>2 DEF Flattens
<1>4. CASE seqs = << >>
  <2>1. n = 0 /\ FlattenSeq(seqs) = << >>
    BY <1>4 DEF FlattenSeq
  <2> QED
    BY <1>2, <1>3, <2>1, ConcatEmptySeq DEF all
<1>5. CASE seqs # << >>
  <2>1. PICK g : Flattens(g, seqs, n) /\ FlattenSeq(seqs) = g[n]
    BY <1>5, FlattenIsDefined
  <2>2. Flattens(f, seqs, n)
    BY <1>1, <1>2 DEF Flattens
  <2>3. n # 0 /\ n \in 1 .. n
    BY <1>1, <1>5
  <2>4. f[n] = g[n]
    BY <1>1, <2>1, <2>2, <2>3, FlattenIsUnique
  <2> QED
    BY <1>2, <1>3, <2>1, <2>3, <2>4 DEF all
<1> QED
  BY <1>4, <1>5

\* Two lists of lists, one behind the other.
LEMMA FlattenOfConcat ==
  ASSUME NEW S, NEW a \in Seq(Seq(S)), NEW b \in Seq(Seq(S))
  PROVE  FlattenSeq(a \o b) = FlattenSeq(a) \o FlattenSeq(b)
<1> DEFINE first(k) == SubSeq(b, 1, k)
           bad == {k \in 0 .. Len(b) : FlattenSeq(a \o first(k)) # FlattenSeq(a) \o FlattenSeq(first(k))}
<1>1. Len(b) \in Nat /\ \A i \in 1 .. Len(b) : b[i] \in Seq(S)
  OBVIOUS
<1>2. 0 \notin bad
  <2>1. first(0) = << >>
    BY SubSeqEmpty
  <2>2. FlattenSeq(<< >>) = << >>
    BY DEF FlattenSeq
  <2>3. FlattenSeq(a) \in Seq(S)
    BY FlattenIsSeq
  <2>4. a \o << >> = a /\ FlattenSeq(a) \o << >> = FlattenSeq(a)
    BY <2>3, ConcatEmptySeq
  <2> QED
    BY <2>1, <2>2, <2>4
<1>3. ASSUME NEW k \in 1 .. Len(b), k - 1 \notin bad
      PROVE  k \notin bad
  <2> DEFINE init == first(k - 1)
  <2>1. /\ first(k) \in Seq(Seq(S)) /\ init \in Seq(Seq(S)) /\ b[k] \in Seq(S)
        /\ k - 1 \in 0 .. Len(b)
    BY <1>1, SubSeqProperties
  <2>2. first(k) = init \o <<b[k]>>
    <3>1. 1 \in 1 .. Len(b) /\ k \in 1 .. Len(b)
      BY <1>1
    <3> QED
      BY <3>1, SubSeqRecursiveSecond
  <2>3. init \o <<b[k]>> = Append(init, b[k])
    BY <2>1, AppendIsConcat
  <2>4. FlattenSeq(a \o init) = FlattenSeq(a) \o FlattenSeq(init)
    BY <1>3, <2>1
  <2> HIDE DEF init
  <2>5. a \o first(k) = Append(a \o init, b[k])
    <3> HIDE DEF first
    <3>1. <<b[k]>> \in Seq(Seq(S)) /\ a \o init \in Seq(Seq(S))
      BY <2>1, ConcatProperties
    <3>2. Append(a \o init, b[k]) = (a \o init) \o <<b[k]>>
      BY <2>1, <3>1, AppendIsConcat
    <3>3. (a \o init) \o <<b[k]>> = a \o (init \o <<b[k]>>)
      <4> DEFINE one == <<b[k]>>
                 lists == Seq(S)
      <4>1. a \in Seq(lists) /\ init \in Seq(lists) /\ one \in Seq(lists)
        BY <2>1
      <4> HIDE DEF one, lists
      <4>2. Joined(Joined(a, init), one) = Joined(a, Joined(init, one))
        BY <4>1, JoinedIsAssociative
      <4> QED
        BY <4>2 DEF one, Joined
    <3> QED
      BY <2>2, <3>2, <3>3
  <2>6. a \o init \in Seq(Seq(S))
    BY <2>1, ConcatProperties
  <2>7. FlattenSeq(a \o first(k)) = FlattenSeq(a \o init) \o b[k]
    <3> HIDE DEF first
    <3> QED
      BY <2>1, <2>5, <2>6, FlattenOfAppend
  <2>8. FlattenSeq(first(k)) = FlattenSeq(init) \o b[k]
    <3> HIDE DEF first
    <3> QED
      BY <2>1, <2>2, <2>3, FlattenOfAppend
  <2>9. FlattenSeq(a) \in Seq(S) /\ FlattenSeq(init) \in Seq(S)
    BY <2>1, FlattenIsSeq
  <2>10. (FlattenSeq(a) \o FlattenSeq(init)) \o b[k] = FlattenSeq(a) \o (FlattenSeq(init) \o b[k])
    <3> DEFINE s == FlattenSeq(a)
               t == FlattenSeq(init)
               u == b[k]
    <3>1. s \in Seq(S) /\ t \in Seq(S) /\ u \in Seq(S)
      BY <2>1, <2>9
    <3> HIDE DEF s, t, u
    <3>2. Joined(Joined(s, t), u) = Joined(s, Joined(t, u))
      BY <3>1, JoinedIsAssociative
    <3> QED
      BY <3>2 DEF s, t, u, Joined
  <2> HIDE DEF first
  <2> QED
    BY <2>4, <2>7, <2>8, <2>10
<1>4. bad = {}
  <2> SUFFICES ASSUME bad # {} PROVE FALSE
    OBVIOUS
  <2>1. bad \subseteq Nat /\ bad \subseteq 0 .. Len(b)
    BY <1>1
  <2> HIDE DEF bad
  <2>2. PICK m \in bad : \A k \in bad : m <= k
    BY <2>1, LeastNumber
  <2>3. m \in 0 .. Len(b) /\ m # 0 /\ m - 1 \notin bad
    BY <1>1, <1>2, <2>1, <2>2
  <2> QED
    BY <1>1, <1>3, <2>2, <2>3
<1>5. Len(b) \in 0 .. Len(b) /\ first(Len(b)) = b
  BY <1>1, SubSeqFull
<1> HIDE DEF first
<1> QED
  BY <1>4, <1>5

\* A list of two parts, and two lists joined, place by place.
LEMMA TwoParts ==
  ASSUME NEW a, NEW b, NEW j, NEW m \in Nat, NEW n \in Nat,
         \A p \in 1 .. m + n : j[p] = IF p <= m THEN a[p] ELSE b[p - m]
  PROVE  /\ \A p \in 1 .. m : j[p] = a[p]
         /\ \A p \in m + 1 .. m + n : j[p] = b[p - m]
<1>1. ASSUME NEW p \in 1 .. m PROVE j[p] = a[p]
  <2>1. p \in 1 .. m + n /\ p <= m
    OBVIOUS
  <2> QED
    BY <2>1
<1>2. ASSUME NEW p \in m + 1 .. m + n PROVE j[p] = b[p - m]
  <2>1. p \in 1 .. m + n /\ ~(p <= m)
    OBVIOUS
  <2> QED
    BY <2>1
<1> QED
  BY <1>1, <1>2

\* The elements of a concatenation.
LEMMA JoinedAt ==
  ASSUME NEW S, NEW a \in Seq(S), NEW b \in Seq(S), NEW j, j = a \o b
  PROVE  /\ j \in Seq(S) /\ Len(j) = Len(a) + Len(b)
         /\ Len(a) \in Nat /\ Len(b) \in Nat
         /\ \A p \in 1 .. Len(a) : j[p] = a[p]
         /\ \A p \in Len(a) + 1 .. Len(a) + Len(b) : j[p] = b[p - Len(a)]
<1>1. /\ j \in Seq(S) /\ Len(j) = Len(a) + Len(b)
      /\ \A p \in 1 .. Len(a) + Len(b) : j[p] = IF p <= Len(a) THEN a[p] ELSE b[p - Len(a)]
  BY ConcatProperties
<1>2. Len(a) \in Nat /\ Len(b) \in Nat
  OBVIOUS
<1> QED
  BY <1>1, <1>2, TwoParts
=============================================================================
