----------------------------- MODULE SortedList -----------------------------
(***************************************************************************)
(* What an ordered map of sonic-forest promises: the keys it holds, in     *)
(* order.  `twice' says whether a key that is set again is kept twice, as  *)
(* Tree does, or overwritten, as every other map does.                     *)
(***************************************************************************)
EXTENDS Integers, Sequences

CONSTANT Keys

VARIABLES twice, list

Ordered(q) == \A i, j \in DOMAIN q : i < j => (IF twice THEN q[i] <= q[j] ELSE q[i] < q[j])

Holds(k) == \E i \in DOMAIN list : list[i] = k

Without(q, i) == SubSeq(q, 1, i - 1) \o SubSeq(q, i + 1, Len(q))
With(q, i, k) == SubSeq(q, 1, i - 1) \o <<k>> \o SubSeq(q, i, Len(q))

Init == twice \in BOOLEAN /\ list = << >>

Put(k) ==
  /\ twice \/ ~Holds(k)
  /\ \E i \in 1 .. Len(list) + 1 : list' = With(list, i, k) /\ Ordered(With(list, i, k))
  /\ UNCHANGED twice

Drop(i) == list' = Without(list, i) /\ UNCHANGED twice

\* A key is changed in place, between its neighbours.
Rekey(i, k) ==
  /\ Ordered([list EXCEPT ![i] = k])
  /\ list' = [list EXCEPT ![i] = k]
  /\ UNCHANGED twice

Wipe == list' = << >> /\ UNCHANGED twice

Next ==
  \/ \E k \in Keys : Put(k) \/ \E i \in DOMAIN list : Rekey(i, k)
  \/ \E i \in DOMAIN list : Drop(i)
  \/ Wipe

Spec == Init /\ [][Next]_<<twice, list>>
==============================================================================
