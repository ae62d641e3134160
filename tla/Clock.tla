------------------------------- MODULE Clock -------------------------------
(***************************************************************************)
(* Logical timestamps and the clock vector of a replica, from              *)
(* json_crdt_patch/clock/mod.rs.  A replica ("session") is named by its    *)
(* session id, a number, because timestamps are ordered by time first and  *)
(* by session id second.                                                   *)
(***************************************************************************)
EXTENDS Integers, FiniteSets

CONSTANT Sids

\* Session ids 0..3 are reserved (SESSION in enums.rs).
ASSUME SidsAssumption == Sids \subseteq {n \in Nat : n > 3}

Ts(sid, time) == [sid |-> sid, time |-> time]

Timestamp == [sid : Sids, time : Nat]

SystemSid == 0

\* The id of the document root, and the value an empty root register holds.
Origin == Ts(SystemSid, 0)
Undefined == Ts(SystemSid, 1)

\* compare(a, b) < 0
Less(a, b) == \/ a.time < b.time
              \/ a.time = b.time /\ a.sid < b.sid

\* The timestamps a run of `span` ticks from `id` occupies.
Interval(id, span) == {Ts(id.sid, id.time + i) : i \in 0 .. span - 1}

\* No timestamp of the peer was observed yet (an absent key of `peers`).
NoPeer == -1

ClockVector == [sid : Sids, time : Nat, peers : [Sids -> Nat \cup {NoPeer}]]

NewClock(sid, time) ==
  [sid |-> sid, time |-> time, peers |-> [p \in Sids |-> NoPeer]]

Larger(a, b) == IF a < b THEN b ELSE a

\* Mutant of Observe: the local time moves by every span seen.
ObserveAdding(clock, id, span) ==
  [clock EXCEPT !.time = Larger(@, id.time) + span]

\* observe(id, span): the peer's entry and the local time only move forward.
Observe(clock, id, span) ==
  LET edge == id.time + span - 1
  IN  [sid |-> clock.sid, time |-> Larger(clock.time, edge + 1),
       peers |-> [p \in Sids |->
                    IF p = id.sid /\ p # clock.sid THEN Larger(clock.peers[p], edge)
                    ELSE clock.peers[p]]]

\* tick(cycles): the clock after `cycles` timestamps were issued from it.
Tick(clock, cycles) == [clock EXCEPT !.time = @ + cycles]

\* fork(newSid): every peer the old clock knew is observed, the old session
\* itself up to the last timestamp it may have issued.  The new clock starts
\* at the old time, and no entry observed is ahead of that.
Fork(clock, newSid) ==
  LET old == IF newSid # clock.sid /\ clock.time > 0
             THEN [clock.peers EXCEPT ![clock.sid] = clock.time - 1]
             ELSE clock.peers
  IN  [sid |-> newSid, time |-> clock.time,
       peers |-> [p \in Sids |-> IF p = newSid THEN NoPeer ELSE old[p]]]

\* Mutant of Entry: a session without an entry is listed at zero.
EntryAtZero(clock, sid) ==
  IF sid = clock.sid THEN clock.time - 1
  ELSE IF clock.peers[sid] = NoPeer THEN 0 ELSE clock.peers[sid]

\* The entry of a session in the clock table of a snapshot (ClockEncoder).
Entry(clock, sid) ==
  IF sid = clock.sid \/ clock.peers[sid] = NoPeer THEN clock.time - 1 ELSE clock.peers[sid]

\* append: a timestamp later than the entry of its session (TIME_TRAVEL) is
\* refused, and ts_logical writes the zero id in its place.
AheadOfEntry(clock, id) == id # Undefined /\ id.time > Entry(clock, id.sid)
=============================================================================
