------------------------------ MODULE RgaText ------------------------------
(***************************************************************************)
(* Replicas of a str node kept as an Rga: the edits of ModelApi (str_ins,  *)
(* str_del), the InsStr and Del operations they issue, and what            *)
(* Model::apply_operation does with them here and on the other replicas,   *)
(* where they arrive late, in another order, or twice.  Reload is a save   *)
(* to the structural codec and a load from it.                             *)
(***************************************************************************)
EXTENDS Rga, TextOps

CONSTANTS MaxReloads,  \* bound: loads from a snapshot
          Savers       \* bound: the sessions that are saved and loaded

VARIABLES rga,       \* session -> chunks of the node
          time,      \* session -> the next timestamp its clock issues
          applied,   \* session -> ids of the operations it has applied
          issued,    \* every operation issued
          reloads    \* loads so far

vars == <<rga, time, applied, issued, reloads>>

\* StrNode::ins and StrNode::delete.
ApplyToNode(chunks, op) ==
  IF op.kind = "ins" THEN Insert(chunks, op.after, op.id, op.span)
                     ELSE Delete(chunks, op.what)

\* apply_operation: the clock observes the operation, the node takes it.
ApplyOperation(s, op) ==
  /\ rga' = [rga EXCEPT ![s] = ApplyToNode(@, op)]
  /\ time' = [time EXCEPT ![s] = Larger(@, op.id.time + op.span)]
  /\ applied' = [applied EXCEPT ![s] = @ \cup {op.id}]
  /\ UNCHANGED reloads

Issue(s, op) ==
  /\ Cardinality(issued) < MaxOps
  /\ ApplyOperation(s, op)
  /\ issued' = issued \cup {op}

\* The author wrote a first run, which every replica has.
Init ==
  /\ rga = [s \in Sids |-> IF InitLen = 0 THEN << >>
                           ELSE <<NewChunk(Ts(Author, FirstTime), InitLen)>>]
  /\ time = [s \in Sids |-> FirstTime + InitLen]
  /\ applied = [s \in Sids |-> {}]
  /\ issued = {}
  /\ reloads = 0

\* str_ins(index, text): behind the visible character in front of index, or
\* behind the node's own id at the front.
StrIns(s, index, span) ==
  LET after == IF index = 0 THEN StrId ELSE View(rga[s])[index]
  IN  Issue(s, InsStr(Ts(s, time[s]), after, span, applied[s]))

\* str_del(index, length)
StrDel(s, index, length) ==
  Issue(s, Del(Ts(s, time[s]), FindInterval(rga[s], index, length), applied[s]))

Receive(s, op) ==
  /\ op.deps \subseteq applied[s]
  /\ ApplyOperation(s, op)
  /\ UNCHANGED issued

Reload(s) ==
  /\ s \in Savers /\ reloads < MaxReloads
  /\ reloads' = reloads + 1
  /\ rga' = [rga EXCEPT ![s] = Decoded(@)]
  /\ UNCHANGED <<time, applied, issued>>

Length(s) == Len(View(rga[s]))

Next ==
  \E s \in Sids :
    \/ \E index \in 0 .. Length(s), span \in 1 .. MaxRun : StrIns(s, index, span)
    \/ \E index \in 0 .. Length(s) :
         \E length \in 1 .. Length(s) - index : StrDel(s, index, length)
    \/ \E op \in issued : Receive(s, op)
    \/ Reload(s)

Spec == Init /\ [][Next]_vars
-----------------------------------------------------------------------------
CoveredBy(spans) ==
  UNION {Interval(Ts(tss.sid, tss.time), tss.span) : tss \in ToSet(spans)}

\* The specification the chunks implement: every step of a replica places the
\* same items at the same places and hides the same items as the plain list.
Op(op) == IF op.kind = "ins" THEN op ELSE [op EXCEPT !.what = CoveredBy(@)]

Crdt == INSTANCE TextCrdt WITH
          text <- [s \in Sids |-> Items(rga[s])],
          issued <- {Op(op) : op \in issued}

\* Until the first load, after which a deletion may miss pieces of a run.
ImplementsTextCrdt == Crdt!Init /\ [][reloads' = 0 => Crdt!Next]_(Crdt!vars)

\* Replicas that applied the same operations, in whatever causal order, keep
\* the same items and show the same text; and no two replicas ever disagree on
\* the order of two items both have, loads or not.
Converged == (reloads = 0 => Crdt!Converged) /\ Crdt!OrderAgreed

\* The chunks never overlap, none is empty, and every link leads to the chunk
\* that holds the next item of the same run, further back in the document.
LinksLead ==
  \A s \in Sids : \A i, j \in DOMAIN rga[s] :
    LET c == rga[s][i]
        d == rga[s][j]
    IN  /\ c.span > 0
        /\ i # j => ~Covers(c, d.id)
        /\ c.link # NoLink /\ d.id = c.link => i < j /\ c.link = Ts(c.id.sid, NextTick(c))
        /\ c.link # NoLink => StartsAt(rga[s], c.link) # {}

\* "Delete all items covered by the given timestamp spans" (rga.rs:1145).
DeletesAllCovered ==
  \A s \in Sids : \A op \in issued :
    op.kind = "del" /\ op.id \in applied[s] =>
      \A i \in DOMAIN rga[s] :
        rga[s][i].deleted \/ ~\E t \in CoveredBy(op.what) : Covers(rga[s][i], t)

\* The same, as long as no load dropped the links of split runs.
DeletesReach == reloads = 0 => DeletesAllCovered

\* Applying an operation again changes no item.  It may set a link that a load
\* lost; a deletion that missed pieces for want of it (see DeletesAllCovered)
\* then reaches them when it comes again, so deletions count before loads only.
Idempotent ==
  \A s \in Sids : \A op \in issued :
    op.id \in applied[s] /\ (op.kind = "ins" \/ reloads = 0) =>
      Items(ApplyToNode(rga[s], op)) = Items(rga[s])
=============================================================================
