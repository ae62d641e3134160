------------------------------ MODULE TextCrdt -----------------------------
(***************************************************************************)
(* What a replicated text promises: every replica keeps one list of items, *)
(* each named by its timestamp; an insertion puts its items behind the     *)
(* item it refers to, passing over the later ones; a deletion hides items. *)
(* This is the specification; the chunks, split links and merges that      *)
(* json_crdt/nodes/rga.rs implements it with are in Rga and RgaText.       *)
(***************************************************************************)
EXTENDS TextOps, Sequences, FiniteSetsExt

VARIABLES text,      \* session -> its list of items
          time,      \* session -> the next timestamp its clock issues
          applied,   \* session -> ids of the operations it has applied
          issued     \* every operation issued

vars == <<text, time, applied, issued>>

Item(id) == [id |-> id, live |-> TRUE]
Run(id, span) == [k \in 1 .. span |-> Item(Ts(id.sid, id.time + k - 1))]

Names(items) == {items[i].id : i \in DOMAIN items}

\* The places of the items that show.
Visible(items) == {i \in DOMAIN items : items[i].live}

\* What the place `i` is called; the node's own id stands in front of all.
NameOf(items, i) == IF i = 0 THEN StrId ELSE items[i].id

PlaceOf(items, id) ==
  IF id \in Names(items) THEN CHOOSE i \in DOMAIN items : items[i].id = id ELSE 0

\* The number of items that stay in front of an insertion `id` behind `after`.
FrontOf(items, after, id) ==
  Min({j \in PlaceOf(items, after) .. Len(items) :
         j = Len(items) \/ Less(items[j + 1].id, id)})

Inserted(items, op) ==
  IF op.id \in Names(items) THEN items
  ELSE LET front == FrontOf(items, op.after, op.id)
       IN  SubSeq(items, 1, front) \o Run(op.id, op.span)
             \o SubSeq(items, front + 1, Len(items))

Deleted(items, op) ==
  [i \in DOMAIN items |->
     IF items[i].id \in op.what THEN [items[i] EXCEPT !.live = FALSE] ELSE items[i]]

Integrated(items, op) ==
  IF op.kind = "ins" THEN Inserted(items, op) ELSE Deleted(items, op)

Apply(s, op) ==
  /\ text' = [text EXCEPT ![s] = Integrated(@, op)]
  /\ time' = [time EXCEPT ![s] = Larger(@, op.id.time + op.span)]
  /\ applied' = [applied EXCEPT ![s] = @ \cup {op.id}]

Issue(s, op) ==
  /\ Cardinality(issued) < MaxOps
  /\ Apply(s, op)
  /\ issued' = issued \cup {op}

Init ==
  /\ text = [s \in Sids |-> Run(Ts(Author, FirstTime), InitLen)]
  /\ time = [s \in Sids |-> FirstTime + InitLen]
  /\ applied = [s \in Sids |-> {}]
  /\ issued = {}

\* Behind the visible item at place `i`, or in front of all when it is 0.
InsertText(s, i, span) ==
  Issue(s, InsStr(Ts(s, time[s]), NameOf(text[s], i), span, applied[s]))

\* The visible items at the places i .. j, of which there is one.
DeleteText(s, i, j) ==
  LET what == {text[s][k].id : k \in Visible(text[s]) \cap i .. j}
  IN  /\ what # {}
      /\ Issue(s, Del(Ts(s, time[s]), what, applied[s]))

Receive(s, op) ==
  /\ op.deps \subseteq applied[s]
  /\ Apply(s, op)
  /\ UNCHANGED issued

Next ==
  \E s \in Sids :
    \/ \E i \in {0} \cup Visible(text[s]), span \in 1 .. MaxRun : InsertText(s, i, span)
    \/ \E i, j \in Visible(text[s]) : DeleteText(s, i, j)
    \/ \E op \in issued : Receive(s, op)

Spec == Init /\ [][Next]_vars
-----------------------------------------------------------------------------
\* Replicas that applied the same operations, in whatever causal order, show
\* the same text and keep the same items behind it.
Converged ==
  \A s, t \in Sids : applied[s] = applied[t] => text[s] = text[t]

Before(items, a, b) ==
  \E i, j \in DOMAIN items : i < j /\ items[i].id = a /\ items[j].id = b

Compatible(items, others) ==
  \A a, b \in Names(items) \cap Names(others) : Before(items, a, b) => ~Before(others, b, a)

\* No two replicas ever disagree on the order of two items both have.
OrderAgreed == \A s, t \in Sids : Compatible(text[s], text[t])

\* An operation that comes again changes nothing.
Repeatable ==
  [][\A s \in Sids : \A op \in issued :
       op.id \in applied[s] /\ Receive(s, op) => UNCHANGED vars]_vars

(***************************************************************************)
(* What Converged rests on.  The author of an item says where it belongs:  *)
(* behind its reference.  In every list all that stands between an item    *)
(* and its reference is later than the item; two lists with that property  *)
(* never disagree on the order of two items.                               *)
(***************************************************************************)
Operation ==
  [kind : {"ins"}, id : Timestamp, after : Timestamp, span : Nat \ {0},
   deps : SUBSET Timestamp]
    \cup
  [kind : {"del"}, id : Timestamp, what : SUBSET Timestamp, span : {1},
   deps : SUBSET Timestamp]

TypeOK ==
  /\ text \in [Sids -> Seq([id : Timestamp, live : BOOLEAN])]
  /\ time \in [Sids -> Nat]
  /\ applied \in [Sids -> SUBSET Timestamp]
  /\ issued \subseteq Operation

NextTime(op) == op.id.time + op.span

FirstRun == Interval(Ts(Author, FirstTime), InitLen)

\* The insertions and the deletions with these ids.
Insertions(ops, ids) == {op \in ops : op.kind = "ins" /\ op.id \in ids}
Deletions(ops, ids) == {op \in ops : op.kind = "del" /\ op.id \in ids}

\* The items that exist once these operations are applied.
Known(ops, ids) ==
  FirstRun \cup UNION {Interval(op.id, op.span) : op \in Insertions(ops, ids)}

\* What stands in front of an item where it is created: the reference of the
\* insertion that starts with it, the node, or the item before it in its run.
Reference(ops, id) ==
  IF \E op \in ops : op.kind = "ins" /\ op.id = id
  THEN (CHOOSE op \in ops : op.kind = "ins" /\ op.id = id).after
  ELSE IF id = Ts(Author, FirstTime) THEN StrId ELSE Ts(id.sid, id.time - 1)

\* Clocks are ahead of what was issued and of what was applied.
ClocksAhead ==
  /\ \A s \in Sids : FirstTime + InitLen <= time[s]
  /\ \A op \in issued : /\ FirstTime + InitLen <= op.id.time
                         /\ NextTime(op) <= time[op.id.sid]
  /\ \A s \in Sids : \A op \in issued : op.id \in applied[s] => NextTime(op) <= time[s]

\* No two operations share a timestamp.
DisjointOps ==
  \A p, q \in issued :
    p # q => Interval(p.id, p.span) \cap Interval(q.id, q.span) = {}

Ids(ops) == {op.id : op \in ops}

\* Operations are applied after the ones they depend on, and are later.
Causal ==
  /\ \A s \in Sids : applied[s] \subseteq Ids(issued)
  /\ \A op \in issued : op.deps \subseteq Ids(issued)
  /\ \A s \in Sids : \A op \in issued : op.id \in applied[s] => op.deps \subseteq applied[s]
  /\ \A p, q \in issued : p.id \in q.deps => NextTime(p) <= q.id.time

\* An operation names items its author had.
RefersToKnown ==
  \A op \in issued :
    IF op.kind = "ins" THEN op.after \in {StrId} \cup Known(issued, op.deps)
                       ELSE op.what \subseteq Known(issued, op.deps)

\* A list holds every item applied once, and shows it until a deletion names it.
Contents ==
  \A s \in Sids :
    /\ Names(text[s]) = Known(issued, applied[s])
    /\ \A i, j \in DOMAIN text[s] : text[s][i].id = text[s][j].id => i = j
    /\ \A i \in DOMAIN text[s] :
         text[s][i].live
           <=> \A op \in Deletions(issued, applied[s]) : text[s][i].id \notin op.what

\* What stands between an item and its reference is later than the item.
Placed(ops, items, j) ==
  \E i \in 0 .. j - 1 :
    /\ NameOf(items, i) = Reference(ops, items[j].id)
    /\ \A k \in i + 1 .. j - 1 : Less(items[j].id, items[k].id)

AllPlaced == \A s \in Sids : \A j \in DOMAIN text[s] : Placed(issued, text[s], j)

\* The inductive invariant of the model.
IInv ==
  /\ TypeOK /\ ClocksAhead /\ DisjointOps /\ Causal /\ RefersToKnown
  /\ Contents /\ AllPlaced
=============================================================================
