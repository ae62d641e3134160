----------------------------- MODULE Authoring -----------------------------
(***************************************************************************)
(* One session that edits a document through a ModelApi it keeps: the      *)
(* builder has a clock of its own, and what it holds may be applied,       *)
(* flushed without being applied, or dropped by a merge.  The document is  *)
(* the head of a Draft whose base gets the patches of another session      *)
(* only.  What the session issued is combined, compacted and rebased.      *)
(***************************************************************************)
EXTENDS Diff, PatchOps

CONSTANTS Me, Peer, Scenarios

ASSUME AuthoringAssumption == Me \in Sids /\ Peer \in Sids /\ Me # Peer

VARIABLES doc,       \* the model: the head of the draft
          time,      \* the next timestamp of the model's clock
          base,      \* the base of the draft
          api,       \* the builder: the time of its clock, the operations in it
          held,      \* patches flushed but not yet applied
          mine,      \* patches of this session in the order they were applied
          peer,      \* patches of the other session, in order
          got,       \* how many of them arrived here
          careless,  \* history: the builder was replaced while a patch was held
          scenario   \* of this behaviour: `first`, the value in the document,
                     \* `texts` and `values` that edits write, `targets` of
                     \* merges, and the bounds `mine` and `theirs` on patches

vars == <<doc, time, base, api, held, mine, peer, got, careless, scenario>>
-----------------------------------------------------------------------------
Init ==
  /\ scenario \in Scenarios
  /\ LET ops == SetRootOps(Ts(Peer, 1), scenario.first)
     IN  /\ doc = ApplyOps(Empty, ops)
         /\ base = doc
         /\ time = NextTime(ops)
         /\ api = [time |-> NextTime(ops), ops |-> << >>]
  /\ held = << >> /\ mine = << >> /\ peer = << >>
  /\ got = 0
  /\ careless = FALSE

\* The bound on patches; of a careless behaviour nothing is claimed further.
Bounded ==
  /\ ~careless
  /\ Len(mine) + Len(held) + Len(api.ops) < scenario.mine

\* Model::apply_patch of a patch of this session.
ApplyPatch(ops) ==
  /\ doc' = ApplyOps(doc, ops)
  /\ time' = Larger(time, NextTime(ops))
  /\ mine' = Append(mine, ops)

\* The next timestamp of the builder.
NextTs == Ts(Me, api.time)

\* Operations pushed to the builder stay in it.
Push(ops) ==
  /\ api' = [time |-> api.time + TicksOf(ops), ops |-> api.ops \o ops]
  /\ UNCHANGED <<doc, time, base, held, mine, peer, got, careless, scenario>>

\* ModelApi::apply behind the operations of an edit: everything in the
\* builder goes into the patch.
Edit(ops) ==
  /\ ApplyPatch(api.ops \o ops)
  /\ api' = [time |-> api.time + TicksOf(ops), ops |-> << >>]
  /\ UNCHANGED <<base, held, peer, got, careless, scenario>>

RootIs(d, kind) == Has(d, d.root, {kind})
RootSlots(d) == Slots(d.index[d.root])

\* What an insertion at `index` goes behind.
Behind(d, index) == IF index = 0 THEN d.root ELSE RootSlots(d)[index]

InsOps(d, id, index, text) == <<InsStr(id, d.root, Behind(d, index), text)>>

StrIns(index, text) == Edit(InsOps(doc, NextTs, index, text))

StrDel(index, length) ==
  Edit(<<Del(NextTs, doc.root, FindInterval(doc.index[doc.root].chunks, index, length))>>)

ObjSet(key, value) == Edit(ObjSetOps(NextTs, doc.root, key, value))

\* The caller calls builder.ins_str and does not apply it yet.
BuildIns(index, text) == Push(InsOps(doc, NextTs, index, text))

\* vec_set fails for an index above 255 when it has built the value already.
VecSetOutOfBounds(value) == Push(ConstOrJson(NextTs, value))

\* ModelApi::flush
Flush ==
  /\ api.ops # << >>
  /\ held' = Append(held, api.ops)
  /\ api' = [api EXCEPT !.ops = << >>]
  /\ UNCHANGED <<doc, time, base, mine, peer, got, careless, scenario>>

\* The caller applies the patch it flushed first.
ApplyHeld ==
  /\ held # << >>
  /\ ApplyPatch(Head(held))
  /\ held' = Tail(held)
  /\ UNCHANGED <<base, api, peer, got, careless, scenario>>

\* Mutant of Renewed: the builder goes on from its own time.
RenewedFromBuilder(now) == [time |-> api.time, ops |-> << >>]

\* ModelApi::new, and what merge does to the builder at its end.
Renewed(now) == [time |-> now, ops |-> << >>]

NewApi ==
  /\ api # Renewed(time)
  /\ api' = Renewed(time)
  /\ careless' = (careless \/ held # << >>)
  /\ UNCHANGED <<doc, time, base, held, mine, peer, got, scenario>>

\* ModelApi::merge of the root; the diff starts from the model's clock.
Merge(target) ==
  \E ops \in DiffNode(doc, Ts(Me, time), doc.root, target) \ {<< >>} :
    /\ ApplyPatch(ops)
    /\ api' = Renewed(Larger(time, NextTime(ops)))
    /\ careless' = (careless \/ held # << >>)
    /\ UNCHANGED <<base, held, peer, got, scenario>>

\* The other session edits its own replica, which gets nothing from here.
PeerDoc == ApplyOps(base, FlattenSeq(SubSeq(peer, got + 1, Len(peer))))
PeerEdit ==
  /\ Len(peer) < scenario.theirs
  /\ LET d == PeerDoc
         id == Ts(Peer, IF peer = << >> THEN NextTime(SetRootOps(Ts(Peer, 1), scenario.first))
                        ELSE NextTime(Last(peer)))
     IN  \/ /\ RootIs(d, "str")
            /\ \E index \in 0 .. Len(RootSlots(d)), text \in scenario.texts :
                 peer' = Append(peer, InsOps(d, id, index, text))
         \/ /\ RootIs(d, "obj")
            /\ \E v \in scenario.values : peer' = Append(peer, ObjSetOps(id, d.root, "a", v))
  /\ UNCHANGED <<doc, time, base, api, held, mine, got, careless, scenario>>

\* Draft::rebase: the next patch of the other session, or one again, comes to
\* base and head.
Receive(i) ==
  /\ base' = ApplyOps(base, peer[i])
  /\ doc' = ApplyOps(doc, peer[i])
  /\ time' = Larger(time, NextTime(peer[i]))
  /\ got' = Larger(got, i)
  /\ UNCHANGED <<api, held, mine, peer, careless, scenario>>

EditText ==
  /\ Bounded /\ RootIs(doc, "str")
  /\ \E index \in 0 .. Len(RootSlots(doc)) :
       \/ \E text \in scenario.texts : StrIns(index, text) \/ BuildIns(index, text)
       \/ \E length \in 1 .. Len(RootSlots(doc)) - index : StrDel(index, length)

EditObj ==
  /\ Bounded /\ RootIs(doc, "obj")
  /\ \E value \in scenario.values : ObjSet("a", value) \/ VecSetOutOfBounds(value)

Next ==
  \/ EditText \/ EditObj
  \/ Flush \/ ApplyHeld
  \/ NewApi
  \/ Bounded /\ \E target \in scenario.targets : Merge(target)
  \/ PeerEdit
  \/ \E i \in 1 .. got + 1 : i <= Len(peer) /\ Receive(i)

Spec == Init /\ [][Next]_vars
-----------------------------------------------------------------------------
Ids(op) == Interval(op.id, SpanOf(op))

\* No timestamp is issued twice by what was applied, flushed or is still in
\* the builder, unless the builder was replaced while a flushed patch was
\* held: "so subsequent operations don't reuse timestamps" (api.rs:145).
IdsFresh ==
  ~careless =>
    LET ops == FlattenSeq(mine \o held) \o api.ops
    IN  \A i, j \in DOMAIN ops : i < j => Ids(ops[i]) \cap Ids(ops[j]) = {}

\* What this session applied, in the order of its timestamps.
InOrder == SortSeq(mine, LAMBDA p, q : p[1].id.time < q[1].id.time)

\* What comes of a patch in a format: in verbose JSON undefined, with which
\* obj_del takes a key away, becomes null, which shows.
Kept(ops, codec) ==
  [i \in DOMAIN ops |->
     IF codec = "verbose" /\ Writes(ops[i], "undefined")
     THEN [ops[i] EXCEPT !.node = Con("null")] ELSE ops[i]]

\* Combined to one patch and sent in any format, the edits of the session keep
\* their timestamps and bring the base of the draft to what its head shows,
\* however they came among the patches of the other session.
DraftAgrees ==
  ~careless =>
    LET all == Combine(InOrder)
    IN  /\ CanCombine(InOrder)
        /\ all # << >> => \A codec \in PatchCodecs : Carried(all, codec) = Kept(all, codec)
        /\ ViewOfRoot(ApplyOps(base, all)) = ViewOfRoot(doc)

Times(patches) == {t.time : t \in UNION {Ids(op) : op \in ToSet(FlattenSeq(patches))}}

\* Compacting changes nothing, unless both sessions used the same time.
CompactAgrees ==
  ~careless /\ Times(mine) \cap Times(peer) = {} =>
    ViewOfRoot(ApplyOps(base, Compact(Combine(InOrder)))) = ViewOfRoot(doc)

\* "merging consecutive string inserts (when they are ... consecutive
\* appends)" (compaction.rs:61) changes nothing.
CompactKeeps ==
  ~careless =>
    ViewOfRoot(ApplyOps(base, Compact(Combine(InOrder)))) = ViewOfRoot(doc)

Contiguous(patches) ==
  \A i \in 1 .. Len(patches) - 1 : EndOf(patches[i]) = patches[i + 1][1].id.time

\* Rebased behind everything the model knows, every operation still refers to
\* what it referred to: one patch, the combined patches, a batch without gaps
\* and, within each patch, the batch of a log.
RebaseKeepsMeaning ==
  ~careless /\ mine # << >> =>
    LET all == Combine(InOrder)
        to == Larger(time, api.time)
    IN  /\ Meanings(Rebase(all, to, all[1].id.time)) = Meanings(all)
        /\ Contiguous(InOrder) =>
             Meanings(FlattenSeq(RebaseBatch(InOrder, to))) = Meanings(FlattenSeq(InOrder))
        /\ \A i \in DOMAIN InOrder :
             Meanings(RebaseEach(InOrder, to)[i]) = Meanings(InOrder[i])

\* "All timestamps at or after transform_horizon ... are shifted by the same
\* delta" (batch.rs:29): a batch refers to what it referred to.
BatchKeepsMeaning ==
  ~careless /\ mine # << >> =>
    Meanings(FlattenSeq(RebaseBatch(InOrder, Larger(time, api.time))))
      = Meanings(FlattenSeq(InOrder))

\* A merge that changes something makes the document look like the target.
MergeReaches ==
  [][~careless => \A target \in scenario.targets :
       Merge(target) => ViewOfRoot(doc') = target]_vars
=============================================================================
