------------------------------ MODULE Document -----------------------------
(***************************************************************************)
(* Replicas of a JSON document: the edits of ModelApi, each applied to the *)
(* replica it is made on and issued as a patch, patches that arrive on the *)
(* other replicas in any causal order and again, and loads from a snapshot *)
(* in one of the five formats of json_crdt/codec.  A behaviour starts from *)
(* one of several first patches, so that every kind of node is edited.     *)
(***************************************************************************)
EXTENDS JsonSnapshots

CONSTANTS Author,      \* the session that wrote the first patch
          Scenarios,   \* of behaviours: see the variable
          Keys,        \* keys of objects
          Indices,     \* indices of vecs
          Codecs       \* formats of snapshots

ASSUME DocumentAssumption ==
  /\ Author \in Sids /\ Keys # {} /\ Indices \subseteq Nat
  /\ Codecs \subseteq {"binary", "compact", "verbose", "sidecar", "indexed"}

VARIABLES doc,       \* session -> its root register and index of nodes
          clock,     \* session -> its clock
          applied,   \* session -> ids of the patches it has applied
          issued,    \* every patch issued
          reloads,   \* loads so far
          lost,      \* history: a load dropped the link of a split run
          scenario   \* of this behaviour: `first`, what the first patch holds,
                     \* `values`, the JSON values edits write, and the bounds
                     \* `patches` (issued after the first) and `reloads`

vars == <<doc, clock, applied, issued, reloads, lost, scenario>>
-----------------------------------------------------------------------------
\* The first patch of a document: nothing, an empty vec or bin, or a value.
FirstPatch(first) ==
  LET id == Ts(Author, 1)
  IN  CASE first.kind = "none" -> << >>
        [] first.kind = "vec" -> <<New(id, Vec), InsVal(At(id, 1), Origin, id)>>
        [] first.kind = "bin" -> <<New(id, Bin), InsVal(At(id, 1), Origin, id)>>
        [] OTHER -> SetRootOps(id, first)

\* apply_operation observes every operation on the clock.
ObserveAll(vector, ops) ==
  FoldLeft(LAMBDA v, op : Observe(v, op.id, SpanOf(op)), vector, ops)

Init ==
  /\ scenario \in Scenarios
  /\ LET ops == FirstPatch(scenario.first)
     IN  /\ doc = [s \in Sids |-> ApplyOps(Empty, ops)]
         /\ clock = [s \in Sids |-> ObserveAll(NewClock(s, 1), ops)]
  /\ applied = [s \in Sids |-> {}]
  /\ issued = {}
  /\ reloads = 0
  /\ lost = FALSE

Apply(s, patch) ==
  /\ doc' = [doc EXCEPT ![s] = ApplyOps(@, patch.ops)]
  /\ clock' = [clock EXCEPT ![s] = ObserveAll(@, patch.ops)]
  /\ applied' = [applied EXCEPT ![s] = @ \cup {patch.id}]
  /\ UNCHANGED <<reloads, lost, scenario>>

\* The next timestamp of the session, from which the builder starts.
NextTs(s) == Ts(s, clock[s].time)

\* ModelApi::apply of the operations one edit put in the builder.
Edit(s, ops) ==
  /\ Cardinality(issued) < scenario.patches
  /\ LET patch == [id |-> NextTs(s), ops |-> ops, deps |-> applied[s]]
     IN  Apply(s, patch) /\ issued' = issued \cup {patch}

\* The nodes an edit can address: those its session sees.
Shown(s) == Tree(doc[s].index, doc[s].root)
ShownOf(s, kind) == {id \in Shown(s) : doc[s].index[id].kind = kind}

\* A deletion writes "undefined"; no other call does.
Written == scenario.values \ {Scalar("undefined")}

SetRoot(s) == \E v \in Written : Edit(s, SetRootOps(NextTs(s), v))

ObjSet(s) ==
  \E obj \in ShownOf(s, "obj"), key \in Keys, v \in scenario.values :
    Edit(s, ObjSetOps(NextTs(s), obj, key, v))

VecSet(s) ==
  \E vec \in ShownOf(s, "vec"), index \in Indices, v \in Written :
    Edit(s, VecSetOps(NextTs(s), vec, index, v))

ValSet(s) ==
  \E val \in ShownOf(s, "val"), v \in Written :
    LET ops == ConstOrJson(NextTs(s), v)
    IN  Edit(s, Append(ops, InsVal(At(NextTs(s), TicksOf(ops)), val, NextTs(s))))

\* str_ins and bin_ins of one letter or byte, at index 0 behind the node.
TextIns(s) ==
  \E text \in ShownOf(s, "str") \cup ShownOf(s, "bin") :
    LET node == doc[s].index[text]
    IN  \E after \in LiveSlots(node) \cup {text} :
          Edit(s, <<IF node.kind = "str" THEN InsStr(NextTs(s), text, after, <<"x">>)
                                         ELSE InsBin(NextTs(s), text, after, <<"x">>)>>)

ArrIns(s) ==
  \E arr \in ShownOf(s, "arr"), v \in Written :
    \E after \in LiveSlots(doc[s].index[arr]) \cup {arr} :
      Edit(s, ArrInsOps(NextTs(s), arr, after, v))

ArrUpd(s) ==
  \E arr \in ShownOf(s, "arr"), v \in Written :
    \E slot \in LiveSlots(doc[s].index[arr]) :
      Edit(s, ArrUpdOps(NextTs(s), arr, slot, v))

\* str_del, bin_del and arr_del
DelInterval(s) ==
  \E id \in ShownOf(s, "arr") \cup ShownOf(s, "str") \cup ShownOf(s, "bin") :
    LET chunks == doc[s].index[id].chunks
        size == Len(View(chunks))
    IN  \E index \in 0 .. size : \E length \in 1 .. size - index :
          Edit(s, <<Del(NextTs(s), id, FindInterval(chunks, index, length))>>)

Receive(s, patch) ==
  /\ patch.deps \subseteq applied[s]
  /\ Apply(s, patch)
  /\ UNCHANGED issued
-----------------------------------------------------------------------------
(***************************************************************************)
(* Snapshots.  Every decoder builds chunks with push_chunk, which sets no  *)
(* link.  The binary and the sidecar format cannot be read when a node     *)
(* misses a child (see SnapshotWhole).                                     *)
(***************************************************************************)
Whole(d) ==
  d.root = Undefined \/
    (d.root \in DOMAIN d.index /\
     \A id \in Tree(d.index, d.root) : Children(d.index[id]) \subseteq DOMAIN d.index)

HasLinks(d) ==
  \E id \in DOMAIN d.index :
    /\ d.index[id].kind \in {"arr", "str", "bin"}
    /\ Decoded(d.index[id].chunks) # d.index[id].chunks

\* A save and a load.
Reread(m, codec) ==
  CASE codec = "binary"  -> BinaryDecode(BinaryEncode(m))
    [] codec = "compact" -> CompactDecode(CompactEncode(m))
    [] codec = "sidecar" -> SidecarDecode(SidecarEncode(m))
    [] codec = "verbose" -> VerboseDecode(VerboseEncode(m))
    [] codec = "indexed" -> IndexedDecode(IndexedEncode(m))

Reload(s, codec) ==
  /\ reloads < scenario.reloads
  /\ Whole(doc[s])
  /\ \E m \in {Reread([root |-> doc[s].root, index |-> doc[s].index, clock |-> clock[s]], codec)} :
       /\ doc' = [doc EXCEPT ![s] = [root |-> m.root, index |-> m.index]]
       /\ clock' = [clock EXCEPT ![s] = m.clock]
  /\ reloads' = reloads + 1
  /\ lost' = (lost \/ HasLinks(doc[s]))
  /\ UNCHANGED <<applied, issued, scenario>>

Next ==
  \E s \in Sids :
    \/ SetRoot(s) \/ ObjSet(s) \/ VecSet(s) \/ ValSet(s) \/ TextIns(s)
    \/ ArrIns(s) \/ ArrUpd(s) \/ DelInterval(s)
    \/ \E patch \in issued : Receive(s, patch)
    \/ \E codec \in Codecs : Reload(s, codec)

Spec == Init /\ [][Next]_vars
-----------------------------------------------------------------------------
\* What the document shows below a node, with the ids of the nodes shown:
\* keys of undefined are left out.
RECURSIVE Shows(_, _)
Shows(d, id) ==
  IF id \notin DOMAIN d.index THEN <<Undefined, "undefined">>
  ELSE LET node == d.index[id]
       IN  CASE node.kind = "con" -> <<id, node.value>>
             [] node.kind = "val" -> <<id, Shows(d, node.val)>>
             [] node.kind \in {"obj", "vec"} ->
                  LET shown == {k \in DOMAIN node.map :
                        node.map[k] \in DOMAIN d.index /\
                        d.index[node.map[k]] # Con("undefined")}
                  IN  <<id, [k \in shown |-> Shows(d, node.map[k])]>>
             [] node.kind \in {"str", "bin"} -> <<id, Slots(node)>>
             [] node.kind = "arr" ->
                  <<id, [i \in DOMAIN Slots(node) |-> Shows(d, node.data[Slots(node)[i]])]>>

\* Replicas that applied the same patches show the same document, whatever
\* was overwritten, collected or reloaded meanwhile, unless a load dropped a
\* link that a Del still in flight needs (see RgaText!DeletesAllCovered).
ViewConverges ==
  ~lost => \A s, t \in Sids :
    applied[s] = applied[t] => Shows(doc[s], doc[s].root) = Shows(doc[t], doc[t].root)

\* Collection never takes a node that the document still shows: every child
\* of a shown node is in the index.  The encoders rely on it.  (After a load
\* that dropped a link a Del collects the values of slots it fails to hide.)
SnapshotWhole == ~lost => \A s \in Sids : Whole(doc[s])

\* Neither a patch that is applied again nor a load from a snapshot of any
\* format changes what a document shows (though the index may get back nodes
\* that were collected).
ShowsOnce ==
  [][applied' = applied /\ ~lost =>
       \A s \in Sids : Shows(doc'[s], doc'[s].root) = Shows(doc[s], doc[s].root)]_vars
=============================================================================
