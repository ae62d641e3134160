---------------------------- MODULE WasmSession ----------------------------
(***************************************************************************)
(* The editing sessions of crates/json-joy-wasm: each Model applies an     *)
(* edit at once and keeps its patch in local_changes until apiFlush joins  *)
(* them into one binary patch.  The document is a root register over a     *)
(* constant or over an object with one key; wire patches and snapshots go  *)
(* through the binary codecs, which do not store every timestamp.          *)
(***************************************************************************)
EXTENDS Clock, SequencesExt

CONSTANTS Starters,    \* sessions that begin with an empty document
          Scalars,     \* values of a constant
          MaxEdits,    \* bound: edits by all sessions
          MaxReloads,  \* bound: loads from a snapshot
          MaxCareless  \* bound: careless steps of the pages (see Counted)

ASSUME WasmAssumption ==
  /\ Starters \subseteq Sids
  /\ MaxCareless \in Nat
  /\ Scalars \cap {"null", "undefined"} = {}

VARIABLES open,     \* sessions that have a Model
          model,    \* session -> inner: its clock, root register and node index
          local,    \* session -> local_changes
          edits,    \* session -> ids of the edits its document took part in
          known,    \* session -> numbers of the wire patches it sent or received
          wire,     \* the binary patches sent, as a peer decodes them
          count,    \* edits so far
          reloads,  \* loads so far
          careless, \* history: how often a page did not wait for its flush
          dropped,  \* history: edits thrown away while they waited in local_changes
          overtaken \* history: session -> how many operations waited when the clock
                    \* was first moved past them; 0 when it was not

vars == <<open, model, local, edits, known, wire, count, reloads, careless, dropped, overtaken>>
-----------------------------------------------------------------------------
Con(value) == [kind |-> "con", value |-> value]
Obj(child) == [kind |-> "obj", child |-> child]

\* The JSON a caller passes: a constant, or an object with or without the key.
Json == {Con(v) : v \in Scalars} \cup {Obj(v) : v \in Scalars \cup {"undefined"}}

Has(m, id) == id \in DOMAIN m.index
IsObj(m, id) == Has(m, id) /\ m.index[id].kind = "obj"

Put(index, id, node) == [i \in DOMAIN index \cup {id} |-> IF i = id THEN node ELSE index[i]]

\* The constant under the key: "undefined" when the key does not show.
Shown(m, id) ==
  LET child == m.index[id].child
  IN  IF Has(m, child) THEN m.index[child].value ELSE "undefined"

View(m) ==
  IF ~Has(m, m.root) THEN Con("undefined")
  ELSE IF IsObj(m, m.root) THEN Obj(Shown(m, m.root)) ELSE m.index[m.root]

\* gc_tree
Tree(index, id) ==
  {id} \cup (IF id \in DOMAIN index /\ index[id].kind = "obj" THEN {index[id].child} ELSE {})

Collect(index, ids) == [i \in DOMAIN index \ ids |-> index[i]]
-----------------------------------------------------------------------------
\* Operations; each takes one timestamp.
NewCon(id, value) == [op |-> "new", id |-> id, node |-> Con(value)]
NewObj(id) == [op |-> "new", id |-> id, node |-> Obj(Undefined)]
InsVal(id, val) == [op |-> "ins_val", id |-> id, val |-> val]
InsObj(id, obj, val) == [op |-> "ins_obj", id |-> id, obj |-> obj, val |-> val]

Create(m, op) ==
  IF Has(m, op.id) THEN m ELSE [m EXCEPT !.index = Put(@, op.id, op.node)]

\* Mutant of SetRoot: the value that arrives last wins.
SetRootLastArrival(m, op) ==
  IF m.root = op.val THEN m
  ELSE [m EXCEPT !.root = op.val, !.index = Collect(@, Tree(@, m.root))]

SetRoot(m, op) ==
  IF Less(m.root, op.val)
  THEN [m EXCEPT !.root = op.val, !.index = Collect(@, Tree(@, m.root))] ELSE m

SetKey(m, op) ==
  IF IsObj(m, op.obj) /\ op.obj.time < op.val.time /\ Less(m.index[op.obj].child, op.val)
  THEN LET old == m.index[op.obj].child
       IN  [m EXCEPT !.index = Collect(Put(@, op.obj, Obj(op.val)), Tree(@, old))]
  ELSE m

ApplyOperation(m, op) ==
  LET after == CASE op.op = "new" -> Create(m, op)
                 [] op.op = "ins_val" -> SetRoot(m, op)
                 [] op.op = "ins_obj" -> SetKey(m, op)
  IN  [after EXCEPT !.clock = Observe(m.clock, op.id, 1)]

ApplyPatch(m, ops) ==
  LET after[k \in 0 .. Len(ops)] ==
        IF k = 0 THEN m ELSE ApplyOperation(after[k - 1], ops[k])
  IN  after[Len(ops)]
-----------------------------------------------------------------------------
At(id, n) == Ts(id.sid, id.time + n)

\* build_json, then the operation that stores its value.
BuildJson(id, json) ==
  IF json.kind = "con" THEN <<NewCon(id, json.value)>>
  ELSE IF json.child = "undefined" THEN <<NewObj(id)>>
  ELSE <<NewObj(id), NewCon(At(id, 1), json.child), InsObj(At(id, 2), id, At(id, 1))>>

SetRootOps(id, json) ==
  LET ops == BuildJson(id, json) IN Append(ops, InsVal(At(id, Len(ops)), id))

SetKeyOps(id, obj, value) == <<NewCon(id, value), InsObj(At(id, 1), obj, id)>>

\* JsonCrdtDiff::diff of the root node; an error of diff_any leaves the
\* builder as it is, here empty.
DiffOps(m, id, json) ==
  IF ~Has(m, m.root) THEN SetRootOps(id, json)
  ELSE IF IsObj(m, m.root) /\ json.kind = "obj" /\ Shown(m, m.root) # json.child
  THEN SetKeyOps(id, m.root, json.child)
  ELSE << >>

\* The binary codec of patches stores the first id only; the decoder numbers
\* the operations from there.
OnWire(ops) == [k \in DOMAIN ops |-> [ops[k] EXCEPT !.id = At(ops[1].id, k - 1)]]

\* merge_patches
MergePatches(patches) == FlattenSeq(patches)
-----------------------------------------------------------------------------
(***************************************************************************)
(* to_binary, then from_binary.  A node is written under the entry of its  *)
(* session; the zero id stands for one that the clock table refuses.  The  *)
(* reader takes a zero id in the place of the root for the end: nothing of *)
(* the document is left.                                                   *)
(***************************************************************************)
Encoded(clock, id) == IF AheadOfEntry(clock, id) THEN Origin ELSE id

\* Nodes below the root, in the order they are written.
Kept(m) == IF Has(m, m.root) THEN Tree(m.index, m.root) \cap DOMAIN m.index ELSE {}

\* Those that are read back.
Readable(m) == IF AheadOfEntry(m.clock, m.root) THEN {} ELSE Kept(m)

Loaded(m) ==
  LET id(i) == Encoded(m.clock, i)
      node(i) == IF IsObj(m, i) /\ Has(m, m.index[i].child)
                 THEN Obj(id(m.index[i].child))
                 ELSE IF IsObj(m, i) THEN Obj(Undefined) ELSE m.index[i]
      read == Readable(m)
      listed == {i.sid : i \in Kept(m)} \ {m.clock.sid}
  IN  \* The decoder observes the entries; none is ahead of the clock's time.
      [clock |-> [NewClock(m.clock.sid, m.clock.time) EXCEPT
                    !.peers = [p \in Sids |-> IF p \in listed THEN Entry(m.clock, p)
                                                             ELSE NoPeer]],
       root |-> IF read = {} THEN Undefined ELSE m.root,
       index |-> [j \in {id(i) : i \in read} |-> node(CHOOSE i \in read : id(i) = j)]]
-----------------------------------------------------------------------------
Empty(s) == [clock |-> NewClock(s, 1), root |-> Undefined, index |-> << >>]

Init ==
  /\ open = Starters
  /\ model = [s \in Sids |-> Empty(s)]
  /\ local = [s \in Sids |-> << >>]
  /\ edits = [s \in Sids |-> {}]
  /\ known = [s \in Sids |-> {}]
  /\ wire = {}
  /\ count = 0
  /\ reloads = 0
  /\ careless = 0
  /\ dropped = {}
  /\ overtaken = [s \in Sids |-> 0]

\* Mutant of NextTs: the builder starts one tick late.
NextTsLate(s) == Ts(s, model[s].clock.time + 1)

NextTs(s) == Ts(s, model[s].clock.time)

Pending(s) == MergePatches(local[s])
Firsts(s) == {patch[1].id : patch \in ToSet(local[s])}

\* The calls between an edit and its flush are the page's own affair, and so is
\* a patch that it hands over again; the model counts the careless ones.
Counted(isCareless) ==
  /\ isCareless => careless < MaxCareless
  /\ careless' = careless + (IF isCareless THEN 1 ELSE 0)

Unflushed(s) == local[s] # << >>

\* Does this step move the clock past the operations that wait?
Overtaking(s) ==
  overtaken' = [overtaken EXCEPT ![s] =
    IF @ = 0 /\ model'[s].clock.time # model[s].clock.time THEN Len(Pending(s)) ELSE @]

\* local_changes ends empty.
Emptied(s) ==
  /\ local' = [local EXCEPT ![s] = << >>]
  /\ overtaken' = [overtaken EXCEPT ![s] = 0]

\* A local change of the document: the edit is named by its first timestamp.
Change(s, ops) ==
  /\ s \in open
  /\ count < MaxEdits
  /\ model' = [model EXCEPT ![s] = ApplyPatch(@, ops)]
  /\ edits' = [edits EXCEPT ![s] = @ \cup {NextTs(s)}]
  /\ count' = count + 1

Send(s, ops, names) ==
  LET n == Cardinality(wire) + 1
  IN  /\ wire' = wire \cup {[n |-> n, ops |-> OnWire(ops), edits |-> names, deps |-> known[s]]}
      /\ known' = [known EXCEPT ![s] = @ \cup {n}]

\* with_builder
WithBuilder(s, ops) ==
  /\ Change(s, ops)
  /\ local' = [local EXCEPT ![s] = Append(@, ops)]
  /\ UNCHANGED <<open, known, wire, reloads, careless, dropped, overtaken>>

ApiSet(s, json) == WithBuilder(s, SetRootOps(NextTs(s), json))

ApiObjSet(s, value) == WithBuilder(s, SetKeyOps(NextTs(s), model[s].root, value))

\* api_obj_del writes a null constant over the key.
ApiObjDel(s) == WithBuilder(s, SetKeyOps(NextTs(s), model[s].root, "null"))

\* Mutant of ApiFlush: only the first local change is sent.
ApiFlushFirst(s) ==
  /\ local[s] # << >>
  /\ Send(s, local[s][1], {local[s][1][1].id})
  /\ Emptied(s)
  /\ UNCHANGED <<open, model, edits, count, reloads, careless, dropped>>

ApiFlush(s) ==
  /\ local[s] # << >>
  /\ Send(s, Pending(s), Firsts(s))
  /\ Emptied(s)
  /\ UNCHANGED <<open, model, edits, count, reloads, careless, dropped>>

\* apiApply: the edits were applied as they were made; what waits is dropped.
ApiApply(s) ==
  /\ s \in open
  /\ Counted(Unflushed(s))
  /\ dropped' = dropped \cup Firsts(s)
  /\ Emptied(s)
  /\ UNCHANGED <<open, model, edits, known, wire, count, reloads>>

\* diff_apply returns the patch itself; local_changes does not get it.
DiffApply(s, json) ==
  LET ops == DiffOps(model[s], NextTs(s), json)
  IN  /\ ops # << >>
      /\ Counted(Unflushed(s))
      /\ Change(s, ops)
      /\ Overtaking(s)
      /\ Send(s, ops, {NextTs(s)})
      /\ UNCHANGED <<open, local, reloads, dropped>>

\* apply_patch of what a peer sent, in causal order.
Receive(s, patch) ==
  /\ s \in open
  /\ patch.deps \subseteq known[s]
  /\ Counted(Unflushed(s) \/ patch.n \in known[s])
  /\ model' = [model EXCEPT ![s] = ApplyPatch(@, patch.ops)]
  /\ edits' = [edits EXCEPT ![s] = @ \cup patch.edits]
  /\ known' = [known EXCEPT ![s] = @ \cup {patch.n}]
  /\ Overtaking(s)
  /\ UNCHANGED <<open, local, wire, count, reloads, dropped>>

\* fork copies the document, not local_changes, and renames the clock.
ForkTo(s, t) ==
  /\ s \in open /\ t \notin open
  /\ Counted(Unflushed(s))
  /\ open' = open \cup {t}
  /\ model' = [model EXCEPT ![t] = [model[s] EXCEPT !.clock.sid = t]]
  /\ edits' = [edits EXCEPT ![t] = edits[s]]
  /\ known' = [known EXCEPT ![t] = known[s]]
  /\ UNCHANGED <<local, wire, count, reloads, dropped, overtaken>>

\* The page is closed and opened again from a snapshot.
Reload(s) ==
  /\ s \in open
  /\ Counted(Unflushed(s))
  /\ reloads < MaxReloads
  /\ model' = [model EXCEPT ![s] = Loaded(@)]
  /\ dropped' = dropped \cup Firsts(s)
  /\ Emptied(s)
  /\ reloads' = reloads + 1
  /\ UNCHANGED <<open, edits, known, wire, count>>

Next ==
  \E s \in Sids :
    \/ \E json \in Json : ApiSet(s, json) \/ DiffApply(s, json)
    \/ \E value \in Scalars : ApiObjSet(s, value)
    \/ ApiObjDel(s)
    \/ ApiFlush(s) \/ ApiApply(s)
    \/ \E patch \in wire : Receive(s, patch)
    \/ \E t \in Sids : ForkTo(s, t)
    \/ Reload(s)

Spec == Init /\ [][Next]_vars

\* For TLC: the values of constants are interchangeable.
ScalarSymmetry == Permutations(Scalars)
-----------------------------------------------------------------------------
\* Pages that flushed before every other call and got each patch once.
Careful == careless = 0

\* Sessions that took part in the same edits show the same document.
ViewsAgree ==
  Careful => \A s, t \in open : edits[s] = edits[t] => View(model[s]) = View(model[t])

\* The edits that were sent, and those no flush has taken yet.
Sent == UNION {patch.edits : patch \in wire}
Waiting == UNION {Firsts(s) : s \in Sids}

\* Every edit a document holds, made there, received or copied, has been sent or
\* still waits in some session's local_changes, so that a peer can come to hold
\* it too, but for those that waited when their page called apiApply or closed.
NothingLost == \A s \in open : edits[s] \subseteq Sent \cup Waiting \cup dropped

(***************************************************************************)
(* "Return all local changes ... as a single binary patch" (lib.rs:642):   *)
(* what a peer decodes are the operations that were applied here, ids      *)
(* included, up to the first clock move past edits that waited, which      *)
(* apply_patch and diff_apply make; those behind it get earlier ids.       *)
(***************************************************************************)
PatchKeepsIds ==
  \A s \in Sids :
    LET ops == Pending(s)
        sent == OnWire(ops)
    IN  \A k \in DOMAIN ops :
          IF overtaken[s] = 0 \/ k <= overtaken[s] THEN sent[k] = ops[k]
          ELSE sent[k].id.time < ops[k].id.time

\* A snapshot of a careful page, read back, is the document that was saved: the
\* same nodes under the same ids.
SnapshotKeepsIds ==
  [][\A s \in open : Reload(s) /\ Careful' =>
       /\ Kept(model'[s]) = Kept(model[s])
       /\ Kept(model[s]) # {} => model'[s].root = model[s].root
       /\ View(model'[s]) = View(model[s])]_vars

(***************************************************************************)
(* What NothingLost and PatchKeepsIds rest on: the operations that wait    *)
(* hold the last timestamps the clock has issued, until it is moved past   *)
(* them; what is appended then is later than its place says.               *)
(***************************************************************************)
Ids == Timestamp \cup {Origin, Undefined}

Node ==
  [kind : {"con"}, value : Scalars \cup {"null", "undefined"}]
    \cup [kind : {"obj"}, child : Ids]

Operation ==
  [op : {"new"}, id : Timestamp, node : Node]
    \cup [op : {"ins_val"}, id : Timestamp, val : Timestamp]
    \cup [op : {"ins_obj"}, id : Timestamp, obj : Ids, val : Timestamp]

ModelOK(m) ==
  /\ m = [clock |-> m.clock, root |-> m.root, index |-> m.index]
  /\ m.clock = [sid |-> m.clock.sid, time |-> m.clock.time, peers |-> m.clock.peers]
  /\ m.clock.time \in Nat
  /\ m.root \in Ids

TypeOK ==
  /\ open \subseteq Sids
  /\ DOMAIN model = Sids /\ \A s \in Sids : ModelOK(model[s])
  /\ local \in [Sids -> Seq(Seq(Operation) \ {<< >>})]
  /\ \A s \in Sids \ open : local[s] = << >>
  /\ edits \in [Sids -> SUBSET Timestamp]
  /\ \A patch \in wire : patch.ops \in Seq(Operation) /\ patch.edits \subseteq Timestamp
  /\ careless \in Nat
  /\ overtaken \in [Sids -> Nat]

\* The operations hold the last timestamps before `time`.
HoldLast(ops, s, time) ==
  \A k \in DOMAIN ops : ops[k].id = Ts(s, time - Len(ops) + k - 1)

\* The first n follow at once, the others and the clock are later.
LeaveGap(ops, n, time) ==
  /\ ops # << >> /\ n <= Len(ops)
  /\ ops[1].id.time + Len(ops) < time
  /\ \A k \in DOMAIN ops :
       IF k <= n THEN ops[k].id = At(ops[1].id, k - 1)
       ELSE ops[1].id.time + k - 1 < ops[k].id.time

LastIssued ==
  \A s \in Sids :
    IF overtaken[s] = 0 THEN HoldLast(Pending(s), s, model[s].clock.time)
    ELSE LeaveGap(Pending(s), overtaken[s], model[s].clock.time)

CarefulIsWhole == Careful => \A s \in Sids : overtaken[s] = 0

IInv == TypeOK /\ LastIssued /\ CarefulIsWhole /\ NothingLost
=============================================================================
