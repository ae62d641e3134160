------------------------- MODULE WasmSession_proofs ------------------------
(***************************************************************************)
(* Proofs about WasmSession, for any number of sessions, values and edits: *)
(* which edits can be lost and which ids a flush keeps, whatever the pages *)
(* do; and that the documents of pages that flush first and get no patch   *)
(* twice agree and come back from a snapshot as they were.                 *)
(***************************************************************************)
EXTENDS WasmSession, Facts, FiniteSetTheorems

-----------------------------------------------------------------------------
(***************************************************************************)
(* apply_patch: the clock is observed once for every operation.            *)
(***************************************************************************)
\* The recursive function behind ApplyPatch exists.
LEMMA ApplyPatchExists ==
  ASSUME NEW m, NEW ops, NEW n \in Nat
  PROVE  \E f : f = [k \in 0 .. n |-> IF k = 0 THEN m ELSE ApplyOperation(f[k - 1], ops[k])]
<1> DEFINE Reaches(i) == \E f : f = [k \in 0 .. i |-> IF k = 0 THEN m ELSE ApplyOperation(f[k - 1], ops[k])]
           lacks == {i \in Nat : ~Reaches(i)}
<1>1. Reaches(0)
  <2> DEFINE f == [k \in 0 .. 0 |-> m]
  <2>1. f = [k \in 0 .. 0 |-> IF k = 0 THEN m ELSE ApplyOperation(f[k - 1], ops[k])]
    OBVIOUS
  <2> QED
    BY <2>1
<1>2. ASSUME NEW i \in Nat, Reaches(i)
      PROVE  Reaches(i + 1)
  <2>1. PICK f : f = [k \in 0 .. i |-> IF k = 0 THEN m ELSE ApplyOperation(f[k - 1], ops[k])]
    BY <1>2
  <2> DEFINE g == [k \in 0 .. i + 1 |-> IF k = i + 1 THEN ApplyOperation(f[i], ops[i + 1]) ELSE f[k]]
  <2>2. ASSUME NEW k \in 0 .. i + 1
        PROVE  g[k] = IF k = 0 THEN m ELSE ApplyOperation(g[k - 1], ops[k])
    <3>1. CASE k = i + 1
      <4>1. k # 0 /\ k - 1 \in 0 .. i + 1 /\ k - 1 = i /\ k - 1 # i + 1
        BY <3>1
      <4>2. g[k - 1] = f[i] /\ g[k] = ApplyOperation(f[i], ops[i + 1])
        BY <3>1, <4>1
      <4> QED
        BY <3>1, <4>1, <4>2
    <3>2. CASE k # i + 1
      <4>1. /\ k \in 0 .. i /\ g[k] = f[k]
            /\ k # 0 => k - 1 \in 0 .. i + 1 /\ k - 1 # i + 1 /\ g[k - 1] = f[k - 1]
        BY <3>2
      <4>2. f[k] = IF k = 0 THEN m ELSE ApplyOperation(f[k - 1], ops[k])
        BY <2>1, <4>1
      <4> QED
        BY <4>1, <4>2
    <3> QED
      BY <3>1, <3>2
  <2>3. g = [k \in 0 .. i + 1 |-> g[k]]
    OBVIOUS
  <2> HIDE DEF g
  <2> QED
    BY <2>2, <2>3
<1> HIDE DEF Reaches
<1>3. lacks = {}
  <2> SUFFICES ASSUME lacks # {} PROVE FALSE
    OBVIOUS
  <2>1. PICK i \in lacks : \A k \in lacks : i <= k
    BY LeastNumber
  <2>2. i # 0 /\ i - 1 \in Nat /\ i - 1 \notin lacks
    BY <1>1, <2>1
  <2>3. Reaches(i - 1 + 1)
    BY <1>2, <2>2
  <2> QED
    BY <2>1, <2>3
<1> QED
  BY <1>3 DEF Reaches

\* The models between the operations of a patch.
LEMMA ApplyPatchIsDefined ==
  ASSUME NEW m, NEW S, NEW ops \in Seq(S)
  PROVE  \E f : /\ f[0] = m
                /\ \A k \in 1 .. Len(ops) : f[k] = ApplyOperation(f[k - 1], ops[k])
                /\ ApplyPatch(m, ops) = f[Len(ops)]
<1>1. Len(ops) \in Nat
  OBVIOUS
<1> DEFINE f == CHOOSE f : f = [k \in 0 .. Len(ops) |->
                  IF k = 0 THEN m ELSE ApplyOperation(f[k - 1], ops[k])]
<1>2. f = [k \in 0 .. Len(ops) |-> IF k = 0 THEN m ELSE ApplyOperation(f[k - 1], ops[k])]
  BY <1>1, ApplyPatchExists, SMTT(30)
<1>3. ApplyPatch(m, ops) = f[Len(ops)]
  BY DEF ApplyPatch
<1> HIDE DEF f
<1>4. f[0] = m
  BY <1>1, <1>2
<1>5. \A k \in 1 .. Len(ops) : f[k] = ApplyOperation(f[k - 1], ops[k])
  BY <1>1, <1>2
<1> QED
  BY <1>3, <1>4, <1>5

\* One operation: the root stays an id, the clock observes the operation.
LEMMA ApplyOperationObserves ==
  ASSUME NEW m, ModelOK(m), NEW op \in Operation
  PROVE  /\ ModelOK(ApplyOperation(m, op))
         /\ ApplyOperation(m, op).clock = Observe(m.clock, op.id, 1)
         /\ ApplyOperation(m, op).clock.time = Larger(m.clock.time, op.id.time + 1)
<1> DEFINE after == CASE op.op = "new" -> Create(m, op)
                      [] op.op = "ins_val" -> SetRoot(m, op)
                      [] op.op = "ins_obj" -> SetKey(m, op)
<1>1. /\ op.op \in {"new", "ins_val", "ins_obj"}
      /\ op.id \in Timestamp /\ op.id.time \in Nat
      /\ op.op = "ins_val" => op.val \in Timestamp
  BY DEF Operation, Timestamp
<1>2. \E root, index : root \in Ids /\ after = [clock |-> m.clock, root |-> root, index |-> index]
  <2>1. m = [clock |-> m.clock, root |-> m.root, index |-> m.index] /\ m.root \in Ids
    BY DEF ModelOK
  <2>2. CASE op.op = "new"
    BY <2>1, <2>2 DEF Create
  <2>3. CASE op.op = "ins_val"
    BY <1>1, <2>1, <2>3 DEF SetRoot, Ids
  <2>4. CASE op.op = "ins_obj"
    BY <2>1, <2>4 DEF SetKey
  <2> QED
    BY <1>1, <2>2, <2>3, <2>4
<1>3. ApplyOperation(m, op) = [after EXCEPT !.clock = Observe(m.clock, op.id, 1)]
  BY DEF ApplyOperation
<1> HIDE DEF after
<1>7. PICK root, index : root \in Ids /\ after = [clock |-> m.clock, root |-> root, index |-> index]
  BY <1>2
<1>4. ApplyOperation(m, op) = [clock |-> Observe(m.clock, op.id, 1), root |-> root, index |-> index]
  BY <1>3, <1>7
<1>5. /\ Observe(m.clock, op.id, 1).time = Larger(m.clock.time, op.id.time + 1)
      /\ Observe(m.clock, op.id, 1)
           = [sid |-> Observe(m.clock, op.id, 1).sid, time |-> Observe(m.clock, op.id, 1).time,
              peers |-> Observe(m.clock, op.id, 1).peers]
  BY <1>1 DEF Observe
<1>6. Larger(m.clock.time, op.id.time + 1) \in Nat
  BY <1>1 DEF Larger, ModelOK
<1> QED
  BY <1>4, <1>5, <1>6, <1>7 DEF ModelOK

\* apply_patch keeps the type of a model.
LEMMA ApplyPatchKeepsType ==
  ASSUME NEW m, ModelOK(m), NEW ops \in Seq(Operation)
  PROVE  ModelOK(ApplyPatch(m, ops))
<1>1. PICK f : /\ f[0] = m
               /\ \A k \in 1 .. Len(ops) : f[k] = ApplyOperation(f[k - 1], ops[k])
               /\ ApplyPatch(m, ops) = f[Len(ops)]
  BY ApplyPatchIsDefined
<1>2. Len(ops) \in Nat /\ \A k \in 1 .. Len(ops) : ops[k] \in Operation
  OBVIOUS
<1> DEFINE bad == {k \in 0 .. Len(ops) : ~ModelOK(f[k])}
<1>3. bad = {}
  <2> SUFFICES ASSUME bad # {} PROVE FALSE
    OBVIOUS
  <2>1. bad \subseteq Nat
    BY <1>2
  <2>2. PICK k \in bad : \A j \in bad : k <= j
    <3> HIDE DEF bad
    <3> QED
      BY <2>1, LeastNumber
  <2>3. k \in 1 .. Len(ops) /\ k - 1 \in 0 .. Len(ops) /\ ModelOK(f[k - 1])
    BY <1>1, <1>2, <2>2
  <2> QED
    BY <1>1, <1>2, <2>2, <2>3, ApplyOperationObserves
<1>4. Len(ops) \in 0 .. Len(ops)
  BY <1>2
<1> QED
  BY <1>1, <1>3, <1>4

\* The operations take consecutive timestamps from this one on.
Numbered(ops, id) == \A k \in DOMAIN ops : ops[k].id = Ts(id.sid, id.time + k - 1)

\* A local patch leaves the clock behind its last timestamp.
LEMMA LocalPatchMovesClock ==
  ASSUME NEW m, ModelOK(m), NEW ops \in Seq(Operation), NEW s, Numbered(ops, Ts(s, m.clock.time))
  PROVE  ApplyPatch(m, ops).clock.time = m.clock.time + Len(ops)
<1>1. PICK f : /\ f[0] = m
               /\ \A k \in 1 .. Len(ops) : f[k] = ApplyOperation(f[k - 1], ops[k])
               /\ ApplyPatch(m, ops) = f[Len(ops)]
  BY ApplyPatchIsDefined
<1>2. /\ Len(ops) \in Nat /\ DOMAIN ops = 1 .. Len(ops)
      /\ \A k \in 1 .. Len(ops) : ops[k] \in Operation
      /\ m.clock.time \in Nat
  BY DEF ModelOK
<1> DEFINE Good(k) == ModelOK(f[k]) /\ f[k].clock.time = m.clock.time + k
           bad == {k \in 0 .. Len(ops) : ~Good(k)}
<1>3. Good(0)
  BY <1>1, <1>2
<1>4. ASSUME NEW k \in 1 .. Len(ops), Good(k - 1)
      PROVE  Good(k)
  <2>1. ops[k].id.time = m.clock.time + k - 1
    <3>1. ops[k].id = Ts(Ts(s, m.clock.time).sid, Ts(s, m.clock.time).time + k - 1)
      BY <1>2 DEF Numbered
    <3>2. \A t, n : Ts(t, n).time = n
      BY DEF Ts
    <3> QED
      BY <3>1, <3>2
  <2>2. /\ ModelOK(f[k])
        /\ f[k].clock.time = Larger(f[k - 1].clock.time, ops[k].id.time + 1)
    BY <1>1, <1>2, <1>4, ApplyOperationObserves
  <2>3. f[k].clock.time = Larger(m.clock.time + (k - 1), m.clock.time + k - 1 + 1)
    BY <1>4, <2>1, <2>2
  <2> QED
    BY <1>2, <2>2, <2>3 DEF Larger
<1> HIDE DEF Good
<1>5. bad = {}
  <2> SUFFICES ASSUME bad # {} PROVE FALSE
    OBVIOUS
  <2>1. bad \subseteq Nat
    BY <1>2
  <2>2. PICK k \in bad : \A j \in bad : k <= j
    <3> HIDE DEF bad
    <3> QED
      BY <2>1, LeastNumber
  <2>3. k \in 1 .. Len(ops) /\ Good(k - 1)
    BY <1>2, <1>3, <2>2
  <2> QED
    BY <1>4, <2>2, <2>3
<1>6. Len(ops) \in 0 .. Len(ops)
  BY <1>2
<1> QED
  BY <1>1, <1>5, <1>6 DEF Good

\* No patch moves the clock back.
LEMMA ApplyPatchMovesForward ==
  ASSUME NEW m, ModelOK(m), NEW ops \in Seq(Operation)
  PROVE  m.clock.time <= ApplyPatch(m, ops).clock.time
<1>1. PICK f : /\ f[0] = m
               /\ \A k \in 1 .. Len(ops) : f[k] = ApplyOperation(f[k - 1], ops[k])
               /\ ApplyPatch(m, ops) = f[Len(ops)]
  BY ApplyPatchIsDefined
<1>2. /\ Len(ops) \in Nat /\ \A k \in 1 .. Len(ops) : ops[k] \in Operation
      /\ m.clock.time \in Nat
  BY DEF ModelOK
<1> DEFINE Good(k) == ModelOK(f[k]) /\ m.clock.time <= f[k].clock.time
           bad == {k \in 0 .. Len(ops) : ~Good(k)}
<1>3. Good(0)
  BY <1>1, <1>2
<1>4. ASSUME NEW k \in 1 .. Len(ops), Good(k - 1)
      PROVE  Good(k)
  <2>1. /\ ModelOK(f[k])
        /\ f[k].clock.time = Larger(f[k - 1].clock.time, ops[k].id.time + 1)
    BY <1>1, <1>2, <1>4, ApplyOperationObserves
  <2>2. f[k].clock.time \in Nat /\ f[k - 1].clock.time \in Nat /\ ops[k].id.time \in Nat
    BY <1>2, <1>4, <2>1 DEF ModelOK, Operation, Timestamp
  <2> QED
    BY <1>2, <1>4, <2>1, <2>2 DEF Larger
<1> HIDE DEF Good
<1>5. bad = {}
  <2> SUFFICES ASSUME bad # {} PROVE FALSE
    OBVIOUS
  <2>1. bad \subseteq Nat
    BY <1>2
  <2>2. PICK k \in bad : \A j \in bad : k <= j
    <3> HIDE DEF bad
    <3> QED
      BY <2>1, LeastNumber
  <2>3. k \in 1 .. Len(ops) /\ Good(k - 1)
    BY <1>2, <1>3, <2>2
  <2> QED
    BY <1>4, <2>2, <2>3
<1>6. Len(ops) \in 0 .. Len(ops)
  BY <1>2
<1> QED
  BY <1>1, <1>5, <1>6 DEF Good
-----------------------------------------------------------------------------
(***************************************************************************)
(* The builder numbers the operations of an edit.                          *)
(***************************************************************************)
LEMMA NextTimestamps ==
  ASSUME NEW id \in Timestamp, NEW n \in Nat
  PROVE  At(id, n) \in Timestamp /\ At(id, n) = Ts(id.sid, id.time + n) /\ At(id, 0) = id
BY DEF At, Ts, Timestamp

\* The operations that build a value have consecutive ids.
LEMMA BuildJsonIsNumbered ==
  ASSUME NEW id \in Timestamp, NEW json \in Json
  PROVE  BuildJson(id, json) \in Seq(Operation) /\ Numbered(BuildJson(id, json), id)
<1> DEFINE a == At(id, 1)
           b == At(id, 2)
<1>1. /\ a \in Timestamp /\ a = Ts(id.sid, id.time + 1)
      /\ b \in Timestamp /\ b = Ts(id.sid, id.time + 2)
      /\ id = Ts(id.sid, id.time + 0) /\ id.time \in Nat
  <2>1. id = Ts(id.sid, id.time + 0) /\ id.time \in Nat
    BY DEF Ts, Timestamp
  <2> QED
    BY <2>1, NextTimestamps
<1>2. id.time + 1 - 1 = id.time + 0 /\ id.time + 2 - 1 = id.time + 1 /\ id.time + 3 - 1 = id.time + 2
  BY <1>1
<1>3. CASE json.kind = "con"
  <2> DEFINE x == NewCon(id, json.value)
  <2>1. BuildJson(id, json) = <<x>>
    BY <1>3 DEF BuildJson
  <2>2. x \in Operation /\ x.id = id
    BY <1>1, <1>3 DEF Json, Con, Obj, NewCon, Operation, Node
  <2> HIDE DEF x
  <2>3. <<x>> \in Seq(Operation)
    BY <2>2
  <2>4. Numbered(<<x>>, id)
    BY <1>1, <1>2, <2>2 DEF Numbered
  <2> QED
    BY <2>1, <2>3, <2>4
<1>4. CASE json.kind = "obj" /\ json.child = "undefined"
  <2> DEFINE x == NewObj(id)
  <2>1. BuildJson(id, json) = <<x>>
    BY <1>4 DEF BuildJson
  <2>2. x \in Operation /\ x.id = id
    BY <1>1 DEF Obj, NewObj, Operation, Node, Ids
  <2> HIDE DEF x
  <2>3. <<x>> \in Seq(Operation)
    BY <2>2
  <2>4. Numbered(<<x>>, id)
    BY <1>1, <1>2, <2>2 DEF Numbered
  <2> QED
    BY <2>1, <2>3, <2>4
<1>5. CASE json.kind = "obj" /\ json.child # "undefined"
  <2> DEFINE x == NewObj(id)
             y == NewCon(a, json.child)
             z == InsObj(b, id, a)
  <2>1. BuildJson(id, json) = <<x, y, z>>
    BY <1>5 DEF BuildJson
  <2>2. /\ x \in Operation /\ y \in Operation /\ z \in Operation
        /\ x.id = id /\ y.id = a /\ z.id = b
    <3>1. json.child \in Scalars
      BY <1>5 DEF Json, Con, Obj
    <3>2. x \in Operation /\ y \in Operation
      BY <1>1, <3>1 DEF Con, Obj, NewObj, NewCon, Operation, Node, Ids
    <3>3. z \in Operation
      BY <1>1 DEF InsObj, Operation, Ids
    <3> QED
      BY <3>2, <3>3 DEF NewObj, NewCon, InsObj
  <2> HIDE DEF x, y, z, a, b
  <2>3. <<x, y, z>> \in Seq(Operation)
    BY <2>2
  <2>4. Numbered(<<x, y, z>>, id)
    BY <1>1, <1>2, <2>2 DEF Numbered
  <2> QED
    BY <2>1, <2>3, <2>4
<1>6. json.kind = "con" \/ json.kind = "obj"
  BY DEF Json, Con, Obj
<1> QED
  BY <1>3, <1>4, <1>5, <1>6

\* One more operation of the builder takes the timestamp behind the others.
LEMMA OneMoreIsNumbered ==
  ASSUME NEW ops \in Seq(Operation), NEW id \in Timestamp, Numbered(ops, id),
         NEW op \in Operation, op.id = At(id, Len(ops))
  PROVE  /\ Append(ops, op) \in Seq(Operation) /\ Append(ops, op) # << >>
         /\ Numbered(Append(ops, op), id)
<1> DEFINE more == Append(ops, op)
           n == Len(ops)
<1>1. /\ more \in Seq(Operation) /\ more # << >> /\ n \in Nat
      /\ DOMAIN more = 1 .. n + 1 /\ DOMAIN ops = 1 .. n
      /\ \A k \in 1 .. n : more[k] = ops[k]
      /\ more[n + 1] = op
  BY AppendProperties, LenProperties
<1>2. op.id = Ts(id.sid, id.time + n)
  BY DEF At
<1>3. id.time + (n + 1) - 1 = id.time + n
  BY <1>1 DEF Timestamp
<1> HIDE DEF more, n
<1>4. Numbered(more, id)
  <2> SUFFICES ASSUME NEW k \in 1 .. n + 1
               PROVE  more[k].id = Ts(id.sid, id.time + k - 1)
    BY <1>1 DEF Numbered
  <2>1. CASE k = n + 1
    BY <1>1, <1>2, <1>3, <2>1
  <2>2. CASE k # n + 1
    <3>1. k \in 1 .. n
      BY <1>1, <2>2
    <3> QED
      BY <1>1, <3>1 DEF Numbered
  <2> QED
    BY <2>1, <2>2
<1> QED
  BY <1>1, <1>4 DEF more

\* So have those that set the root.
LEMMA SetRootIsNumbered ==
  ASSUME NEW id \in Timestamp, NEW json \in Json
  PROVE  /\ SetRootOps(id, json) \in Seq(Operation) /\ SetRootOps(id, json) # << >>
         /\ Numbered(SetRootOps(id, json), id)
<1> DEFINE ops == BuildJson(id, json)
           op == InsVal(At(id, Len(ops)), id)
<1>1. ops \in Seq(Operation) /\ Numbered(ops, id) /\ Len(ops) \in Nat
  BY BuildJsonIsNumbered
<1>2. op \in Operation /\ op.id = At(id, Len(ops))
  BY <1>1, NextTimestamps DEF InsVal, Operation
<1>3. SetRootOps(id, json) = Append(ops, op)
  BY DEF SetRootOps
<1> HIDE DEF ops, op
<1> QED
  BY <1>1, <1>2, <1>3, OneMoreIsNumbered

\* So have those that set a key.
LEMMA SetKeyIsNumbered ==
  ASSUME NEW id \in Timestamp, NEW obj \in Ids, NEW value \in Scalars \cup {"null", "undefined"}
  PROVE  /\ SetKeyOps(id, obj, value) \in Seq(Operation) /\ SetKeyOps(id, obj, value) # << >>
         /\ Numbered(SetKeyOps(id, obj, value), id)
<1> DEFINE a == At(id, 1)
           x == NewCon(id, value)
           y == InsObj(a, obj, id)
<1>1. /\ a \in Timestamp /\ a = Ts(id.sid, id.time + 1)
      /\ id = Ts(id.sid, id.time + 0) /\ id.time \in Nat
  <2>1. id = Ts(id.sid, id.time + 0) /\ id.time \in Nat
    BY DEF Ts, Timestamp
  <2> QED
    BY <2>1, NextTimestamps
<1>2. id.time + 1 - 1 = id.time + 0 /\ id.time + 2 - 1 = id.time + 1
  BY <1>1
<1>3. SetKeyOps(id, obj, value) = <<x, y>>
  BY DEF SetKeyOps
<1>4. x \in Operation /\ y \in Operation /\ x.id = id /\ y.id = a
  BY <1>1 DEF Con, NewCon, InsObj, Operation, Node
<1> HIDE DEF x, y, a
<1>5. <<x, y>> \in Seq(Operation) /\ <<x, y>> # << >>
  BY <1>4
<1>6. Numbered(<<x, y>>, id)
  BY <1>1, <1>2, <1>4 DEF Numbered
<1> QED
  BY <1>3, <1>5, <1>6

\* The codec writes the first timestamp only; it brings numbered ones back.
LEMMA NumberedOnWire ==
  ASSUME NEW ops \in Seq(Operation), NEW id \in Timestamp, Numbered(ops, id)
  PROVE  OnWire(ops) = ops
<1>1. /\ DOMAIN ops = 1 .. Len(ops) /\ Len(ops) \in Nat
      /\ \A k \in 1 .. Len(ops) : ops[k] \in Operation
      /\ id.time \in Nat
  BY DEF Timestamp
<1>2. ASSUME NEW k \in DOMAIN ops
      PROVE  [ops[k] EXCEPT !.id = At(ops[1].id, k - 1)] = ops[k]
  <2>1. 1 \in DOMAIN ops /\ k \in Nat
    BY <1>1
  <2>2. \A t, n : Ts(t, n).time = n /\ Ts(t, n).sid = t
    BY DEF Ts
  <2>3. ops[1].id = Ts(id.sid, id.time + 1 - 1) /\ ops[k].id = Ts(id.sid, id.time + k - 1)
    BY <2>1 DEF Numbered
  <2>4. At(ops[1].id, k - 1) = Ts(ops[1].id.sid, ops[1].id.time + (k - 1))
    BY DEF At
  <2>5. ops[1].id.sid = id.sid /\ ops[1].id.time = id.time + 1 - 1
    BY <2>2, <2>3
  <2>6. id.time + 1 - 1 + (k - 1) = id.time + k - 1
    BY <1>1, <2>1
  <2>7. At(ops[1].id, k - 1) = ops[k].id
    BY <2>3, <2>4, <2>5, <2>6
  <2>8. [ops[k] EXCEPT !.id = ops[k].id] = ops[k]
    BY <1>1 DEF Operation
  <2> QED
    BY <2>7, <2>8
<1>3. OnWire(ops) = [k \in DOMAIN ops |-> ops[k]]
  BY <1>2 DEF OnWire
<1> QED
  BY <1>1, <1>3
-----------------------------------------------------------------------------
(***************************************************************************)
(* IInv is inductive.  Edits take the next timestamps and go to the end of *)
(* what waits.  A step that moves the clock while edits wait leaves a gap  *)
(* behind them; a careful page makes no such step.                         *)
(***************************************************************************)
\* What waits in a session is a list of operations.
LEMMA PendingIsSeq ==
  ASSUME NEW patches \in Seq(Seq(Operation) \ {<< >>})
  PROVE  /\ patches \in Seq(Seq(Operation))
         /\ MergePatches(patches) \in Seq(Operation)
         /\ \A patch \in ToSet(patches) : patch \in Seq(Operation) /\ patch[1].id \in Timestamp
<1>1. patches \in Seq(Seq(Operation))
  BY SeqMonotonic
<1>2. MergePatches(patches) \in Seq(Operation)
  BY <1>1, FlattenIsSeq DEF MergePatches
<1>3. ASSUME NEW patch \in ToSet(patches)
      PROVE  patch \in Seq(Operation) /\ patch[1].id \in Timestamp
  <2>1. patch \in Seq(Operation) /\ patch # << >>
    BY <1>3 DEF ToSet
  <2>2. patch[1] \in Operation
    BY <2>1
  <2> QED
    BY <2>1, <2>2 DEF Operation
<1> QED
  BY <1>1, <1>2, <1>3

\* Nothing waits, nothing is merged.
LEMMA MergeOfNone == MergePatches(<< >>) = << >>
BY DEF MergePatches, FlattenSeq

\* The decoder answers operations.
LEMMA OnWireIsSeq ==
  ASSUME NEW ops \in Seq(Operation)
  PROVE  OnWire(ops) \in Seq(Operation)
<1> DEFINE at(k) == [ops[k] EXCEPT !.id = At(ops[1].id, k - 1)]
<1>1. Len(ops) \in Nat /\ DOMAIN ops = 1 .. Len(ops)
  OBVIOUS
<1>2. ASSUME NEW k \in 1 .. Len(ops)
      PROVE  at(k) \in Operation
  <2>1. ops[k] \in Operation /\ ops[1] \in Operation
    BY <1>1
  <2>2. ops[1].id \in Timestamp /\ k - 1 \in Nat
    BY <1>1, <2>1 DEF Operation
  <2>3. At(ops[1].id, k - 1) \in Timestamp
    BY <2>2, NextTimestamps
  <2> HIDE DEF at
  <2>4. \A t \in Timestamp : [ops[k] EXCEPT !.id = t] \in Operation
    BY <2>1 DEF Operation
  <2> QED
    BY <2>3, <2>4 DEF at
<1>3. OnWire(ops) = [k \in 1 .. Len(ops) |-> at(k)]
  BY <1>1 DEF OnWire
<1> HIDE DEF at
<1> QED
  BY <1>1, <1>2, <1>3

\* The first state has the invariant.
THEOREM InitHolds == Init => IInv
<1> SUFFICES ASSUME Init
             PROVE  IInv
  OBVIOUS
<1>1. ASSUME NEW s \in Sids
      PROVE  ModelOK(Empty(s))
  BY DEF ModelOK, Empty, NewClock, Ids
<1>2. TypeOK
  BY <1>1, WasmAssumption DEF Init, TypeOK
<1>3. LastIssued
  BY MergeOfNone DEF LastIssued, HoldLast, Pending, Init
<1>4. NothingLost
  BY WasmAssumption DEF NothingLost, Init
<1>5. CarefulIsWhole
  BY DEF CarefulIsWhole, Init
<1> QED
  BY <1>2, <1>3, <1>4, <1>5 DEF IInv

\* The next timestamp of an open session, and the model after its own edit.
LEMMA ChangeMovesOn ==
  ASSUME TypeOK, NEW s \in Sids, NEW ops \in Seq(Operation), Numbered(ops, NextTs(s)), Change(s, ops)
  PROVE  /\ NextTs(s) \in Timestamp /\ NextTs(s) = Ts(s, model[s].clock.time)
         /\ DOMAIN model' = Sids /\ \A t \in Sids : ModelOK(model'[t])
         /\ model'[s].clock.time = model[s].clock.time + Len(ops)
         /\ \A t \in Sids \ {s} : model'[t] = model[t]
         /\ edits' \in [Sids -> SUBSET Timestamp]
         /\ edits'[s] = edits[s] \cup {NextTs(s)}
         /\ \A t \in Sids \ {s} : edits'[t] = edits[t]
<1>1. ModelOK(model[s]) /\ DOMAIN model = Sids /\ edits \in [Sids -> SUBSET Timestamp]
  BY DEF TypeOK
<1>2. NextTs(s) \in Timestamp /\ NextTs(s) = Ts(s, model[s].clock.time)
  BY <1>1 DEF NextTs, Ts, Timestamp, ModelOK
<1>3. model' = [model EXCEPT ![s] = ApplyPatch(@, ops)]
  BY DEF Change
<1>4. ModelOK(ApplyPatch(model[s], ops))
  BY <1>1, ApplyPatchKeepsType
<1>5. ApplyPatch(model[s], ops).clock.time = model[s].clock.time + Len(ops)
  BY <1>1, <1>2, LocalPatchMovesClock
<1>6. edits' = [edits EXCEPT ![s] = @ \cup {NextTs(s)}]
  BY DEF Change
<1>7. DOMAIN model' = Sids /\ model'[s] = ApplyPatch(model[s], ops)
      /\ \A t \in Sids \ {s} : model'[t] = model[t]
  BY <1>1, <1>3
<1>8. \A t \in Sids : ModelOK(model'[t])
  BY <1>4, <1>7 DEF TypeOK
<1>9. /\ edits' \in [Sids -> SUBSET Timestamp]
      /\ edits'[s] = edits[s] \cup {NextTs(s)}
      /\ \A t \in Sids \ {s} : edits'[t] = edits[t]
  BY <1>1, <1>2, <1>6
<1> QED
  BY <1>2, <1>5, <1>7, <1>8, <1>9

\* What waited and what is appended to it hold consecutive timestamps.
LEMMA AppendedIsNumbered ==
  ASSUME NEW s, NEW time \in Nat, NEW old \in Seq(Operation), NEW ops \in Seq(Operation),
         Numbered(ops, Ts(s, time)), HoldLast(old, s, time)
  PROVE  HoldLast(old \o ops, s, time + Len(ops))
<1> DEFINE all == old \o ops
<1>1. /\ Len(old) \in Nat /\ Len(ops) \in Nat /\ Len(all) = Len(old) + Len(ops)
      /\ DOMAIN all = 1 .. Len(old) + Len(ops)
      /\ DOMAIN old = 1 .. Len(old) /\ DOMAIN ops = 1 .. Len(ops)
      /\ \A k \in 1 .. Len(old) + Len(ops) :
           all[k] = IF k <= Len(old) THEN old[k] ELSE ops[k - Len(old)]
  BY ConcatProperties, LenProperties
<1> HIDE DEF all
<1>2. ASSUME NEW k \in 1 .. Len(old) + Len(ops)
      PROVE  all[k].id = Ts(s, time + Len(ops) - Len(all) + k - 1)
  <2>1. time + Len(ops) - Len(all) + k - 1 = time - Len(old) + k - 1
    BY <1>1
  <2>2. CASE k <= Len(old)
    <3>1. k \in DOMAIN old
      BY <1>1, <2>2
    <3> QED
      BY <1>1, <2>1, <2>2, <3>1 DEF HoldLast
  <2>3. CASE ~(k <= Len(old))
    <3>1. k - Len(old) \in DOMAIN ops /\ time + (k - Len(old)) - 1 = time - Len(old) + k - 1
      BY <1>1, <2>3
    <3>2. \A t, n : Ts(t, n).time = n /\ Ts(t, n).sid = t
      BY DEF Ts
    <3>3. ops[k - Len(old)].id = Ts(s, time + (k - Len(old)) - 1)
      <4> DEFINE j == k - Len(old)
      <4>1. j \in DOMAIN ops
        BY <3>1
      <4> HIDE DEF j
      <4>2. ops[j].id = Ts(Ts(s, time).sid, Ts(s, time).time + j - 1)
        BY <4>1 DEF Numbered
      <4>3. ops[j].id = Ts(s, time + j - 1)
        BY <3>2, <4>2
      <4> QED
        BY <4>3 DEF j
    <3> QED
      BY <1>1, <2>1, <2>3, <3>1, <3>3
  <2> QED
    BY <2>2, <2>3
<1>3. HoldLast(all, s, time + Len(ops))
  BY <1>1, <1>2 DEF HoldLast
<1> QED
  BY <1>3 DEF all

\* So do those that are appended when the clock was moved past the others: they
\* are later than their place behind the first one says.
LEMMA AppendedLeavesGap ==
  ASSUME NEW s, NEW time \in Nat, NEW n \in Nat,
         NEW old \in Seq(Operation), NEW ops \in Seq(Operation),
         Numbered(ops, Ts(s, time)), LeaveGap(old, n, time)
  PROVE  LeaveGap(old \o ops, n, time + Len(ops))
<1> DEFINE all == old \o ops
<1>1. /\ Len(old) \in Nat /\ Len(ops) \in Nat /\ Len(all) = Len(old) + Len(ops)
      /\ DOMAIN all = 1 .. Len(old) + Len(ops)
      /\ DOMAIN old = 1 .. Len(old) /\ DOMAIN ops = 1 .. Len(ops)
      /\ \A k \in 1 .. Len(old) + Len(ops) :
           all[k] = IF k <= Len(old) THEN old[k] ELSE ops[k - Len(old)]
  BY ConcatProperties, LenProperties
<1>2. /\ old # << >> /\ n <= Len(old) /\ Len(old) \in Nat \ {0}
      /\ old[1].id.time + Len(old) < time
      /\ old[1] \in Operation /\ old[1].id.time \in Nat
  BY <1>1 DEF LeaveGap, Operation, Timestamp
<1> HIDE DEF all
<1>3. 1 \in 1 .. Len(old) + Len(ops) /\ all[1] = old[1] /\ all # << >>
  BY <1>1, <1>2
<1>4. ASSUME NEW k \in 1 .. Len(old) + Len(ops)
      PROVE  IF k <= n THEN all[k].id = At(all[1].id, k - 1)
             ELSE all[1].id.time + k - 1 < all[k].id.time
  <2>1. CASE k <= Len(old)
    <3>1. k \in DOMAIN old /\ all[k] = old[k]
      BY <1>1, <2>1
    <3> QED
      BY <1>3, <3>1 DEF LeaveGap
  <2>2. CASE ~(k <= Len(old))
    <3> DEFINE j == k - Len(old)
    <3>1. j \in DOMAIN ops /\ all[k] = ops[j] /\ ~(k <= n) /\ k = Len(old) + j
      BY <1>1, <1>2, <2>2
    <3> HIDE DEF j
    <3>2. ops[j].id = Ts(Ts(s, time).sid, Ts(s, time).time + j - 1)
      BY <3>1 DEF Numbered
    <3>3. \A t, i : Ts(t, i).time = i /\ Ts(t, i).sid = t
      BY DEF Ts
    <3>4. all[k].id.time = time + j - 1
      BY <3>1, <3>2, <3>3
    <3>5. \A x \in Nat : x + Len(old) < time => x + k - 1 < time + j - 1
      <4>1. k = Len(old) + j /\ Len(old) \in Nat /\ j \in Nat /\ k \in Nat
        BY <1>1, <3>1
      <4> QED
        BY <4>1
    <3>6. all[1].id.time + k - 1 < all[k].id.time
      BY <1>2, <1>3, <3>4, <3>5
    <3> QED
      BY <3>1, <3>6
  <2> QED
    BY <2>1, <2>2
<1>5. n <= Len(all) /\ all[1].id.time + Len(all) < time + Len(ops)
  BY <1>1, <1>2, <1>3
<1>6. LeaveGap(all, n, time + Len(ops))
  BY <1>1, <1>3, <1>4, <1>5 DEF LeaveGap
<1> QED
  BY <1>6 DEF all

\* A clock that is moved past the operations that wait leaves the first gap.
LEMMA GapStarts ==
  ASSUME NEW s, NEW time \in Nat, NEW later \in Nat, time < later,
         NEW ops \in Seq(Operation), ops # << >>, HoldLast(ops, s, time)
  PROVE  LeaveGap(ops, Len(ops), later)
<1>1. Len(ops) \in Nat \ {0} /\ DOMAIN ops = 1 .. Len(ops) /\ 1 \in DOMAIN ops
  OBVIOUS
<1>2. \A t, i : Ts(t, i).time = i /\ Ts(t, i).sid = t
  BY DEF Ts
<1>3. ops[1].id = Ts(s, time - Len(ops) + 1 - 1)
  BY <1>1 DEF HoldLast
<1>4. ops[1].id.time = time - Len(ops) /\ ops[1].id.sid = s
  BY <1>1, <1>2, <1>3
<1>5. ASSUME NEW k \in DOMAIN ops
      PROVE  k <= Len(ops) /\ ops[k].id = At(ops[1].id, k - 1)
  <2>1. ops[k].id = Ts(s, time - Len(ops) + k - 1) /\ k \in Nat
    BY <1>1 DEF HoldLast
  <2>2. time - Len(ops) + k - 1 = time - Len(ops) + (k - 1)
    BY <1>1, <2>1
  <2> QED
    BY <1>1, <1>4, <2>1, <2>2 DEF At
<1> QED
  BY <1>1, <1>4, <1>5 DEF LeaveGap

\* The gap stays when the clock moves on.
LEMMA GapStays ==
  ASSUME NEW time \in Nat, NEW later \in Nat, time <= later, NEW n \in Nat,
         NEW ops \in Seq(Operation), LeaveGap(ops, n, time)
  PROVE  LeaveGap(ops, n, later)
<1>1. Len(ops) \in Nat \ {0} /\ ops[1] \in Operation
  BY DEF LeaveGap
<1>2. ops[1].id.time \in Nat
  BY <1>1 DEF Operation, Timestamp
<1> QED
  BY <1>1, <1>2 DEF LeaveGap

\* What waits in a session, and its first timestamps.
LEMMA PendingOf ==
  ASSUME TypeOK, NEW s \in Sids
  PROVE  /\ local[s] \in Seq(Seq(Operation) \ {<< >>}) /\ Pending(s) \in Seq(Operation)
         /\ Firsts(s) \subseteq Timestamp
         /\ local[s] = << >> => Pending(s) = << >>
<1>1. local[s] \in Seq(Seq(Operation) \ {<< >>})
  BY DEF TypeOK
<1> QED
  BY <1>1, PendingIsSeq, MergeOfNone DEF Pending, Firsts

\* An edit puts its operations behind those that wait.
LEMMA AppendedWaits ==
  ASSUME TypeOK, NEW s \in Sids, NEW ops \in Seq(Operation), ops # << >>,
         local' = [local EXCEPT ![s] = Append(@, ops)]
  PROVE  /\ local' \in [Sids -> Seq(Seq(Operation) \ {<< >>})]
         /\ Pending(s)' = Pending(s) \o ops
         /\ Firsts(s)' = Firsts(s) \cup {ops[1].id}
         /\ \A t \in Sids \ {s} : local'[t] = local[t]
<1>1. /\ local \in [Sids -> Seq(Seq(Operation) \ {<< >>})]
      /\ local[s] \in Seq(Seq(Operation))
  BY PendingOf, PendingIsSeq DEF TypeOK
<1>2. /\ Append(local[s], ops) \in Seq(Seq(Operation) \ {<< >>})
      /\ ToSet(Append(local[s], ops)) = ToSet(local[s]) \cup {ops}
  <2> DEFINE patches == local[s]
             more == Append(patches, ops)
             S == Seq(Operation) \ {<< >>}
  <2>1. patches \in Seq(S) /\ ops \in S
    BY <1>1
  <2> HIDE DEF S, patches
  <2>2. /\ more \in Seq(S) /\ Len(patches) \in Nat /\ Len(more) = Len(patches) + 1
        /\ \A i \in 1 .. Len(patches) : more[i] = patches[i]
        /\ more[Len(patches) + 1] = ops
        /\ DOMAIN more = 1 .. Len(patches) + 1 /\ DOMAIN patches = 1 .. Len(patches)
    BY <2>1, AppendProperties, LenProperties
  <2> HIDE DEF more
  <2>3. ToSet(more) = ToSet(patches) \cup {ops}
    <3>1. \A x \in ToSet(more) : x \in ToSet(patches) \cup {ops}
      <4> SUFFICES ASSUME NEW i \in 1 .. Len(patches) + 1
                   PROVE  more[i] \in ToSet(patches) \cup {ops}
        BY <2>2 DEF ToSet
      <4>1. CASE i = Len(patches) + 1
        BY <4>1, <2>2
      <4>2. CASE i # Len(patches) + 1
        <5>1. i \in 1 .. Len(patches)
          BY <4>2, <2>2
        <5> QED
          BY <5>1, <2>2 DEF ToSet
      <4> QED
        BY <4>1, <4>2
    <3>2. \A x \in ToSet(patches) : x \in ToSet(more)
      <4> SUFFICES ASSUME NEW i \in 1 .. Len(patches)
                   PROVE  patches[i] \in ToSet(more)
        BY <2>2 DEF ToSet
      <4>1. i \in 1 .. Len(patches) + 1 /\ more[i] = patches[i]
        BY <2>2
      <4> QED
        BY <4>1, <2>2 DEF ToSet
    <3>3. ops \in ToSet(more)
      <4>1. Len(patches) + 1 \in DOMAIN more
        BY <2>2
      <4> QED
        BY <4>1, <2>2 DEF ToSet
    <3> QED
      BY <3>1, <3>2, <3>3
  <2> QED
    BY <2>1, <2>2, <2>3 DEF S, patches, more
<1>3. /\ local' \in [Sids -> Seq(Seq(Operation) \ {<< >>})]
      /\ local'[s] = Append(local[s], ops)
      /\ \A t \in Sids \ {s} : local'[t] = local[t]
  <2> DEFINE more == Append(local[s], ops)
             S == Seq(Seq(Operation) \ {<< >>})
  <2>1. local \in [Sids -> S] /\ more \in S /\ local' = [local EXCEPT ![s] = more]
    BY <1>1, <1>2
  <2> HIDE DEF S, more
  <2>2. local' \in [Sids -> S] /\ local'[s] = more /\ \A t \in Sids \ {s} : local'[t] = local[t]
    BY <2>1
  <2> QED
    BY <2>2 DEF S, more
<1>4. FlattenSeq(Append(local[s], ops)) = FlattenSeq(local[s]) \o ops
  BY <1>1, FlattenOfAppend
<1>5. Pending(s)' = Pending(s) \o ops
  BY <1>3, <1>4 DEF Pending, MergePatches
<1>6. Firsts(s)' = Firsts(s) \cup {ops[1].id}
  BY <1>2, <1>3 DEF Firsts
<1> QED
  BY <1>3, <1>5, <1>6

\* with_builder: an edit waits behind the others.
LEMMA EditKeeps ==
  ASSUME IInv, NEW s \in Sids, NEW ops \in Seq(Operation), ops # << >>,
         Numbered(ops, NextTs(s)), WithBuilder(s, ops)
  PROVE  IInv'
<1>1. /\ NextTs(s) \in Timestamp /\ NextTs(s) = Ts(s, model[s].clock.time)
      /\ DOMAIN model' = Sids /\ \A t \in Sids : ModelOK(model'[t])
      /\ model'[s].clock.time = model[s].clock.time + Len(ops)
      /\ \A t \in Sids \ {s} : model'[t] = model[t]
      /\ edits' \in [Sids -> SUBSET Timestamp]
      /\ edits'[s] = edits[s] \cup {NextTs(s)}
      /\ \A t \in Sids \ {s} : edits'[t] = edits[t]
  BY ChangeMovesOn DEF WithBuilder, IInv
<1>2. /\ s \in open /\ open' = open /\ wire' = wire
      /\ careless' = careless /\ dropped' = dropped /\ overtaken' = overtaken
      /\ local' = [local EXCEPT ![s] = Append(@, ops)]
  BY DEF WithBuilder, Change
<1>3. /\ local' \in [Sids -> Seq(Seq(Operation) \ {<< >>})]
      /\ Pending(s)' = Pending(s) \o ops
      /\ Firsts(s)' = Firsts(s) \cup {ops[1].id}
      /\ \A t \in Sids \ {s} : local'[t] = local[t]
  BY <1>2, AppendedWaits DEF IInv
<1>4. TypeOK'
  BY <1>1, <1>2, <1>3 DEF IInv, TypeOK
<1>5. ASSUME NEW t \in Sids
      PROVE  IF overtaken[t] = 0 THEN HoldLast(Pending(t)', t, model'[t].clock.time)
             ELSE LeaveGap(Pending(t)', overtaken[t], model'[t].clock.time)
  <2>1. CASE t = s
    <3> DEFINE old == Pending(s)
               time == model[s].clock.time
               n == overtaken[s]
    <3>1. old \in Seq(Operation) /\ n \in Nat
      BY PendingOf DEF IInv, TypeOK
    <3>2. time \in Nat /\ Numbered(ops, Ts(s, time))
      BY <1>1 DEF IInv, TypeOK, ModelOK
    <3>3. IF n = 0 THEN HoldLast(old, s, time) ELSE LeaveGap(old, n, time)
      BY DEF IInv, LastIssued
    <3> HIDE DEF old, time, n
    <3>4. IF n = 0 THEN HoldLast(old \o ops, s, time + Len(ops))
          ELSE LeaveGap(old \o ops, n, time + Len(ops))
      BY <3>1, <3>2, <3>3, AppendedIsNumbered, AppendedLeavesGap
    <3> QED
      BY <1>1, <1>3, <2>1, <3>4 DEF old, time, n
  <2>2. CASE t # s
    <3>1. Pending(t)' = Pending(t) /\ model'[t] = model[t]
      BY <1>1, <1>3, <2>2 DEF Pending
    <3> QED
      BY <3>1 DEF IInv, LastIssued
  <2> QED
    BY <2>1, <2>2
<1>6. LastIssued' /\ CarefulIsWhole'
  BY <1>2, <1>5 DEF LastIssued, IInv, CarefulIsWhole, Careful
<1>7. NothingLost'
  <2>1. Sent' = Sent /\ Waiting \subseteq Waiting'
    <3>1. \A t \in Sids : Firsts(t) \subseteq Firsts(t)'
      BY <1>3 DEF Firsts
    <3> QED
      BY <1>2, <3>1 DEF Sent, Waiting
  <2>2. NextTs(s) \in Waiting'
    <3>1. ops[1].id = NextTs(s)
      <4>1. 1 \in DOMAIN ops
        OBVIOUS
      <4>2. ops[1].id = Ts(NextTs(s).sid, NextTs(s).time + 1 - 1)
        BY <4>1 DEF Numbered
      <4>3. NextTs(s).time + 1 - 1 = NextTs(s).time
        BY <1>1 DEF Timestamp
      <4> QED
        BY <1>1, <4>2, <4>3 DEF Ts
    <3> QED
      BY <1>3, <3>1 DEF Waiting
  <2>3. ASSUME NEW t \in open
        PROVE  edits'[t] \subseteq Sent' \cup Waiting' \cup dropped'
    BY <1>1, <1>2, <2>1, <2>2 DEF NothingLost, IInv, TypeOK
  <2> QED
    BY <1>2, <2>3 DEF NothingLost
<1> QED
  BY <1>4, <1>6, <1>7 DEF IInv

\* A step that moves a clock on, or leaves it, while local_changes stay.
LEMMA OvertakingKeeps ==
  ASSUME IInv, NEW s \in Sids, local' = local, Overtaking(s),
         model'[s].clock.time \in Nat, model[s].clock.time <= model'[s].clock.time,
         \A t \in Sids \ {s} : model'[t] = model[t]
  PROVE  /\ LastIssued' /\ overtaken' \in [Sids -> Nat]
         /\ local[s] = << >> => overtaken'[s] = overtaken[s]
         /\ \A t \in Sids \ {s} : overtaken'[t] = overtaken[t]
<1> DEFINE ops == Pending(s)
           n == overtaken[s]
           time == model[s].clock.time
           later == model'[s].clock.time
<1>1. /\ ops \in Seq(Operation) /\ Len(ops) \in Nat /\ n \in Nat
      /\ local[s] = << >> => Len(ops) = 0
      /\ time \in Nat /\ later \in Nat /\ time <= later
      /\ overtaken \in [Sids -> Nat]
  <2>1. ops \in Seq(Operation) /\ (local[s] = << >> => ops = << >>)
    BY PendingOf DEF IInv
  <2>2. n \in Nat /\ overtaken \in [Sids -> Nat] /\ time \in Nat
    BY DEF IInv, TypeOK, ModelOK
  <2> HIDE DEF ops
  <2> QED
    BY <2>1, <2>2
<1>2. overtaken' = [overtaken EXCEPT ![s] = IF n = 0 /\ later # time THEN Len(ops) ELSE n]
  BY DEF Overtaking
<1>3. IF n = 0 THEN HoldLast(ops, s, time) ELSE LeaveGap(ops, n, time)
  BY DEF IInv, LastIssued
<1>4. \A t \in Sids : Pending(t)' = Pending(t)
  BY DEF Pending
<1>5. /\ overtaken' \in [Sids -> Nat]
      /\ overtaken'[s] = IF n = 0 /\ later # time THEN Len(ops) ELSE n
      /\ \A t \in Sids \ {s} : overtaken'[t] = overtaken[t]
  BY <1>1, <1>2
<1> HIDE DEF ops, n, time, later
<1>6. IF overtaken'[s] = 0 THEN HoldLast(ops, s, later) ELSE LeaveGap(ops, overtaken'[s], later)
  <2>1. CASE n = 0 /\ later # time
    <3>1. CASE ops = << >>
      BY <1>5, <2>1, <3>1 DEF HoldLast
    <3>2. CASE ops # << >>
      <4>1. LeaveGap(ops, Len(ops), later)
        BY <1>1, <1>3, <2>1, <3>2, GapStarts
      <4> QED
        BY <1>1, <1>5, <2>1, <3>2, <4>1
    <3> QED
      BY <3>1, <3>2
  <2>2. CASE later = time
    BY <1>3, <1>5, <2>2
  <2>3. CASE n # 0
    <3>1. LeaveGap(ops, n, later)
      BY <1>1, <1>3, <2>3, GapStays
    <3> QED
      BY <1>5, <2>3, <3>1
  <2> QED
    BY <2>1, <2>2, <2>3
<1>7. LastIssued'
  <2> SUFFICES ASSUME NEW t \in Sids
               PROVE  IF overtaken'[t] = 0 THEN HoldLast(Pending(t)', t, model'[t].clock.time)
                      ELSE LeaveGap(Pending(t)', overtaken'[t], model'[t].clock.time)
    BY DEF LastIssued
  <2>1. CASE t = s
    BY <1>4, <1>6, <2>1 DEF ops, later
  <2>2. CASE t # s
    BY <1>4, <1>5, <2>2 DEF IInv, LastIssued
  <2> QED
    BY <2>1, <2>2
<1> QED
  BY <1>1, <1>5, <1>7 DEF n

\* A step that empties local_changes.
LEMMA EmptiedKeeps ==
  ASSUME IInv, NEW s \in Sids, Emptied(s), \A t \in Sids \ {s} : model'[t] = model[t]
  PROVE  /\ local' \in [Sids -> Seq(Seq(Operation) \ {<< >>})]
         /\ local'[s] = << >> /\ \A t \in Sids \ {s} : local'[t] = local[t]
         /\ overtaken' \in [Sids -> Nat]
         /\ \A t \in Sids : overtaken[t] = 0 => overtaken'[t] = 0
         /\ LastIssued' /\ Waiting \subseteq Waiting' \cup Firsts(s)
<1>1. /\ local' \in [Sids -> Seq(Seq(Operation) \ {<< >>})]
      /\ local'[s] = << >> /\ \A t \in Sids \ {s} : local'[t] = local[t]
  <2> DEFINE S == Seq(Seq(Operation) \ {<< >>})
  <2>1. local \in [Sids -> S] /\ << >> \in S /\ local' = [local EXCEPT ![s] = << >>]
    BY DEF IInv, TypeOK, Emptied
  <2> HIDE DEF S
  <2>2. local' \in [Sids -> S] /\ local'[s] = << >> /\ \A t \in Sids \ {s} : local'[t] = local[t]
    BY <2>1
  <2> QED
    BY <2>2 DEF S
<1>2. /\ overtaken' \in [Sids -> Nat] /\ overtaken'[s] = 0
      /\ \A t \in Sids \ {s} : overtaken'[t] = overtaken[t]
  BY DEF IInv, TypeOK, Emptied
<1>3. LastIssued'
  <2> SUFFICES ASSUME NEW t \in Sids
               PROVE  IF overtaken'[t] = 0 THEN HoldLast(Pending(t)', t, model'[t].clock.time)
                      ELSE LeaveGap(Pending(t)', overtaken'[t], model'[t].clock.time)
    BY DEF LastIssued
  <2>1. CASE t = s
    BY <1>1, <1>2, <2>1, MergeOfNone DEF Pending, HoldLast
  <2>2. CASE t # s
    BY <1>1, <1>2, <2>2 DEF Pending, IInv, LastIssued
  <2> QED
    BY <2>1, <2>2
<1>4. Waiting \subseteq Waiting' \cup Firsts(s)
  <2>1. \A t \in Sids \ {s} : Firsts(t) \subseteq Firsts(t)'
    BY <1>1 DEF Firsts
  <2> QED
    BY <2>1 DEF Waiting
<1> QED
  BY <1>1, <1>2, <1>3, <1>4

\* After a step that a careful page may make, all steps before it were careful,
\* and a session that it empties, moves, copies or closes had nothing waiting.
LEMMA FlushedIsEmpty ==
  ASSUME IInv, NEW s, NEW isCareless, Unflushed(s) => isCareless, Counted(isCareless)
  PROVE  /\ careless' \in Nat
         /\ Careful' => Careful /\ ~isCareless /\ local[s] = << >>
BY DEF Counted, Unflushed, Careful, IInv, TypeOK

\* What JsonCrdtDiff builds is numbered like any edit.
LEMMA DiffIsNumbered ==
  ASSUME NEW m, ModelOK(m), NEW id \in Timestamp, NEW json \in Json
  PROVE  DiffOps(m, id, json) \in Seq(Operation) /\ Numbered(DiffOps(m, id, json), id)
<1>1. CASE ~Has(m, m.root)
  BY <1>1, SetRootIsNumbered DEF DiffOps
<1>2. CASE Has(m, m.root) /\ IsObj(m, m.root) /\ json.kind = "obj" /\ Shown(m, m.root) # json.child
  <2>1. json.child \in Scalars \cup {"null", "undefined"} /\ m.root \in Ids
    BY <1>2 DEF Json, Con, Obj, ModelOK
  <2> QED
    BY <1>2, <2>1, SetKeyIsNumbered DEF DiffOps
<1>3. CASE Has(m, m.root) /\ ~(IsObj(m, m.root) /\ json.kind = "obj" /\ Shown(m, m.root) # json.child)
  <2>1. DiffOps(m, id, json) = << >>
    BY <1>3 DEF DiffOps
  <2>2. Numbered(<< >>, id) /\ << >> \in Seq(Operation)
    BY DEF Numbered
  <2> QED
    BY <2>1, <2>2
<1> QED
  BY <1>1, <1>2, <1>3

\* A patch sent adds its edits to those sent.
LEMMA MoreIsSent ==
  ASSUME NEW n, NEW ops, NEW names, NEW deps,
         wire' = wire \cup {[n |-> n, ops |-> ops, edits |-> names, deps |-> deps]}
  PROVE  Sent' = Sent \cup names
<1> DEFINE patch == [n |-> n, ops |-> ops, edits |-> names, deps |-> deps]
<1>1. wire' = wire \cup {patch} /\ patch.edits = names
  OBVIOUS
<1> HIDE DEF patch
<1> QED
  BY <1>1 DEF Sent

\* apiFlush: what waited is sent.
LEMMA FlushKeeps ==
  ASSUME IInv, NEW s \in Sids, ApiFlush(s)
  PROVE  IInv'
<1> DEFINE ops == OnWire(Pending(s))
<1>1. /\ open' = open /\ model' = model /\ edits' = edits
      /\ careless' = careless /\ dropped' = dropped /\ Emptied(s)
      /\ \E n, deps : wire' = wire \cup {[n |-> n, ops |-> ops,
                                          edits |-> Firsts(s), deps |-> deps]}
  BY DEF ApiFlush, Send
<1>2. PICK n, deps : wire' = wire \cup {[n |-> n, ops |-> ops,
                                         edits |-> Firsts(s), deps |-> deps]}
  BY <1>1
<1>3. ops \in Seq(Operation) /\ Firsts(s) \subseteq Timestamp
  BY PendingOf, OnWireIsSeq DEF IInv
<1>4. /\ local' \in [Sids -> Seq(Seq(Operation) \ {<< >>})]
      /\ local'[s] = << >> /\ \A t \in Sids \ {s} : local'[t] = local[t]
      /\ overtaken' \in [Sids -> Nat]
      /\ \A t \in Sids : overtaken[t] = 0 => overtaken'[t] = 0
      /\ LastIssued' /\ Waiting \subseteq Waiting' \cup Firsts(s)
  BY <1>1, EmptiedKeeps
<1> HIDE DEF ops
<1>5. TypeOK'
  <2>1. \A patch \in wire' : patch.ops \in Seq(Operation) /\ patch.edits \subseteq Timestamp
    BY <1>2, <1>3 DEF IInv, TypeOK
  <2>2. \A t \in Sids \ open : local'[t] = << >>
    BY <1>4 DEF IInv, TypeOK
  <2> QED
    BY <1>1, <1>4, <2>1, <2>2 DEF IInv, TypeOK
<1>6. CarefulIsWhole'
  BY <1>1, <1>4 DEF IInv, CarefulIsWhole, Careful
<1>7. NothingLost'
  <2>1. Sent' = Sent \cup Firsts(s)
    <3> DEFINE names == Firsts(s)
    <3>1. wire' = wire \cup {[n |-> n, ops |-> ops, edits |-> names, deps |-> deps]}
      BY <1>2
    <3> HIDE DEF names
    <3>2. Sent' = Sent \cup names
      BY <3>1, MoreIsSent
    <3> QED
      BY <3>2 DEF names
  <2>2. \A t \in open : edits[t] \subseteq Sent \cup Waiting \cup dropped
    BY DEF IInv, NothingLost
  <2> QED
    BY <1>1, <1>4, <2>1, <2>2 DEF NothingLost
<1> QED
  BY <1>4, <1>5, <1>6, <1>7 DEF IInv

\* apiApply drops what waits.
LEMMA ApplyKeeps ==
  ASSUME IInv, NEW s \in Sids, ApiApply(s)
  PROVE  IInv'
<1>1. /\ open' = open /\ model' = model /\ edits' = edits /\ wire' = wire
      /\ Counted(Unflushed(s)) /\ Emptied(s) /\ dropped' = dropped \cup Firsts(s)
  BY DEF ApiApply
<1>2. /\ local' \in [Sids -> Seq(Seq(Operation) \ {<< >>})]
      /\ local'[s] = << >> /\ \A t \in Sids \ {s} : local'[t] = local[t]
      /\ overtaken' \in [Sids -> Nat]
      /\ \A t \in Sids : overtaken[t] = 0 => overtaken'[t] = 0
      /\ LastIssued' /\ Waiting \subseteq Waiting' \cup Firsts(s)
  BY <1>1, EmptiedKeeps
<1>3. careless' \in Nat /\ (Careful' => Careful)
  BY <1>1, FlushedIsEmpty
<1>4. TypeOK'
  <2>1. \A t \in Sids \ open : local'[t] = << >>
    BY <1>2 DEF IInv, TypeOK
  <2> QED
    BY <1>1, <1>2, <1>3, <2>1 DEF IInv, TypeOK
<1>5. CarefulIsWhole'
  BY <1>2, <1>3 DEF IInv, CarefulIsWhole
<1>6. NothingLost'
  BY <1>1, <1>2 DEF IInv, NothingLost, Sent
<1> QED
  BY <1>2, <1>4, <1>5, <1>6 DEF IInv

\* diff_apply sends its patch at once.
LEMMA DiffKeeps ==
  ASSUME IInv, NEW s \in Sids, NEW json \in Json, DiffApply(s, json)
  PROVE  IInv'
<1> DEFINE ops == DiffOps(model[s], NextTs(s), json)
<1>1. ModelOK(model[s]) /\ NextTs(s) \in Timestamp
  BY DEF IInv, TypeOK, NextTs, Ts, Timestamp, ModelOK
<1>2. ops \in Seq(Operation) /\ Numbered(ops, NextTs(s))
  BY <1>1, DiffIsNumbered
<1>3. /\ Change(s, ops) /\ Counted(Unflushed(s)) /\ Overtaking(s)
      /\ open' = open /\ local' = local /\ dropped' = dropped
      /\ \E n, deps : wire' = wire \cup {[n |-> n, ops |-> OnWire(ops),
                                          edits |-> {NextTs(s)}, deps |-> deps]}
  BY DEF DiffApply, Send
<1> HIDE DEF ops
<1>4. PICK n, deps : wire' = wire \cup {[n |-> n, ops |-> OnWire(ops),
                                         edits |-> {NextTs(s)}, deps |-> deps]}
  BY <1>3
<1>5. /\ DOMAIN model' = Sids /\ \A t \in Sids : ModelOK(model'[t])
      /\ model'[s].clock.time = model[s].clock.time + Len(ops)
      /\ \A t \in Sids \ {s} : model'[t] = model[t]
      /\ edits' \in [Sids -> SUBSET Timestamp]
      /\ edits'[s] = edits[s] \cup {NextTs(s)}
      /\ \A t \in Sids \ {s} : edits'[t] = edits[t]
  BY <1>2, <1>3, ChangeMovesOn DEF IInv
<1>6. OnWire(ops) \in Seq(Operation)
  BY <1>2, OnWireIsSeq
<1>7. careless' \in Nat /\ (Careful' => Careful /\ local[s] = << >>)
  BY <1>3, FlushedIsEmpty
<1>8. /\ LastIssued' /\ overtaken' \in [Sids -> Nat]
      /\ local[s] = << >> => overtaken'[s] = overtaken[s]
      /\ \A t \in Sids \ {s} : overtaken'[t] = overtaken[t]
  <2>1. Len(ops) \in Nat /\ model[s].clock.time \in Nat
    BY <1>1, <1>2 DEF ModelOK
  <2>2. model'[s].clock.time \in Nat /\ model[s].clock.time <= model'[s].clock.time
    BY <1>5, <2>1
  <2> QED
    BY <1>3, <1>5, <2>2, OvertakingKeeps
<1>9. TypeOK'
  <2>1. \A patch \in wire' : patch.ops \in Seq(Operation) /\ patch.edits \subseteq Timestamp
    BY <1>1, <1>4, <1>6 DEF IInv, TypeOK
  <2> QED
    BY <1>3, <1>5, <1>7, <1>8, <2>1 DEF IInv, TypeOK
<1>10. CarefulIsWhole'
  BY <1>7, <1>8 DEF IInv, CarefulIsWhole
<1>11. NothingLost'
  <2>1. Sent' = Sent \cup {NextTs(s)} /\ Waiting' = Waiting
    <3>1. Waiting' = Waiting
      BY <1>3 DEF Waiting, Firsts
    <3> DEFINE next == {NextTs(s)}
               sent == OnWire(ops)
    <3>2. wire' = wire \cup {[n |-> n, ops |-> sent, edits |-> next, deps |-> deps]}
      BY <1>4
    <3> HIDE DEF next, sent
    <3>3. Sent' = Sent \cup next
      BY <3>2, MoreIsSent
    <3> QED
      BY <3>1, <3>3 DEF next
  <2>2. \A t \in open : edits'[t] \subseteq Sent' \cup Waiting' \cup dropped
    BY <1>5, <2>1 DEF NothingLost, IInv, TypeOK
  <2> QED
    BY <1>3, <2>2 DEF NothingLost
<1> QED
  BY <1>8, <1>9, <1>10, <1>11 DEF IInv

\* apply_patch of a peer's patch
LEMMA ReceiveKeeps ==
  ASSUME IInv, NEW s \in Sids, NEW patch \in wire, Receive(s, patch)
  PROVE  IInv'
<1>1. /\ open' = open /\ local' = local /\ wire' = wire /\ dropped' = dropped
      /\ Counted(Unflushed(s) \/ patch.n \in known[s]) /\ Overtaking(s)
      /\ model' = [model EXCEPT ![s] = ApplyPatch(@, patch.ops)]
      /\ edits' = [edits EXCEPT ![s] = @ \cup patch.edits]
  BY DEF Receive
<1>2. /\ ModelOK(ApplyPatch(model[s], patch.ops))
      /\ model[s].clock.time <= ApplyPatch(model[s], patch.ops).clock.time
      /\ patch.edits \subseteq Timestamp
  BY ApplyPatchKeepsType, ApplyPatchMovesForward DEF IInv, TypeOK
<1>3. /\ DOMAIN model' = Sids /\ \A t \in Sids : ModelOK(model'[t])
      /\ model'[s].clock.time \in Nat /\ model[s].clock.time <= model'[s].clock.time
      /\ \A t \in Sids \ {s} : model'[t] = model[t]
  BY <1>1, <1>2 DEF IInv, TypeOK, ModelOK
<1>4. /\ edits' \in [Sids -> SUBSET Timestamp]
      /\ edits'[s] = edits[s] \cup patch.edits
      /\ \A t \in Sids \ {s} : edits'[t] = edits[t]
  <2>1. edits \in [Sids -> SUBSET Timestamp]
    BY DEF IInv, TypeOK
  <2> QED
    BY <1>1, <1>2, <2>1
<1>5. careless' \in Nat /\ (Careful' => Careful /\ local[s] = << >>)
  BY <1>1, FlushedIsEmpty
<1>6. /\ LastIssued' /\ overtaken' \in [Sids -> Nat]
      /\ local[s] = << >> => overtaken'[s] = overtaken[s]
      /\ \A t \in Sids \ {s} : overtaken'[t] = overtaken[t]
  BY <1>1, <1>3, OvertakingKeeps
<1>7. TypeOK'
  BY <1>1, <1>3, <1>4, <1>5, <1>6 DEF IInv, TypeOK
<1>8. CarefulIsWhole'
  BY <1>5, <1>6 DEF IInv, CarefulIsWhole
<1>9. NothingLost'
  <2>1. Sent' = Sent /\ Waiting' = Waiting /\ patch.edits \subseteq Sent
    BY <1>1 DEF Sent, Waiting, Firsts
  <2>2. \A t \in open : edits'[t] \subseteq Sent' \cup Waiting' \cup dropped
    BY <1>4, <2>1 DEF NothingLost, IInv, TypeOK
  <2> QED
    BY <1>1, <2>2 DEF NothingLost
<1> QED
  BY <1>6, <1>7, <1>8, <1>9 DEF IInv

\* fork: the new session starts with what the old one holds.
LEMMA ForkKeeps ==
  ASSUME IInv, NEW s \in Sids, NEW t \in Sids, ForkTo(s, t)
  PROVE  IInv'
<1>1. /\ s \in open /\ t \notin open /\ open' = open \cup {t}
      /\ local' = local /\ wire' = wire /\ dropped' = dropped /\ overtaken' = overtaken
      /\ Counted(Unflushed(s))
      /\ model' = [model EXCEPT ![t] = [model[s] EXCEPT !.clock.sid = t]]
      /\ edits' = [edits EXCEPT ![t] = edits[s]]
  BY DEF ForkTo
<1>2. Pending(t) = << >>
  BY <1>1, MergeOfNone DEF IInv, TypeOK, Pending
<1>3. ModelOK([model[s] EXCEPT !.clock.sid = t])
  <2>1. ModelOK(model[s])
    BY DEF IInv, TypeOK
  <2>2. PICK clock, root, index : model[s] = [clock |-> clock, root |-> root, index |-> index]
    BY <2>1 DEF ModelOK
  <2>3. [model[s] EXCEPT !.clock.sid = t]
          = [clock |-> [clock EXCEPT !.sid = t], root |-> root, index |-> index]
    BY <2>2
  <2>4. clock = [sid |-> clock.sid, time |-> clock.time, peers |-> clock.peers]
    BY <2>1, <2>2 DEF ModelOK
  <2>5. [clock EXCEPT !.sid = t] = [sid |-> t, time |-> clock.time, peers |-> clock.peers]
    BY <2>4
  <2> QED
    BY <2>1, <2>2, <2>3, <2>5 DEF ModelOK
<1>4. /\ DOMAIN model' = Sids /\ \A u \in Sids : ModelOK(model'[u])
      /\ \A u \in Sids \ {t} : model'[u] = model[u]
  BY <1>1, <1>3 DEF IInv, TypeOK
<1>5. /\ edits' \in [Sids -> SUBSET Timestamp]
      /\ edits'[t] = edits[s]
      /\ \A u \in Sids \ {t} : edits'[u] = edits[u]
  <2>1. edits \in [Sids -> SUBSET Timestamp]
    BY DEF IInv, TypeOK
  <2> QED
    BY <1>1, <2>1
<1>6. careless' \in Nat /\ (Careful' => Careful)
  BY <1>1, FlushedIsEmpty
<1>7. TypeOK' /\ CarefulIsWhole'
  BY <1>1, <1>4, <1>5, <1>6 DEF IInv, TypeOK, CarefulIsWhole
<1>8. LastIssued'
  <2> SUFFICES ASSUME NEW u \in Sids
               PROVE  IF overtaken[u] = 0 THEN HoldLast(Pending(u), u, model'[u].clock.time)
                      ELSE LeaveGap(Pending(u), overtaken[u], model'[u].clock.time)
    BY <1>1 DEF LastIssued, Pending
  <2>1. CASE u = t
    BY <1>2, <2>1 DEF IInv, LastIssued, HoldLast, LeaveGap
  <2>2. CASE u # t
    BY <1>4, <2>2 DEF IInv, LastIssued
  <2> QED
    BY <2>1, <2>2
<1>9. NothingLost'
  <2>1. Sent' = Sent /\ Waiting' = Waiting
    BY <1>1 DEF Sent, Waiting, Firsts
  <2>2. \A u \in open \cup {t} : edits'[u] \subseteq Sent' \cup Waiting' \cup dropped
    BY <1>1, <1>5, <2>1 DEF NothingLost, IInv, TypeOK
  <2> QED
    BY <1>1, <2>2 DEF NothingLost
<1> QED
  BY <1>7, <1>8, <1>9 DEF IInv

\* A page that comes back from a snapshot took part in the edits it took part
\* in; those that waited are dropped.
LEMMA ReloadKeeps ==
  ASSUME IInv, NEW s \in Sids, Reload(s)
  PROVE  IInv'
<1>1. /\ open' = open /\ wire' = wire /\ edits' = edits
      /\ Counted(Unflushed(s)) /\ Emptied(s) /\ dropped' = dropped \cup Firsts(s)
      /\ model' = [model EXCEPT ![s] = Loaded(@)]
  BY DEF Reload
<1>2. ModelOK(Loaded(model[s]))
  <2>1. model[s].root \in Ids /\ model[s].clock.time \in Nat /\ Undefined \in Ids
    BY DEF IInv, TypeOK, ModelOK, Ids
  <2> QED
    BY <2>1 DEF Loaded, ModelOK, NewClock
<1>3. /\ DOMAIN model' = Sids /\ \A t \in Sids : ModelOK(model'[t])
      /\ \A t \in Sids \ {s} : model'[t] = model[t]
  BY <1>1, <1>2 DEF IInv, TypeOK
<1>4. /\ local' \in [Sids -> Seq(Seq(Operation) \ {<< >>})]
      /\ local'[s] = << >> /\ \A t \in Sids \ {s} : local'[t] = local[t]
      /\ overtaken' \in [Sids -> Nat]
      /\ \A t \in Sids : overtaken[t] = 0 => overtaken'[t] = 0
      /\ LastIssued' /\ Waiting \subseteq Waiting' \cup Firsts(s)
  BY <1>1, <1>3, EmptiedKeeps
<1>5. careless' \in Nat /\ (Careful' => Careful)
  BY <1>1, FlushedIsEmpty
<1>6. TypeOK'
  <2>1. \A t \in Sids \ open : local'[t] = << >>
    BY <1>4 DEF IInv, TypeOK
  <2> QED
    BY <1>1, <1>3, <1>4, <1>5, <2>1 DEF IInv, TypeOK
<1>7. CarefulIsWhole'
  BY <1>4, <1>5 DEF IInv, CarefulIsWhole
<1>8. NothingLost'
  BY <1>1, <1>4 DEF IInv, NothingLost, Sent
<1> QED
  BY <1>4, <1>6, <1>7, <1>8 DEF IInv

\* Every step of a session, and a step that changes nothing.
LEMMA StepKeeps == IInv /\ [Next]_vars => IInv'
<1> SUFFICES ASSUME IInv, [Next]_vars
             PROVE  IInv'
  OBVIOUS
<1>1. ASSUME NEW s \in Sids
      PROVE  ModelOK(model[s]) /\ model[s].root \in Ids /\ NextTs(s) \in Timestamp
  BY DEF IInv, TypeOK, NextTs, Ts, Timestamp, ModelOK
<1>2. ASSUME NEW s \in Sids, NEW json \in Json, ApiSet(s, json)
      PROVE  IInv'
  BY <1>1, <1>2, SetRootIsNumbered, EditKeeps DEF ApiSet
<1>3. ASSUME NEW s \in Sids, NEW value \in Scalars, ApiObjSet(s, value)
      PROVE  IInv'
  BY <1>1, <1>3, SetKeyIsNumbered, EditKeeps DEF ApiObjSet
<1>4. ASSUME NEW s \in Sids, ApiObjDel(s)
      PROVE  IInv'
  BY <1>1, <1>4, SetKeyIsNumbered, EditKeeps DEF ApiObjDel
<1>5. ASSUME NEW s \in Sids, NEW json \in Json, DiffApply(s, json)
      PROVE  IInv'
  BY <1>5, DiffKeeps
<1>6. ASSUME NEW s \in Sids, ApiFlush(s)
      PROVE  IInv'
  BY <1>6, FlushKeeps
<1>7. ASSUME NEW s \in Sids, ApiApply(s)
      PROVE  IInv'
  BY <1>7, ApplyKeeps
<1>8. ASSUME NEW s \in Sids, NEW patch \in wire, Receive(s, patch)
      PROVE  IInv'
  BY <1>8, ReceiveKeeps
<1>9. ASSUME NEW s \in Sids, NEW t \in Sids, ForkTo(s, t)
      PROVE  IInv'
  BY <1>9, ForkKeeps
<1>10. ASSUME NEW s \in Sids, Reload(s)
       PROVE  IInv'
  BY <1>10, ReloadKeeps
<1>11. CASE UNCHANGED vars
  BY <1>11 DEF vars, IInv, TypeOK, LastIssued, Pending, CarefulIsWhole, Careful,
               NothingLost, Sent, Waiting, Firsts
<1>12. CASE Next
  BY <1>2, <1>3, <1>4, <1>5, <1>6, <1>7, <1>8, <1>9, <1>10, <1>12 DEF Next
<1> QED
  BY <1>11, <1>12
-----------------------------------------------------------------------------
(***************************************************************************)
(* What a document holds once it took part in a set of operations, in      *)
(* whatever order they came: the root and each key show the latest value,  *)
(* and what they show is in the index.                                     *)
(***************************************************************************)
OpIds(ops) == {op.id : op \in ops}
Makes(op, kind) == op.op = "new" /\ op.node.kind = kind
Used(op, ops) == \E ref \in ops : ref.op # "new" /\ ref.val = op.id

Unique(ops) == \A a, b \in ops : a.id = b.id => a = b

\* What an operation puts in its place was made right before it, for it alone.
Backed(ops) ==
  /\ \A op \in ops : Makes(op, "obj") => op.node = Obj(Undefined)
  /\ \A op \in ops : op.op = "ins_obj" =>
       /\ op.id = At(op.val, 1)
       /\ op.obj = Undefined \/ op.obj.time < op.val.time
       /\ \E made \in ops : made.id = op.val /\ Makes(made, "con")
  /\ \A op \in ops : op.op = "ins_val" =>
       \E made \in ops :
         /\ made.id = op.val /\ made.op = "new"
         /\ \/ op.id = At(op.val, 1)
            \/ /\ op.id = At(op.val, 3) /\ made.node.kind = "obj"
               /\ \E next \in ops : next.id = At(op.val, 1) /\ next.op = "new"

\* The objects that get a key are among `ids`.
Names(ops, ids) == \A op \in ops : op.op = "ins_obj" => op.obj \in {Undefined} \cup ids

\* The root register holds the latest value.
RootHolds(root, index, ops) ==
  /\ \A op \in ops : op.op = "ins_val" => ~Less(root, op.val)
  /\ \/ root = Undefined
     \/ /\ root \in DOMAIN index
        /\ \E op \in ops : op.op = "ins_val" /\ op.val = root

\* So does the key of an object.
KeyHolds(index, ops, i) ==
  LET child == index[i].child
  IN  /\ index[i] = Obj(child)
      /\ \A op \in ops : op.op = "ins_obj" /\ op.obj = i => ~Less(child, op.val)
      /\ \/ child = Undefined
         \/ /\ child \in DOMAIN index
            /\ \E op \in ops : op.op = "ins_obj" /\ op.obj = i /\ op.val = child

\* A node is one that was made.
NodeHolds(index, ops, i) ==
  \E op \in ops :
    /\ op.op = "new" /\ op.id = i
    /\ \/ op.node.kind = "con" /\ index[i] = op.node
       \/ op.node.kind = "obj" /\ KeyHolds(index, ops, i)

\* No node was collected before it was used.
UnusedStay(index, ops) ==
  \A op \in ops : op.op = "new" => op.id \in DOMAIN index \/ Used(op, ops)

Holds(root, index, ops) ==
  /\ RootHolds(root, index, ops)
  /\ \A i \in DOMAIN index : NodeHolds(index, ops, i)
  /\ UnusedStay(index, ops)

\* The fields of operations.
LEMMA OperationFields ==
  ASSUME NEW op \in Operation
  PROVE  /\ op.op \in {"new", "ins_val", "ins_obj"}
         /\ op.id \in Timestamp
         /\ op.op = "new" => op.node.kind \in {"con", "obj"}
         /\ op.op # "new" => op.val \in Timestamp
         /\ op.op = "ins_obj" => op.obj \in Ids
BY DEF Operation, Node

\* Ids compare by their numbers; the empty register comes before all of them.
LEMMA IdFacts ==
  /\ \A id \in Ids : id.sid \in Nat /\ id.time \in Nat
  /\ \A id \in Timestamp : id \in Ids /\ id # Undefined /\ id # Origin /\ id.sid \in Sids
  /\ \A id \in Timestamp : 1 <= id.time => Less(Undefined, id)
  /\ Undefined \in Ids
<1>1. \A id \in Timestamp : id.sid \in Nat /\ id.sid > 3 /\ id.time \in Nat /\ id.sid \in Sids
  BY SidsAboveReserved DEF Timestamp
<1>2. /\ Undefined.sid = 0 /\ Undefined.time = 1
      /\ Origin.sid = 0 /\ Origin.time = 0
  BY DEF Undefined, Origin, Ts, SystemSid
<1>3. \A id \in Timestamp : id # Undefined /\ id # Origin
  BY <1>1, <1>2
<1>4. \A id \in Timestamp : 1 <= id.time => Less(Undefined, id)
  BY <1>1, <1>2 DEF Less
<1> QED
  BY <1>1, <1>2, <1>3, <1>4 DEF Ids

\* The order of ids.
LEMMA LessFacts ==
  ASSUME NEW a \in Ids, NEW b \in Ids
  PROVE  /\ ~Less(a, a)
         /\ Less(a, b) => ~Less(b, a)
         /\ \A c \in Ids : Less(a, b) /\ Less(b, c) => Less(a, c)
<1>1. \A id \in Ids : id.sid \in Nat /\ id.time \in Nat
  BY IdFacts
<1> QED
  BY <1>1 DEF Less

\* The ticks behind an id.
LEMMA AtFacts ==
  ASSUME NEW id \in Timestamp
  PROVE  /\ \A n \in Nat : At(id, n).sid = id.sid /\ At(id, n).time = id.time + n
         /\ At(id, 1).time = id.time + 1 /\ At(id, 3).time = id.time + 3 /\ id.time \in Nat
         /\ At(id, 1) # At(id, 3) /\ At(id, 1) # id /\ At(id, 3) # id
<1>1. \A n \in Nat : At(id, n).sid = id.sid /\ At(id, n).time = id.time + n
  BY DEF At, Ts
<1>2. id.time \in Nat
  BY DEF Timestamp
<1>3. At(id, 1).time = id.time + 1 /\ At(id, 3).time = id.time + 3
  BY <1>1
<1> QED
  BY <1>1, <1>2, <1>3

\* What was made is put in one place.
LEMMA UsedOnce ==
  ASSUME NEW ops \in SUBSET Operation, Backed(ops), Unique(ops),
         NEW a \in ops, NEW b \in ops, a.op # "new", b.op # "new", a.val = b.val
  PROVE  a = b
<1> DEFINE Near(op) == op.id = At(op.val, 1)
           Far(op) == /\ op.id = At(op.val, 3)
                      /\ \E made \in ops : made.id = op.val /\ Makes(made, "obj")
                      /\ \E next \in ops : next.id = At(op.val, 1) /\ next.op = "new"
<1>1. ASSUME NEW op \in ops, op.op # "new"
      PROVE  Near(op) \/ Far(op)
  BY <1>1, OperationFields DEF Backed, Makes
<1>2. ASSUME NEW x \in ops, NEW y \in ops, x.op # "new", y.op # "new", x.val = y.val, Near(x), Far(y)
      PROVE  FALSE
  <2>1. PICK next \in ops : next.id = At(y.val, 1) /\ next.op = "new"
    BY <1>2
  <2>2. next = x
    BY <1>2, <2>1 DEF Unique
  <2> QED
    BY <1>2, <2>1, <2>2
<1>3. Near(a) /\ Near(b) => a.id = b.id
  OBVIOUS
<1>4. Far(a) /\ Far(b) => a.id = b.id
  OBVIOUS
<1> HIDE DEF Near, Far
<1> QED
  BY <1>1, <1>2, <1>3, <1>4 DEF Unique

\* What no operation has used yet is in the index.
LEMMA MadeIsThere ==
  ASSUME NEW ops \in SUBSET Operation, NEW op \in Operation, op \notin ops, op.op # "new",
         Backed(ops \cup {op}), Unique(ops \cup {op}), NEW index, UnusedStay(index, ops)
  PROVE  op.val \in DOMAIN index /\ \A ref \in ops : ref.op # "new" => ref.val # op.val
<1> DEFINE all == ops \cup {op}
<1>1. \A ref \in ops : ref.op # "new" => ref.val # op.val
  <2>1. all \in SUBSET Operation /\ op \in all /\ \A ref \in ops : ref \in all
    OBVIOUS
  <2>2. Backed(all) /\ Unique(all)
    OBVIOUS
  <2> HIDE DEF all
  <2> QED
    BY <2>1, <2>2, UsedOnce
<1>2. PICK made \in all : made.id = op.val /\ made.op = "new"
  BY OperationFields DEF Backed, Makes
<1>3. made \in ops
  BY <1>2
<1>4. made.id \in DOMAIN index \/ Used(made, ops)
  BY <1>2, <1>3 DEF UnusedStay
<1> QED
  BY <1>1, <1>2, <1>4 DEF Used

\* An operation that comes after those it rests on.
Follows(op, ops) ==
  /\ op.id \notin OpIds(ops)
  /\ Backed(ops \cup {op}) /\ Unique(ops \cup {op}) /\ Names(ops \cup {op}, OpIds(ops))

\* Nodes are made once, under timestamps.
LEMMA NodesAreMade ==
  ASSUME NEW ops \in SUBSET Operation, NEW root, NEW index, Holds(root, index, ops)
  PROVE  \A i \in DOMAIN index : i \in OpIds(ops) /\ i \in Timestamp /\ i # Undefined
<1> SUFFICES ASSUME NEW i \in DOMAIN index
             PROVE  i \in OpIds(ops) /\ i \in Timestamp /\ i # Undefined
  OBVIOUS
<1>1. PICK op \in ops : op.id = i
  BY DEF Holds, NodeHolds
<1>2. i \in Timestamp
  BY <1>1, OperationFields
<1> QED
  BY <1>1, <1>2, IdFacts DEF OpIds

\* A key shows nothing, or a constant in the index that one operation put there.
LEMMA ChildFacts ==
  ASSUME NEW ops \in SUBSET Operation, Backed(ops), Unique(ops), NEW root, NEW index,
         Holds(root, index, ops), NEW i \in DOMAIN index, index[i].kind = "obj"
  PROVE  /\ KeyHolds(index, ops, i)
         /\ index[i].child \in Ids
         /\ index[i].child # Undefined =>
              /\ index[i].child \in DOMAIN index /\ index[index[i].child].kind = "con"
              /\ \E ref \in ops : ref.op = "ins_obj" /\ ref.obj = i /\ ref.val = index[i].child
<1>1. \A made \in ops : Makes(made, "con") => made.node.kind = "con"
  BY DEF Makes
<1>2. PICK op \in ops :
        /\ op.op = "new" /\ op.id = i
        /\ \/ op.node.kind = "con" /\ index[i] = op.node
           \/ op.node.kind = "obj" /\ KeyHolds(index, ops, i)
  BY DEF Holds, NodeHolds
<1>3. KeyHolds(index, ops, i)
  BY <1>2
<1> DEFINE child == index[i].child
<1>4. \/ child = Undefined
      \/ /\ child \in DOMAIN index
         /\ \E ref \in ops : ref.op = "ins_obj" /\ ref.obj = i /\ ref.val = child
  BY <1>3 DEF KeyHolds
<1> HIDE DEF child
<1>5. ASSUME child # Undefined
      PROVE  child \in Timestamp /\ index[child].kind = "con"
  <2>1. PICK ref \in ops : ref.op = "ins_obj" /\ ref.val = child
    BY <1>4, <1>5
  <2>2. PICK made \in ops : made.id = child /\ Makes(made, "con")
    BY <2>1 DEF Backed
  <2>3. PICK other \in ops :
          /\ other.op = "new" /\ other.id = child
          /\ \/ other.node.kind = "con" /\ index[child] = other.node
             \/ other.node.kind = "obj" /\ KeyHolds(index, ops, child)
    BY <1>4, <1>5 DEF Holds, NodeHolds
  <2>4. made = other
    BY <2>2, <2>3 DEF Unique
  <2>5. index[child].kind = "con"
    BY <1>1, <2>2, <2>3, <2>4
  <2> QED
    BY <2>1, <2>5, OperationFields
<1>6. child \in Ids
  BY <1>5, IdFacts
<1> QED
  BY <1>3, <1>4, <1>5, <1>6 DEF child

\* A new node
LEMMA CreateHolds ==
  ASSUME NEW ops \in SUBSET Operation, NEW op \in Operation, op.op = "new", Follows(op, ops),
         NEW root, NEW index, Holds(root, index, ops)
  PROVE  op.id \notin DOMAIN index /\ Holds(root, Put(index, op.id, op.node), ops \cup {op})
<1> DEFINE all == ops \cup {op}
           after == Put(index, op.id, op.node)
<1>1. op.id \notin DOMAIN index /\ op.id # Undefined
  BY NodesAreMade, OperationFields, IdFacts DEF Follows
<1>2. /\ DOMAIN after = DOMAIN index \cup {op.id} /\ after[op.id] = op.node
      /\ \A i \in DOMAIN index : after[i] = index[i]
  BY <1>1 DEF Put
<1>3. \A x \in all : x.op # "new" => x \in ops
  OBVIOUS
<1>4. RootHolds(root, after, all)
  BY <1>2, <1>3 DEF Holds, RootHolds
<1>5. ASSUME NEW i \in DOMAIN index
      PROVE  NodeHolds(after, all, i)
  <2>1. PICK made \in ops :
          /\ made.op = "new" /\ made.id = i
          /\ \/ made.node.kind = "con" /\ index[i] = made.node
             \/ made.node.kind = "obj" /\ KeyHolds(index, ops, i)
    BY DEF Holds, NodeHolds
  <2>2. KeyHolds(index, ops, i) => KeyHolds(after, all, i)
    BY <1>2, <1>3 DEF KeyHolds
  <2>3. made \in all /\ after[i] = index[i]
    BY <1>2
  <2> QED
    BY <2>1, <2>2, <2>3 DEF NodeHolds
<1>6. NodeHolds(after, all, op.id)
  <2>1. \A x \in ops : x.op = "ins_obj" => x.obj # op.id
    BY <1>1 DEF Follows, Names
  <2>2. CASE op.node.kind = "con"
    BY <1>2, <2>2 DEF NodeHolds
  <2>3. CASE op.node.kind = "obj"
    <3>1. op.node = Obj(Undefined)
      BY <2>3 DEF Follows, Backed, Makes
    <3>2. after[op.id] = Obj(Undefined) /\ after[op.id].child = Undefined
      BY <1>2, <3>1 DEF Obj
    <3>3. KeyHolds(after, all, op.id)
      BY <1>3, <2>1, <3>2 DEF KeyHolds
    <3> QED
      BY <2>3, <3>3 DEF NodeHolds
  <2> QED
    BY <2>2, <2>3, OperationFields
<1>7. UnusedStay(after, all)
  BY <1>2 DEF Holds, UnusedStay, Used
<1>8. \A i \in DOMAIN after : NodeHolds(after, all, i)
  BY <1>2, <1>5, <1>6
<1> HIDE DEF all, after
<1> QED
  BY <1>1, <1>4, <1>7, <1>8 DEF Holds, all, after

\* What is collected with the old root or the old value of a key is used there
\* and nowhere else.
LEMMA CollectHolds ==
  ASSUME NEW ops \in SUBSET Operation, NEW index, NEW gone, NEW i \in DOMAIN index \ gone,
         NodeHolds(index, ops, i),
         index[i].kind = "obj" => index[i].child = Undefined \/ index[i].child \notin gone
  PROVE  NodeHolds(Collect(index, gone), ops, i)
<1> DEFINE after == Collect(index, gone)
<1>1. DOMAIN after = DOMAIN index \ gone /\ \A j \in DOMAIN after : after[j] = index[j]
  BY DEF Collect
<1> HIDE DEF after
<1>2. PICK made \in ops :
        /\ made.op = "new" /\ made.id = i
        /\ \/ made.node.kind = "con" /\ index[i] = made.node
           \/ made.node.kind = "obj" /\ KeyHolds(index, ops, i)
  BY DEF NodeHolds
<1>3. after[i] = index[i]
  BY <1>1
<1>4. KeyHolds(index, ops, i) => KeyHolds(after, ops, i)
  <2>1. SUFFICES ASSUME KeyHolds(index, ops, i)
                 PROVE  KeyHolds(after, ops, i)
    OBVIOUS
  <2>2. index[i].kind = "obj"
    BY <2>1 DEF KeyHolds, Obj
  <2> QED
    BY <1>1, <1>3, <2>1, <2>2 DEF KeyHolds
<1> QED
  BY <1>2, <1>3, <1>4 DEF NodeHolds, after

\* An operation that is not later than what a node shows leaves it.
LEMMA NodeStays ==
  ASSUME NEW ops, NEW index, NEW i, NodeHolds(index, ops, i), NEW op,
         op.op = "ins_obj" /\ op.obj = i /\ index[i].kind = "obj" => ~Less(index[i].child, op.val)
  PROVE  NodeHolds(index, ops \cup {op}, i)
<1>1. PICK made \in ops :
        /\ made.op = "new" /\ made.id = i
        /\ \/ made.node.kind = "con" /\ index[i] = made.node
           \/ made.node.kind = "obj" /\ KeyHolds(index, ops, i)
  BY DEF NodeHolds
<1>2. KeyHolds(index, ops, i) => KeyHolds(index, ops \cup {op}, i)
  <2>1. SUFFICES ASSUME KeyHolds(index, ops, i)
                 PROVE  KeyHolds(index, ops \cup {op}, i)
    OBVIOUS
  <2>2. index[i].kind = "obj"
    BY <2>1 DEF KeyHolds, Obj
  <2> QED
    BY <2>1, <2>2 DEF KeyHolds
<1> QED
  BY <1>1, <1>2 DEF NodeHolds

\* A value for the root: the old one goes if it is earlier.
LEMMA SetRootHolds ==
  ASSUME NEW ops \in SUBSET Operation, NEW op \in Operation, op.op = "ins_val", Follows(op, ops),
         Backed(ops), NEW root \in Ids, NEW index, Holds(root, index, ops)
  PROVE  IF Less(root, op.val)
         THEN Holds(op.val, Collect(index, Tree(index, root)), ops \cup {op})
         ELSE Holds(root, index, ops \cup {op})
<1> DEFINE all == ops \cup {op}
           gone == Tree(index, root)
           after == Collect(index, gone)
           val == op.val
<1>1. /\ op \notin ops /\ Unique(ops) /\ val \in Timestamp /\ val \in Ids /\ val # Undefined
  BY OperationFields, IdFacts DEF Follows, OpIds, Unique
<1>2. UnusedStay(index, ops)
  BY DEF Holds
<1>3. val \in DOMAIN index /\ \A ref \in ops : ref.op # "new" => ref.val # val
  <2>1. op.op # "new"
    OBVIOUS
  <2> QED
    BY <1>1, <1>2, <2>1, MadeIsThere DEF Follows
<1>4. \A i \in DOMAIN index : NodeHolds(index, all, i)
  <2> SUFFICES ASSUME NEW i \in DOMAIN index
               PROVE  NodeHolds(index, all, i)
    OBVIOUS
  <2>1. op.op # "ins_obj" /\ NodeHolds(index, ops, i)
    BY DEF Holds
  <2> QED
    BY <2>1, NodeStays
<1>5. UnusedStay(index, all)
  BY <1>2 DEF UnusedStay, Used
<1>6. /\ \A x \in ops : x.op = "ins_val" => ~Less(root, x.val)
      /\ root # Undefined => root \in DOMAIN index /\ \E x \in ops : x.op = "ins_val" /\ x.val = root
  BY DEF Holds, RootHolds
<1>7. CASE ~Less(root, val)
  <2>1. RootHolds(root, index, all)
    BY <1>6, <1>7 DEF RootHolds
  <2> QED
    BY <1>4, <1>5, <1>7, <2>1 DEF Holds
<1>8. CASE Less(root, val)
  <2>1. \A i \in DOMAIN index : i \in Timestamp /\ i # Undefined
    BY NodesAreMade
  <2>2. gone = {root} \cup (IF root \in DOMAIN index /\ index[root].kind = "obj" THEN {index[root].child} ELSE {})
    BY DEF Tree
  <2>3. ASSUME NEW c \in gone, c # Undefined
        PROVE  \E ref \in ops : /\ ref.op # "new" /\ ref.val = c
                                /\ ref.op = "ins_obj" => ref.obj = root
    <3>1. CASE c = root
      BY <1>6, <2>3, <3>1
    <3>2. CASE c # root
      <4>1. root \in DOMAIN index /\ index[root].kind = "obj" /\ c = index[root].child
        BY <2>2, <3>2
      <4>2. \E ref \in ops : ref.op = "ins_obj" /\ ref.obj = root /\ ref.val = index[root].child
        BY <1>1, <2>3, <4>1, ChildFacts
      <4> QED
        BY <4>1, <4>2
    <3> QED
      BY <3>1, <3>2
  <2> HIDE DEF gone
  <2>4. val \notin gone
    BY <1>1, <1>3, <2>3
  <2>5. DOMAIN after = DOMAIN index \ gone
    BY DEF Collect
  <2>6. RootHolds(val, after, all)
    <3>1. ASSUME NEW x \in all, x.op = "ins_val"
          PROVE  ~Less(val, x.val)
      <4>1. x.val \in Ids
        BY <3>1, OperationFields, IdFacts
      <4>2. x = op \/ ~Less(root, x.val)
        BY <1>6, <3>1
      <4> QED
        BY <1>1, <1>8, <4>1, <4>2, LessFacts
    <3> QED
      BY <1>3, <2>4, <2>5, <3>1 DEF RootHolds
  <2>7. ASSUME NEW i \in DOMAIN index \ gone
        PROVE  NodeHolds(after, all, i)
    <3>1. ASSUME index[i].kind = "obj", index[i].child # Undefined
          PROVE  index[i].child \notin gone
      <4>1. PICK ref \in ops : ref.op = "ins_obj" /\ ref.obj = i /\ ref.val = index[i].child
        BY <1>1, <3>1, ChildFacts
      <4>2. ASSUME index[i].child \in gone
            PROVE  FALSE
        <5>1. PICK x \in ops : /\ x.op # "new" /\ x.val = index[i].child
                               /\ x.op = "ins_obj" => x.obj = root
          BY <2>3, <3>1, <4>2
        <5>2. x = ref
          BY <1>1, <4>1, <5>1, UsedOnce
        <5>3. i = root /\ root \in gone
          BY <2>2, <4>1, <5>1, <5>2
        <5> QED
          BY <5>3
      <4> QED
        BY <4>2
    <3>2. NodeHolds(index, all, i) /\ all \in SUBSET Operation
      BY <1>4
    <3> HIDE DEF all
    <3> QED
      BY <3>1, <3>2, CollectHolds DEF after
  <2>8. UnusedStay(after, all)
    <3> SUFFICES ASSUME NEW x \in all, x.op = "new"
                 PROVE  x.id \in DOMAIN after \/ Used(x, all)
      BY DEF UnusedStay
    <3>1. x \in ops /\ x.id # Undefined
      BY OperationFields, IdFacts
    <3>2. x.id \in gone => Used(x, all)
      BY <2>3, <3>1 DEF Used
    <3>3. x.id \in DOMAIN index \/ Used(x, all)
      BY <1>5 DEF UnusedStay
    <3> QED
      BY <2>5, <3>2, <3>3
  <2> HIDE DEF after, all, val
  <2>9. Holds(val, after, all)
    BY <2>5, <2>6, <2>7, <2>8 DEF Holds
  <2> QED
    BY <1>8, <2>9 DEF after, all, val, gone
<1> QED
  BY <1>7, <1>8

\* A value for the key of an object.
LEMMA SetKeyHolds ==
  ASSUME NEW ops \in SUBSET Operation, NEW op \in Operation, op.op = "ins_obj", Follows(op, ops),
         Backed(ops), NEW root \in Ids, NEW index, Holds(root, index, ops)
  PROVE  IF /\ op.obj \in DOMAIN index /\ index[op.obj].kind = "obj"
            /\ op.obj.time < op.val.time /\ Less(index[op.obj].child, op.val)
         THEN Holds(root, Collect(Put(index, op.obj, Obj(op.val)), Tree(index, index[op.obj].child)),
                    ops \cup {op})
         ELSE Holds(root, index, ops \cup {op})
<1> DEFINE all == ops \cup {op}
           val == op.val
           obj == op.obj
           old == index[obj].child
<1>1. /\ op \notin ops /\ Unique(ops) /\ val \in Timestamp /\ val \in Ids /\ val # Undefined
      /\ all \in SUBSET Operation
  BY OperationFields, IdFacts DEF Follows, OpIds, Unique
<1>2. UnusedStay(index, ops) /\ RootHolds(root, index, ops)
  BY DEF Holds
<1>3. val \in DOMAIN index /\ \A ref \in ops : ref.op # "new" => ref.val # val
  <2>1. op.op # "new"
    OBVIOUS
  <2> QED
    BY <1>1, <1>2, <2>1, MadeIsThere DEF Follows
<1>4. \A i \in DOMAIN index : i \in Timestamp /\ i # Undefined
  BY NodesAreMade
<1>5. obj = Undefined \/ obj.time < val.time
  BY DEF Follows, Backed
<1>6. UnusedStay(index, all)
  BY <1>2 DEF UnusedStay, Used
<1>7. RootHolds(root, index, all)
  BY <1>2 DEF RootHolds
<1>8. CASE ~(obj \in DOMAIN index /\ index[obj].kind = "obj" /\ Less(old, val))
  <2>1. ASSUME NEW i \in DOMAIN index
        PROVE  NodeHolds(index, all, i)
    <3>1. NodeHolds(index, ops, i)
      BY DEF Holds
    <3>2. obj = i /\ index[i].kind = "obj" => ~Less(index[i].child, val)
      BY <1>8
    <3> QED
      BY <3>1, <3>2, NodeStays
  <2>2. Holds(root, index, all)
    BY <1>6, <1>7, <2>1 DEF Holds
  <2> QED
    BY <1>8, <2>2
<1>9. CASE obj \in DOMAIN index /\ index[obj].kind = "obj" /\ Less(old, val)
  <2> DEFINE gone == {old}
             put == Put(index, obj, Obj(val))
             after == Collect(put, gone)
  <2>1. /\ old \in Ids
        /\ old # Undefined =>
             /\ old \in DOMAIN index /\ index[old].kind = "con"
             /\ \E ref \in ops : ref.op = "ins_obj" /\ ref.obj = obj /\ ref.val = old
        /\ \A x \in ops : x.op = "ins_obj" /\ x.obj = obj => ~Less(old, x.val)
    BY <1>1, <1>9, ChildFacts DEF KeyHolds
  <2>2. Tree(index, old) = gone
    BY <1>4, <2>1 DEF Tree
  <2>3. old # obj /\ old # val
    BY <1>1, <1>4, <1>9, <2>1, LessFacts
  <2> HIDE DEF old
  <2>4. /\ DOMAIN put = DOMAIN index /\ put[obj] = Obj(val)
        /\ \A i \in DOMAIN index \ {obj} : put[i] = index[i]
    BY <1>9 DEF Put
  <2> HIDE DEF put
  <2>5. DOMAIN after = DOMAIN index \ {old}
    BY <2>4 DEF Collect
  <2>6. RootHolds(root, after, all)
    <3>1. root # Undefined => root # old
      <4> SUFFICES ASSUME root # Undefined, root = old
                   PROVE  FALSE
        OBVIOUS
      <4>1. PICK x \in ops : x.op = "ins_val" /\ x.val = root
        BY <1>2 DEF RootHolds
      <4>2. PICK ref \in ops : ref.op = "ins_obj" /\ ref.val = old
        BY <2>1
      <4>3. x = ref
        BY <1>1, <4>1, <4>2, UsedOnce
      <4> QED
        BY <4>1, <4>2, <4>3
    <3> QED
      BY <1>7, <2>5, <3>1 DEF RootHolds
  <2>7. NodeHolds(put, all, obj)
    <3>1. PICK made \in ops : made.op = "new" /\ made.id = obj /\ made.node.kind = "obj"
      <4>1. NodeHolds(index, ops, obj)
        BY <1>9 DEF Holds
      <4>2. PICK made \in ops :
              /\ made.op = "new" /\ made.id = obj
              /\ \/ made.node.kind = "con" /\ index[obj] = made.node
                 \/ made.node.kind = "obj" /\ KeyHolds(index, ops, obj)
        BY <4>1 DEF NodeHolds
      <4> QED
        BY <1>9, <4>2
    <3>2. put[obj].child = val
      BY <2>4 DEF Obj
    <3>3. ASSUME NEW x \in all, x.op = "ins_obj", x.obj = obj
          PROVE  ~Less(val, x.val)
      <4>1. x.val \in Ids
        BY <3>3, OperationFields, IdFacts
      <4>2. x = op \/ ~Less(old, x.val)
        BY <2>1, <3>3
      <4> QED
        BY <1>1, <1>9, <2>1, <4>1, <4>2, LessFacts
    <3>4. KeyHolds(put, all, obj)
      BY <1>3, <2>4, <3>2, <3>3 DEF KeyHolds
    <3> QED
      BY <3>1, <3>4 DEF NodeHolds
  <2>8. ASSUME NEW i \in DOMAIN index, i # obj
        PROVE  NodeHolds(put, all, i)
    <3>1. NodeHolds(index, ops, i)
      BY DEF Holds
    <3>2. NodeHolds(index, all, i)
      BY <2>8, <3>1, NodeStays
    <3>3. KeyHolds(index, all, i) => KeyHolds(put, all, i)
      BY <2>4, <2>8 DEF KeyHolds
    <3>4. put[i] = index[i]
      BY <2>4, <2>8
    <3> HIDE DEF all
    <3> QED
      BY <3>2, <3>3, <3>4 DEF NodeHolds
  <2>9. ASSUME NEW i \in DOMAIN index \ {old}
        PROVE  NodeHolds(after, all, i)
    <3>1. NodeHolds(put, all, i) /\ i \in DOMAIN put \ gone
      BY <2>4, <2>7, <2>8
    <3>2. ASSUME put[i].kind = "obj", put[i].child # Undefined
          PROVE  put[i].child # old
      <4>1. CASE i = obj
        BY <2>3, <2>4, <4>1 DEF Obj
      <4>2. CASE i # obj
        <5>1. put[i] = index[i]
          BY <2>4, <4>2
        <5>2. PICK x \in ops : x.op = "ins_obj" /\ x.obj = i /\ x.val = index[i].child
          BY <1>1, <3>2, <5>1, ChildFacts
        <5>3. ASSUME index[i].child = old
              PROVE  FALSE
          <6>1. PICK ref \in ops : ref.op = "ins_obj" /\ ref.obj = obj /\ ref.val = old
            BY <2>1, <3>2, <5>1, <5>3
          <6>2. x = ref
            BY <1>1, <5>2, <5>3, <6>1, UsedOnce
          <6> QED
            BY <4>2, <5>2, <6>1, <6>2
        <5> QED
          BY <5>1, <5>3
      <4> QED
        BY <4>1, <4>2
    <3> HIDE DEF all
    <3> QED
      BY <1>1, <3>1, <3>2, CollectHolds
  <2>10. UnusedStay(after, all)
    <3> SUFFICES ASSUME NEW x \in all, x.op = "new"
                 PROVE  x.id \in DOMAIN after \/ Used(x, all)
      BY DEF UnusedStay
    <3>1. x \in ops /\ x.id # Undefined
      BY OperationFields, IdFacts
    <3>2. x.id = old => Used(x, all)
      BY <2>1, <3>1 DEF Used
    <3>3. x.id \in DOMAIN index \/ Used(x, all)
      BY <1>6 DEF UnusedStay
    <3> QED
      BY <2>5, <3>2, <3>3
  <2> HIDE DEF after, all, val
  <2>11. Holds(root, after, all)
    BY <2>5, <2>6, <2>9, <2>10 DEF Holds
  <2>12. obj.time < op.val.time
    BY <1>4, <1>5, <1>9 DEF val
  <2> QED
    BY <1>9, <2>2, <2>11, <2>12 DEF after, all, val, put, old
<1> QED
  BY <1>8, <1>9

\* One operation of a patch.
LEMMA OperationHolds ==
  ASSUME NEW ops \in SUBSET Operation, NEW op \in Operation, Follows(op, ops), Backed(ops),
         NEW m, ModelOK(m), Holds(m.root, m.index, ops)
  PROVE  Holds(ApplyOperation(m, op).root, ApplyOperation(m, op).index, ops \cup {op})
<1> DEFINE after == CASE op.op = "new" -> Create(m, op)
                      [] op.op = "ins_val" -> SetRoot(m, op)
                      [] op.op = "ins_obj" -> SetKey(m, op)
           all == ops \cup {op}
           clock == Observe(m.clock, op.id, 1)
<1>1. /\ m = [clock |-> m.clock, root |-> m.root, index |-> m.index] /\ m.root \in Ids
      /\ op.op \in {"new", "ins_val", "ins_obj"}
  BY OperationFields DEF ModelOK
<1>2. ApplyOperation(m, op) = [after EXCEPT !.clock = clock]
  BY DEF ApplyOperation
<1>3. \E root, index : /\ after = [clock |-> m.clock, root |-> root, index |-> index]
                       /\ Holds(root, index, all)
  <2>1. CASE op.op = "new"
    <3>1. op.id \notin DOMAIN m.index /\ Holds(m.root, Put(m.index, op.id, op.node), all)
      BY <2>1, CreateHolds
    <3>2. after = [m EXCEPT !.index = Put(@, op.id, op.node)]
      BY <2>1, <3>1 DEF Create, Has
    <3> QED
      BY <1>1, <3>1, <3>2
  <2>2. CASE op.op = "ins_val"
    <3>1. IF Less(m.root, op.val)
          THEN Holds(op.val, Collect(m.index, Tree(m.index, m.root)), all)
          ELSE Holds(m.root, m.index, all)
      BY <1>1, <2>2, SetRootHolds
    <3>2. after = IF Less(m.root, op.val)
                  THEN [m EXCEPT !.root = op.val, !.index = Collect(@, Tree(@, m.root))] ELSE m
      BY <2>2 DEF SetRoot
    <3> HIDE DEF all, after
    <3> QED
      BY <1>1, <3>1, <3>2
  <2>3. CASE op.op = "ins_obj"
    <3> DEFINE obj == op.obj
               val == op.val
               old == m.index[obj].child
               index == Collect(Put(m.index, obj, Obj(val)), Tree(m.index, old))
               sets == /\ obj \in DOMAIN m.index /\ m.index[obj].kind = "obj"
                       /\ obj.time < val.time /\ Less(old, val)
    <3>1. IF sets THEN Holds(m.root, index, all) ELSE Holds(m.root, m.index, all)
      BY <1>1, <2>3, SetKeyHolds
    <3>2. after = IF sets THEN [m EXCEPT !.index = index] ELSE m
      BY <2>3 DEF SetKey, IsObj, Has
    <3> HIDE DEF all, after, sets, index
    <3> QED
      BY <1>1, <3>1, <3>2
  <2> QED
    BY <1>1, <2>1, <2>2, <2>3
<1> HIDE DEF after, clock, all
<1>4. PICK root, index : /\ after = [clock |-> m.clock, root |-> root, index |-> index]
                         /\ Holds(root, index, all)
  BY <1>3
<1>5. ApplyOperation(m, op).root = root /\ ApplyOperation(m, op).index = index
  BY <1>2, <1>4
<1> QED
  BY <1>4, <1>5 DEF all

\* What two sets of operations rest on.
LEMMA BackedTogether ==
  ASSUME NEW a, NEW b, Backed(a), Backed(b)
  PROVE  Backed(a \cup b)
BY DEF Backed

\* The times of consecutive timestamps.
LEMMA NumberedTimes ==
  ASSUME NEW ops \in Seq(Operation), NEW id \in Timestamp, Numbered(ops, id)
  PROVE  \A k \in 1 .. Len(ops) :
           /\ ops[k].id = Ts(id.sid, id.time + k - 1)
           /\ ops[k].id.sid = id.sid /\ ops[k].id.time = id.time + k - 1
<1>1. \A t, n : Ts(t, n).time = n /\ Ts(t, n).sid = t
  BY DEF Ts
<1>2. DOMAIN ops = 1 .. Len(ops)
  OBVIOUS
<1> QED
  BY <1>1, <1>2 DEF Numbered

\* The first operations of a patch rest on themselves.
LEMMA PrefixIsBacked ==
  ASSUME NEW ops \in Seq(Operation), NEW id \in Timestamp, Numbered(ops, id),
         Backed(ToSet(ops)), NEW n \in 0 .. Len(ops)
  PROVE  Backed({ops[j] : j \in 1 .. n})
<1> DEFINE first == {ops[j] : j \in 1 .. n}
           all == ToSet(ops)
<1>1. /\ Len(ops) \in Nat /\ DOMAIN ops = 1 .. Len(ops)
      /\ \A j \in 1 .. Len(ops) : ops[j] \in Operation /\ ops[j] \in all
      /\ all \in SUBSET Operation
      /\ first \subseteq all
      /\ Backed(all)
  BY DEF ToSet
<1>2. ASSUME NEW x \in first, NEW y \in all, y.id.time <= x.id.time
      PROVE  y \in first
  <2>1. PICK j \in 1 .. n : x = ops[j]
    OBVIOUS
  <2>2. PICK k \in 1 .. Len(ops) : y = ops[k]
    BY <1>1 DEF ToSet
  <2>3. x.id.time = id.time + j - 1 /\ y.id.time = id.time + k - 1
    <3>1. j \in 1 .. Len(ops)
      BY <1>1
    <3>2. ops[j].id.time = id.time + j - 1 /\ ops[k].id.time = id.time + k - 1
      BY <3>1, NumberedTimes
    <3> QED
      BY <2>1, <2>2, <3>2
  <2>4. k <= j
    BY <1>2, <2>3 DEF Timestamp
  <2> QED
    BY <2>2, <2>4
<1> HIDE DEF first, all
<1>3. ASSUME NEW op \in first, op.op = "ins_obj"
      PROVE  /\ op.id = At(op.val, 1)
             /\ op.obj = Undefined \/ op.obj.time < op.val.time
             /\ \E made \in first : made.id = op.val /\ Makes(made, "con")
  <2>1. op \in all /\ op.val \in Timestamp
    BY <1>1, <1>3, OperationFields
  <2>2. PICK made \in all : made.id = op.val /\ Makes(made, "con")
    BY <1>1, <1>3, <2>1 DEF Backed
  <2>3. op.id = At(op.val, 1) /\ (op.obj = Undefined \/ op.obj.time < op.val.time)
    BY <1>1, <1>3, <2>1 DEF Backed
  <2>4. made.id.time <= op.id.time
    <3>1. op.val.time \in Nat /\ At(op.val, 1).time = op.val.time + 1
      BY <2>1, AtFacts
    <3> QED
      BY <2>2, <2>3, <3>1
  <2> QED
    BY <1>2, <2>2, <2>3, <2>4
<1>4. ASSUME NEW op \in first, op.op = "ins_val"
      PROVE  \E made \in first :
               /\ made.id = op.val /\ made.op = "new"
               /\ \/ op.id = At(op.val, 1)
                  \/ /\ op.id = At(op.val, 3) /\ made.node.kind = "obj"
                     /\ \E next \in first : next.id = At(op.val, 1) /\ next.op = "new"
  <2>1. op \in all /\ op.val \in Timestamp
    BY <1>1, <1>4, OperationFields
  <2>2. PICK made \in all :
          /\ made.id = op.val /\ made.op = "new"
          /\ \/ op.id = At(op.val, 1)
             \/ /\ op.id = At(op.val, 3) /\ made.node.kind = "obj"
                /\ \E next \in all : next.id = At(op.val, 1) /\ next.op = "new"
    BY <1>1, <1>4, <2>1 DEF Backed
  <2>3. made \in first
    <3>1. /\ op.val.time \in Nat
          /\ At(op.val, 1).time = op.val.time + 1 /\ At(op.val, 3).time = op.val.time + 3
      BY <2>1, AtFacts
    <3>2. op.val.time <= op.id.time
      BY <2>2, <3>1
    <3>3. made.id.time <= op.id.time
      BY <2>2, <3>2
    <3> QED
      BY <1>2, <3>3
  <2>4. ASSUME NEW next \in all, next.id = At(op.val, 1), op.id = At(op.val, 3)
        PROVE  next \in first
    <3>1. /\ op.val.time \in Nat
          /\ At(op.val, 1).time = op.val.time + 1 /\ At(op.val, 3).time = op.val.time + 3
      BY <2>1, AtFacts
    <3>2. next.id.time <= op.id.time
      BY <2>4, <3>1
    <3> QED
      BY <1>2, <3>2
  <2> QED
    BY <2>2, <2>3, <2>4
<1>5. \A op \in first : Makes(op, "obj") => op.node = Obj(Undefined)
  BY <1>1 DEF Backed
<1> QED
  BY <1>3, <1>4, <1>5 DEF Backed, first

\* A whole patch, of new operations that rest on those before them.
LEMMA PatchHolds ==
  ASSUME NEW m, ModelOK(m), NEW old \in SUBSET Operation, Backed(old), Names(old, OpIds(old)),
         Holds(m.root, m.index, old),
         NEW ops \in Seq(Operation), NEW id \in Timestamp, Numbered(ops, id), Backed(ToSet(ops)),
         Unique(old \cup ToSet(ops)), \A op \in ToSet(ops) : op.id \notin OpIds(old),
         Names(ToSet(ops), OpIds(old \cup ToSet(ops)))
  PROVE  Holds(ApplyPatch(m, ops).root, ApplyPatch(m, ops).index, old \cup ToSet(ops))
<1> DEFINE first(k) == {ops[j] : j \in 1 .. k}
<1>1. PICK f : /\ f[0] = m
               /\ \A k \in 1 .. Len(ops) : f[k] = ApplyOperation(f[k - 1], ops[k])
               /\ ApplyPatch(m, ops) = f[Len(ops)]
  BY ApplyPatchIsDefined
<1>2. /\ Len(ops) \in Nat /\ DOMAIN ops = 1 .. Len(ops)
      /\ \A k \in 1 .. Len(ops) : ops[k] \in Operation /\ ops[k] \in ToSet(ops)
      /\ ToSet(ops) = first(Len(ops)) /\ first(0) = {}
      /\ \A k \in 0 .. Len(ops) : first(k) \in SUBSET Operation /\ first(k) \subseteq ToSet(ops)
      /\ \A k \in 1 .. Len(ops) : first(k) = first(k - 1) \cup {ops[k]}
  <2>1. \A k \in 1 .. Len(ops) : k - 1 \in Nat /\ 1 .. k = 1 .. k - 1 \cup {k}
    OBVIOUS
  <2> QED
    BY <2>1 DEF ToSet
<1>3. \A k \in 1 .. Len(ops) : ops[k].id = Ts(id.sid, id.time + k - 1) /\ ops[k].id.time = id.time + k - 1
  BY NumberedTimes
<1> HIDE DEF first
<1> DEFINE Good(k) == ModelOK(f[k]) /\ Holds(f[k].root, f[k].index, old \cup first(k))
           bad == {k \in 0 .. Len(ops) : ~Good(k)}
<1>4. Good(0)
  <2>1. old \cup first(0) = old
    BY <1>2
  <2> QED
    BY <1>1, <2>1
<1>5. ASSUME NEW k \in 1 .. Len(ops), Good(k - 1)
      PROVE  Good(k)
  <2> DEFINE before == old \cup first(k - 1)
             op == ops[k]
  <2>1. /\ op \in Operation /\ op \in ToSet(ops) /\ k - 1 \in 0 .. Len(ops)
        /\ before \in SUBSET Operation
        /\ old \cup first(k) = before \cup {op} /\ f[k] = ApplyOperation(f[k - 1], op)
        /\ before \cup {op} \subseteq old \cup ToSet(ops)
    BY <1>1, <1>2
  <2>2. Backed(before) /\ Backed(before \cup {op})
    <3>1. Backed(first(k - 1)) /\ Backed(first(k))
      BY <2>1, PrefixIsBacked DEF first
    <3> QED
      BY <2>1, <3>1, BackedTogether
  <2>3. op.id \notin OpIds(before)
    <3>1. ASSUME NEW j \in 1 .. k - 1
          PROVE  ops[j].id # op.id
      <4>1. ops[j].id.time = id.time + j - 1 /\ op.id.time = id.time + k - 1
        BY <1>3
      <4> QED
        BY <4>1 DEF Timestamp
    <3> QED
      BY <2>1, <3>1 DEF OpIds, first
  <2>4. Unique(before \cup {op})
    BY <2>1 DEF Unique
  <2>5. Names(before \cup {op}, OpIds(before))
    <3> SUFFICES ASSUME NEW x \in before \cup {op}, x.op = "ins_obj", x.obj # Undefined
                 PROVE  x.obj \in OpIds(before)
      BY DEF Names
    <3>1. CASE x \in old
      BY <3>1 DEF Names, OpIds
    <3>2. CASE x \notin old
      <4>1. x \in ToSet(ops) /\ x \in first(k)
        BY <1>2, <2>1, <3>2
      <4>2. x.obj \in OpIds(old \cup ToSet(ops))
        BY <4>1 DEF Names
      <4>3. PICK y \in old \cup ToSet(ops) : y.id = x.obj
        BY <4>2 DEF OpIds
      <4>4. CASE y \in old
        BY <4>3, <4>4 DEF OpIds
      <4>5. CASE y \in ToSet(ops)
        <5>1. PICK i \in 1 .. Len(ops) : y = ops[i]
          BY <1>2, <4>5 DEF first
        <5>2. PICK j \in 1 .. k : x = ops[j]
          BY <4>1 DEF first
        <5>3. x.id = At(x.val, 1) /\ x.obj.time < x.val.time /\ x.val \in Timestamp
          BY <4>1, <5>2, OperationFields, <2>1 DEF Backed
        <5>4. /\ x.id.time = x.val.time + 1 /\ x.val.time \in Nat
              /\ y.id.time = id.time + i - 1 /\ x.id.time = id.time + j - 1
          <6>1. x.val.time \in Nat /\ At(x.val, 1).time = x.val.time + 1
            BY <5>3, AtFacts
          <6>2. ops[i].id.time = id.time + i - 1 /\ ops[j].id.time = id.time + j - 1
            BY <1>2, <1>3
          <6> QED
            BY <5>1, <5>2, <5>3, <6>1, <6>2
        <5>5. i <= k - 1
          BY <4>3, <5>3, <5>4 DEF Timestamp
        <5> QED
          BY <4>3, <5>1, <5>5 DEF OpIds, first
      <4> QED
        BY <4>4, <4>5
    <3> QED
      BY <3>1, <3>2
  <2> HIDE DEF before, op
  <2>6. Follows(op, before)
    BY <2>2, <2>3, <2>4, <2>5 DEF Follows
  <2>7. ModelOK(f[k - 1]) /\ Holds(f[k - 1].root, f[k - 1].index, before)
    BY <1>5 DEF before
  <2>8. Holds(f[k].root, f[k].index, before \cup {op})
    BY <2>1, <2>2, <2>6, <2>7, OperationHolds
  <2>9. ModelOK(f[k])
    BY <2>1, <2>7, ApplyOperationObserves
  <2> QED
    BY <2>1, <2>8, <2>9
<1> HIDE DEF Good
<1>6. bad = {}
  <2> SUFFICES ASSUME bad # {} PROVE FALSE
    OBVIOUS
  <2>1. bad \subseteq Nat
    BY <1>2
  <2>2. PICK k \in bad : \A j \in bad : k <= j
    <3> HIDE DEF bad
    <3> QED
      BY <2>1, LeastNumber
  <2>3. k \in 1 .. Len(ops) /\ Good(k - 1)
    BY <1>2, <1>4, <2>2
  <2> QED
    BY <1>5, <2>2, <2>3
<1>7. Len(ops) \in 0 .. Len(ops)
  BY <1>2
<1> QED
  BY <1>1, <1>2, <1>6, <1>7 DEF Good

\* observe of one timestamp
LEMMA ObserveFacts ==
  ASSUME NEW clock, clock.time \in Nat, \A p \in Sids : clock.peers[p] \in Nat \cup {NoPeer},
         NEW id \in Timestamp, NEW after, after = Observe(clock, id, 1)
  PROVE  /\ after.sid = clock.sid
         /\ after.time \in Nat /\ clock.time <= after.time /\ id.time < after.time
         /\ \A p \in Sids : p # id.sid \/ p = clock.sid => after.peers[p] = clock.peers[p]
         /\ id.sid # clock.sid => /\ after.peers[id.sid] \in Nat
                                  /\ clock.peers[id.sid] <= after.peers[id.sid]
                                  /\ id.time <= after.peers[id.sid]
<1>1. id.sid \in Sids /\ id.time \in Nat
  BY DEF Timestamp
<1> DEFINE edge == id.time + 1 - 1
<1>2. /\ after.sid = clock.sid /\ after.time = Larger(clock.time, edge + 1)
      /\ \A p \in Sids : after.peers[p] = IF p = id.sid /\ p # clock.sid
                                          THEN Larger(clock.peers[p], edge) ELSE clock.peers[p]
  BY DEF Observe
<1>3. edge = id.time
  BY <1>1
<1> HIDE DEF edge
<1>4. after.time \in Nat /\ clock.time <= after.time /\ id.time < after.time
  BY <1>1, <1>2, <1>3 DEF Larger
<1>5. \A p \in Sids : p # id.sid \/ p = clock.sid => after.peers[p] = clock.peers[p]
  BY <1>2
<1>6. ASSUME id.sid # clock.sid
      PROVE  /\ after.peers[id.sid] \in Nat
             /\ clock.peers[id.sid] <= after.peers[id.sid]
             /\ id.time <= after.peers[id.sid]
  <2>1. after.peers[id.sid] = Larger(clock.peers[id.sid], id.time)
    BY <1>1, <1>2, <1>3, <1>6
  <2>2. clock.peers[id.sid] \in Nat \cup {NoPeer}
    BY <1>1
  <2> QED
    BY <1>1, <2>1, <2>2 DEF Larger, NoPeer
<1> QED
  BY <1>2, <1>4, <1>5, <1>6

\* A whole patch: the clock passes its timestamps, its author gets an entry.
LEMMA PatchClock ==
  ASSUME NEW m, ModelOK(m), \A p \in Sids : m.clock.peers[p] \in Nat \cup {NoPeer},
         NEW ops \in Seq(Operation), NEW id \in Timestamp, Numbered(ops, id),
         NEW after, after = ApplyPatch(m, ops).clock
  PROVE  /\ after.sid = m.clock.sid /\ m.clock.time <= after.time /\ after.time \in Nat
         /\ \A k \in 1 .. Len(ops) : ops[k].id.time < after.time
         /\ \A p \in Sids : p # id.sid \/ p = m.clock.sid => after.peers[p] = m.clock.peers[p]
         /\ \A p \in Sids : after.peers[p] \in Nat \cup {NoPeer}
         /\ id.sid # m.clock.sid =>
              \A k \in 1 .. Len(ops) : ops[k].id.time <= after.peers[id.sid]
<1>1. PICK f : /\ f[0] = m
               /\ \A k \in 1 .. Len(ops) : f[k] = ApplyOperation(f[k - 1], ops[k])
               /\ ApplyPatch(m, ops) = f[Len(ops)]
  BY ApplyPatchIsDefined
<1>2. /\ Len(ops) \in Nat /\ id.sid \in Sids
      /\ \A k \in 1 .. Len(ops) : /\ ops[k] \in Operation /\ ops[k].id.sid = id.sid
                                  /\ ops[k].id \in Timestamp /\ ops[k].id.time \in Nat
  <2>1. \A k \in 1 .. Len(ops) : ops[k] \in Operation /\ ops[k].id.sid = id.sid
    BY NumberedTimes
  <2> QED
    BY <2>1, OperationFields DEF Timestamp
<1> DEFINE Good(k) ==
             /\ ModelOK(f[k]) /\ f[k].clock.sid = m.clock.sid
             /\ m.clock.time <= f[k].clock.time /\ f[k].clock.time \in Nat
             /\ \A j \in 1 .. k : ops[j].id.time < f[k].clock.time
             /\ \A p \in Sids : p # id.sid \/ p = m.clock.sid => f[k].clock.peers[p] = m.clock.peers[p]
             /\ \A p \in Sids : f[k].clock.peers[p] \in Nat \cup {NoPeer}
             /\ id.sid # m.clock.sid => \A j \in 1 .. k : ops[j].id.time <= f[k].clock.peers[id.sid]
           bad == {k \in 0 .. Len(ops) : ~Good(k)}
<1>3. Good(0)
  BY <1>1 DEF ModelOK
<1>4. ASSUME NEW k \in 1 .. Len(ops), Good(k - 1)
      PROVE  Good(k)
  <2> DEFINE old == f[k - 1].clock
             new == f[k].clock
             t == ops[k].id
  <2>1. /\ k - 1 \in Nat /\ \A j \in 1 .. k : j = k \/ j \in 1 .. k - 1
        /\ \A j \in 1 .. k : j \in 1 .. Len(ops)
    BY <1>2
  <2>2. ModelOK(f[k]) /\ new = Observe(old, t, 1)
    BY <1>1, <1>2, <1>4, ApplyOperationObserves
  <2>3. t \in Timestamp /\ t.sid = id.sid /\ t.time \in Nat
    BY <1>2
  <2>4. /\ old.sid = m.clock.sid /\ m.clock.time <= old.time /\ old.time \in Nat
        /\ \A p \in Sids : old.peers[p] \in Nat \cup {NoPeer}
    BY <1>4
  <2> HIDE DEF old, new, t
  <2>5. /\ new.sid = old.sid
        /\ new.time \in Nat /\ old.time <= new.time /\ t.time < new.time
        /\ \A p \in Sids : p # t.sid \/ p = old.sid => new.peers[p] = old.peers[p]
        /\ t.sid # old.sid => /\ new.peers[t.sid] \in Nat
                              /\ old.peers[t.sid] <= new.peers[t.sid]
                              /\ t.time <= new.peers[t.sid]
    BY <2>2, <2>3, <2>4, ObserveFacts
  <2>6. m.clock.time \in Nat
    BY DEF ModelOK
  <2>7. m.clock.time <= new.time
    BY <2>4, <2>5, <2>6
  <2>8. ASSUME NEW j \in 1 .. k
        PROVE  ops[j].id.time < new.time
    <3>1. ops[j].id.time \in Nat
      BY <1>2, <2>1
    <3>2. j # k => ops[j].id.time < old.time
      BY <1>4, <2>1 DEF old
    <3> QED
      BY <2>4, <2>5, <3>1, <3>2 DEF t
  <2>9. \A p \in Sids : p # id.sid \/ p = m.clock.sid => new.peers[p] = m.clock.peers[p]
    BY <1>4, <2>3, <2>4, <2>5 DEF old
  <2>10. \A p \in Sids : new.peers[p] \in Nat \cup {NoPeer}
    BY <2>3, <2>4, <2>5
  <2>11. ASSUME id.sid # m.clock.sid, NEW j \in 1 .. k
         PROVE  ops[j].id.time <= new.peers[id.sid]
    <3>1. ops[j].id.time \in Nat /\ old.peers[id.sid] \in Nat \cup {NoPeer}
      BY <1>2, <2>1, <2>4
    <3>2. j # k => ops[j].id.time <= old.peers[id.sid]
      BY <1>4, <2>1, <2>11 DEF old
    <3>3. new.peers[id.sid] \in Nat /\ old.peers[id.sid] <= new.peers[id.sid] /\ t.time <= new.peers[id.sid]
      BY <2>3, <2>4, <2>5, <2>11
    <3> QED
      BY <3>1, <3>2, <3>3 DEF t, NoPeer
  <2>12. new.sid = m.clock.sid
    BY <2>4, <2>5
  <2> QED
    BY <2>2, <2>5, <2>7, <2>8, <2>9, <2>10, <2>11, <2>12 DEF new
<1> HIDE DEF Good
<1>5. bad = {}
  <2> SUFFICES ASSUME bad # {} PROVE FALSE
    OBVIOUS
  <2>1. bad \subseteq Nat
    BY <1>2
  <2>2. PICK k \in bad : \A j \in bad : k <= j
    <3> HIDE DEF bad
    <3> QED
      BY <2>1, LeastNumber
  <2>3. k \in 1 .. Len(ops) /\ Good(k - 1)
    BY <1>2, <1>3, <2>2
  <2> QED
    BY <1>4, <2>2, <2>3
<1>6. Len(ops) \in 0 .. Len(ops)
  BY <1>2
<1>7. Good(Len(ops)) /\ after = f[Len(ops)].clock
  BY <1>1, <1>5, <1>6
<1> QED
  BY <1>7 DEF Good
-----------------------------------------------------------------------------
(***************************************************************************)
(* What holds for pages that flush first and get each patch once.          *)
(***************************************************************************)
\* The patches a session sent or received, and all operations its document
\* took part in.
Got(s) == {patch \in wire : patch.n \in known[s]}
OpsOf(patches) == UNION {ToSet(patch.ops) : patch \in patches}
Ops(s) == OpsOf(Got(s)) \cup ToSet(Pending(s))

Author(patch) == patch.ops[1].id.sid

\* Whatever was made is used.
Whole(ops) == \A op \in ops : op.op = "new" => Used(op, ops)

\* The edits that wait, and all a document took part in.
EditsNamed(s) ==
  /\ Firsts(s) \subseteq OpIds(ToSet(Pending(s)))
  /\ edits[s] = (UNION {patch.edits : patch \in Got(s)}) \cup Firsts(s)

\* The clock is ahead of the operations, and so is every entry of a peer.
ClockAhead(clock, ops) ==
  /\ \A op \in ops : op.id.time < clock.time
  /\ \A p \in Sids : clock.peers[p] # NoPeer =>
       \A op \in ops : op.id.sid = p => op.id.time <= clock.peers[p]

\* The model of a session, among those that are open, that took part in `ops`.
TookPart(m, s, ops, sessions) ==
  /\ m.clock.sid = s /\ 1 <= m.clock.time
  /\ \A p \in Sids : /\ m.clock.peers[p] \in Nat \cup {NoPeer}
                     /\ m.clock.peers[p] # NoPeer => p \in sessions \ {s}
  /\ ClockAhead(m.clock, ops) /\ \A op \in ops : 1 <= op.id.time
  /\ Holds(m.root, m.index, ops)
  /\ Names(ops, OpIds(ops))

SessionOK(s) ==
  /\ TookPart(model[s], s, Ops(s), open)
  /\ Backed(ToSet(Pending(s))) /\ Whole(ToSet(Pending(s)))
  /\ EditsNamed(s)

\* The timestamps from this one on are in no patch.
FirstUnsent(s) == model[s].clock.time - Len(Pending(s))

\* A patch that was sent holds whole edits; its author has it, and issues
\* later timestamps only.
PatchOK(patch) ==
  /\ patch.n \in 1 .. Cardinality(wire)
  /\ patch.ops # << >> /\ Numbered(patch.ops, patch.ops[1].id)
  /\ Backed(ToSet(patch.ops)) /\ Whole(ToSet(patch.ops))
  /\ Names(ToSet(patch.ops), OpIds(OpsOf({q \in wire : q.n \in patch.deps}) \cup ToSet(patch.ops)))
  /\ Author(patch) \in open /\ patch.n \in known[Author(patch)]
  /\ patch.edits # {} /\ patch.edits \subseteq OpIds(ToSet(patch.ops))
  /\ \A op \in ToSet(patch.ops) :
       /\ 1 <= op.id.time
       /\ op.id.time < FirstUnsent(Author(patch))

\* The patches of one author come one after the other.
InTurn(p, q) ==
  p.n \in q.deps /\ \A a \in ToSet(p.ops), b \in ToSet(q.ops) : a.id.time < b.id.time

WireOK ==
  /\ IsFiniteSet(wire)
  /\ \A patch \in wire : PatchOK(patch)
  /\ \A p, q \in wire : p.n = q.n => p = q
  /\ \A p, q \in wire : Author(p) = Author(q) => p = q \/ InTurn(p, q) \/ InTurn(q, p)

\* A session that has a patch has those it comes after.
KnownOK ==
  \A s \in Sids : /\ known[s] \subseteq 1 .. Cardinality(wire)
                  /\ \A patch \in Got(s) : patch.deps \subseteq known[s]

\* The inductive invariant.
PageInv == IInv /\ known = [s \in Sids |-> known[s]] /\ WireOK /\ KnownOK /\ \A s \in open : SessionOK(s)

\* The operations of a patch have one author.
LEMMA PatchFacts ==
  ASSUME IInv, NEW patch \in wire, PatchOK(patch)
  PROVE  /\ patch.ops \in Seq(Operation) /\ ToSet(patch.ops) \in SUBSET Operation
         /\ patch.ops[1].id \in Timestamp /\ Author(patch) \in Sids
         /\ \A op \in ToSet(patch.ops) : op.id.sid = Author(patch) /\ op.id.time \in Nat
         /\ Unique(ToSet(patch.ops))
         /\ ToSet(patch.ops) = {patch.ops[k] : k \in 1 .. Len(patch.ops)}
<1> DEFINE ops == patch.ops
           id == ops[1].id
<1>1. ops \in Seq(Operation) /\ ops # << >> /\ Numbered(ops, id)
  BY DEF IInv, TypeOK, PatchOK
<1> HIDE DEF ops
<1>2. /\ Len(ops) \in Nat /\ Len(ops) >= 1 /\ DOMAIN ops = 1 .. Len(ops)
      /\ \A k \in 1 .. Len(ops) : ops[k] \in Operation
  BY <1>1
<1>3. id \in Timestamp
  BY <1>2, OperationFields
<1> HIDE DEF id
<1>4. \A k \in 1 .. Len(ops) : ops[k].id.sid = id.sid /\ ops[k].id.time = id.time + k - 1
  BY <1>1, <1>3, NumberedTimes
<1>5. ToSet(ops) = {ops[k] : k \in 1 .. Len(ops)} /\ ToSet(ops) \in SUBSET Operation
  BY <1>2 DEF ToSet
<1>6. \A op \in ToSet(ops) : op.id.sid = id.sid /\ op.id.time \in Nat
  BY <1>2, <1>4, <1>5, OperationFields DEF Timestamp
<1>7. Unique(ToSet(ops))
  <2> SUFFICES ASSUME NEW j \in 1 .. Len(ops), NEW k \in 1 .. Len(ops), ops[j].id = ops[k].id
               PROVE  j = k
    BY <1>5 DEF Unique
  <2>1. id.time + j - 1 = id.time + k - 1 /\ id.time \in Nat
    BY <1>3, <1>4 DEF Timestamp
  <2> QED
    BY <2>1
<1>8. id.sid = Author(patch) /\ id.sid \in Sids
  BY <1>3 DEF Author, id, ops, Timestamp
<1> QED
  BY <1>1, <1>3, <1>5, <1>6, <1>7, <1>8 DEF ops, id

\* No two patches share a timestamp.
LEMMA SentOnce ==
  ASSUME IInv, WireOK, NEW p \in wire, NEW q \in wire,
         NEW a \in ToSet(p.ops), NEW b \in ToSet(q.ops), a.id = b.id
  PROVE  p = q /\ a = b
<1>1. PatchOK(p) /\ PatchOK(q)
  BY DEF WireOK
<1>2. a.id.sid = Author(p) /\ b.id.sid = Author(q) /\ a.id.time \in Nat /\ b.id.time \in Nat
  BY <1>1, PatchFacts
<1>3. p = q \/ InTurn(p, q) \/ InTurn(q, p)
  BY <1>2 DEF WireOK
<1>4. p = q
  BY <1>2, <1>3 DEF InTurn
<1> QED
  BY <1>1, <1>4, PatchFacts DEF Unique

\* What waits with careful pages holds the last timestamps of its session.
LEMMA CarefulHoldLast ==
  ASSUME IInv, Careful, NEW s \in Sids
  PROVE  HoldLast(Pending(s), s, model[s].clock.time)
BY DEF IInv, LastIssued, CarefulIsWhole

\* No patch holds those timestamps.
LEMMA PendingFacts ==
  ASSUME IInv, Careful, NEW s \in Sids
  PROVE  /\ Pending(s) \in Seq(Operation) /\ ToSet(Pending(s)) \in SUBSET Operation
         /\ model[s].clock.time \in Nat /\ Len(Pending(s)) \in Nat
         /\ \A op \in ToSet(Pending(s)) :
              /\ op.id.sid = s /\ op.id.time \in Nat
              /\ model[s].clock.time - Len(Pending(s)) <= op.id.time
              /\ op.id.time < model[s].clock.time
         /\ Unique(ToSet(Pending(s)))
<1> DEFINE ops == Pending(s)
           time == model[s].clock.time
<1>1. ops \in Seq(Operation)
  <2>1. local[s] \in Seq(Seq(Operation) \ {<< >>})
    BY DEF IInv, TypeOK
  <2> QED
    BY <2>1, PendingIsSeq DEF Pending
<1>2. HoldLast(ops, s, time) /\ time \in Nat
  BY CarefulHoldLast DEF IInv, TypeOK, ModelOK
<1> HIDE DEF ops, time
<1>3. /\ Len(ops) \in Nat /\ DOMAIN ops = 1 .. Len(ops)
      /\ \A k \in 1 .. Len(ops) : ops[k] \in Operation
  BY <1>1
<1>4. \A k \in 1 .. Len(ops) : ops[k].id.sid = s /\ ops[k].id.time = time - Len(ops) + k - 1
  <2>1. \A t, n : Ts(t, n).time = n /\ Ts(t, n).sid = t
    BY DEF Ts
  <2> QED
    BY <1>2, <1>3, <2>1 DEF HoldLast
<1>5. ToSet(ops) = {ops[k] : k \in 1 .. Len(ops)} /\ ToSet(ops) \in SUBSET Operation
  BY <1>3 DEF ToSet
<1>6. ASSUME NEW k \in 1 .. Len(ops)
      PROVE  /\ ops[k].id.sid = s /\ ops[k].id.time \in Nat
             /\ time - Len(ops) <= ops[k].id.time /\ ops[k].id.time < time
  <2>1. ops[k].id.time \in Nat
    BY <1>3, OperationFields DEF Timestamp
  <2> QED
    BY <1>2, <1>3, <1>4, <2>1
<1>7. Unique(ToSet(ops))
  <2> SUFFICES ASSUME NEW j \in 1 .. Len(ops), NEW k \in 1 .. Len(ops), ops[j].id = ops[k].id
               PROVE  j = k
    BY <1>5 DEF Unique
  <2>1. time - Len(ops) + j - 1 = time - Len(ops) + k - 1
    BY <1>4
  <2> QED
    BY <1>2, <1>3, <2>1
<1> QED
  BY <1>1, <1>2, <1>3, <1>5, <1>6, <1>7 DEF ops, time

\* An operation that waits has not been sent.
LEMMA WaitsOrSent ==
  ASSUME IInv, Careful, WireOK, NEW s \in Sids, NEW p \in wire,
         NEW a \in ToSet(p.ops), NEW b \in ToSet(Pending(s))
  PROVE  a.id # b.id
<1>1. PatchOK(p)
  BY DEF WireOK
<1>2. a.id.sid = Author(p) /\ a.id.time \in Nat
  BY <1>1, PatchFacts
<1>3. a.id.time < model[Author(p)].clock.time - Len(Pending(Author(p)))
  BY <1>1 DEF PatchOK, FirstUnsent
<1>4. /\ b.id.sid = s /\ b.id.time \in Nat
      /\ model[s].clock.time \in Nat /\ Len(Pending(s)) \in Nat
      /\ model[s].clock.time - Len(Pending(s)) <= b.id.time
  BY PendingFacts
<1>5. CASE Author(p) = s
  BY <1>2, <1>3, <1>4, <1>5
<1> QED
  BY <1>2, <1>4, <1>5

\* The operations a document took part in.
LEMMA OpsFacts ==
  ASSUME IInv, Careful, WireOK, NEW s \in open, s \in Sids, SessionOK(s)
  PROVE  /\ Ops(s) \in SUBSET Operation
         /\ Backed(Ops(s)) /\ Whole(Ops(s)) /\ Unique(Ops(s))
         /\ \A op \in Ops(s) : op.id.sid \in open
<1>1. \A p \in Got(s) : p \in wire /\ PatchOK(p)
  BY DEF Got, WireOK
<1>2. /\ ToSet(Pending(s)) \in SUBSET Operation /\ Unique(ToSet(Pending(s)))
      /\ \A op \in ToSet(Pending(s)) : op.id.sid \in open
  BY PendingFacts
<1>3. \A p \in Got(s) : /\ ToSet(p.ops) \in SUBSET Operation
                        /\ \A op \in ToSet(p.ops) : op.id.sid \in open
                        /\ Backed(ToSet(p.ops)) /\ Whole(ToSet(p.ops))
  <2> SUFFICES ASSUME NEW p \in Got(s)
               PROVE  /\ ToSet(p.ops) \in SUBSET Operation
                      /\ \A op \in ToSet(p.ops) : op.id.sid \in open
                      /\ Backed(ToSet(p.ops)) /\ Whole(ToSet(p.ops))
    OBVIOUS
  <2>1. p \in wire /\ PatchOK(p)
    BY <1>1
  <2>2. ToSet(p.ops) \in SUBSET Operation /\ \A op \in ToSet(p.ops) : op.id.sid = Author(p)
    BY <2>1, PatchFacts
  <2> QED
    BY <2>1, <2>2 DEF PatchOK
<1>4. Ops(s) \in SUBSET Operation /\ \A op \in Ops(s) : op.id.sid \in open
  BY <1>2, <1>3 DEF Ops, OpsOf
<1>5. Backed(Ops(s))
  <2>1. Backed(OpsOf(Got(s)))
    <3>1. \A p \in Got(s) : Backed(ToSet(p.ops)) /\ ToSet(p.ops) \subseteq OpsOf(Got(s))
      BY <1>3 DEF OpsOf
    <3>2. \A op \in OpsOf(Got(s)) : \E p \in Got(s) : op \in ToSet(p.ops)
      BY DEF OpsOf
    <3> QED
      BY <3>1, <3>2 DEF Backed
  <2>2. Backed(ToSet(Pending(s)))
    BY DEF SessionOK
  <2> QED
    BY <2>1, <2>2, BackedTogether DEF Ops
<1>6. Whole(Ops(s))
  <2> SUFFICES ASSUME NEW op \in Ops(s), op.op = "new"
               PROVE  Used(op, Ops(s))
    BY DEF Whole
  <2>1. CASE op \in ToSet(Pending(s))
    <3>1. Used(op, ToSet(Pending(s)))
      BY <2>1 DEF SessionOK, Whole
    <3> QED
      BY <3>1 DEF Used, Ops
  <2>2. CASE op \notin ToSet(Pending(s))
    <3>1. PICK p \in Got(s) : op \in ToSet(p.ops)
      BY <2>2 DEF Ops, OpsOf
    <3>2. Used(op, ToSet(p.ops))
      BY <1>3, <3>1 DEF Whole
    <3> QED
      BY <3>1, <3>2 DEF Used, Ops, OpsOf
  <2> QED
    BY <2>1, <2>2
<1>7. Unique(Ops(s))
  <2> SUFFICES ASSUME NEW a \in Ops(s), NEW b \in Ops(s), a.id = b.id
               PROVE  a = b
    BY DEF Unique
  <2>1. \A op \in Ops(s) : op \in ToSet(Pending(s)) \/ \E p \in Got(s) : p \in wire /\ op \in ToSet(p.ops)
    BY <1>1 DEF Ops, OpsOf
  <2> QED
    BY <1>2, <2>1, SentOnce, WaitsOrSent DEF Unique
<1> QED
  BY <1>4, <1>5, <1>6, <1>7
-----------------------------------------------------------------------------
(***************************************************************************)
(* Documents that took part in the same operations show the same.          *)
(***************************************************************************)
\* There is one latest value.
LEMMA OneIsLatest ==
  ASSUME NEW vals \in SUBSET Timestamp, \A v \in vals : 1 <= v.time,
         NEW a, a = Undefined \/ a \in vals, \A v \in vals : ~Less(a, v),
         NEW b, b = Undefined \/ b \in vals, \A v \in vals : ~Less(b, v)
  PROVE  a = b
<1>1. ASSUME NEW v \in vals
      PROVE  Less(Undefined, v)
  BY IdFacts
<1>2. CASE a = Undefined
  BY <1>1, <1>2
<1>3. CASE b = Undefined
  BY <1>1, <1>3
<1>4. CASE a \in vals /\ b \in vals
  BY <1>4, LessIsTotal
<1> QED
  BY <1>2, <1>3, <1>4

\* What operations use was made, later than the reserved time.
LEMMA ValuesAreMade ==
  ASSUME NEW ops \in SUBSET Operation, Backed(ops), \A op \in ops : 1 <= op.id.time
  PROVE  \A op \in ops : op.op # "new" => op.val \in Timestamp /\ 1 <= op.val.time
<1> SUFFICES ASSUME NEW op \in ops, op.op # "new"
             PROVE  op.val \in Timestamp /\ 1 <= op.val.time
  OBVIOUS
<1>1. op.val \in Timestamp /\ op.op \in {"ins_val", "ins_obj"}
  BY OperationFields
<1>2. \E made \in ops : made.id = op.val
  BY <1>1 DEF Backed
<1> QED
  BY <1>1, <1>2

\* The view is that of the operations.
LEMMA SameView ==
  ASSUME NEW ops \in SUBSET Operation, Backed(ops), Unique(ops), \A op \in ops : 1 <= op.id.time,
         NEW m, m.root \in Ids, Holds(m.root, m.index, ops),
         NEW n, n.root \in Ids, Holds(n.root, n.index, ops)
  PROVE  View(m) = View(n)
<1>1. m.root = n.root
  <2> DEFINE vals == {op.val : op \in {x \in ops : x.op = "ins_val"}}
  <2>1. vals \in SUBSET Timestamp /\ \A v \in vals : 1 <= v.time
    BY ValuesAreMade
  <2>2. /\ m.root = Undefined \/ m.root \in vals
        /\ \A v \in vals : ~Less(m.root, v)
        /\ n.root = Undefined \/ n.root \in vals
        /\ \A v \in vals : ~Less(n.root, v)
    BY DEF Holds, RootHolds
  <2> HIDE DEF vals
  <2> QED
    BY <2>1, <2>2, OneIsLatest
<1> DEFINE root == m.root
<1>2. CASE root = Undefined
  <2>1. Undefined \notin DOMAIN m.index /\ Undefined \notin DOMAIN n.index
    BY NodesAreMade
  <2> QED
    BY <1>1, <1>2, <2>1 DEF View, Has
<1>3. CASE root # Undefined
  <2>1. root \in DOMAIN m.index /\ root \in DOMAIN n.index
    BY <1>1, <1>3 DEF Holds, RootHolds
  <2>2. PICK made \in ops :
          /\ made.op = "new" /\ made.id = root
          /\ \/ made.node.kind = "con" /\ m.index[root] = made.node
             \/ made.node.kind = "obj" /\ KeyHolds(m.index, ops, root)
    BY <2>1 DEF Holds, NodeHolds
  <2>3. PICK other \in ops :
          /\ other.op = "new" /\ other.id = root
          /\ \/ other.node.kind = "con" /\ n.index[root] = other.node
             \/ other.node.kind = "obj" /\ KeyHolds(n.index, ops, root)
    BY <2>1 DEF Holds, NodeHolds
  <2>4. made = other
    BY <2>2, <2>3 DEF Unique
  <2>5. CASE made.node.kind = "con"
    <3>1. m.index[root] = n.index[root] /\ m.index[root].kind = "con"
      BY <2>2, <2>3, <2>4, <2>5
    <3> QED
      BY <1>1, <2>1, <3>1 DEF View, Has, IsObj
  <2>6. CASE made.node.kind # "con"
    <3> DEFINE c == m.index[root].child
               d == n.index[root].child
    <3>1. KeyHolds(m.index, ops, root) /\ KeyHolds(n.index, ops, root)
      BY <2>2, <2>3, <2>4, <2>6
    <3>2. /\ m.index[root] = Obj(c) /\ n.index[root] = Obj(d)
          /\ m.index[root].kind = "obj" /\ n.index[root].kind = "obj"
      BY <3>1 DEF KeyHolds, Obj
    <3>3. c = d
      <4> DEFINE vals == {op.val : op \in {x \in ops : x.op = "ins_obj" /\ x.obj = root}}
      <4>1. vals \in SUBSET Timestamp /\ \A v \in vals : 1 <= v.time
        BY ValuesAreMade
      <4>2. /\ c = Undefined \/ c \in vals
            /\ \A v \in vals : ~Less(c, v)
            /\ d = Undefined \/ d \in vals
            /\ \A v \in vals : ~Less(d, v)
        BY <3>1 DEF KeyHolds
      <4> HIDE DEF vals, c, d
      <4> QED
        BY <4>1, <4>2, OneIsLatest
    <3>4. View(m) = Obj(Shown(m, root)) /\ View(n) = Obj(Shown(n, root))
      BY <1>1, <2>1, <3>2 DEF View, Has, IsObj
    <3>5. Shown(m, root) = Shown(n, root)
      <4>1. CASE c = Undefined
        <5>1. Undefined \notin DOMAIN m.index /\ Undefined \notin DOMAIN n.index
          BY NodesAreMade
        <5> QED
          BY <3>3, <4>1, <5>1 DEF Shown, Has
      <4>2. CASE c # Undefined
        <5>1. /\ c \in DOMAIN m.index /\ m.index[c].kind = "con"
              /\ c \in DOMAIN n.index /\ n.index[c].kind = "con"
          BY <2>1, <3>2, <3>3, <4>2, ChildFacts
        <5>2. PICK x \in ops : x.op = "new" /\ x.id = c /\ m.index[c] = x.node
          <6>1. PICK x \in ops :
                  /\ x.op = "new" /\ x.id = c
                  /\ \/ x.node.kind = "con" /\ m.index[c] = x.node
                     \/ x.node.kind = "obj" /\ KeyHolds(m.index, ops, c)
            BY <5>1 DEF Holds, NodeHolds
          <6>2. ~KeyHolds(m.index, ops, c)
            <7>1. \A v : Obj(v).kind = "obj"
              BY DEF Obj
            <7> QED
              BY <5>1, <7>1 DEF KeyHolds
          <6> QED
            BY <6>1, <6>2
        <5>3. PICK y \in ops : y.op = "new" /\ y.id = c /\ n.index[c] = y.node
          <6>1. PICK y \in ops :
                  /\ y.op = "new" /\ y.id = c
                  /\ \/ y.node.kind = "con" /\ n.index[c] = y.node
                     \/ y.node.kind = "obj" /\ KeyHolds(n.index, ops, c)
            BY <5>1 DEF Holds, NodeHolds
          <6>2. ~KeyHolds(n.index, ops, c)
            <7>1. \A v : Obj(v).kind = "obj"
              BY DEF Obj
            <7> QED
              BY <5>1, <7>1 DEF KeyHolds
          <6> QED
            BY <6>1, <6>2
        <5>4. x = y
          BY <5>2, <5>3 DEF Unique
        <5> QED
          BY <3>3, <5>1, <5>2, <5>3, <5>4 DEF Shown, Has
      <4> QED
        BY <4>1, <4>2
    <3> QED
      BY <3>4, <3>5
  <2> QED
    BY <2>5, <2>6
<1> QED
  BY <1>2, <1>3

\* Documents with the same edits took part in the same operations.
LEMMA SameEdits ==
  ASSUME PageInv, Careful, NEW s \in open, NEW t \in open, edits[s] = edits[t]
  PROVE  Ops(s) = Ops(t)
<1>1. IInv /\ WireOK /\ open \subseteq Sids /\ \A u \in open : SessionOK(u)
  BY DEF PageInv, IInv, TypeOK
<1>2. ASSUME NEW u \in open
      PROVE  /\ Firsts(u) \subseteq OpIds(ToSet(Pending(u)))
             /\ \A e : e \in edits[u] <=> e \in Firsts(u) \/ \E q \in Got(u) : e \in q.edits
  <2>1. /\ Firsts(u) \subseteq OpIds(ToSet(Pending(u)))
        /\ edits[u] = (UNION {patch.edits : patch \in Got(u)}) \cup Firsts(u)
    BY <1>1 DEF SessionOK, EditsNamed
  <2> DEFINE sent == UNION {patch.edits : patch \in Got(u)}
  <2>3. edits[u] = sent \cup Firsts(u)
    BY <2>1
  <2>2. \A e : e \in sent <=> \E q \in Got(u) : e \in q.edits
    OBVIOUS
  <2> HIDE DEF sent
  <2> QED
    BY <2>1, <2>2, <2>3
<1>3. ASSUME NEW p \in wire
      PROVE  p.edits # {} /\ p.edits \subseteq OpIds(ToSet(p.ops))
  BY <1>1 DEF WireOK, PatchOK
<1>4. ASSUME NEW u \in open, NEW v \in open, edits[u] = edits[v]
      PROVE  Got(u) \subseteq Got(v)
  <2> SUFFICES ASSUME NEW p \in Got(u)
               PROVE  p \in Got(v)
    OBVIOUS
  <2>1. p \in wire
    BY DEF Got
  <2>2. PICK e \in p.edits : e \in OpIds(ToSet(p.ops))
    BY <1>3, <2>1
  <2>3. PICK a \in ToSet(p.ops) : a.id = e
    BY <2>2 DEF OpIds
  <2>4. e \in edits[v]
    BY <1>2, <1>4, <2>2
  <2>5. CASE e \in Firsts(v)
    <3>1. PICK b \in ToSet(Pending(v)) : b.id = e
      BY <1>2, <2>5 DEF OpIds
    <3> QED
      BY <1>1, <2>1, <2>3, <3>1, WaitsOrSent
  <2>6. CASE e \notin Firsts(v)
    <3>1. PICK q \in Got(v) : e \in q.edits
      BY <1>2, <2>4, <2>6
    <3>2. q \in wire
      BY DEF Got
    <3>3. PICK b \in ToSet(q.ops) : b.id = e
      BY <1>3, <3>1, <3>2 DEF OpIds
    <3>4. p = q
      BY <1>1, <2>1, <2>3, <3>2, <3>3, SentOnce
    <3> QED
      BY <3>4
  <2> QED
    BY <2>5, <2>6
<1>5. ASSUME NEW u \in open, NEW v \in open, edits[u] = edits[v], u # v
      PROVE  local[u] = << >>
  <2> SUFFICES ASSUME local[u] # << >>
               PROVE  FALSE
    OBVIOUS
  <2>1. local[u] \in Seq(Seq(Operation) \ {<< >>})
    BY <1>1 DEF IInv, TypeOK
  <2>2. PICK e : e \in Firsts(u)
    <3>1. 1 \in DOMAIN local[u]
      BY <2>1
    <3> QED
      BY <3>1 DEF Firsts, ToSet
  <2>3. PICK a \in ToSet(Pending(u)) : a.id = e
    BY <1>2, <2>2 DEF OpIds
  <2>4. e \in edits[v]
    BY <1>2, <1>5, <2>2
  <2>5. CASE e \in Firsts(v)
    <3>1. PICK b \in ToSet(Pending(v)) : b.id = e
      BY <1>2, <2>5 DEF OpIds
    <3>2. a.id.sid = u /\ b.id.sid = v
      BY <1>1, PendingFacts
    <3> QED
      BY <1>5, <2>3, <3>1, <3>2
  <2>6. CASE e \notin Firsts(v)
    <3>1. PICK q \in Got(v) : e \in q.edits
      BY <1>2, <2>4, <2>6
    <3>2. q \in wire
      BY DEF Got
    <3>3. PICK b \in ToSet(q.ops) : b.id = e
      BY <1>3, <3>1, <3>2 DEF OpIds
    <3> QED
      BY <1>1, <2>3, <3>2, <3>3, WaitsOrSent
  <2> QED
    BY <2>5, <2>6
<1>6. CASE s # t
  <2>1. Got(s) = Got(t)
    BY <1>4
  <2>2. Pending(s) = << >> /\ Pending(t) = << >>
    BY <1>5, <1>6, MergeOfNone DEF Pending
  <2> QED
    BY <2>1, <2>2 DEF Ops
<1> QED
  BY <1>6

\* So sessions with the same edits show the same document.
LEMMA SameEditsShowTheSame ==
  ASSUME PageInv, Careful
  PROVE  ViewsAgree
<1> SUFFICES ASSUME NEW s \in open, NEW t \in open, edits[s] = edits[t]
             PROVE  View(model[s]) = View(model[t])
  BY DEF ViewsAgree
<1>1. /\ IInv /\ WireOK /\ SessionOK(s) /\ SessionOK(t)
      /\ s \in Sids /\ t \in Sids /\ model[s].root \in Ids /\ model[t].root \in Ids
  BY DEF PageInv, IInv, TypeOK, ModelOK
<1>2. Ops(s) = Ops(t)
  BY SameEdits
<1>3. /\ Ops(s) \in SUBSET Operation /\ Backed(Ops(s)) /\ Unique(Ops(s))
      /\ \A op \in Ops(s) : 1 <= op.id.time
  BY <1>1, OpsFacts DEF SessionOK, TookPart
<1>4. /\ Holds(model[s].root, model[s].index, Ops(s))
      /\ Holds(model[t].root, model[t].index, Ops(s))
  BY <1>1, <1>2 DEF SessionOK, TookPart
<1> QED
  BY <1>1, <1>3, <1>4, SameView

-----------------------------------------------------------------------------
(***************************************************************************)
(* The operations of an edit have that form, and a session takes part in   *)
(* them, as in those of a peer.                                            *)
(***************************************************************************)
\* One more operation of a patch.
LEMMA MoreInSet ==
  ASSUME NEW S, NEW ops \in Seq(S), NEW op \in S
  PROVE  ToSet(Append(ops, op)) = ToSet(ops) \cup {op}
<1> DEFINE more == Append(ops, op)
           n == Len(ops)
<1>1. /\ n \in Nat /\ DOMAIN more = 1 .. n + 1 /\ DOMAIN ops = 1 .. n
      /\ \A k \in 1 .. n : more[k] = ops[k]
      /\ more[n + 1] = op
  BY AppendProperties, LenProperties
<1> HIDE DEF more, n
<1>2. ToSet(more) = ToSet(ops) \cup {op}
  BY <1>1 DEF ToSet
<1> QED
  BY <1>2 DEF more

\* The operations that set the root rest on themselves.
LEMMA SetRootShape ==
  ASSUME NEW id \in Timestamp, NEW json \in Json, NEW ids
  PROVE  /\ Backed(ToSet(SetRootOps(id, json))) /\ Whole(ToSet(SetRootOps(id, json)))
         /\ Names(ToSet(SetRootOps(id, json)), ids \cup OpIds(ToSet(SetRootOps(id, json))))
<1>1. /\ id.time \in Nat /\ At(id, 1).time = id.time + 1
      /\ At(At(id, 1), 1) = At(id, 2)
  <2>1. At(id, 1) \in Timestamp /\ At(id, 1).sid = id.sid /\ At(id, 1).time = id.time + 1 /\ id.time \in Nat
    BY AtFacts, NextTimestamps
  <2>2. id.time + 1 + 1 = id.time + 2
    BY <2>1
  <2> QED
    BY <2>1, <2>2 DEF At
<1>2. ASSUME NEW ops \in Seq(Operation), BuildJson(id, json) = ops, Len(ops) \in Nat
      PROVE  ToSet(SetRootOps(id, json)) = ToSet(ops) \cup {InsVal(At(id, Len(ops)), id)}
  <2> DEFINE op == InsVal(At(id, Len(ops)), id)
  <2>1. op \in Operation
    BY <1>2, NextTimestamps DEF InsVal, Operation
  <2>2. SetRootOps(id, json) = Append(ops, op)
    BY <1>2 DEF SetRootOps
  <2> HIDE DEF op
  <2>3. ToSet(SetRootOps(id, json)) = ToSet(ops) \cup {op}
    BY <2>1, <2>2, MoreInSet
  <2> QED
    BY <2>3 DEF op
<1>7. BuildJson(id, json) \in Seq(Operation)
  BY BuildJsonIsNumbered
<1>8. \A x : ToSet(<<x>>) = {x} /\ Len(<<x>>) = 1
  BY DEF ToSet
<1>3. CASE json.kind = "con"
  <2> DEFINE x == NewCon(id, json.value)
             y == InsVal(At(id, 1), id)
  <2>1. ToSet(SetRootOps(id, json)) = {x, y}
    <3>1. BuildJson(id, json) = <<x>>
      BY <1>3 DEF BuildJson
    <3> HIDE DEF x
    <3> QED
      BY <1>2, <1>7, <1>8, <3>1
  <2>2. /\ x.op = "new" /\ x.id = id /\ x.node.kind = "con"
        /\ y.op = "ins_val" /\ y.id = At(id, 1) /\ y.val = id
    BY DEF NewCon, InsVal, Con
  <2> HIDE DEF x, y
  <2>3. Backed({x, y}) /\ Whole({x, y}) /\ Names({x, y}, ids \cup OpIds({x, y}))
    BY <2>2 DEF Backed, Whole, Names, Used, Makes
  <2> QED
    BY <2>1, <2>3
<1>4. CASE json.kind = "obj" /\ json.child = "undefined"
  <2> DEFINE x == NewObj(id)
             y == InsVal(At(id, 1), id)
  <2>1. ToSet(SetRootOps(id, json)) = {x, y}
    <3>1. BuildJson(id, json) = <<x>>
      BY <1>4 DEF BuildJson
    <3> HIDE DEF x
    <3> QED
      BY <1>2, <1>7, <1>8, <3>1
  <2>2. /\ x.op = "new" /\ x.id = id /\ x.node = Obj(Undefined)
        /\ y.op = "ins_val" /\ y.id = At(id, 1) /\ y.val = id
    BY DEF NewObj, InsVal
  <2> HIDE DEF x, y
  <2>3. Backed({x, y}) /\ Whole({x, y}) /\ Names({x, y}, ids \cup OpIds({x, y}))
    BY <2>2 DEF Backed, Whole, Names, Used, Makes, Obj
  <2> QED
    BY <2>1, <2>3
<1>5. CASE json.kind = "obj" /\ json.child # "undefined"
  <2> DEFINE x == NewObj(id)
             y == NewCon(At(id, 1), json.child)
             z == InsObj(At(id, 2), id, At(id, 1))
             w == InsVal(At(id, 3), id)
             all == {x, y, z, w}
  <2>1. ToSet(SetRootOps(id, json)) = all
    <3>1. BuildJson(id, json) = <<x, y, z>>
      BY <1>5 DEF BuildJson
    <3> HIDE DEF x, y, z
    <3>2. ToSet(<<x, y, z>>) = {x, y, z} /\ Len(<<x, y, z>>) = 3
      BY DEF ToSet
    <3> QED
      BY <1>2, <1>7, <3>1, <3>2
  <2>2. /\ x.op = "new" /\ x.id = id /\ x.node = Obj(Undefined)
        /\ y.op = "new" /\ y.id = At(id, 1) /\ y.node.kind = "con"
        /\ z.op = "ins_obj" /\ z.id = At(id, 2) /\ z.obj = id /\ z.val = At(id, 1)
        /\ w.op = "ins_val" /\ w.id = At(id, 3) /\ w.val = id
    BY DEF NewObj, NewCon, InsObj, InsVal, Con
  <2>3. x.node.kind = "obj" /\ z.id = At(z.val, 1) /\ z.obj.time < z.val.time
    BY <1>1, <2>2 DEF Obj
  <2> HIDE DEF x, y, z, w
  <2>4. /\ x \in all /\ y \in all /\ z \in all /\ w \in all
        /\ \A op \in all : op = x \/ op = y \/ op = z \/ op = w
    OBVIOUS
  <2> HIDE DEF all
  <2>5. Backed(all)
    <3>1. \A op \in all : Makes(op, "obj") => op.node = Obj(Undefined)
      BY <2>2, <2>4 DEF Makes
    <3>2. ASSUME NEW op \in all, op.op = "ins_obj"
          PROVE  op = z
      BY <2>2, <2>4, <3>2
    <3>3. ASSUME NEW op \in all, op.op = "ins_val"
          PROVE  op = w
      BY <2>2, <2>4, <3>3
    <3>4. y.id = z.val /\ Makes(y, "con")
      BY <2>2 DEF Makes
    <3>5. x.id = w.val /\ w.id = At(w.val, 3) /\ y.id = At(w.val, 1)
      BY <2>2
    <3> QED
      BY <2>2, <2>3, <2>4, <3>1, <3>2, <3>3, <3>4, <3>5 DEF Backed
  <2>6. Whole(all)
    <3>1. Used(x, all) /\ Used(y, all)
      BY <2>2, <2>4 DEF Used
    <3> QED
      BY <2>2, <2>4, <3>1 DEF Whole
  <2>7. Names(all, ids \cup OpIds(all))
    BY <2>2, <2>4 DEF Names, OpIds
  <2> QED
    BY <2>1, <2>5, <2>6, <2>7
<1>6. json.kind = "con" \/ json.kind = "obj"
  BY DEF Json, Con, Obj
<1> QED
  BY <1>3, <1>4, <1>5, <1>6

\* So do those that set a key of an object that was made before.
LEMMA SetKeyShape ==
  ASSUME NEW id \in Timestamp, NEW obj, obj = Undefined \/ obj.time < id.time, NEW value,
         NEW ids, obj = Undefined \/ obj \in ids
  PROVE  /\ Backed(ToSet(SetKeyOps(id, obj, value))) /\ Whole(ToSet(SetKeyOps(id, obj, value)))
         /\ Names(ToSet(SetKeyOps(id, obj, value)), ids)
<1> DEFINE x == NewCon(id, value)
           y == InsObj(At(id, 1), obj, id)
<1>1. ToSet(SetKeyOps(id, obj, value)) = {x, y}
  <2>1. SetKeyOps(id, obj, value) = <<x, y>>
    BY DEF SetKeyOps
  <2> HIDE DEF x, y
  <2> QED
    BY <2>1 DEF ToSet
<1>2. /\ x.op = "new" /\ x.id = id /\ x.node.kind = "con"
      /\ y.op = "ins_obj" /\ y.id = At(id, 1) /\ y.val = id /\ y.obj = obj
  BY DEF NewCon, InsObj, Con
<1> HIDE DEF x, y
<1>3. Backed({x, y}) /\ Whole({x, y}) /\ Names({x, y}, ids)
  BY <1>2 DEF Backed, Whole, Names, Used, Makes
<1> QED
  BY <1>1, <1>3

\* The edits of a session.
EditOK(s, ops) ==
  /\ ops \in Seq(Operation) /\ Numbered(ops, NextTs(s))
  /\ Backed(ToSet(ops)) /\ Whole(ToSet(ops)) /\ Names(ToSet(ops), OpIds(Ops(s) \cup ToSet(ops)))

\* The next timestamp is that of the clock; the root is an earlier one.
LEMMA RootIsEarlier ==
  ASSUME IInv, Careful, WireOK, NEW s \in open, SessionOK(s)
  PROVE  /\ s \in Sids /\ ModelOK(model[s]) /\ NextTs(s) \in Timestamp
         /\ NextTs(s).sid = s /\ NextTs(s).time = model[s].clock.time
         /\ model[s].root \in Ids
         /\ \/ model[s].root = Undefined
            \/ /\ model[s].root.time < NextTs(s).time
               /\ model[s].root \in OpIds(Ops(s))
<1>1. s \in Sids /\ ModelOK(model[s])
  BY DEF IInv, TypeOK
<1>2. NextTs(s) \in Timestamp /\ NextTs(s).sid = s /\ NextTs(s).time = model[s].clock.time
  BY <1>1 DEF NextTs, Ts, Timestamp, ModelOK
<1>3. ASSUME model[s].root # Undefined
      PROVE  model[s].root.time < NextTs(s).time /\ model[s].root \in OpIds(Ops(s))
  <2>1. Ops(s) \in SUBSET Operation
    BY <1>1, OpsFacts
  <2>2. TookPart(model[s], s, Ops(s), open)
    BY DEF SessionOK
  <2>3. model[s].root \in OpIds(Ops(s))
    <3>1. Holds(model[s].root, model[s].index, Ops(s)) /\ model[s].root \in DOMAIN model[s].index
      BY <1>3, <2>2 DEF TookPart, Holds, RootHolds
    <3> QED
      BY <2>1, <3>1, NodesAreMade
  <2>4. PICK op \in Ops(s) : op.id = model[s].root
    BY <2>3 DEF OpIds
  <2>5. op.id.time < model[s].clock.time
    BY <2>2 DEF TookPart, ClockAhead
  <2> QED
    BY <1>2, <2>3, <2>4, <2>5
<1> QED
  BY <1>1, <1>2, <1>3 DEF ModelOK

\* What the api and the differ build are edits.
LEMMA EditsAreOK ==
  ASSUME IInv, Careful, WireOK, NEW s \in open, SessionOK(s)
  PROVE  /\ \A json \in Json : EditOK(s, SetRootOps(NextTs(s), json))
         /\ \A value \in Scalars \cup {"null", "undefined"} :
              EditOK(s, SetKeyOps(NextTs(s), model[s].root, value))
         /\ \A json \in Json : DiffOps(model[s], NextTs(s), json) # << >> =>
              EditOK(s, DiffOps(model[s], NextTs(s), json))
<1> DEFINE id == NextTs(s)
           root == model[s].root
<1>1. /\ id \in Timestamp /\ root \in Ids
      /\ root = Undefined \/ (root.time < id.time /\ root \in OpIds(Ops(s)))
  BY RootIsEarlier
<1>2. \A a, b : OpIds(a \cup b) = OpIds(a) \cup OpIds(b)
  BY DEF OpIds
<1> HIDE DEF id, root
<1>3. ASSUME NEW json \in Json
      PROVE  EditOK(s, SetRootOps(id, json))
  <2> DEFINE ops == SetRootOps(id, json)
  <2>1. ops \in Seq(Operation) /\ Numbered(ops, id)
    BY <1>1, SetRootIsNumbered
  <2>2. Backed(ToSet(ops)) /\ Whole(ToSet(ops)) /\ Names(ToSet(ops), OpIds(Ops(s)) \cup OpIds(ToSet(ops)))
    BY <1>1, SetRootShape
  <2> HIDE DEF ops
  <2> QED
    BY <1>2, <2>1, <2>2 DEF EditOK, id, ops
<1>4. ASSUME NEW value \in Scalars \cup {"null", "undefined"}
      PROVE  EditOK(s, SetKeyOps(id, root, value))
  <2> DEFINE ops == SetKeyOps(id, root, value)
  <2>1. ops \in Seq(Operation) /\ Numbered(ops, id)
    BY <1>1, SetKeyIsNumbered
  <2>2. root = Undefined \/ root \in OpIds(Ops(s) \cup ToSet(ops))
    BY <1>1, <1>2
  <2>3. Backed(ToSet(ops)) /\ Whole(ToSet(ops)) /\ Names(ToSet(ops), OpIds(Ops(s) \cup ToSet(ops)))
    BY <1>1, <2>2, SetKeyShape
  <2> HIDE DEF ops
  <2> QED
    BY <2>1, <2>3 DEF EditOK, id, ops
<1>5. ASSUME NEW json \in Json, DiffOps(model[s], id, json) # << >>
      PROVE  EditOK(s, DiffOps(model[s], id, json))
  <2>1. CASE ~Has(model[s], root)
    BY <1>3, <2>1 DEF DiffOps, root
  <2>2. CASE Has(model[s], root)
    <3>1. IsObj(model[s], root) /\ json.kind = "obj" /\ Shown(model[s], root) # json.child
      BY <1>5, <2>2 DEF DiffOps, root
    <3>2. json.child \in Scalars \cup {"null", "undefined"}
      BY <3>1 DEF Json, Con, Obj
    <3>3. DiffOps(model[s], id, json) = SetKeyOps(id, root, json.child)
      BY <2>2, <3>1 DEF DiffOps, root
    <3> QED
      BY <1>4, <3>2, <3>3
  <2> QED
    BY <2>1, <2>2
<1> QED
  BY <1>3, <1>4, <1>5 DEF id, root

\* A session takes part in the operations of a patch that are later than those
\* of its author it has.
LEMMA TakesPart ==
  ASSUME NEW sessions, NEW m, ModelOK(m), NEW s \in Sids,
         NEW old \in SUBSET Operation, Backed(old), Unique(old), TookPart(m, s, old, sessions),
         NEW ops \in Seq(Operation), NEW id \in Timestamp, Numbered(ops, id), ops # << >>,
         1 <= id.time, id.sid \in sessions,
         Backed(ToSet(ops)), Names(ToSet(ops), OpIds(old \cup ToSet(ops))),
         \A op \in old : op.id.sid = id.sid => op.id.time < id.time
  PROVE  /\ TookPart(ApplyPatch(m, ops), s, old \cup ToSet(ops), sessions)
         /\ m.clock.time <= ApplyPatch(m, ops).clock.time
<1> DEFINE all == old \cup ToSet(ops)
           after == ApplyPatch(m, ops)
<1>1. /\ Len(ops) \in Nat /\ ToSet(ops) = {ops[k] : k \in 1 .. Len(ops)}
      /\ \A k \in 1 .. Len(ops) : ops[k] \in Operation /\ ops[k] \in ToSet(ops)
      /\ id.time \in Nat /\ id.sid \in Sids
  BY DEF ToSet, Timestamp
<1>2. \A k \in 1 .. Len(ops) : ops[k].id.sid = id.sid /\ ops[k].id.time = id.time + k - 1
  BY NumberedTimes
<1>3. \A op \in ToSet(ops) : op.id.sid = id.sid /\ id.time <= op.id.time /\ op.id.time \in Nat
  <2> SUFFICES ASSUME NEW k \in 1 .. Len(ops)
               PROVE  /\ ops[k].id.sid = id.sid /\ id.time <= ops[k].id.time
                      /\ ops[k].id.time \in Nat
    BY <1>1
  <2>1. ops[k].id.sid = id.sid /\ ops[k].id.time = id.time + k - 1
    BY <1>2
  <2> QED
    BY <1>1, <2>1
<1>4. Unique(ToSet(ops))
  <2> SUFFICES ASSUME NEW j \in 1 .. Len(ops), NEW k \in 1 .. Len(ops), ops[j].id = ops[k].id
               PROVE  j = k
    BY <1>1 DEF Unique
  <2>1. id.time + j - 1 = id.time + k - 1
    BY <1>2
  <2> QED
    BY <1>1, <2>1
<1>5. \A op \in old : op.id.time \in Nat
  BY OperationFields DEF Timestamp
<1>6. ASSUME NEW a \in old, NEW b \in ToSet(ops)
      PROVE  a.id # b.id
  BY <1>1, <1>3, <1>5
<1>7. Unique(all)
  BY <1>4, <1>6 DEF Unique
<1>8. /\ m.clock.sid = s /\ 1 <= m.clock.time /\ m.clock.time \in Nat
      /\ \A p \in Sids : /\ m.clock.peers[p] \in Nat \cup {NoPeer}
                         /\ m.clock.peers[p] # NoPeer => p \in sessions \ {s}
      /\ ClockAhead(m.clock, old) /\ \A op \in old : 1 <= op.id.time
      /\ Holds(m.root, m.index, old) /\ Names(old, OpIds(old))
  BY DEF TookPart, ModelOK
<1>9. Holds(after.root, after.index, all)
  <2>1. \A op \in ToSet(ops) : op.id \notin OpIds(old)
    BY <1>6 DEF OpIds
  <2> QED
    BY <1>7, <1>8, <2>1, PatchHolds
<1>10. Names(all, OpIds(all))
  <2>1. OpIds(old) \subseteq OpIds(all)
    BY DEF OpIds
  <2> HIDE DEF after
  <2> QED
    BY <1>8, <2>1 DEF Names
<1> DEFINE new == after.clock
<1>11. /\ new.sid = s /\ m.clock.time <= new.time /\ new.time \in Nat
       /\ \A k \in 1 .. Len(ops) : ops[k].id.time < new.time
       /\ \A p \in Sids : p # id.sid \/ p = s => new.peers[p] = m.clock.peers[p]
       /\ \A p \in Sids : new.peers[p] \in Nat \cup {NoPeer}
       /\ id.sid # s => \A k \in 1 .. Len(ops) : ops[k].id.time <= new.peers[id.sid]
  BY <1>8, PatchClock
<1> HIDE DEF new
<1>12. ASSUME NEW p \in Sids, new.peers[p] # NoPeer
       PROVE  /\ p \in sessions \ {s}
              /\ \A op \in all : op.id.sid = p => op.id.time <= new.peers[p]
  <2>1. p # s
    BY <1>8, <1>11, <1>12
  <2>2. CASE p # id.sid
    <3>1. new.peers[p] = m.clock.peers[p]
      BY <1>11, <2>2
    <3> QED
      BY <1>3, <1>8, <1>12, <2>1, <2>2, <3>1 DEF ClockAhead
  <2>3. CASE p = id.sid
    <3>1. \A op \in ToSet(ops) : op.id.time <= new.peers[p]
      BY <1>1, <1>11, <2>1, <2>3
    <3>2. ops[1] \in ToSet(ops) /\ ops[1].id.time = id.time
      <4>1. 1 \in 1 .. Len(ops) /\ id.time + 1 - 1 = id.time
        BY <1>1
      <4> QED
        BY <1>1, <1>2, <4>1
    <3>3. id.time <= new.peers[p] /\ new.peers[p] \in Nat
      BY <1>1, <1>11, <3>1, <3>2 DEF NoPeer
    <3>4. ASSUME NEW op \in old, op.id.sid = p
          PROVE  op.id.time <= new.peers[p]
      <4>1. op.id.time < id.time /\ op.id.time \in Nat
        BY <1>5, <2>3, <3>4
      <4> QED
        BY <1>1, <3>3, <4>1
    <3> QED
      BY <2>1, <2>3, <3>1, <3>4
  <2> QED
    BY <2>2, <2>3
<1>13. ASSUME NEW op \in all
       PROVE  op.id.time < new.time /\ 1 <= op.id.time
  <2>1. CASE op \in old
    <3>1. op.id.time < m.clock.time /\ op.id.time \in Nat /\ 1 <= op.id.time
      BY <1>5, <1>8, <2>1 DEF ClockAhead
    <3> QED
      BY <1>8, <1>11, <3>1
  <2>2. CASE op \in ToSet(ops)
    <3>1. op.id.time < new.time
      BY <1>1, <1>11, <2>2
    <3>2. id.time <= op.id.time /\ op.id.time \in Nat
      BY <1>3, <2>2
    <3> QED
      BY <1>1, <3>1, <3>2
  <2> QED
    BY <2>1, <2>2
<1>14. 1 <= new.time
  BY <1>8, <1>11
<1>15. ClockAhead(new, all)
  BY <1>12, <1>13 DEF ClockAhead
<1> HIDE DEF all, after
<1> QED
  BY <1>9, <1>10, <1>11, <1>12, <1>13, <1>14, <1>15 DEF TookPart, new, all, after
-----------------------------------------------------------------------------
(***************************************************************************)
(* A snapshot: no timestamp it writes is ahead of the entry of its         *)
(* session, so every id comes back.                                        *)
(***************************************************************************)
\* The root, and the value of its key, are what a snapshot keeps.
LEMMA KeptFacts ==
  ASSUME NEW m, NEW ops \in SUBSET Operation, Backed(ops), Unique(ops),
         Holds(m.root, m.index, ops)
  PROVE  /\ Kept(m) \subseteq DOMAIN m.index
         /\ m.root = Undefined => Kept(m) = {}
         /\ m.root # Undefined =>
              /\ m.root \in Kept(m)
              /\ \A i \in Kept(m) : m.index[i].kind = "obj" =>
                   /\ i = m.root /\ m.index[i] = Obj(m.index[i].child)
                   /\ m.index[i].child = Undefined \/ m.index[i].child \in Kept(m)
                   /\ Has(m, m.index[i].child) <=> m.index[i].child # Undefined
<1>1. Undefined \notin DOMAIN m.index
  BY NodesAreMade
<1>2. m.root = Undefined \/ m.root \in DOMAIN m.index
  BY DEF Holds, RootHolds
<1>3. Kept(m) \subseteq DOMAIN m.index
  BY DEF Kept
<1>4. m.root = Undefined => Kept(m) = {}
  BY <1>1 DEF Kept, Has
<1>5. ASSUME m.root # Undefined
      PROVE  /\ m.root \in Kept(m)
             /\ \A i \in Kept(m) : m.index[i].kind = "obj" =>
                  /\ i = m.root /\ m.index[i] = Obj(m.index[i].child)
                  /\ m.index[i].child = Undefined \/ m.index[i].child \in Kept(m)
                  /\ Has(m, m.index[i].child) <=> m.index[i].child # Undefined
  <2> DEFINE root == m.root
  <2>1. root \in DOMAIN m.index /\ Kept(m) = Tree(m.index, root) \cap DOMAIN m.index
    BY <1>2, <1>5 DEF Kept, Has
  <2>2. root \in Kept(m)
    BY <2>1 DEF Tree
  <2>3. \A i \in Kept(m) : i = root \/ (m.index[root].kind = "obj" /\ i = m.index[root].child)
    BY <2>1 DEF Tree
  <2>4. m.index[root].kind = "obj" =>
          (m.index[root].child \in DOMAIN m.index => m.index[root].child \in Kept(m))
    BY <2>1 DEF Tree
  <2> HIDE DEF root
  <2>5. ASSUME m.index[root].kind = "obj"
        PROVE  /\ m.index[root] = Obj(m.index[root].child)
               /\ m.index[root].child # Undefined =>
                    /\ m.index[root].child \in DOMAIN m.index
                    /\ m.index[m.index[root].child].kind = "con"
    <3>1. /\ KeyHolds(m.index, ops, root)
          /\ m.index[root].child # Undefined =>
                    /\ m.index[root].child \in DOMAIN m.index
                    /\ m.index[m.index[root].child].kind = "con"
      BY <2>1, <2>5, ChildFacts
    <3> QED
      BY <3>1 DEF KeyHolds
  <2>6. ASSUME NEW i \in Kept(m), m.index[i].kind = "obj"
        PROVE  i = root
    <3> SUFFICES ASSUME i # root
                 PROVE  FALSE
      OBVIOUS
    <3>1. m.index[root].kind = "obj" /\ i = m.index[root].child /\ i \in DOMAIN m.index
      BY <1>3, <2>3
    <3>2. m.index[i].kind = "con"
      BY <1>1, <2>5, <3>1
    <3> QED
      BY <2>6, <3>2
  <2>7. ASSUME NEW i \in Kept(m), m.index[i].kind = "obj"
        PROVE  /\ i = root /\ m.index[i] = Obj(m.index[i].child)
               /\ m.index[i].child = Undefined \/ m.index[i].child \in Kept(m)
               /\ Has(m, m.index[i].child) <=> m.index[i].child # Undefined
    <3>1. i = root /\ m.index[root].kind = "obj"
      BY <2>6, <2>7
    <3> QED
      BY <1>1, <2>4, <2>5, <3>1 DEF Has
  <2> QED
    BY <2>2, <2>7 DEF root
<1> QED
  BY <1>3, <1>4, <1>5

\* A node that is kept is written under its own id.
LEMMA KeptIsEncoded ==
  ASSUME NEW m, ModelOK(m), NEW s \in Sids, NEW ops \in SUBSET Operation, NEW sessions,
         TookPart(m, s, ops, sessions)
  PROVE  /\ \A i \in DOMAIN m.index : Encoded(m.clock, i) = i /\ ~AheadOfEntry(m.clock, i)
         /\ \A p \in Sids : \A op \in ops : op.id.sid = p => op.id.time <= Entry(m.clock, p)
         /\ \A p \in Sids : Entry(m.clock, p) \in Nat
<1>1. /\ m.clock.sid = s /\ 1 <= m.clock.time /\ m.clock.time \in Nat
      /\ \A p \in Sids : m.clock.peers[p] \in Nat \cup {NoPeer}
      /\ ClockAhead(m.clock, ops) /\ Holds(m.root, m.index, ops)
  BY DEF TookPart, ModelOK
<1>2. \A p \in Sids : Entry(m.clock, p) \in Nat
  BY <1>1 DEF Entry
<1>3. ASSUME NEW p \in Sids, NEW op \in ops, op.id.sid = p
      PROVE  op.id.time <= Entry(m.clock, p)
  <2>1. op.id.time \in Nat /\ op.id.time < m.clock.time
    BY <1>1, OperationFields DEF ClockAhead, Timestamp
  <2>2. m.clock.peers[p] # NoPeer => op.id.time <= m.clock.peers[p]
    BY <1>1, <1>3 DEF ClockAhead
  <2>3. op.id.time <= m.clock.time - 1
    BY <1>1, <2>1
  <2> QED
    BY <2>2, <2>3 DEF Entry
<1>4. ASSUME NEW i \in DOMAIN m.index
      PROVE  Encoded(m.clock, i) = i /\ ~AheadOfEntry(m.clock, i)
  <2>1. i \in OpIds(ops)
    BY <1>1, NodesAreMade
  <2>2. PICK op \in ops : op.id = i
    BY <2>1 DEF OpIds
  <2>3. i.sid \in Sids
    BY <2>2, OperationFields DEF Timestamp
  <2>4. i.time <= Entry(m.clock, i.sid) /\ i.time \in Nat /\ Entry(m.clock, i.sid) \in Nat
    BY <1>2, <1>3, <2>2, <2>3, OperationFields DEF Timestamp
  <2>5. ~AheadOfEntry(m.clock, i)
    BY <2>4 DEF AheadOfEntry
  <2> QED
    BY <2>5 DEF Encoded
<1> QED
  BY <1>2, <1>3, <1>4

\* What is loaded.
LEMMA LoadedFields ==
  ASSUME NEW m, ModelOK(m), NEW s \in Sids, NEW sessions,
         NEW ops \in SUBSET Operation, Backed(ops), Unique(ops), TookPart(m, s, ops, sessions)
  PROVE  /\ Loaded(m).root = m.root
         /\ Loaded(m).index = Collect(m.index, DOMAIN m.index \ Kept(m))
         /\ Loaded(m).clock.sid = s /\ Loaded(m).clock.time = m.clock.time
         /\ \A p \in Sids : Loaded(m).clock.peers[p] =
              IF p \in {i.sid : i \in Kept(m)} \ {s} THEN Entry(m.clock, p) ELSE NoPeer
<1> DEFINE kept == Kept(m)
           id(i) == Encoded(m.clock, i)
           node(i) == IF IsObj(m, i) /\ Has(m, m.index[i].child)
                      THEN Obj(id(m.index[i].child))
                      ELSE IF IsObj(m, i) THEN Obj(Undefined) ELSE m.index[i]
           index == [j \in {id(i) : i \in kept} |-> node(CHOOSE i \in kept : id(i) = j)]
<1>1. /\ Holds(m.root, m.index, ops) /\ m.clock.sid = s
      /\ \A i \in DOMAIN m.index : id(i) = i /\ ~AheadOfEntry(m.clock, i)
  BY KeptIsEncoded DEF TookPart
<1>2. /\ kept \subseteq DOMAIN m.index
      /\ m.root = Undefined => kept = {}
      /\ m.root # Undefined => m.root \in kept
      /\ m.root # Undefined =>
           \A i \in kept : m.index[i].kind = "obj" =>
             /\ i = m.root /\ m.index[i] = Obj(m.index[i].child)
             /\ m.index[i].child = Undefined \/ m.index[i].child \in kept
             /\ Has(m, m.index[i].child) <=> m.index[i].child # Undefined
  BY <1>1, KeptFacts
<1>3. Loaded(m) =
        [clock |-> [NewClock(s, m.clock.time) EXCEPT
                      !.peers = [p \in Sids |-> IF p \in {i.sid : i \in kept} \ {s}
                                                THEN Entry(m.clock, p) ELSE NoPeer]],
         root |-> IF kept = {} THEN Undefined ELSE m.root, index |-> index]
  <2>1. Readable(m) = kept
    <3>1. m.root \in kept => ~AheadOfEntry(m.clock, m.root)
      BY <1>1, <1>2
    <3> QED
      BY <1>2, <3>1 DEF Readable
  <2> QED
    BY <1>1, <2>1 DEF Loaded
<1> HIDE DEF kept, id
<1>4. ASSUME NEW i \in kept
      PROVE  node(i) = m.index[i]
  <2>1. CASE m.index[i].kind = "obj"
    <3> DEFINE child == m.index[i].child
    <3>1. m.root # Undefined
      BY <1>2
    <3>2. /\ m.index[i] = Obj(child)
          /\ Has(m, child) <=> child # Undefined
          /\ child = Undefined \/ child \in kept
      BY <1>2, <2>1, <3>1
    <3>3. child \in kept => id(child) = child
      BY <1>1, <1>2
    <3>4. IsObj(m, i)
      BY <1>2, <2>1 DEF IsObj, Has
    <3> HIDE DEF child
    <3>5. node(i) = IF Has(m, child) THEN Obj(id(child)) ELSE Obj(Undefined)
      BY <3>4 DEF child
    <3> HIDE DEF node
    <3> QED
      BY <3>2, <3>3, <3>5
  <2>2. CASE m.index[i].kind # "obj"
    BY <2>2 DEF IsObj
  <2> QED
    BY <2>1, <2>2
<1> HIDE DEF node
<1>5. \A i \in kept : id(i) = i
  BY <1>1, <1>2
<1>6. index = Collect(m.index, DOMAIN m.index \ kept)
  <2>1. {id(i) : i \in kept} = kept
    BY <1>5
  <2>2. ASSUME NEW j \in kept
        PROVE  node(CHOOSE i \in kept : id(i) = j) = m.index[j]
    <3>1. (CHOOSE i \in kept : id(i) = j) = j
      BY <1>5
    <3> QED
      BY <1>4, <3>1
  <2>3. index = [j \in kept |-> m.index[j]]
    BY <2>1, <2>2
  <2>4. DOMAIN m.index \ (DOMAIN m.index \ kept) = kept
    BY <1>2
  <2> HIDE DEF index
  <2> QED
    BY <2>3, <2>4 DEF Collect
<1> HIDE DEF index
<1>7. Loaded(m).root = m.root
  <2>1. CASE m.root = Undefined
    BY <1>2, <1>3, <2>1
  <2>2. CASE m.root # Undefined
    BY <1>2, <1>3, <1>5, <2>2
  <2> QED
    BY <2>1, <2>2
<1>8. Loaded(m).index = index
  BY <1>3
<1>9. Loaded(m).clock = [sid |-> s, time |-> m.clock.time,
                         peers |-> [p \in Sids |-> IF p \in {i.sid : i \in kept} \ {s}
                                                   THEN Entry(m.clock, p) ELSE NoPeer]]
  <2> DEFINE peers == [p \in Sids |-> IF p \in {i.sid : i \in kept} \ {s}
                                      THEN Entry(m.clock, p) ELSE NoPeer]
  <2>1. Loaded(m).clock = [NewClock(s, m.clock.time) EXCEPT !.peers = peers]
    BY <1>3
  <2> HIDE DEF peers
  <2>2. Loaded(m).clock = [sid |-> s, time |-> m.clock.time, peers |-> peers]
    BY <2>1 DEF NewClock
  <2> QED
    BY <2>2 DEF peers
<1> QED
  BY <1>6, <1>7, <1>8, <1>9 DEF kept

\* The page that comes back has the document it saved.
LEMMA LoadedIsTheSame ==
  ASSUME NEW m, ModelOK(m), NEW s \in Sids, NEW sessions,
         NEW ops \in SUBSET Operation, Backed(ops), Unique(ops), Whole(ops),
         \A op \in ops : op.id.sid \in sessions, TookPart(m, s, ops, sessions)
  PROVE  /\ TookPart(Loaded(m), s, ops, sessions)
         /\ Loaded(m).root = m.root /\ Kept(Loaded(m)) = Kept(m)
         /\ View(Loaded(m)) = View(m)
<1> DEFINE n == Loaded(m)
           gone == DOMAIN m.index \ Kept(m)
<1>1. /\ n.root = m.root /\ n.index = Collect(m.index, gone)
      /\ n.clock.sid = s /\ n.clock.time = m.clock.time
      /\ \A p \in Sids : n.clock.peers[p] =
           IF p \in {i.sid : i \in Kept(m)} \ {s} THEN Entry(m.clock, p) ELSE NoPeer
  BY LoadedFields
<1> HIDE DEF n
<1>2. /\ 1 <= m.clock.time /\ ClockAhead(m.clock, ops) /\ \A op \in ops : 1 <= op.id.time
      /\ Holds(m.root, m.index, ops) /\ Names(ops, OpIds(ops))
  BY DEF TookPart
<1>3. /\ Kept(m) \subseteq DOMAIN m.index
      /\ m.root = Undefined => Kept(m) = {}
      /\ m.root # Undefined => m.root \in Kept(m)
      /\ m.root # Undefined =>
           \A i \in Kept(m) : m.index[i].kind = "obj" =>
             /\ i = m.root
             /\ m.index[i].child = Undefined \/ m.index[i].child \in Kept(m)
  BY <1>2, KeptFacts
<1>4. DOMAIN n.index = Kept(m) /\ \A i \in Kept(m) : n.index[i] = m.index[i]
  BY <1>1, <1>3 DEF Collect
<1>5. ASSUME NEW i \in Kept(m)
      PROVE  NodeHolds(n.index, ops, i)
  <2>1. i \in DOMAIN m.index \ gone /\ NodeHolds(m.index, ops, i)
    BY <1>2, <1>3 DEF Holds
  <2>2. m.index[i].kind = "obj" => m.index[i].child = Undefined \/ m.index[i].child \notin gone
    BY <1>3
  <2> HIDE DEF gone
  <2>3. NodeHolds(Collect(m.index, gone), ops, i)
    BY <2>1, <2>2, CollectHolds
  <2> QED
    BY <1>1, <2>3
<1>6. RootHolds(n.root, n.index, ops)
  BY <1>1, <1>2, <1>3, <1>4 DEF Holds, RootHolds
<1>7. UnusedStay(n.index, ops)
  BY DEF UnusedStay, Whole
<1>8. Holds(n.root, n.index, ops)
  BY <1>4, <1>5, <1>6, <1>7 DEF Holds
<1>9. /\ \A p \in Sids : \A op \in ops : op.id.sid = p => op.id.time <= Entry(m.clock, p)
      /\ \A p \in Sids : Entry(m.clock, p) \in Nat
  BY KeptIsEncoded
<1>10. ASSUME NEW p \in Sids
       PROVE  /\ n.clock.peers[p] \in Nat \cup {NoPeer}
              /\ n.clock.peers[p] # NoPeer => p \in sessions \ {s}
              /\ n.clock.peers[p] # NoPeer =>
                   \A op \in ops : op.id.sid = p => op.id.time <= n.clock.peers[p]
  <2>1. CASE p \in {i.sid : i \in Kept(m)} \ {s}
    <3>1. n.clock.peers[p] = Entry(m.clock, p)
      BY <1>1, <2>1
    <3>2. PICK i \in Kept(m) : p = i.sid
      BY <2>1
    <3>3. i \in OpIds(ops)
      BY <1>2, <1>3, NodesAreMade
    <3>4. p \in sessions \ {s}
      BY <2>1, <3>2, <3>3 DEF OpIds
    <3> QED
      BY <1>9, <3>1, <3>4
  <2>2. CASE p \notin {i.sid : i \in Kept(m)} \ {s}
    BY <1>1, <2>2
  <2> QED
    BY <2>1, <2>2
<1>11. ClockAhead(n.clock, ops)
  BY <1>1, <1>2, <1>10 DEF ClockAhead
<1>12. TookPart(n, s, ops, sessions)
  BY <1>1, <1>2, <1>8, <1>10, <1>11 DEF TookPart
<1>13. Kept(n) = Kept(m)
  <2>1. CASE m.root = Undefined
    BY <1>1, <1>3, <1>4, <2>1 DEF Kept, Has
  <2>2. CASE m.root # Undefined
    <3>1. m.root \in Kept(m) /\ n.index[m.root] = m.index[m.root] /\ m.root \in DOMAIN m.index
      BY <1>3, <1>4, <2>2
    <3>2. Tree(n.index, m.root) = Tree(m.index, m.root)
      BY <1>4, <3>1 DEF Tree
    <3>3. Kept(m) = Tree(m.index, m.root) \cap DOMAIN m.index
      BY <3>1 DEF Kept, Has
    <3>4. Kept(n) = Tree(m.index, m.root) \cap Kept(m)
      BY <1>1, <1>4, <3>1, <3>2 DEF Kept, Has
    <3> QED
      BY <3>3, <3>4
  <2> QED
    BY <2>1, <2>2
<1>14. View(n) = View(m)
  <2>1. m.root \in Ids /\ n.root \in Ids
    BY <1>1 DEF ModelOK
  <2> QED
    BY <1>2, <1>8, <2>1, SameView
<1> QED
  BY <1>1, <1>12, <1>13, <1>14 DEF n
-----------------------------------------------------------------------------
(***************************************************************************)
(* What a step leaves as it was.                                           *)
(***************************************************************************)
\* What a session has of the patches, when it gets none of the new ones.
LEMMA GotStays ==
  ASSUME NEW t, known'[t] = known[t], wire \subseteq wire',
         \A q \in wire' \ wire : q.n \notin known[t]
  PROVE  Got(t)' = Got(t)
BY DEF Got

\* A session that takes no part in a step.
LEMMA SessionStays ==
  ASSUME NEW t, SessionOK(t), model'[t] = model[t], local'[t] = local[t],
         edits'[t] = edits[t], Got(t)' = Got(t), open \subseteq open'
  PROVE  SessionOK(t)'
<1>1. Pending(t)' = Pending(t) /\ Firsts(t)' = Firsts(t)
  BY DEF Pending, Firsts
<1>2. Ops(t)' = Ops(t)
  BY <1>1 DEF Ops, OpsOf
<1>3. TookPart(model[t], t, Ops(t), open')
  BY DEF SessionOK, TookPart
<1>4. TookPart(model[t], t, Ops(t), open)'
  BY <1>2, <1>3
<1>5. EditsNamed(t)'
  BY <1>1 DEF EditsNamed, SessionOK
<1> QED
  BY <1>1, <1>4, <1>5 DEF SessionOK

\* The timestamps that were not sent.
LEMMA UnsentFacts ==
  ASSUME IInv, Careful, NEW s \in Sids
  PROVE  FirstUnsent(s) \in Int /\ (local[s] = << >> => FirstUnsent(s) = model[s].clock.time)
<1>1. model[s].clock.time \in Nat /\ Len(Pending(s)) \in Nat
  BY PendingFacts
<1>2. local[s] = << >> => Len(Pending(s)) = 0
  BY MergeOfNone DEF Pending
<1> QED
  BY <1>1, <1>2 DEF FirstUnsent

\* The same after a step.
LEMMA UnsentAfter ==
  ASSUME IInv', NEW s \in Sids
  PROVE  FirstUnsent(s)' \in Int
<1>1. model'[s].clock.time \in Nat /\ local'[s] \in Seq(Seq(Operation) \ {<< >>})
  BY DEF IInv, TypeOK, ModelOK
<1>2. MergePatches(local'[s]) \in Seq(Operation)
  BY <1>1, PendingIsSeq
<1>3. Len(MergePatches(local'[s])) \in Nat
  BY <1>2
<1> QED
  BY <1>1, <1>3 DEF FirstUnsent, Pending

\* A patch that was sent stays as it was.
LEMMA PatchStays ==
  ASSUME IInv, IInv', Careful, Careful', NEW patch \in wire, PatchOK(patch),
         wire \subseteq wire', IsFiniteSet(wire'), open \subseteq open',
         \A s \in open : known[s] \subseteq known'[s] /\ FirstUnsent(s) <= FirstUnsent(s)'
  PROVE  PatchOK(patch)'
<1>1. patch.n \in 1 .. Cardinality(wire')
  <2>1. /\ Cardinality(wire) \in Nat /\ Cardinality(wire') \in Nat
        /\ Cardinality(wire) <= Cardinality(wire')
    BY FS_Subset, FS_CardinalityType
  <2>2. patch.n \in 1 .. Cardinality(wire)
    BY DEF PatchOK
  <2> QED
    BY <2>1, <2>2
<1>2. Names(ToSet(patch.ops), OpIds(OpsOf({q \in wire' : q.n \in patch.deps}) \cup ToSet(patch.ops)))
  <2> DEFINE before == OpIds(OpsOf({q \in wire : q.n \in patch.deps}) \cup ToSet(patch.ops))
             after == OpIds(OpsOf({q \in wire' : q.n \in patch.deps}) \cup ToSet(patch.ops))
  <2>1. before \subseteq after
    <3>1. OpsOf({q \in wire : q.n \in patch.deps}) \subseteq OpsOf({q \in wire' : q.n \in patch.deps})
      BY DEF OpsOf
    <3> QED
      BY <3>1 DEF OpIds
  <2>2. Names(ToSet(patch.ops), before)
    BY DEF PatchOK
  <2> HIDE DEF before, after
  <2>3. Names(ToSet(patch.ops), after)
    BY <2>1, <2>2 DEF Names
  <2> QED
    BY <2>3 DEF after
<1>3. Author(patch) \in open' /\ patch.n \in known'[Author(patch)]
  BY DEF PatchOK
<1>4. ASSUME NEW op \in ToSet(patch.ops)
      PROVE  1 <= op.id.time /\ op.id.time < FirstUnsent(Author(patch))'
  <2>1. /\ Author(patch) \in open /\ Author(patch) \in Sids
        /\ 1 <= op.id.time /\ op.id.time < FirstUnsent(Author(patch))
    BY PatchFacts DEF PatchOK
  <2>2. op.id.time \in Nat
    BY PatchFacts
  <2>3. FirstUnsent(Author(patch)) \in Int
    BY <2>1, UnsentFacts
  <2>4. FirstUnsent(Author(patch))' \in Int
    BY <2>1, UnsentAfter
  <2>5. FirstUnsent(Author(patch)) <= FirstUnsent(Author(patch))'
    BY <2>1
  <2> HIDE DEF Author
  <2> QED
    BY <2>1, <2>2, <2>3, <2>4, <2>5
<1> QED
  BY <1>1, <1>2, <1>3, <1>4 DEF PatchOK

\* A step that sends nothing.
LEMMA WireStays ==
  ASSUME IInv, IInv', Careful, Careful', WireOK, wire' = wire, open \subseteq open',
         \A s \in open : known[s] \subseteq known'[s] /\ FirstUnsent(s) <= FirstUnsent(s)'
  PROVE  WireOK'
<1>1. IsFiniteSet(wire') /\ wire \subseteq wire'
  BY DEF WireOK
<1>2. \A patch \in wire : PatchOK(patch)'
  BY <1>1, PatchStays DEF WireOK
<1>3. /\ \A p, q \in wire : p.n = q.n => p = q
      /\ \A p, q \in wire : Author(p) = Author(q) => p = q \/ InTurn(p, q) \/ InTurn(q, p)
  BY DEF WireOK
<1> QED
  BY <1>1, <1>2, <1>3 DEF WireOK

\* A session sends what its peers do not have yet.
Sends(s, patch) ==
  /\ patch.n = Cardinality(wire) + 1 /\ patch.deps = known[s]
  /\ wire' = wire \cup {patch} /\ known' = [known EXCEPT ![s] = @ \cup {patch.n}]
  /\ patch.ops \in Seq(Operation) /\ patch.ops # << >>
  /\ Numbered(patch.ops, patch.ops[1].id) /\ Author(patch) = s
  /\ Backed(ToSet(patch.ops)) /\ Whole(ToSet(patch.ops))
  /\ Names(ToSet(patch.ops), OpIds(OpsOf(Got(s)) \cup ToSet(patch.ops)))
  /\ patch.edits # {} /\ patch.edits \subseteq OpIds(ToSet(patch.ops))
  /\ \A op \in ToSet(patch.ops) :
       /\ 1 <= op.id.time /\ FirstUnsent(s) <= op.id.time
       /\ op.id.time < FirstUnsent(s)'

\* It numbers the patch behind all others.
LEMMA SentIsNew ==
  ASSUME WireOK, KnownOK, known = [t \in Sids |-> known[t]], NEW s \in Sids, NEW patch, Sends(s, patch)
  PROVE  /\ IsFiniteSet(wire') /\ Cardinality(wire') = patch.n /\ patch.n \in Nat /\ 1 <= patch.n
         /\ \A q \in wire : q.n \in Nat /\ q.n < patch.n
         /\ \A t \in Sids : patch.n \notin known[t]
         /\ known' = [t \in Sids |-> known'[t]] /\ known'[s] = known[s] \cup {patch.n}
         /\ \A t \in Sids \ {s} : known'[t] = known[t]
         /\ Got(s)' = Got(s) \cup {patch} /\ \A t \in Sids \ {s} : Got(t)' = Got(t)
<1>1. IsFiniteSet(wire) /\ Cardinality(wire) \in Nat
  BY FS_CardinalityType DEF WireOK
<1>2. patch.n = Cardinality(wire) + 1 /\ wire' = wire \cup {patch}
  BY DEF Sends
<1>3. \A q \in wire : q.n \in Nat /\ q.n < patch.n
  <2>1. \A q \in wire : q.n \in 1 .. Cardinality(wire)
    BY DEF WireOK, PatchOK
  <2> QED
    BY <1>1, <1>2, <2>1
<1>4. \A t \in Sids : patch.n \notin known[t]
  BY <1>1, <1>2 DEF KnownOK
<1>5. patch \notin wire
  BY <1>3
<1>6. IsFiniteSet(wire') /\ Cardinality(wire') = patch.n
  BY <1>1, <1>2, <1>5, FS_AddElement
<1>7. /\ known' = [t \in Sids |-> known'[t]] /\ known'[s] = known[s] \cup {patch.n}
      /\ \A t \in Sids \ {s} : known'[t] = known[t]
  BY DEF Sends
<1>8. Got(s)' = Got(s) \cup {patch}
  BY <1>2, <1>3, <1>7 DEF Got
<1>9. ASSUME NEW t \in Sids \ {s}
      PROVE  Got(t)' = Got(t)
  <2>1. known'[t] = known[t] /\ wire \subseteq wire' /\ \A q \in wire' \ wire : q.n \notin known[t]
    BY <1>2, <1>4, <1>7
  <2> QED
    BY <2>1, GotStays
<1> QED
  BY <1>1, <1>2, <1>3, <1>4, <1>6, <1>7, <1>8, <1>9

\* The patch is as it should be, behind the others of its author.
LEMMA WireSends ==
  ASSUME IInv, IInv', Careful, Careful', WireOK, KnownOK, known = [t \in Sids |-> known[t]],
         NEW s \in open, NEW patch, Sends(s, patch), open' = open,
         \A t \in open : FirstUnsent(t) <= FirstUnsent(t)'
  PROVE  WireOK' /\ KnownOK'
<1>1. /\ IsFiniteSet(wire') /\ Cardinality(wire') = patch.n /\ patch.n \in Nat /\ 1 <= patch.n
      /\ \A q \in wire : q.n \in Nat /\ q.n < patch.n
      /\ known'[s] = known[s] \cup {patch.n}
      /\ \A t \in Sids \ {s} : known'[t] = known[t]
      /\ Got(s)' = Got(s) \cup {patch} /\ \A t \in Sids \ {s} : Got(t)' = Got(t)
      /\ s \in Sids /\ \A t \in Sids : patch.n \notin known[t]
  BY SentIsNew DEF IInv, TypeOK
<1>2. wire' = wire \cup {patch} /\ Author(patch) = s /\ patch.deps = known[s]
  BY DEF Sends
<1>3. \A q \in wire : PatchOK(q)'
  <2>1. \A t \in open : known[t] \subseteq known'[t]
    BY <1>1 DEF IInv, TypeOK
  <2> QED
    BY <1>1, <1>2, <2>1, PatchStays DEF WireOK
<1>4. PatchOK(patch)'
  <2>1. {q \in wire' : q.n \in patch.deps} = Got(s)
    BY <1>1, <1>2 DEF Got
  <2>2. /\ patch.n \in 1 .. Cardinality(wire')
        /\ Author(patch) \in open' /\ patch.n \in known'[Author(patch)]
    BY <1>1, <1>2
  <2>3. Names(ToSet(patch.ops), OpIds(OpsOf({q \in wire' : q.n \in patch.deps}) \cup ToSet(patch.ops)))
    BY <2>1 DEF Sends
  <2>4. \A op \in ToSet(patch.ops) : 1 <= op.id.time /\ op.id.time < FirstUnsent(Author(patch))'
    BY <1>2 DEF Sends
  <2> QED
    BY <2>2, <2>3, <2>4 DEF PatchOK, Sends
<1>5. \A p, q \in wire' : p.n = q.n => p = q
  BY <1>1, <1>2 DEF WireOK
<1>6. ASSUME NEW q \in wire, Author(q) = s
      PROVE  InTurn(q, patch)
  <2>1. PatchOK(q)
    BY DEF WireOK
  <2>2. q.n \in patch.deps
    BY <1>2, <1>6, <2>1 DEF PatchOK
  <2>3. ASSUME NEW a \in ToSet(q.ops), NEW b \in ToSet(patch.ops)
        PROVE  a.id.time < b.id.time
    <3>1. a.id.time < FirstUnsent(s) /\ a.id.time \in Nat
      BY <1>6, <2>1, PatchFacts DEF PatchOK
    <3>2. FirstUnsent(s) <= b.id.time /\ FirstUnsent(s) \in Int
      BY <1>1, UnsentFacts DEF Sends
    <3>3. b.id.time \in Nat
      <4>1. patch.ops \in Seq(Operation)
        BY DEF Sends
      <4>2. b \in Operation
        BY <4>1 DEF ToSet
      <4> QED
        BY <4>2, OperationFields DEF Timestamp
    <3> QED
      BY <3>1, <3>2, <3>3
  <2> QED
    BY <2>2, <2>3 DEF InTurn
<1>7. \A p, q \in wire' : Author(p) = Author(q) => p = q \/ InTurn(p, q) \/ InTurn(q, p)
  BY <1>2, <1>6 DEF WireOK
<1>8. WireOK'
  BY <1>1, <1>2, <1>3, <1>4, <1>5, <1>7 DEF WireOK
<1>9. KnownOK'
  <2> SUFFICES ASSUME NEW t \in Sids
               PROVE  /\ known'[t] \subseteq 1 .. Cardinality(wire')
                      /\ \A q \in Got(t)' : q.deps \subseteq known'[t]
    BY DEF KnownOK
  <2>1. /\ known[t] \subseteq 1 .. Cardinality(wire)
        /\ \A q \in Got(t) : q.deps \subseteq known[t]
        /\ Cardinality(wire) \in Nat /\ patch.n = Cardinality(wire) + 1
    BY FS_CardinalityType DEF KnownOK, WireOK, Sends
  <2>2. known[t] \subseteq 1 .. patch.n
    BY <2>1
  <2>3. CASE t = s
    BY <1>1, <1>2, <2>1, <2>2, <2>3
  <2>4. CASE t # s
    BY <1>1, <2>1, <2>2, <2>4
  <2> QED
    BY <2>3, <2>4
<1> QED
  BY <1>8, <1>9
-----------------------------------------------------------------------------
(***************************************************************************)
(* PageInv is inductive.                                                   *)
(***************************************************************************)
\* In the first state no session has anything.
LEMMA InitIsPage ==
  ASSUME Init
  PROVE  PageInv
<1>1. IInv
  BY InitHolds
<1>2. WireOK
  BY FS_EmptySet DEF Init, WireOK
<1>3. KnownOK /\ known = [s \in Sids |-> known[s]]
  BY DEF Init, KnownOK, Got
<1>4. ASSUME NEW s \in open
      PROVE  SessionOK(s)
  <2>1. s \in Sids
    BY <1>1 DEF IInv, TypeOK
  <2>2. Pending(s) = << >> /\ local[s] = << >> /\ edits[s] = {} /\ Got(s) = {}
    BY <2>1, MergeOfNone DEF Init, Pending, Got
  <2>3. Ops(s) = {} /\ ToSet(Pending(s)) = {} /\ Firsts(s) = {}
    BY <2>2 DEF Ops, OpsOf, Firsts, ToSet
  <2>4. model[s] = Empty(s)
    BY <2>1 DEF Init
  <2>5. /\ model[s].clock = [sid |-> s, time |-> 1, peers |-> [p \in Sids |-> NoPeer]]
        /\ model[s].root = Undefined /\ DOMAIN model[s].index = {}
    BY <2>4 DEF Empty, NewClock
  <2>6. Holds(model[s].root, model[s].index, {})
    BY <2>5 DEF Holds, RootHolds, UnusedStay
  <2>7. TookPart(model[s], s, {}, open)
    BY <2>5, <2>6 DEF TookPart, ClockAhead, Names
  <2>8. EditsNamed(s)
    BY <2>2, <2>3 DEF EditsNamed
  <2> QED
    BY <2>3, <2>7, <2>8 DEF SessionOK, Backed, Whole
<1> QED
  BY <1>1, <1>2, <1>3, <1>4 DEF PageInv

\* A step that leaves the patches and what is known of them.
LEMMA OthersStay ==
  ASSUME PageInv, IInv', Careful, Careful', NEW s \in Sids, wire' = wire, known' = known,
         open \subseteq open', open' \subseteq open \cup {s},
         s \in open => FirstUnsent(s) <= FirstUnsent(s)',
         \A t \in Sids \ {s} : model'[t] = model[t] /\ local'[t] = local[t] /\ edits'[t] = edits[t],
         s \in open' => SessionOK(s)'
  PROVE  PageInv'
<1>1. /\ IInv /\ open \subseteq Sids /\ WireOK /\ KnownOK
      /\ known = [t \in Sids |-> known[t]] /\ \A t \in open : SessionOK(t)
  BY DEF PageInv, IInv, TypeOK
<1>2. \A t \in open \ {s} : FirstUnsent(t)' = FirstUnsent(t)
  BY <1>1 DEF FirstUnsent, Pending
<1>3. \A t \in Sids : FirstUnsent(t) \in Int
  BY <1>1, UnsentFacts
<1>4. WireOK'
  <2>1. \A t \in open : known[t] \subseteq known'[t] /\ FirstUnsent(t) <= FirstUnsent(t)'
    BY <1>1, <1>2, <1>3
  <2> QED
    BY <1>1, <2>1, WireStays
<1>5. KnownOK'
  BY <1>1 DEF KnownOK, Got
<1>6. ASSUME NEW t \in open'
      PROVE  SessionOK(t)'
  <2>1. CASE t = s
    BY <2>1
  <2>2. CASE t # s
    <3>1. t \in open /\ t \in Sids \ {s} /\ Got(t)' = Got(t)
      BY <1>1, <2>2 DEF Got
    <3> QED
      BY <1>1, <3>1, SessionStays
  <2> QED
    BY <2>1, <2>2
<1> QED
  BY <1>1, <1>4, <1>5, <1>6 DEF PageInv

\* A change of the document takes the next timestamps of the session.
LEMMA ChangeTakesPart ==
  ASSUME PageInv, Careful, NEW s \in Sids, NEW ops, ops # << >>, EditOK(s, ops), Change(s, ops)
  PROVE  /\ TookPart(model'[s], s, Ops(s) \cup ToSet(ops), open)
         /\ \A t \in Sids \ {s} : model'[t] = model[t] /\ edits'[t] = edits[t]
         /\ edits'[s] = edits[s] \cup {NextTs(s)}
         /\ model'[s].clock.time = model[s].clock.time + Len(ops)
         /\ ops[1].id = NextTs(s) /\ NextTs(s).sid = s /\ Len(ops) \in Nat
         /\ NextTs(s) \in OpIds(ToSet(ops)) /\ NextTs(s) \in Timestamp
         /\ \A op \in ToSet(ops) :
              /\ 1 <= op.id.time /\ model[s].clock.time <= op.id.time
              /\ op.id.time < model[s].clock.time + Len(ops)
<1>1. IInv /\ WireOK /\ s \in open /\ SessionOK(s) /\ TypeOK
  BY DEF PageInv, Change, IInv
<1>2. /\ ModelOK(model[s]) /\ NextTs(s) \in Timestamp
      /\ NextTs(s).sid = s /\ NextTs(s).time = model[s].clock.time
  BY <1>1, RootIsEarlier
<1>3. /\ ops \in Seq(Operation) /\ Numbered(ops, NextTs(s)) /\ Backed(ToSet(ops))
      /\ Names(ToSet(ops), OpIds(Ops(s) \cup ToSet(ops)))
  BY DEF EditOK
<1>4. Ops(s) \in SUBSET Operation /\ Backed(Ops(s)) /\ Unique(Ops(s))
  BY <1>1, OpsFacts
<1>5. /\ TookPart(model[s], s, Ops(s), open) /\ 1 <= model[s].clock.time
      /\ \A op \in Ops(s) : op.id.time < model[s].clock.time
  BY <1>1 DEF SessionOK, TookPart, ClockAhead
<1>6. TookPart(ApplyPatch(model[s], ops), s, Ops(s) \cup ToSet(ops), open)
  <2> DEFINE id == NextTs(s)
             m == model[s]
             old == Ops(s)
  <2>1. /\ id \in Timestamp /\ Numbered(ops, id) /\ 1 <= id.time /\ id.sid \in open
        /\ \A op \in old : op.id.sid = id.sid => op.id.time < id.time
    BY <1>1, <1>2, <1>3, <1>5
  <2>2. /\ ModelOK(m) /\ old \in SUBSET Operation /\ Backed(old) /\ Unique(old)
        /\ TookPart(m, s, old, open) /\ Names(ToSet(ops), OpIds(old \cup ToSet(ops)))
    BY <1>2, <1>3, <1>4, <1>5
  <2> HIDE DEF id, m, old
  <2>3. TookPart(ApplyPatch(m, ops), s, old \cup ToSet(ops), open)
    BY <1>3, <2>1, <2>2, TakesPart
  <2> QED
    BY <2>3 DEF m, old
<1>7. /\ model'[s].clock.time = model[s].clock.time + Len(ops)
      /\ \A t \in Sids \ {s} : model'[t] = model[t] /\ edits'[t] = edits[t]
      /\ edits'[s] = edits[s] \cup {NextTs(s)}
  BY <1>1, <1>3, ChangeMovesOn
<1>8. model'[s] = ApplyPatch(model[s], ops)
  BY <1>1 DEF Change, TypeOK
<1>9. /\ Len(ops) \in Nat /\ 1 \in 1 .. Len(ops)
      /\ ToSet(ops) = {ops[k] : k \in 1 .. Len(ops)}
  BY <1>3 DEF ToSet
<1>10. \A k \in 1 .. Len(ops) :
         /\ ops[k].id = Ts(NextTs(s).sid, NextTs(s).time + k - 1)
         /\ ops[k].id.time = NextTs(s).time + k - 1
  BY <1>2, <1>3, NumberedTimes
<1>11. model[s].clock.time \in Nat
  BY <1>2 DEF ModelOK
<1>12. ops[1].id = NextTs(s) /\ NextTs(s) \in OpIds(ToSet(ops))
  <2>1. ops[1].id = Ts(s, model[s].clock.time + 1 - 1)
    BY <1>2, <1>9, <1>10
  <2>2. ops[1].id = NextTs(s)
    BY <1>11, <2>1 DEF NextTs
  <2> QED
    BY <1>9, <2>2 DEF OpIds
<1>13. ASSUME NEW op \in ToSet(ops)
       PROVE  /\ 1 <= op.id.time /\ model[s].clock.time <= op.id.time
              /\ op.id.time < model[s].clock.time + Len(ops)
  <2>1. PICK k \in 1 .. Len(ops) : op = ops[k]
    BY <1>9
  <2>2. op.id.time = model[s].clock.time + k - 1
    BY <1>2, <1>10, <2>1
  <2> QED
    BY <1>5, <1>9, <1>11, <2>2
<1> QED
  BY <1>2, <1>6, <1>7, <1>8, <1>9, <1>12, <1>13

\* Whatever was made is used, in both.
LEMMA WholeTogether ==
  ASSUME NEW a, NEW b, Whole(a), Whole(b)
  PROVE  Whole(a \cup b)
BY DEF Whole, Used

\* What one patch adds behind another.
LEMMA ConcatSet ==
  ASSUME NEW S, NEW a \in Seq(S), NEW b \in Seq(S)
  PROVE  ToSet(a \o b) = ToSet(a) \cup ToSet(b) /\ Len(a \o b) = Len(a) + Len(b)
<1> DEFINE all == a \o b
           m == Len(a)
           n == Len(b)
<1>1. /\ m \in Nat /\ n \in Nat /\ Len(all) = m + n
      /\ DOMAIN all = 1 .. m + n /\ DOMAIN a = 1 .. m /\ DOMAIN b = 1 .. n
      /\ \A k \in 1 .. m + n : all[k] = IF k <= m THEN a[k] ELSE b[k - m]
  BY ConcatProperties, LenProperties
<1> HIDE DEF all, m, n
<1>2. /\ \A k \in 1 .. m : k \in 1 .. m + n /\ all[k] = a[k]
      /\ \A k \in 1 .. n : k + m \in 1 .. m + n /\ all[k + m] = b[k]
  <2>1. \A k \in 1 .. n : k + m \in 1 .. m + n /\ ~(k + m <= m) /\ (k + m) - m = k
    BY <1>1
  <2> QED
    BY <1>1, <2>1
<1>3. \A k \in 1 .. m + n : (k \in 1 .. m /\ all[k] = a[k]) \/ (k - m \in 1 .. n /\ all[k] = b[k - m])
  BY <1>1
<1>4. ToSet(all) \subseteq ToSet(a) \cup ToSet(b)
  BY <1>1, <1>3 DEF ToSet
<1>5. ToSet(a) \subseteq ToSet(all) /\ ToSet(b) \subseteq ToSet(all)
  <2>1. \A k \in 1 .. m : a[k] \in ToSet(all)
    BY <1>1, <1>2 DEF ToSet
  <2>2. \A k \in 1 .. n : b[k] \in ToSet(all)
    BY <1>1, <1>2 DEF ToSet
  <2>3. ToSet(a) = {a[k] : k \in 1 .. m} /\ ToSet(b) = {b[k] : k \in 1 .. n}
    BY <1>1 DEF ToSet
  <2> QED
    BY <2>1, <2>2, <2>3
<1> QED
  BY <1>1, <1>4, <1>5 DEF all, m, n

\* with_builder: an edit waits behind the others.
LEMMA EditKeepsPage ==
  ASSUME PageInv, IInv', Careful, Careful', NEW s \in Sids, NEW ops, ops # << >>, EditOK(s, ops),
         WithBuilder(s, ops)
  PROVE  PageInv'
<1>1. /\ IInv /\ WireOK /\ s \in open /\ SessionOK(s)
      /\ Change(s, ops) /\ ops \in Seq(Operation) /\ Backed(ToSet(ops)) /\ Whole(ToSet(ops))
      /\ open' = open /\ known' = known /\ wire' = wire
  BY DEF PageInv, WithBuilder, Change, EditOK
<1>2. /\ TookPart(model'[s], s, Ops(s) \cup ToSet(ops), open)
      /\ \A t \in Sids \ {s} : model'[t] = model[t] /\ edits'[t] = edits[t]
      /\ edits'[s] = edits[s] \cup {NextTs(s)}
      /\ model'[s].clock.time = model[s].clock.time + Len(ops)
      /\ ops[1].id = NextTs(s) /\ Len(ops) \in Nat
      /\ NextTs(s) \in OpIds(ToSet(ops))
  BY <1>1, ChangeTakesPart
<1>3. local[s] \in Seq(Seq(Operation) \ {<< >>})
  BY <1>1 DEF IInv, TypeOK
<1>4. local'[s] = Append(local[s], ops) /\ \A t \in Sids \ {s} : local'[t] = local[t]
  BY <1>1 DEF WithBuilder, IInv, TypeOK
<1>5. Pending(s)' = Pending(s) \o ops /\ Pending(s) \in Seq(Operation)
  <2>1. local[s] \in Seq(Seq(Operation)) /\ MergePatches(local[s]) \in Seq(Operation)
    BY <1>3, PendingIsSeq
  <2>2. MergePatches(Append(local[s], ops)) = MergePatches(local[s]) \o ops
    BY <1>1, <2>1, FlattenOfAppend DEF MergePatches
  <2> QED
    BY <1>4, <2>1, <2>2 DEF Pending
<1>6. /\ ToSet(Pending(s)') = ToSet(Pending(s)) \cup ToSet(ops)
      /\ Len(Pending(s)') = Len(Pending(s)) + Len(ops)
  BY <1>1, <1>5, ConcatSet
<1>7. Firsts(s)' = Firsts(s) \cup {NextTs(s)}
  <2>1. local[s] \in Seq(Seq(Operation)) /\ ops \in Seq(Operation)
    BY <1>1, <1>3, PendingIsSeq
  <2>2. ToSet(local'[s]) = ToSet(local[s]) \cup {ops}
    BY <1>4, <2>1, MoreInSet
  <2> QED
    BY <1>2, <2>2 DEF Firsts
<1>8. Got(s)' = Got(s)
  BY <1>1 DEF Got
<1>9. Ops(s)' = Ops(s) \cup ToSet(ops)
  BY <1>6, <1>8 DEF Ops, OpsOf
<1>10. TookPart(model[s], s, Ops(s), open)'
  BY <1>1, <1>2, <1>9
<1>11. Backed(ToSet(Pending(s)))' /\ Whole(ToSet(Pending(s)))'
  <2>1. Backed(ToSet(Pending(s))) /\ Whole(ToSet(Pending(s)))
    BY <1>1 DEF SessionOK
  <2>2. /\ Backed(ToSet(Pending(s)) \cup ToSet(ops))
        /\ Whole(ToSet(Pending(s)) \cup ToSet(ops))
    BY <1>1, <2>1, BackedTogether, WholeTogether
  <2> QED
    BY <1>6, <2>2
<1>12. EditsNamed(s)'
  <2>1. /\ Firsts(s) \subseteq OpIds(ToSet(Pending(s)))
        /\ edits[s] = (UNION {patch.edits : patch \in Got(s)}) \cup Firsts(s)
    BY <1>1 DEF SessionOK, EditsNamed
  <2>2. Firsts(s)' \subseteq OpIds(ToSet(Pending(s)'))
    BY <1>2, <1>6, <1>7, <2>1 DEF OpIds
  <2>3. edits'[s] = (UNION {patch.edits : patch \in Got(s)'}) \cup Firsts(s)'
    BY <1>2, <1>7, <1>8, <2>1
  <2> QED
    BY <2>2, <2>3 DEF EditsNamed
<1>13. SessionOK(s)'
  BY <1>10, <1>11, <1>12 DEF SessionOK
<1>14. FirstUnsent(s) <= FirstUnsent(s)'
  <2>1. model[s].clock.time \in Nat /\ Len(Pending(s)) \in Nat
    BY <1>1, PendingFacts
  <2>2. FirstUnsent(s)' = (model[s].clock.time + Len(ops)) - (Len(Pending(s)) + Len(ops))
    BY <1>2, <1>6 DEF FirstUnsent
  <2> QED
    BY <1>2, <2>1, <2>2 DEF FirstUnsent
<1> QED
  BY <1>1, <1>2, <1>4, <1>13, <1>14, OthersStay

\* A step that sends a patch and changes no other session.
LEMMA SendingKeeps ==
  ASSUME PageInv, IInv', Careful, Careful', NEW s \in open, NEW patch, Sends(s, patch), open' = open,
         FirstUnsent(s) <= FirstUnsent(s)',
         \A t \in Sids \ {s} : model'[t] = model[t] /\ local'[t] = local[t] /\ edits'[t] = edits[t],
         local'[s] = << >>, TookPart(model'[s], s, Ops(s) \cup ToSet(patch.ops), open),
         ToSet(Pending(s)) \subseteq ToSet(patch.ops),
         edits'[s] = edits[s] \cup patch.edits, Firsts(s) \subseteq patch.edits
  PROVE  PageInv'
<1>1. /\ IInv /\ s \in Sids /\ WireOK /\ KnownOK /\ open \subseteq Sids
      /\ known = [t \in Sids |-> known[t]] /\ \A t \in open : SessionOK(t)
  BY DEF PageInv, IInv, TypeOK
<1>2. /\ known' = [t \in Sids |-> known'[t]]
      /\ Got(s)' = Got(s) \cup {patch} /\ \A t \in Sids \ {s} : Got(t)' = Got(t)
  BY <1>1, SentIsNew
<1>3. \A t \in open : FirstUnsent(t) <= FirstUnsent(t)'
  <2>1. \A t \in open \ {s} : FirstUnsent(t)' = FirstUnsent(t)
    BY <1>1 DEF FirstUnsent, Pending
  <2>2. \A t \in Sids : FirstUnsent(t) \in Int
    BY <1>1, UnsentFacts
  <2> QED
    BY <1>1, <2>1, <2>2
<1>4. WireOK' /\ KnownOK'
  BY <1>1, <1>3, WireSends
<1>5. ASSUME NEW t \in open \ {s}
      PROVE  SessionOK(t)'
  BY <1>1, <1>2, SessionStays
<1>6. SessionOK(s)'
  <2>1. Pending(s)' = << >> /\ ToSet(Pending(s)') = {} /\ Firsts(s)' = {}
    BY MergeOfNone DEF Pending, Firsts, ToSet
  <2>2. Ops(s)' = Ops(s) \cup ToSet(patch.ops)
    BY <1>2, <2>1 DEF Ops, OpsOf
  <2>3. TookPart(model[s], s, Ops(s), open)'
    BY <2>2
  <2>4. EditsNamed(s)'
    <3>1. edits[s] = (UNION {q.edits : q \in Got(s)}) \cup Firsts(s)
      BY <1>1 DEF SessionOK, EditsNamed
    <3>2. UNION {q.edits : q \in Got(s)'} = (UNION {q.edits : q \in Got(s)}) \cup patch.edits
      BY <1>2
    <3>3. edits'[s] = (UNION {q.edits : q \in Got(s)'}) \cup Firsts(s)'
      BY <2>1, <3>1, <3>2
    <3> QED
      BY <2>1, <3>3 DEF EditsNamed
  <2> QED
    BY <2>1, <2>3, <2>4 DEF SessionOK, Backed, Whole
<1> QED
  BY <1>1, <1>2, <1>4, <1>5, <1>6 DEF PageInv

\* What waits, with no gap, is numbered from its first timestamp on, so the
\* codec keeps it.
LEMMA PendingIsNumbered ==
  ASSUME IInv, NEW s \in Sids, HoldLast(Pending(s), s, model[s].clock.time), Pending(s) # << >>
  PROVE  /\ Numbered(Pending(s), Pending(s)[1].id) /\ OnWire(Pending(s)) = Pending(s)
         /\ Pending(s)[1].id \in Timestamp /\ Pending(s)[1].id.sid = s
<1> DEFINE ops == Pending(s)
           id == ops[1].id
           time == model[s].clock.time
<1>1. HoldLast(ops, s, time)
  OBVIOUS
<1>2. ops \in Seq(Operation) /\ time \in Nat
  BY PendingOf DEF IInv, TypeOK, ModelOK
<1> HIDE DEF ops, time
<1>3. /\ 1 \in DOMAIN ops /\ Len(ops) \in Nat /\ DOMAIN ops = 1 .. Len(ops)
      /\ ops[1] \in Operation
  BY <1>2 DEF ops
<1>4. \A t, n : Ts(t, n).time = n /\ Ts(t, n).sid = t
  BY DEF Ts
<1>5. id = Ts(s, time - Len(ops) + 1 - 1)
  BY <1>1, <1>3 DEF HoldLast
<1>6. id \in Timestamp /\ id.sid = s /\ id.time = time - Len(ops) + 1 - 1
  BY <1>3, <1>4, <1>5, OperationFields
<1>7. ASSUME NEW k \in DOMAIN ops
      PROVE  ops[k].id = Ts(id.sid, id.time + k - 1)
  <2>1. ops[k].id = Ts(s, time - Len(ops) + k - 1)
    BY <1>1 DEF HoldLast
  <2>2. time - Len(ops) + 1 - 1 + k - 1 = time - Len(ops) + k - 1
    BY <1>2, <1>3
  <2> QED
    BY <1>6, <2>1, <2>2
<1>8. Numbered(ops, id)
  BY <1>7 DEF Numbered
<1> HIDE DEF id
<1>9. OnWire(ops) = ops
  BY <1>2, <1>6, <1>8, NumberedOnWire
<1> QED
  BY <1>6, <1>8, <1>9 DEF ops, id

\* apiFlush: what waited is sent.
LEMMA FlushKeepsPage ==
  ASSUME PageInv, IInv', Careful, Careful', NEW s \in Sids, ApiFlush(s)
  PROVE  PageInv'
<1> DEFINE patch == [n |-> Cardinality(wire) + 1, ops |-> OnWire(Pending(s)),
                     edits |-> Firsts(s), deps |-> known[s]]
<1>1. /\ IInv /\ WireOK /\ local[s] # << >> /\ \A t \in open : SessionOK(t)
      /\ local[s] \in Seq(Seq(Operation) \ {<< >>}) /\ \A t \in Sids \ open : local[t] = << >>
      /\ local' = [local EXCEPT ![s] = << >>] /\ DOMAIN local = Sids
      /\ UNCHANGED <<open, model, edits>>
  BY DEF PageInv, IInv, TypeOK, ApiFlush, Emptied
<1>2. wire' = wire \cup {patch} /\ known' = [known EXCEPT ![s] = @ \cup {patch.n}]
  BY DEF ApiFlush, Send
<1>3. s \in open /\ SessionOK(s)
  BY <1>1
<1>4. /\ Firsts(s) \subseteq OpIds(ToSet(Pending(s))) /\ Firsts(s) \subseteq edits[s]
      /\ Backed(ToSet(Pending(s))) /\ Whole(ToSet(Pending(s)))
      /\ TookPart(model[s], s, Ops(s), open)
      /\ Names(Ops(s), OpIds(Ops(s))) /\ \A op \in Ops(s) : 1 <= op.id.time
  BY <1>3 DEF SessionOK, EditsNamed, TookPart
<1>5. Firsts(s) # {}
  <2>1. 1 \in DOMAIN local[s]
    BY <1>1
  <2> QED
    BY <2>1 DEF Firsts, ToSet
<1>6. Pending(s) # << >>
  BY <1>4, <1>5 DEF OpIds, ToSet
<1>7. /\ Numbered(Pending(s), Pending(s)[1].id) /\ OnWire(Pending(s)) = Pending(s)
      /\ Pending(s)[1].id.sid = s
  BY <1>1, <1>6, CarefulHoldLast, PendingIsNumbered
<1>8. /\ patch.n = Cardinality(wire) + 1 /\ patch.ops = Pending(s)
      /\ patch.edits = Firsts(s) /\ patch.deps = known[s]
  BY <1>7
<1> HIDE DEF patch
<1>9. /\ Pending(s) \in Seq(Operation)
      /\ model[s].clock.time \in Nat /\ Len(Pending(s)) \in Nat
      /\ \A op \in ToSet(Pending(s)) :
           /\ op.id.time \in Nat
           /\ model[s].clock.time - Len(Pending(s)) <= op.id.time
           /\ op.id.time < model[s].clock.time
  BY <1>1, PendingFacts
<1>10. Ops(s) \cup ToSet(Pending(s)) = Ops(s) /\ Ops(s) = OpsOf(Got(s)) \cup ToSet(Pending(s))
  BY DEF Ops
<1>11. local'[s] = << >> /\ \A t \in Sids \ {s} : local'[t] = local[t]
  BY <1>1
<1>12. FirstUnsent(s) = model[s].clock.time - Len(Pending(s)) /\ FirstUnsent(s)' = model[s].clock.time
  <2>1. Len(MergePatches(local'[s])) = 0
    BY <1>11, MergeOfNone
  <2> QED
    BY <1>1, <1>9, <2>1 DEF FirstUnsent, Pending
<1>13. FirstUnsent(s) <= FirstUnsent(s)'
  BY <1>9, <1>12
<1>14. Names(ToSet(Pending(s)), OpIds(OpsOf(Got(s)) \cup ToSet(Pending(s))))
  BY <1>4, <1>10 DEF Names
<1>15. Sends(s, patch)
  <2>1. \A op \in ToSet(patch.ops) :
          1 <= op.id.time /\ FirstUnsent(s) <= op.id.time /\ op.id.time < FirstUnsent(s)'
    BY <1>4, <1>8, <1>9, <1>10, <1>12
  <2> QED
    BY <1>2, <1>4, <1>5, <1>6, <1>7, <1>8, <1>9, <1>14, <2>1 DEF Sends, Author
<1>16. TookPart(model'[s], s, Ops(s) \cup ToSet(patch.ops), open)
  BY <1>1, <1>4, <1>8, <1>10
<1>17. edits'[s] = edits[s] \cup patch.edits
  BY <1>1, <1>4, <1>8
<1> QED
  BY <1>1, <1>3, <1>8, <1>11, <1>13, <1>15, <1>16, <1>17, SendingKeeps

\* diff_apply sends its patch at once.
LEMMA DiffKeepsPage ==
  ASSUME PageInv, IInv', Careful, Careful', NEW s \in Sids, NEW json \in Json, DiffApply(s, json)
  PROVE  PageInv'
<1> DEFINE ops == DiffOps(model[s], NextTs(s), json)
           patch == [n |-> Cardinality(wire) + 1, ops |-> OnWire(ops),
                     edits |-> {NextTs(s)}, deps |-> known[s]]
<1>1. /\ IInv /\ WireOK /\ s \in open /\ SessionOK(s)
      /\ ops # << >> /\ Change(s, ops) /\ open' = open /\ local' = local
      /\ local[s] = << >>
  <2>1. Counted(Unflushed(s)) /\ IInv
    BY DEF PageInv, DiffApply
  <2>2. local[s] = << >>
    BY <2>1, FlushedIsEmpty
  <2> QED
    BY <2>2 DEF PageInv, DiffApply, Change
<1>2. wire' = wire \cup {patch} /\ known' = [known EXCEPT ![s] = @ \cup {patch.n}]
  BY DEF DiffApply, Send
<1>3. EditOK(s, ops)
  BY <1>1, EditsAreOK
<1> HIDE DEF ops
<1>4. /\ TookPart(model'[s], s, Ops(s) \cup ToSet(ops), open)
      /\ \A t \in Sids \ {s} : model'[t] = model[t] /\ edits'[t] = edits[t]
      /\ edits'[s] = edits[s] \cup {NextTs(s)}
      /\ model'[s].clock.time = model[s].clock.time + Len(ops)
      /\ ops[1].id = NextTs(s) /\ NextTs(s).sid = s /\ Len(ops) \in Nat
      /\ NextTs(s) \in OpIds(ToSet(ops)) /\ NextTs(s) \in Timestamp
      /\ \A op \in ToSet(ops) :
           /\ 1 <= op.id.time /\ model[s].clock.time <= op.id.time
           /\ op.id.time < model[s].clock.time + Len(ops)
  BY <1>1, <1>3, ChangeTakesPart
<1>5. /\ ops \in Seq(Operation) /\ Numbered(ops, NextTs(s))
      /\ Backed(ToSet(ops)) /\ Whole(ToSet(ops))
      /\ Names(ToSet(ops), OpIds(Ops(s) \cup ToSet(ops)))
  BY <1>3 DEF EditOK
<1>6. OnWire(ops) = ops
  BY <1>4, <1>5, NumberedOnWire
<1>7. /\ patch.n = Cardinality(wire) + 1 /\ patch.ops = ops
      /\ patch.edits = {NextTs(s)} /\ patch.deps = known[s]
  BY <1>6
<1> HIDE DEF patch
<1>8. ToSet(Pending(s)) = {} /\ Firsts(s) = {} /\ Len(Pending(s)) = 0 /\ Len(Pending(s)') = 0
  BY <1>1, MergeOfNone DEF Pending, Firsts, ToSet
<1>9. Ops(s) = OpsOf(Got(s))
  BY <1>8 DEF Ops
<1>10. model[s].clock.time \in Nat
  BY <1>1, PendingFacts
<1>11. FirstUnsent(s) = model[s].clock.time /\ FirstUnsent(s)' = model[s].clock.time + Len(ops)
  BY <1>4, <1>8, <1>10 DEF FirstUnsent
<1>12. FirstUnsent(s) <= FirstUnsent(s)'
  BY <1>4, <1>10, <1>11
<1>13. Sends(s, patch)
  <2>1. \A op \in ToSet(patch.ops) :
          1 <= op.id.time /\ FirstUnsent(s) <= op.id.time /\ op.id.time < FirstUnsent(s)'
    BY <1>4, <1>7, <1>11
  <2>2. patch.edits # {} /\ patch.edits \subseteq OpIds(ToSet(patch.ops))
    BY <1>4, <1>7
  <2> QED
    BY <1>1, <1>2, <1>4, <1>5, <1>7, <1>9, <2>1, <2>2 DEF Sends, Author
<1> QED
  BY <1>1, <1>4, <1>7, <1>8, <1>12, <1>13, SendingKeeps

\* apply_patch: a session that flushed gets a patch it does not have, after
\* those it comes after.
LEMMA ReceiveKeepsPage ==
  ASSUME PageInv, IInv', Careful, Careful',
         NEW s \in Sids, NEW patch \in wire, Receive(s, patch)
  PROVE  PageInv'
<1> DEFINE ops == patch.ops
           id == ops[1].id
           m == model[s]
           old == Ops(s)
<1>1. /\ IInv /\ WireOK /\ KnownOK /\ s \in open /\ open \subseteq Sids
      /\ known = [t \in Sids |-> known[t]] /\ \A t \in open : SessionOK(t)
      /\ patch.deps \subseteq known[s] /\ patch.n \notin known[s]
      /\ local[s] = << >> /\ open' = open /\ local' = local /\ wire' = wire
      /\ model' = [model EXCEPT ![s] = ApplyPatch(@, ops)]
      /\ edits' = [edits EXCEPT ![s] = @ \cup patch.edits]
      /\ known' = [known EXCEPT ![s] = @ \cup {patch.n}]
  <2>1. Counted(Unflushed(s) \/ patch.n \in known[s]) /\ IInv
    BY DEF PageInv, Receive
  <2>2. local[s] = << >> /\ patch.n \notin known[s]
    BY <2>1, FlushedIsEmpty
  <2> QED
    BY <2>2 DEF PageInv, IInv, TypeOK, Receive
<1>2. /\ DOMAIN model = Sids /\ edits \in [Sids -> SUBSET Timestamp] /\ ModelOK(m)
      /\ patch.edits \subseteq Timestamp
  BY <1>1 DEF IInv, TypeOK
<1>3. /\ model'[s] = ApplyPatch(m, ops) /\ edits'[s] = edits[s] \cup patch.edits
      /\ known'[s] = known[s] \cup {patch.n}
      /\ known' = [t \in Sids |-> known'[t]]
      /\ \A t \in Sids \ {s} : /\ model'[t] = model[t] /\ edits'[t] = edits[t]
                               /\ known'[t] = known[t] /\ local'[t] = local[t]
  BY <1>1, <1>2
<1>4. PatchOK(patch) /\ SessionOK(s)
  BY <1>1 DEF WireOK
<1>5. /\ ops \in Seq(Operation) /\ id \in Timestamp /\ id.sid = Author(patch)
      /\ Author(patch) \in open /\ Numbered(ops, id) /\ ops # << >>
      /\ Backed(ToSet(ops)) /\ ops[1] \in ToSet(ops) /\ 1 <= id.time
  <2>1. ops \in Seq(Operation) /\ id \in Timestamp /\ ops # << >>
    BY <1>1, <1>4, PatchFacts DEF PatchOK
  <2>2. ops[1] \in ToSet(ops)
    BY <2>1 DEF ToSet
  <2> QED
    BY <1>4, <2>1, <2>2 DEF PatchOK, Author
<1>6. old \in SUBSET Operation /\ Backed(old) /\ Unique(old)
  BY <1>1, <1>4, OpsFacts
<1>7. ASSUME NEW op \in old, op.id.sid = id.sid
      PROVE  op.id.time < id.time
  <2>1. op \notin ToSet(Pending(s))
    BY <1>1, MergeOfNone DEF Pending, ToSet
  <2>2. PICK q \in Got(s) : op \in ToSet(q.ops)
    BY <2>1 DEF Ops, OpsOf
  <2>3. q \in wire /\ q.n \in known[s] /\ q.deps \subseteq known[s]
    BY <1>1, <2>2 DEF Got, KnownOK
  <2>4. PatchOK(q)
    BY <1>1, <2>3 DEF WireOK
  <2>5. Author(q) = Author(patch)
    BY <1>1, <1>5, <1>7, <2>2, <2>3, <2>4, PatchFacts
  <2>6. q = patch \/ InTurn(q, patch) \/ InTurn(patch, q)
    BY <1>1, <2>3, <2>5 DEF WireOK
  <2>7. InTurn(q, patch)
    BY <1>1, <2>3, <2>6 DEF InTurn
  <2> QED
    BY <1>5, <2>2, <2>7 DEF InTurn
<1>8. {q \in wire : q.n \in patch.deps} \subseteq Got(s)
  BY <1>1 DEF Got
<1>9. Names(ToSet(ops), OpIds(old \cup ToSet(ops)))
  <2>1. OpsOf({q \in wire : q.n \in patch.deps}) \subseteq old
    BY <1>8 DEF Ops, OpsOf
  <2>2. Names(ToSet(ops), OpIds(OpsOf({q \in wire : q.n \in patch.deps}) \cup ToSet(ops)))
    BY <1>4 DEF PatchOK
  <2> HIDE DEF old, ops
  <2> QED
    BY <2>1, <2>2 DEF Names, OpIds
<1>10. /\ TookPart(ApplyPatch(m, ops), s, old \cup ToSet(ops), open)
       /\ m.clock.time <= ApplyPatch(m, ops).clock.time
  <2>1. TookPart(m, s, old, open)
    BY <1>4 DEF SessionOK
  <2>2. /\ ModelOK(m) /\ old \in SUBSET Operation /\ Backed(old) /\ Unique(old)
        /\ ops \in Seq(Operation) /\ id \in Timestamp /\ Numbered(ops, id) /\ ops # << >>
        /\ 1 <= id.time /\ id.sid \in open /\ Backed(ToSet(ops))
        /\ Names(ToSet(ops), OpIds(old \cup ToSet(ops)))
        /\ \A op \in old : op.id.sid = id.sid => op.id.time < id.time
    BY <1>2, <1>5, <1>6, <1>7, <1>9
  <2> HIDE DEF m, old, ops, id
  <2> QED
    BY <2>1, <2>2, TakesPart
<1> HIDE DEF m, id
<1>11. Got(s)' = Got(s) \cup {patch}
  BY <1>1, <1>3 DEF Got, WireOK
<1>12. Pending(s)' = Pending(s) /\ Firsts(s)' = Firsts(s)
  BY <1>1 DEF Pending, Firsts
<1>13. Ops(s)' = old \cup ToSet(ops)
  BY <1>11, <1>12 DEF Ops, OpsOf
<1>14. TookPart(model[s], s, Ops(s), open)'
  BY <1>1, <1>3, <1>10, <1>13
<1>15. EditsNamed(s)'
  <2>1. /\ Firsts(s) \subseteq OpIds(ToSet(Pending(s)))
        /\ edits[s] = (UNION {q.edits : q \in Got(s)}) \cup Firsts(s)
    BY <1>4 DEF SessionOK, EditsNamed
  <2>2. UNION {q.edits : q \in Got(s)'} = (UNION {q.edits : q \in Got(s)}) \cup patch.edits
    BY <1>11
  <2>3. edits'[s] = (UNION {q.edits : q \in Got(s)'}) \cup Firsts(s)'
    BY <1>3, <1>12, <2>1, <2>2
  <2> QED
    BY <1>12, <2>1, <2>3 DEF EditsNamed
<1>16. SessionOK(s)'
  <2>1. Backed(ToSet(Pending(s)')) /\ Whole(ToSet(Pending(s)'))
    BY <1>4, <1>12 DEF SessionOK
  <2> QED
    BY <1>14, <1>15, <2>1 DEF SessionOK
<1>17. \A t \in Sids \ {s} : Got(t)' = Got(t)
  BY <1>1, <1>3 DEF Got
<1>18. \A t \in open \ {s} : SessionOK(t)'
  BY <1>1, <1>3, <1>17, SessionStays
<1>19. WireOK'
  <2>1. \A t \in open : known[t] \subseteq known'[t]
    BY <1>1, <1>3
  <2>2. \A t \in open \ {s} : FirstUnsent(t)' = FirstUnsent(t)
    BY <1>1, <1>3 DEF FirstUnsent, Pending
  <2>3. FirstUnsent(s) <= FirstUnsent(s)'
    <3>1. Len(Pending(s)) = 0 /\ Len(Pending(s)') = 0
      BY <1>1, <1>12, MergeOfNone DEF Pending
    <3>2. model'[s].clock.time \in Nat /\ model[s].clock.time \in Nat
      BY DEF PageInv, IInv, TypeOK, ModelOK
    <3>3. model[s].clock.time <= model'[s].clock.time
      BY <1>3, <1>10 DEF m
    <3> QED
      BY <3>1, <3>2, <3>3 DEF FirstUnsent
  <2>4. \A t \in Sids : FirstUnsent(t) \in Int
    BY <1>1, UnsentFacts
  <2>5. \A t \in open : FirstUnsent(t) <= FirstUnsent(t)'
    BY <1>1, <2>2, <2>3, <2>4
  <2> QED
    BY <1>1, <2>1, <2>5, WireStays
<1>20. KnownOK'
  <2> SUFFICES ASSUME NEW t \in Sids
               PROVE  /\ known'[t] \subseteq 1 .. Cardinality(wire')
                      /\ \A q \in Got(t)' : q.deps \subseteq known'[t]
    BY DEF KnownOK
  <2>1. /\ known[t] \subseteq 1 .. Cardinality(wire)
        /\ \A q \in Got(t) : q.deps \subseteq known[t]
        /\ patch.n \in 1 .. Cardinality(wire)
    BY <1>1, <1>4 DEF KnownOK, PatchOK
  <2>2. CASE t = s
    BY <1>1, <1>3, <1>11, <2>1, <2>2
  <2>3. CASE t # s
    BY <1>1, <1>3, <1>17, <2>1, <2>3
  <2> QED
    BY <2>2, <2>3
<1> QED
  BY <1>1, <1>3, <1>16, <1>18, <1>19, <1>20 DEF PageInv

\* fork: the new session starts with what the old one holds.
LEMMA ForkKeepsPage ==
  ASSUME PageInv, IInv', Careful, Careful', NEW s \in Sids, NEW t \in Sids, ForkTo(s, t)
  PROVE  PageInv'
<1>1. /\ IInv /\ WireOK /\ KnownOK /\ s \in open /\ t \notin open /\ open \subseteq Sids
      /\ known = [u \in Sids |-> known[u]] /\ \A u \in open : SessionOK(u)
      /\ open' = open \cup {t} /\ local' = local /\ wire' = wire
      /\ local[s] = << >> /\ local[t] = << >>
      /\ model' = [model EXCEPT ![t] = [model[s] EXCEPT !.clock.sid = t]]
      /\ edits' = [edits EXCEPT ![t] = edits[s]]
      /\ known' = [known EXCEPT ![t] = known[s]]
      /\ DOMAIN model = Sids /\ DOMAIN edits = Sids /\ ModelOK(model[s])
  <2>1. Counted(Unflushed(s)) /\ IInv
    BY DEF PageInv, ForkTo
  <2>2. local[s] = << >>
    BY <2>1, FlushedIsEmpty
  <2> QED
    BY <2>2 DEF PageInv, IInv, TypeOK, ForkTo
<1>2. /\ model'[t] = [model[s] EXCEPT !.clock.sid = t] /\ edits'[t] = edits[s]
      /\ known'[t] = known[s] /\ known' = [u \in Sids |-> known'[u]]
      /\ \A u \in Sids \ {t} : /\ model'[u] = model[u] /\ edits'[u] = edits[u]
                               /\ known'[u] = known[u] /\ local'[u] = local[u]
  BY <1>1
<1>3. /\ model'[t].root = model[s].root /\ model'[t].index = model[s].index
      /\ model'[t].clock.sid = t /\ model'[t].clock.time = model[s].clock.time
      /\ model'[t].clock.peers = model[s].clock.peers
  <2> DEFINE m == model[s]
             clock == m.clock
             named == [clock EXCEPT !.sid = t]
  <2>1. /\ m = [clock |-> clock, root |-> m.root, index |-> m.index]
        /\ clock = [sid |-> clock.sid, time |-> clock.time, peers |-> clock.peers]
    BY <1>1 DEF ModelOK
  <2>2. model'[t] = [m EXCEPT !.clock = named]
    BY <1>2, <2>1
  <2>3. named.sid = t /\ named.time = clock.time /\ named.peers = clock.peers
    BY <2>1
  <2> HIDE DEF named, clock, m
  <2>4. model'[t].clock = named /\ model'[t].root = m.root /\ model'[t].index = m.index
    BY <2>1, <2>2
  <2> QED
    BY <2>3, <2>4 DEF clock, m
<1>4. SessionOK(s)
  BY <1>1
<1>5. /\ Pending(s) = << >> /\ Pending(t)' = << >> /\ Firsts(s) = {} /\ Firsts(t)' = {}
      /\ ToSet(Pending(t)') = {} /\ ToSet(Pending(s)) = {}
  BY <1>1, MergeOfNone DEF Pending, Firsts, ToSet
<1>6. Got(t)' = Got(s) /\ \A u \in Sids \ {t} : Got(u)' = Got(u)
  BY <1>1, <1>2 DEF Got
<1>7. Ops(t)' = Ops(s)
  BY <1>5, <1>6 DEF Ops, OpsOf
<1>8. TookPart(model'[t], t, Ops(s), open')
  BY <1>1, <1>3, <1>4 DEF SessionOK, TookPart, ClockAhead
<1>9. EditsNamed(t)'
  BY <1>2, <1>4, <1>5, <1>6 DEF SessionOK, EditsNamed
<1>10. SessionOK(t)'
  <2>1. TookPart(model[t], t, Ops(t), open)'
    BY <1>7, <1>8
  <2> QED
    BY <1>5, <1>9, <2>1 DEF SessionOK, Backed, Whole
<1>11. \A u \in open : SessionOK(u)'
  <2>1. ASSUME NEW u \in open
        PROVE  SessionOK(u)'
    <3>1. u \in Sids \ {t} /\ SessionOK(u) /\ Got(u)' = Got(u)
      BY <1>1, <1>6
    <3> QED
      BY <1>1, <1>2, <3>1, SessionStays
  <2> QED
    BY <2>1
<1>12. WireOK'
  <2>1. \A u \in open : known[u] \subseteq known'[u] /\ FirstUnsent(u)' = FirstUnsent(u)
    BY <1>1, <1>2 DEF FirstUnsent, Pending
  <2>2. \A u \in Sids : FirstUnsent(u) \in Int
    BY <1>1, UnsentFacts
  <2>3. \A u \in open : FirstUnsent(u) <= FirstUnsent(u)'
    BY <1>1, <2>1, <2>2
  <2> QED
    BY <1>1, <2>1, <2>3, WireStays
<1>13. KnownOK'
  <2> SUFFICES ASSUME NEW u \in Sids
               PROVE  /\ known'[u] \subseteq 1 .. Cardinality(wire')
                      /\ \A q \in Got(u)' : q.deps \subseteq known'[u]
    BY DEF KnownOK
  <2>1. CASE u = t
    BY <1>1, <1>2, <1>6, <2>1 DEF KnownOK
  <2>2. CASE u # t
    BY <1>1, <1>2, <1>6, <2>2 DEF KnownOK
  <2> QED
    BY <2>1, <2>2
<1> QED
  BY <1>1, <1>2, <1>10, <1>11, <1>12, <1>13 DEF PageInv

\* What a session has, for the lemmas about snapshots.
LEMMA SessionFacts ==
  ASSUME PageInv, Careful, NEW s \in open
  PROVE  /\ s \in Sids /\ ModelOK(model[s]) /\ Ops(s) \in SUBSET Operation
         /\ Backed(Ops(s)) /\ Unique(Ops(s)) /\ Whole(Ops(s))
         /\ \A op \in Ops(s) : op.id.sid \in open
         /\ TookPart(model[s], s, Ops(s), open)
<1>1. IInv /\ WireOK /\ SessionOK(s) /\ s \in Sids /\ ModelOK(model[s])
  BY DEF PageInv, IInv, TypeOK
<1> QED
  BY <1>1, OpsFacts DEF SessionOK

\* A page that comes back has the document it saved.
LEMMA ReloadIsTheSame ==
  ASSUME PageInv, Careful, NEW s \in open
  PROVE  /\ TookPart(Loaded(model[s]), s, Ops(s), open)
         /\ Loaded(model[s]).root = model[s].root /\ Kept(Loaded(model[s])) = Kept(model[s])
         /\ View(Loaded(model[s])) = View(model[s])
         /\ Loaded(model[s]).clock.time = model[s].clock.time
<1> DEFINE m == model[s]
           ops == Ops(s)
<1>1. /\ s \in Sids /\ ModelOK(m) /\ ops \in SUBSET Operation
      /\ Backed(ops) /\ Unique(ops) /\ Whole(ops) /\ \A op \in ops : op.id.sid \in open
      /\ TookPart(m, s, ops, open)
  BY SessionFacts
<1> HIDE DEF m, ops
<1>2. /\ TookPart(Loaded(m), s, ops, open) /\ Loaded(m).root = m.root
      /\ Kept(Loaded(m)) = Kept(m) /\ View(Loaded(m)) = View(m)
  BY <1>1, LoadedIsTheSame
<1>3. Loaded(m).clock.time = m.clock.time
  BY <1>1, LoadedFields
<1> QED
  BY <1>2, <1>3 DEF m, ops

\* Reload
LEMMA ReloadKeepsPage ==
  ASSUME PageInv, IInv', Careful, Careful', NEW s \in Sids, Reload(s)
  PROVE  PageInv'
<1>1. /\ IInv /\ s \in open /\ local[s] = << >> /\ local' = [local EXCEPT ![s] = << >>]
      /\ local \in [Sids -> Seq(Seq(Operation) \ {<< >>})] /\ DOMAIN model = Sids
      /\ model' = [model EXCEPT ![s] = Loaded(@)] /\ SessionOK(s)
      /\ UNCHANGED <<open, edits, known, wire>>
  <2>1. Counted(Unflushed(s)) /\ IInv
    BY DEF PageInv, Reload
  <2>2. local[s] = << >>
    BY <2>1, FlushedIsEmpty
  <2> QED
    BY <2>2 DEF PageInv, IInv, TypeOK, Reload, Emptied
<1>2. local' = local /\ model'[s] = Loaded(model[s]) /\ \A t \in Sids \ {s} : model'[t] = model[t]
  BY <1>1
<1>3. /\ TookPart(Loaded(model[s]), s, Ops(s), open)
      /\ Loaded(model[s]).clock.time = model[s].clock.time
  BY <1>1, ReloadIsTheSame
<1>4. Pending(s)' = Pending(s) /\ Firsts(s)' = Firsts(s) /\ Got(s)' = Got(s)
  BY <1>1, <1>2 DEF Pending, Firsts, Got
<1>5. Ops(s)' = Ops(s)
  BY <1>4 DEF Ops, OpsOf
<1>6. TookPart(model[s], s, Ops(s), open)'
  BY <1>1, <1>2, <1>3, <1>5
<1>7. SessionOK(s)'
  <2>1. EditsNamed(s)'
    BY <1>1, <1>4 DEF SessionOK, EditsNamed
  <2> QED
    BY <1>1, <1>4, <1>6, <2>1 DEF SessionOK
<1>8. FirstUnsent(s) <= FirstUnsent(s)'
  <2>1. FirstUnsent(s)' = FirstUnsent(s) /\ FirstUnsent(s) \in Int
    BY <1>1, <1>2, <1>3, <1>4, UnsentFacts DEF FirstUnsent
  <2> QED
    BY <2>1
<1> QED
  BY <1>1, <1>2, <1>7, <1>8, OthersStay

\* A step that changes nothing of a page.
LEMMA NothingChanges ==
  ASSUME PageInv, IInv', Careful, Careful', UNCHANGED <<open, model, local, edits, known, wire>>
  PROVE  PageInv'
BY DEF PageInv, WireOK, PatchOK, KnownOK, SessionOK, EditsNamed, FirstUnsent, Pending, Firsts,
       Got, Ops, OpsOf

\* Every step of a session, and a step that changes nothing.
LEMMA StepKeepsPage ==
  ASSUME Careful, Careful', PageInv, [Next]_vars
  PROVE  PageInv'
<1>1. IInv /\ WireOK /\ \A s \in open : SessionOK(s)
  BY DEF PageInv
<1>2. IInv'
  BY <1>1, StepKeeps
<1>3. ASSUME NEW s \in open
      PROVE  /\ \A json \in Json : EditOK(s, SetRootOps(NextTs(s), json))
             /\ \A value \in Scalars \cup {"null", "undefined"} :
                  EditOK(s, SetKeyOps(NextTs(s), model[s].root, value))
  BY <1>1, EditsAreOK
<1>4. ASSUME NEW s \in Sids, NEW json \in Json, ApiSet(s, json)
      PROVE  PageInv'
  <2>1. s \in open /\ NextTs(s) \in Timestamp
    BY <1>1, <1>4, RootIsEarlier DEF ApiSet, WithBuilder, Change
  <2>2. SetRootOps(NextTs(s), json) # << >>
    BY <2>1, SetRootIsNumbered
  <2> QED
    BY <1>2, <1>3, <1>4, <2>1, <2>2, EditKeepsPage DEF ApiSet
<1>5. ASSUME NEW s \in Sids, NEW value \in Scalars \cup {"null", "undefined"},
             WithBuilder(s, SetKeyOps(NextTs(s), model[s].root, value))
      PROVE  PageInv'
  <2>1. s \in open /\ NextTs(s) \in Timestamp /\ model[s].root \in Ids
    BY <1>1, <1>5, RootIsEarlier DEF WithBuilder, Change
  <2>2. SetKeyOps(NextTs(s), model[s].root, value) # << >>
    BY <2>1, SetKeyIsNumbered
  <2> QED
    BY <1>2, <1>3, <1>5, <2>1, <2>2, EditKeepsPage
<1>6. ASSUME NEW s \in Sids, NEW value \in Scalars, ApiObjSet(s, value)
      PROVE  PageInv'
  BY <1>5, <1>6 DEF ApiObjSet
<1>7. ASSUME NEW s \in Sids, ApiObjDel(s)
      PROVE  PageInv'
  BY <1>5, <1>7 DEF ApiObjDel
<1>8. ASSUME NEW s \in Sids, NEW json \in Json, DiffApply(s, json)
      PROVE  PageInv'
  BY <1>2, <1>8, DiffKeepsPage
<1>9. ASSUME NEW s \in Sids, ApiFlush(s)
      PROVE  PageInv'
  BY <1>2, <1>9, FlushKeepsPage
<1>10. ASSUME NEW s \in Sids, ApiApply(s)
       PROVE  PageInv'
  <2>1. /\ local[s] = << >> /\ local' = [local EXCEPT ![s] = << >>]
        /\ local \in [Sids -> Seq(Seq(Operation) \ {<< >>})]
        /\ UNCHANGED <<open, model, edits, known, wire>>
    <3>1. Counted(Unflushed(s))
      BY <1>10 DEF ApiApply
    <3>2. local[s] = << >>
      BY <1>1, <3>1, FlushedIsEmpty
    <3> QED
      BY <1>1, <1>10, <3>2 DEF ApiApply, Emptied, IInv, TypeOK
  <2>2. local' = local
    BY <2>1
  <2> QED
    BY <1>2, <2>1, <2>2, NothingChanges
<1>11. ASSUME NEW s \in Sids, NEW patch \in wire, Receive(s, patch)
       PROVE  PageInv'
  BY <1>2, <1>11, ReceiveKeepsPage
<1>12. ASSUME NEW s \in Sids, NEW t \in Sids, ForkTo(s, t)
       PROVE  PageInv'
  BY <1>2, <1>12, ForkKeepsPage
<1>13. ASSUME NEW s \in Sids, Reload(s)
       PROVE  PageInv'
  BY <1>2, <1>13, ReloadKeepsPage
<1>14. CASE UNCHANGED vars
  BY <1>2, <1>14, NothingChanges DEF vars
<1>15. CASE Next
  BY <1>4, <1>6, <1>7, <1>8, <1>9, <1>10, <1>11, <1>12, <1>13, <1>15 DEF Next
<1> QED
  BY <1>14, <1>15
-----------------------------------------------------------------------------
(***************************************************************************)
(* The theorems.                                                           *)
(***************************************************************************)
\* Models, local changes and the patches sent keep their types; what waits holds
\* the last timestamps its clock has issued until the clock is moved past it, and
\* leaves a gap from then on; no edit is lost.
THEOREM SessionInvariance == Spec => []IInv
<1>1. Init => IInv
  BY InitHolds
<1>2. IInv /\ [Next]_vars => IInv'
  BY StepKeeps
<1> QED
  BY <1>1, <1>2, PTL DEF Spec

\* Whenever pages apply, diff, receive, fork or reload: an edit of an open document
\* was sent in a wire patch, waits in the local_changes of some session, or waited
\* there when apiApply or a reload emptied them.
THEOREM EditsAreNotLost == Spec => []NothingLost
<1>1. IInv => NothingLost
  BY DEF IInv
<1> QED
  BY <1>1, SessionInvariance, PTL

\* Whatever the pages do, the patch apiFlush sends is decoded as the operations
\* applied here, ids included, up to the first clock move past edits that waited;
\* each operation behind it comes to an earlier id than the one it has here.
THEOREM FlushedIdsSurvive == Spec => []PatchKeepsIds
<1>1. IInv => PatchKeepsIds
  <2> SUFFICES ASSUME IInv, NEW s \in Sids, NEW k \in DOMAIN Pending(s)
               PROVE  IF overtaken[s] = 0 \/ k <= overtaken[s]
                      THEN OnWire(Pending(s))[k] = Pending(s)[k]
                      ELSE OnWire(Pending(s))[k].id.time < Pending(s)[k].id.time
    BY DEF PatchKeepsIds
  <2> DEFINE ops == Pending(s)
             n == overtaken[s]
  <2>1. /\ ops \in Seq(Operation) /\ DOMAIN ops = 1 .. Len(ops) /\ Len(ops) \in Nat
        /\ ops # << >> /\ n \in Nat
    <3>1. ops \in Seq(Operation) /\ n \in Nat
      BY PendingOf DEF IInv, TypeOK
    <3> HIDE DEF n
    <3> QED
      BY <3>1
  <2>2. CASE n = 0
    <3>1. HoldLast(ops, s, model[s].clock.time)
      BY <2>2 DEF IInv, LastIssued
    <3>2. OnWire(ops) = ops
      BY <2>1, <3>1, PendingIsNumbered
    <3> QED
      BY <2>2, <3>2
  <2>3. CASE n # 0
    <3>1. LeaveGap(ops, n, model[s].clock.time)
      BY <2>3 DEF IInv, LastIssued
    <3> HIDE DEF ops, n
    <3>2. k \in DOMAIN ops
      BY DEF ops
    <3>3. ops[k] \in Operation /\ ops[1] \in Operation /\ k \in Nat
      BY <2>1, <3>2
    <3>4. OnWire(ops)[k] = [ops[k] EXCEPT !.id = At(ops[1].id, k - 1)]
      BY <3>2 DEF OnWire
    <3>5. CASE k <= n
      <4>1. ops[k].id = At(ops[1].id, k - 1)
        BY <3>1, <3>2, <3>5 DEF LeaveGap
      <4>2. [ops[k] EXCEPT !.id = ops[k].id] = ops[k]
        BY <3>3 DEF Operation
      <4>3. OnWire(ops)[k] = ops[k]
        BY <3>4, <4>1, <4>2
      <4> QED
        BY <3>5, <4>3 DEF ops, n
    <3>6. CASE ~(k <= n)
      <4>1. ops[1].id.time + k - 1 < ops[k].id.time
        BY <3>1, <3>2, <3>6 DEF LeaveGap
      <4>2. ops[1].id.time \in Nat
        BY <3>3 DEF Operation, Timestamp
      <4>3. At(ops[1].id, k - 1).time = ops[1].id.time + (k - 1)
        BY DEF At, Ts
      <4>4. OnWire(ops)[k].id = At(ops[1].id, k - 1)
        <5>1. \A t : [ops[k] EXCEPT !.id = t].id = t
          BY <3>3 DEF Operation
        <5> QED
          BY <3>4, <5>1
      <4>5. OnWire(ops)[k].id.time < ops[k].id.time
        BY <3>3, <4>1, <4>2, <4>3, <4>4
      <4> QED
        BY <2>3, <3>6, <4>5 DEF ops, n
    <3> QED
      BY <3>5, <3>6
  <2> QED
    BY <2>2, <2>3
<1> QED
  BY <1>1, SessionInvariance, PTL

\* A step after which all steps were careful follows steps that were.
LEMMA CarefulBefore == IInv /\ [Next]_vars /\ Careful' => Careful
<1> SUFFICES ASSUME IInv, [Next]_vars, Careful'
             PROVE  Careful
  OBVIOUS
<1>1. careless' = careless \/ \E isCareless : Counted(isCareless)
  <2>1. ASSUME NEW s \in Sids, NEW json \in Json, ApiSet(s, json)
        PROVE  careless' = careless
    BY <2>1 DEF ApiSet, WithBuilder
  <2>2. ASSUME NEW s \in Sids, NEW value, ApiObjSet(s, value)
        PROVE  careless' = careless
    BY <2>2 DEF ApiObjSet, WithBuilder
  <2>3. ASSUME NEW s \in Sids, ApiObjDel(s) \/ ApiFlush(s)
        PROVE  careless' = careless
    BY <2>3 DEF ApiObjDel, WithBuilder, ApiFlush
  <2>4. ASSUME NEW s \in Sids, ApiApply(s) \/ Reload(s)
        PROVE  Counted(Unflushed(s))
    BY <2>4 DEF ApiApply, Reload
  <2>5. ASSUME NEW s \in Sids, NEW json \in Json, DiffApply(s, json)
        PROVE  Counted(Unflushed(s))
    BY <2>5 DEF DiffApply
  <2>6. ASSUME NEW s \in Sids, NEW patch \in wire, Receive(s, patch)
        PROVE  Counted(Unflushed(s) \/ patch.n \in known[s])
    BY <2>6 DEF Receive
  <2>7. ASSUME NEW s \in Sids, NEW t \in Sids, ForkTo(s, t)
        PROVE  Counted(Unflushed(s))
    BY <2>7 DEF ForkTo
  <2>8. CASE UNCHANGED vars
    BY <2>8 DEF vars
  <2>9. CASE Next
    BY <2>1, <2>2, <2>3, <2>4, <2>5, <2>6, <2>7, <2>9 DEF Next
  <2> QED
    BY <2>8, <2>9
<1>2. ASSUME NEW isCareless, Counted(isCareless)
      PROVE  careless' = careless \/ careless' = careless + 1
  BY <1>2 DEF Counted, IInv, TypeOK
<1> QED
  BY <1>1, <1>2 DEF Careful, IInv, TypeOK

\* What holds of careful pages.
CarefulPages == Careful => PageInv

\* While pages flush before every other call and get each patch once: every session
\* has what the patches it took part in add up to, and no patch is sent out of turn.
THEOREM PageInvariance == Spec => []CarefulPages
<1>1. Init => CarefulPages
  BY InitIsPage DEF CarefulPages
<1>2. IInv /\ CarefulPages /\ [Next]_vars => CarefulPages'
  BY CarefulBefore, StepKeepsPage DEF CarefulPages
<1> QED
  BY <1>1, <1>2, SessionInvariance, PTL DEF Spec

\* The sessions of such pages that took part in the same edits show the same
\* document, whatever the order the patches came in, after any number of forks
\* and reloads.
THEOREM ViewsStayAgreed == Spec => []ViewsAgree
<1>1. CarefulPages => ViewsAgree
  BY SameEditsShowTheSame DEF CarefulPages, ViewsAgree
<1> QED
  BY <1>1, PageInvariance, PTL

\* Their snapshots are read back with the ids and the view they were saved with.
THEOREM SnapshotsComeBack == Spec => SnapshotKeepsIds
<1>1. ASSUME IInv, CarefulPages, NEW s \in open, Reload(s), Careful'
      PROVE  /\ Kept(model'[s]) = Kept(model[s])
             /\ Kept(model[s]) # {} => model'[s].root = model[s].root
             /\ View(model'[s]) = View(model[s])
  <2>1. s \in Sids /\ DOMAIN model = Sids
    BY <1>1 DEF IInv, TypeOK
  <2>2. model'[s] = Loaded(model[s])
    BY <1>1, <2>1 DEF Reload
  <2>3. Careful
    <3>1. Counted(Unflushed(s))
      BY <1>1 DEF Reload
    <3> QED
      BY <1>1, <3>1, FlushedIsEmpty
  <2> QED
    BY <1>1, <2>2, <2>3, ReloadIsTheSame DEF CarefulPages
<1>2. IInv /\ CarefulPages /\ [Next]_vars =>
        [\A s \in open : Reload(s) /\ Careful' =>
           /\ Kept(model'[s]) = Kept(model[s])
           /\ Kept(model[s]) # {} => model'[s].root = model[s].root
           /\ View(model'[s]) = View(model[s])]_vars
  BY <1>1
<1> QED
  BY <1>2, SessionInvariance, PageInvariance, PTL DEF Spec, SnapshotKeepsIds
=============================================================================
