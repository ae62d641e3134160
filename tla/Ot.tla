--------------------------------- MODULE Ot ---------------------------------
(* Operational transformation: JSON Patch, and two sites and a document at
   work. *)
EXTENDS JsonPatch

(***************************************************************************)
(* Operational transformation of JSON Patches (json_patch_ot), and the     *)
(* operations of ot_json, which pick values into registers and drop them   *)
(* elsewhere.                                                              *)
(***************************************************************************)
IsIndex(step) == step \in DOMAIN Index \cup {"-"}
IsChild(parent, child) == Len(child) > Len(parent) /\ IsPrefix(parent, child)

\* `path` goes through the array that the last step of `at` is an index of.
SameArray(at, path) ==
  /\ Len(path) >= Len(at)
  /\ IsPrefix(Front(at), path)
  /\ Last(at) \in DOMAIN Index
  /\ path[Len(at)] \in DOMAIN Index

\* Mutant of BumpArrayPath: the element at the index itself stays.
BumpArrayPathBehind(at, path) ==
  IF SameArray(at, path) /\ Index[Last(at)] < Index[path[Len(at)]]
  THEN [path EXCEPT ![Len(at)] = StepOf(Index[@] + 1)] ELSE path

BumpArrayPath(at, path) ==
  IF SameArray(at, path) /\ Index[Last(at)] <= Index[path[Len(at)]]
  THEN [path EXCEPT ![Len(at)] = StepOf(Index[@] + 1)] ELSE path

LowerArrayPath(at, path) ==
  IF SameArray(at, path) /\ Index[Last(at)] < Index[path[Len(at)]]
  THEN [path EXCEPT ![Len(at)] = StepOf(Index[@] - 1)] ELSE path

HasFrom(op) == "from" \in DOMAIN op

PathsOf(op) == {op.path} \cup IF HasFrom(op) THEN {op.from} ELSE {}

\* with_path and with_from: `to` gives the new path for each.
WithPaths(op, to) ==
  IF HasFrom(op) THEN [op EXCEPT !.path = to[@], !.from = to[@]] ELSE [op EXCEPT !.path = to[@]]
-----------------------------------------------------------------------------
\* What becomes of `op` when an operation at `at` was accepted before it: one
\* operator per operation, each the sequence of what takes its place.
OverAdd(at, op) ==
  CASE at = << >> -> << >>
    [] at # << >> /\ op.path # << >> /\ ~IsIndex(Last(at)) /\ IsChild(at, op.path) -> << >>
    [] at # << >> /\ op.path # << >> /\ IsIndex(Last(at)) ->
         <<WithPaths(op, [path \in PathsOf(op) |-> BumpArrayPath(at, path)])>>
    [] OTHER -> <<op>>

OverRemove(at, op) ==
  CASE at = << >> -> << >>
    [] at # << >> /\ op.path = << >> -> <<op>>
    [] OTHER ->
         IF \/ op.op = "remove" /\ op.path = at /\ IsIndex(Last(at))
            \/ IsChild(at, op.path)
            \/ HasFrom(op) /\ IsChild(at, op.from)
         THEN << >>
         ELSE IF IsIndex(Last(at))
         THEN <<WithPaths(op, [path \in PathsOf(op) |-> LowerArrayPath(at, path)])>> ELSE <<op>>

\* What is inside of what was moved goes with it; nothing else changes.
OverMove(from, at, op) ==
  IF at # << >> /\ IsChild(from, op.path)
  THEN <<[op EXCEPT !.path = at \o SubSeq(@, Len(from) + 1, Len(@))]>>
  ELSE <<op>>

\* str_del_len: a deletion may name its letters or count them.
StrDelLen(op) == IF op.text # << >> THEN Len(op.text[1]) ELSE op.len[1]
\* `n` letters of a deletion, from its letter `from` on, at `pos`
PartOf(op, pos, from, n) ==
  IF op.text # << >>
  THEN [op EXCEPT !.pos = pos, !.text = <<SubSeq(@[1], from + 1, from + n)>>, !.len = << >>]
  ELSE [op EXCEPT !.pos = pos, !.len = <<n>>]

\* A deletion around the insertion becomes two, the one behind it first.
OverStrIns(at, pos, len, op) ==
  LET before == pos - op.pos
      all == StrDelLen(op)
  IN  CASE op.op = "str_ins" /\ op.path = at /\ pos <= op.pos -> <<[op EXCEPT !.pos = @ + len]>>
        [] op.op = "str_del" /\ op.path = at /\ op.pos < pos /\ op.pos + all > pos ->
             <<PartOf(op, pos + len, before, all - before), PartOf(op, op.pos, 0, before)>>
        [] op.op = "str_del" /\ op.path = at /\ pos <= op.pos -> <<[op EXCEPT !.pos = @ + len]>>
        [] OTHER -> <<op>>

\* An insertion in what is gone moves to its start; a deletion deletes what is
\* left of its letters.
OverStrDel(at, pos, len, op) ==
  LET end == pos + len
      opEnd == op.pos + StrDelLen(op)
      left == Max({0, opEnd - end})
      around == (pos - op.pos) + Max({0, opEnd - end})
      Deletion(p, from, n) == IF n = 0 THEN << >> ELSE <<PartOf(op, p, from, n)>>
  IN  CASE op.op = "str_ins" /\ op.path = at /\ op.pos > pos ->
             <<[op EXCEPT !.pos = IF @ >= end THEN @ - len ELSE pos]>>
        [] op.op = "str_del" /\ op.path = at /\ pos <= op.pos /\ end > op.pos -> Deletion(pos, end - op.pos, left)
        [] op.op = "str_del" /\ op.path = at /\ pos > op.pos /\ opEnd > pos -> Deletion(op.pos, 0, around)
        [] op.op = "str_del" /\ op.path = at /\ pos < op.pos /\ end <= op.pos ->
             <<[op EXCEPT !.pos = @ - len]>>
        [] OTHER -> <<op>>

\* apply_xform
Over(acc, op) ==
  CASE acc.op = "add" -> OverAdd(acc.path, op)
    [] acc.op = "remove" -> OverRemove(acc.path, op)
    [] acc.op = "move" -> OverMove(acc.from, acc.path, op)
    [] acc.op = "str_ins" -> OverStrIns(acc.path, acc.pos, Len(acc.text), op)
    [] acc.op = "str_del" -> OverStrDel(acc.path, acc.pos, StrDelLen(acc), op)
    [] OTHER -> <<op>>

\* transform
TransformPatch(accepted, proposed) ==
  FoldLeft(LAMBDA ops, acc : FlattenSeq([i \in DOMAIN ops |-> Over(acc, ops[i])]),
           proposed, accepted)
-----------------------------------------------------------------------------
\* ot_json: a place is [register, path].
Pick(r, place) ==
  IF Get(r.doc, place.path) = Missing THEN r
  ELSE [doc |-> IF place.path = << >> THEN Scalar("null") ELSE ApplyRemove(r.doc, place.path).doc,
        held |-> Set(r.held, place.register, Get(r.doc, place.path))]

\* A value goes behind the end of an array if its index is further.
Drop(doc, path, v) ==
  LET added == ApplyAdd(doc, path, v)
      parent == Parent(doc, path)
  IN  IF path # << >> /\ ~added.ok /\ parent.kind = "arr" /\ Last(path) \in DOMAIN Index
      THEN With(doc, Front(path), ArrayOf(Append(parent.items, v)))
      ELSE added.doc

\* Stably sorted by the length of the paths, downwards if `sign` is -1.
ByLength(places, sign) ==
  LET Earlier(i, j) ==
        LET by == sign * (Len(places[j].path) - Len(places[i].path)) IN by > 0 \/ (by = 0 /\ i < j)
      order == SetToSortSeq(DOMAIN places, Earlier)
  IN  [i \in DOMAIN order |-> places[order[i]]]

Text == INSTANCE OtText

Edit(doc, edit) ==
  LET v == Get(doc, edit.path)
  IN  IF v.kind = "str" THEN With(doc, edit.path, TextOf(Text!Apply(v.text, edit.edits))) ELSE doc

\* apply of ot_json, from the values picked on.
Dropped(picked, op) ==
  LET held == op.data @@ picked.held
  IN  FoldLeft(LAMBDA now, place :
                 IF place.register \in DOMAIN held THEN Drop(now, place.path, held[place.register])
                 ELSE now,
               picked.doc, ByLength(op.drop, 1))

\* Mutant of JsonOtApply: values are picked in the order of the operation.
JsonOtApplyAsListed(doc, op) ==
  LET picked == FoldLeft(Pick, [doc |-> doc, held |-> << >>], op.pick)
  IN  FoldLeft(Edit, Dropped(picked, op), op.edit)

\* apply of ot_json: the deepest values are picked first, the shallowest
\* dropped first.
JsonOtApply(doc, op) ==
  LET picked == FoldLeft(Pick, [doc |-> doc, held |-> << >>], ByLength(op.pick, -1))
  IN  FoldLeft(Edit, Dropped(picked, op), op.edit)

-----------------------------------------------------------------------------
(***************************************************************************)
(* Sessions of operational transformation.  The library has the functions  *)
(* only, so the session around them is the one they are made for:          *)
(*   - "string", "irrev", "binary": two sites edit a text, each composes   *)
(*     its edits to one operation, which is accepted while the operation   *)
(*     of the other site is transformed against it;                        *)
(*   - "patch": a JSON Patch operation is transformed against each of the  *)
(*     operations that are accepted before it;                             *)
(*   - "json": registers move values inside of a document.                 *)
(***************************************************************************)
CONSTANTS Base,        \* the letters of the text
          Letters,     \* what each site inserts
          Document, Proposals, Accepted,
          Moves,       \* the operations of ot_json
          Ties,        \* whether both sites may insert at the same place
          MaxEdits, MaxAccepts

VARIABLE session

Sites == {"left", "right"}
Other(site) == CHOOSE s \in Sites : s # site
TextTypes == {"string", "irrev", "binary"}

\* An edit of a text of length `n`, as an operation of its type.
Insertion(at, text) == Text!Normal(<<Text!Retain(at), Text!Insert(text)>>)
Deletion(type, text, at, len) ==
  LET gone == IF type = "string" THEN Text!DeleteStr(SubSeq(text, at + 1, at + len))
              ELSE Text!Delete(len)
  IN  Text!Normal(<<Text!Retain(at), gone>>)
Edits(type, text, letters) ==
  {Insertion(at, letters) : at \in 0 .. Len(text)}
    \cup {Deletion(type, text, p[1], p[2]) :
            p \in {p \in (0 .. Len(text) - 1) \X (1 .. 2) : p[1] + p[2] <= Len(text)}}

ComposeOf(type, p, q) ==
  CASE type = "string" -> Text!Compose(p, q)
    [] type = "irrev" -> Text!IrrevCompose(p, q)
    [] type = "binary" -> Text!BinaryCompose(p, q)
TransformOf(type, op, against, leftWins) ==
  CASE type = "string" -> Text!Transform(op, against, leftWins)
    [] type = "irrev" -> Text!IrrevTransform(op, against, leftWins)
    [] type = "binary" -> Text!BinaryTransform(op, against, leftWins)

\* Where an operation inserts, counted in the text it is for.
InsertsAt(op) ==
  {Text!Span(SubSeq(op, 1, i - 1)) : i \in {j \in DOMAIN op : op[j].is = "insert"}}
-----------------------------------------------------------------------------
Init ==
  \/ \E type \in TextTypes :
       session = [type |-> type, base |-> Base, text |-> [s \in Sites |-> Base],
                  op |-> [s \in Sites |-> << >>], edits |-> [s \in Sites |-> 0], accepts |-> 0]
  \/ \E op \in Proposals :
       /\ Patched(Document, op).ok
       /\ session = [type |-> "patch", saw |-> Document, made |-> op, doc |-> Document,
                     pending |-> <<op>>, accepts |-> 0]
  \/ session = [type |-> "json", doc |-> Document, accepts |-> 0]

EditText(site) ==
  /\ session.type \in TextTypes
  /\ session.edits[site] < MaxEdits
  /\ \E edit \in Edits(session.type, session.text[site], Letters[site]) :
       session' = [session EXCEPT
         !.text[site] = Text!Apply(@, edit),
         !.op[site] = ComposeOf(session.type, @, edit),
         !.edits[site] = @ + 1]

\* The operation of a site is accepted and the other site catches up.
AcceptText(site) ==
  LET mine == session.op[site]
      theirs == session.op[Other(site)]
  IN  /\ session.type \in TextTypes
      /\ mine # << >>
      /\ session.accepts < MaxAccepts
      /\ Ties \/ InsertsAt(mine) \cap InsertsAt(theirs) = {}
      /\ session' = [session EXCEPT
           !.base = session.text[site],
           !.op = [s \in Sites |->
                     IF s = site THEN << >>
                     ELSE TransformOf(session.type, theirs, mine, s = "left")],
           !.text[Other(site)] =
             Text!Apply(@, TransformOf(session.type, mine, theirs, site = "left")),
           !.accepts = @ + 1]

\* An operation is accepted before the one that is pending.
AcceptPatch(op) ==
  /\ session.type = "patch"
  /\ session.accepts < MaxAccepts
  /\ Patched(session.doc, op).ok
  /\ session' = [session EXCEPT
       !.doc = Patched(@, op).doc,
       !.pending = TransformPatch(<<op>>, @),
       !.accepts = @ + 1]

AcceptMove(op) ==
  /\ session.type = "json"
  /\ session.accepts < MaxAccepts
  /\ session' = [session EXCEPT !.doc = JsonOtApply(@, op), !.accepts = @ + 1]

Stop == UNCHANGED session

Next ==
  \/ \E site \in Sites : EditText(site) \/ AcceptText(site)
  \/ \E op \in Accepted : AcceptPatch(op)
  \/ \E op \in Moves : AcceptMove(op)
  \/ Stop

Spec == Init /\ [][Next]_session
-----------------------------------------------------------------------------
\* What a site composed leads from the text both know to the text it shows,
\* whatever was accepted meanwhile: composing is doing one after the other, and
\* the two ways around a pair of operations meet.
SitesAgree ==
  session.type \in TextTypes =>
    \A s \in Sites : Text!Apply(session.base, session.op[s]) = session.text[s]

\* A deletion that names a text deletes this text, so that it can be inverted.
DeletesNamed ==
  session.type = "string" =>
    \A s \in Sites : \A i \in DOMAIN session.op[s] :
      LET c == session.op[s][i]
          at == Text!Span(SubSeq(session.op[s], 1, i - 1))
      IN  c.is = "delete_str" => SubSeq(session.base, at + 1, at + Len(c.text)) = c.text

-----------------------------------------------------------------------------
\* The array of a document, by where it may have been moved as a whole, and its
\* elements by what tells them apart: their value, or being the text.
ArrayPaths == {<<"c", "b">>, <<"d", "b">>}
HasArray(doc) == \E path \in ArrayPaths : Get(doc, path).kind = "arr"
ItemsOf(doc) == Get(doc, CHOOSE path \in ArrayPaths : Get(doc, path).kind = "arr").items
Names(doc) ==
  [i \in DOMAIN ItemsOf(doc) |-> IF ItemsOf(doc)[i].kind = "str" THEN "text" ELSE ItemsOf(doc)[i].value]
TextIn(doc) == ItemsOf(doc)[SelectInSeq(Names(doc), LAMBDA x : x = "text")].text

Before(seq, x, y) ==
  SelectInSeq(seq, LAMBDA z : z = x) < SelectInSeq(seq, LAMBDA z : z = y)

\* `x` lies in `seq` where it lies in `plan`, seen from what both have.
LiesAsIn(seq, plan, x) ==
  \A y \in ToSet(seq) \cap ToSet(plan) : Before(seq, x, y) <=> Before(plan, x, y)

ElementOf(doc, path) == Names(doc)[Index[Last(path)] + 1]

\* What the pending operation is meant to take out of the array and to put there.
Taken ==
  CASE session.made.op \in {"remove", "replace"} -> {ElementOf(session.saw, session.made.path)}
    [] session.made.op = "move" -> {ElementOf(session.saw, session.made.from)}
    [] OTHER -> {}
Placed ==
  CASE session.made.op \in {"add", "replace"} -> {session.made.value.value}
    [] session.made.op = "move" -> Taken
    [] OTHER -> {}

\* What comes out in the end. A move onto itself, which is refused, has nothing
\* left to do.
Outcome ==
  IF \E op \in ToSet(session.pending) : op.op = "move" /\ op.from = op.path THEN Ok(session.doc)
  ELSE PatchedAll(session.doc, session.pending)

\* An operation on an array that is transformed against what was accepted before
\* it takes the element it was made for and puts its element between those it
\* was made to lie between; it is gone if the array is, or if it removes what
\* was removed.
ElementsMeant ==
  (session.type = "patch" /\ session.made.op \in {"add", "remove", "replace", "move"}) =>
    LET done == Outcome
        now == Names(session.doc)
        plan == Names(Patched(session.saw, session.made).doc)
    IN  IF ~HasArray(session.doc) THEN session.pending = << >>
        ELSE IF session.made.op = "move" /\ Get(session.doc, Front(session.made.from)) = Missing THEN TRUE
        ELSE IF Taken \subseteq ToSet(now)
        THEN /\ done.ok
             /\ SelectSeq(Names(done.doc), LAMBDA x : x \notin Placed)
                  = SelectSeq(now, LAMBDA x : x \notin Taken)
             /\ Placed \subseteq ToSet(Names(done.doc))
             /\ \A x \in Placed : LiesAsIn(Names(done.doc), plan, x)
        ELSE session.made.op = "remove" => session.pending = << >>

\* An operation on a text deletes the letters it was made to delete, those and
\* no others, and inserts between the letters it was made to insert between,
\* wherever the text is by now.
LettersMeant ==
  (session.type = "patch" /\ session.made.op \in {"str_ins", "str_del"}) =>
    LET done == Outcome
        now == TextIn(session.doc)
        old == TextIn(session.saw)
        plan == TextIn(Patched(session.saw, session.made).doc)
        new == TextIn(done.doc)
    IN  IF ~HasArray(session.doc) THEN session.pending = << >>
        ELSE "text" \in ToSet(Names(session.doc)) =>
          /\ done.ok
          /\ SelectSeq(new, LAMBDA x : x \in ToSet(old) \cup ToSet(now))
               = SelectSeq(now, LAMBDA x : x \notin ToSet(old) \ ToSet(plan))
          /\ \A x \in ToSet(plan) \ ToSet(old) : x \in ToSet(new) /\ LiesAsIn(new, plan, x)

\* An operation of a JSON Patch that is transformed against what was accepted
\* before it does what it was made to do, to elements and to letters.
DoesAsMeant == ElementsMeant /\ LettersMeant
-----------------------------------------------------------------------------
\* An operation of ot_json drops all it picks, to places that are free.
Free(doc, op) ==
  LET picked == FoldLeft(Pick, [doc |-> doc, held |-> << >>], ByLength(op.pick, -1))
      to == JsonOtApply(doc, op)
      drops == ToSet(op.drop)
  IN  /\ {d.register : d \in drops} = DOMAIN picked.held
      /\ \A d \in drops :
        /\ Get(picked.doc, d.path) = Missing
        /\ Get(to, d.path) # Missing
        /\ \A e \in drops : (e # d /\ IsPrefix(e.path, d.path)) =>
             Get(picked.held[e.register], SubSeq(d.path, Len(e.path) + 1, Len(d.path))) = Missing

\* What was moved through registers to places that were free is moved back by
\* the operation the other way round, also when what it moves lies inside of
\* something else it moves.
MovesGoBack ==
  session.type = "json" =>
    \A op \in Moves : Free(session.doc, op) =>
      JsonOtApply(JsonOtApply(session.doc, op),
                  [op EXCEPT !.pick = op.drop, !.drop = op.pick, !.edit = << >>]) = session.doc
=============================================================================
