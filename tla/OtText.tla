------------------------------- MODULE OtText -------------------------------
(***************************************************************************)
(* Operational transformation of texts: ot_string, and ot_string_irrev and *)
(* ot_binary_irrev, which are the same without the component that deletes  *)
(* a text it names.  An operation is a sequence of components.             *)
(***************************************************************************)
EXTENDS Integers, Sequences, SequencesExt, FiniteSetsExt

Retain(n) == [is |-> "retain", len |-> n]
Delete(n) == [is |-> "delete", len |-> n]
DeleteStr(text) == [is |-> "delete_str", text |-> text]
Insert(text) == [is |-> "insert", text |-> text]

Size(c) == IF c.is \in {"retain", "delete"} THEN c.len ELSE Len(c.text)
SrcLen(c) == IF c.is = "insert" THEN 0 ELSE Size(c)
Deletes(c) == c.is \in {"delete", "delete_str"}

\* The first `n` letters of a component, and what is left behind them; a mutant
\* leaves as many from the front.
First(c, n) ==
  IF c.is \in {"retain", "delete"} THEN [c EXCEPT !.len = n]
  ELSE [c EXCEPT !.text = SubSeq(@, 1, n)]
RestFromStart(c, n) ==
  IF c.is \in {"retain", "delete"} THEN [c EXCEPT !.len = @ - n]
  ELSE [c EXCEPT !.text = SubSeq(@, 1, Len(@) - n)]
Rest(c, n) ==
  IF c.is \in {"retain", "delete"} THEN [c EXCEPT !.len = @ - n]
  ELSE [c EXCEPT !.text = SubSeq(@, n + 1, Len(@))]

\* append: a component joins the one before it if they do the same.
Appended(op, c) ==
  IF op # << >> /\ Last(op).is = c.is
  THEN Append(Front(op), IF c.is \in {"retain", "delete"} THEN [c EXCEPT !.len = @ + Last(op).len]
                         ELSE [c EXCEPT !.text = Last(op).text \o @])
  ELSE Append(op, c)

\* normalize
Normal(op) ==
  LET joined == FoldLeft(LAMBDA all, c : IF Size(c) = 0 THEN all ELSE Appended(all, c), << >>, op)
  IN  IF joined # << >> /\ Last(joined).is = "retain" THEN Front(joined) ELSE joined

Span(op) == FoldLeft(LAMBDA n, c : n + SrcLen(c), 0, op)

\* apply, of an operation that fits the text (the code panics if not).
Apply(text, op) ==
  LET Step(r, c) ==
        [out |-> CASE c.is = "retain" -> r.out \o SubSeq(text, r.at + 1, r.at + c.len)
                   [] c.is = "insert" -> r.out \o c.text
                   [] Deletes(c) -> r.out,
         at |-> r.at + SrcLen(c)]
      end == FoldLeft(Step, [out |-> << >>, at |-> 0], op)
  IN  end.out \o SubSeq(text, end.at + 1, Len(text))

\* One step over the heads of two operations, cut to the same length: what
\* comes out, and what is left of both.
Cut(op, n) == IF Size(Head(op)) = n THEN Tail(op) ELSE <<Rest(Head(op), n)>> \o Tail(op)
Common(p, q) == Min({Size(Head(p)), Size(Head(q))})

RECURSIVE Composed(_, _, _)

\* Mutant of Both: a deletion removes nothing of what was inserted.
BothInserted(c, d, n) == IF Deletes(d) /\ c.is = "retain" THEN <<First(d, n)>> ELSE <<First(c, n)>>

\* What a retained or inserted part becomes that is then retained or deleted.
Both(c, d, n) ==
  CASE d.is = "retain" -> <<First(c, n)>>
    [] Deletes(d) /\ c.is = "retain" -> <<First(d, n)>>
    [] Deletes(d) /\ c.is = "insert" -> << >>

Composed(out, p, q) ==
  CASE p = << >> -> FoldLeft(Appended, out, q)
    [] p # << >> /\ q = << >> -> FoldLeft(Appended, out, p)
    [] p # << >> /\ q # << >> /\ Deletes(Head(p)) -> Composed(Appended(out, Head(p)), Tail(p), q)
    [] p # << >> /\ q # << >> /\ ~Deletes(Head(p)) /\ Head(q).is = "insert" ->
         Composed(Appended(out, Head(q)), p, Tail(q))
    [] OTHER ->
         LET n == Common(p, q)
         IN  Composed(FoldLeft(Appended, out, Both(Head(p), Head(q), n)), Cut(p, n), Cut(q, n))

Compose(p, q) == Normal(Composed(<< >>, p, q))

RECURSIVE Transformed(_, _, _)

\* Mutant of Survives: what both delete is deleted twice.
SurvivesDeleted(c, d, n) == IF c.is = "retain" /\ Deletes(d) THEN << >> ELSE <<First(c, n)>>

\* What a retained or deleted part becomes once the other operation has
\* retained or deleted it.
Survives(c, d, n) == IF Deletes(d) THEN << >> ELSE <<First(c, n)>>

\* `left_wins` is the same in both ways: the other insertion always comes
\* first.
Transformed(out, p, q) ==
  CASE p = << >> -> out
    [] p # << >> /\ q = << >> -> FoldLeft(Appended, out, p)
    [] p # << >> /\ q # << >> /\ Head(q).is = "insert" ->
         Transformed(Appended(out, Retain(Size(Head(q)))), p, Tail(q))
    [] p # << >> /\ q # << >> /\ Head(q).is # "insert" /\ Head(p).is = "insert" ->
         Transformed(Appended(out, Head(p)), Tail(p), q)
    [] OTHER ->
         LET n == Common(p, q)
         IN  Transformed(FoldLeft(Appended, out, Survives(Head(p), Head(q), n)),
                         Cut(p, n), Cut(q, n))

Transform(op, against, leftWins) == Normal(Transformed(<< >>, op, against))
-----------------------------------------------------------------------------
\* The same of ot_string_irrev and ot_binary_irrev, whose operations have no
\* component that names what it deletes.
IrrevCompose(p, q) == Compose(p, q)
IrrevTransform(op, against, leftWins) == Transform(op, against, leftWins)
BinaryCompose(p, q) == Compose(p, q)
BinaryTransform(op, against, leftWins) == Transform(op, against, leftWins)
=============================================================================
