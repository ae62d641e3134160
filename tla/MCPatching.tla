----------------------------- MODULE MCPatching -----------------------------
(* Patching of an object with a text and an array.                         *)
EXTENDS Patching

MCOne == {5}
One == Scalar("1")
Two == Scalar("2")
MCDocuments ==
  {ObjectOf([k \in {"a", "b"} |-> IF k = "a" THEN TextOf(<<"x">>) ELSE ArrayOf(<<One, One>>)])}
MCTargets ==
  {ObjectOf([k \in {"b"} |-> ArrayOf(<<Two, One>>)]),
   ObjectOf([k \in {"a", "b"} |-> IF k = "a" THEN TextOf(<<"y", "x">>) ELSE ArrayOf(<< >>)])}
MCPaths == {<< >>, <<"a">>, <<"b">>, <<"b", "0">>, <<"b", "2">>, <<"b", "-">>, <<"b", "1", "a">>}
MCSources == {<< >>, <<"a">>, <<"b", "0">>, <<"b", "1", "a">>}
MCValues == {One, TextOf(<<"x">>), ObjectOf([k \in {"a"} |-> Two])}
MCTexts == {<<"y">>}
=============================================================================
