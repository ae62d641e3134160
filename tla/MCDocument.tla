----------------------------- MODULE MCDocument ----------------------------
(* Document with two sessions.  Every kind of node is edited by three      *)
(* patches or, where a load multiplies the states, by two and a load.      *)
EXTENDS Document

MCTwo == {4, 5}

One == Scalar("1")
Gone == Scalar("undefined")
Scenario(first, values, patches, loads) ==
  [first |-> first, values |-> values, patches |-> patches, reloads |-> loads]

MCScenarios ==
  { Scenario([kind |-> "none"], {One, TextOf(<<"a">>)}, 2, 1),
    Scenario(ObjectOf(<< >>), {One, Gone, ObjectOf(<< >>)}, 3, 0),
    Scenario(ObjectOf(<< >>), {One, Gone, ObjectOf(<< >>)}, 2, 1),
    Scenario([kind |-> "vec"], {One}, 3, 0),
    Scenario([kind |-> "bin"], {One}, 2, 1),
    Scenario(TextOf(<<"a", "b", "c">>), {One}, 2, 1),
    Scenario(ArrayOf(<<One>>), {One}, 3, 0),
    Scenario(ArrayOf(<<One, One>>), {One}, 2, 1) }
=============================================================================
