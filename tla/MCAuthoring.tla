---------------------------- MODULE MCAuthoring ----------------------------
(* Authoring with a text of one letter and with an object.                 *)
EXTENDS Authoring

MCTwo == {4, 5}

One == Scalar("1")
Text(letters) == TextOf(letters)
Nested(text) == ObjectOf([k \in {"a"} |-> ArrayOf(<<text, One>>)])

MCScenarios ==
  { [first |-> Text(<<"a">>), texts |-> {<<"x">>}, values |-> {}, targets |-> {},
     mine |-> 2, theirs |-> 1],
    [first |-> Text(<<"a">>), texts |-> {<<"x">>}, values |-> {},
     targets |-> {Text(<<"x", "y">>)}, mine |-> 2, theirs |-> 1],
    [first |-> Nested(Text(<<"a">>)), texts |-> {}, values |-> {One},
     targets |-> {Nested(Text(<<"b">>)), ObjectOf([k \in {"a", "b"} |-> One])},
     mine |-> 3, theirs |-> 1] }
=============================================================================
