-------------------------------- MODULE MCOt --------------------------------
(* A text of three letters, edited by two sites, and an array of three     *)
(* elements, one of which is a text, inside of an object.                  *)
EXTENDS Ot

MCOne == {5}
MCBase == <<"a", "b", "c">>
MCLetters == [s \in Sites |-> IF s = "left" THEN <<"l", "m">> ELSE <<"r">>]

Object(k, v) == ObjectOf(k :> v)
MCDocument ==
  Object("c", Object("b", ArrayOf(<<Scalar("1"), TextOf(<<"x", "y", "z">>), Scalar("2")>>)))

ItemAt(i) == <<"c", "b", StepOf(i)>>
MCProposals ==
  {AddOp(ItemAt(i), Scalar("3")) : i \in 0 .. 3}
    \cup {RemoveOp(ItemAt(i)) : i \in 0 .. 2}
    \cup {ReplaceOp(ItemAt(i), Scalar("3")) : i \in 0 .. 2}
    \cup {[op |-> "move", path |-> ItemAt(p[1]), from |-> ItemAt(p[2])] :
              p \in {p \in (0 .. 2) \X (0 .. 2) : p[1] < p[2]}}
    \cup {StrInsOp(ItemAt(1), pos, <<"p">>) : pos \in 0 .. 3}
    \cup {StrDelOp(ItemAt(1), pos, len) : pos \in 0 .. 2, len \in 1 .. 3}
    \cup {[op |-> "str_del", path |-> ItemAt(1), pos |-> p[1], len |-> << >>,
            text |-> <<SubSeq(<<"x", "y", "z">>, p[1] + 1, p[1] + p[2])>>] :
              p \in {p \in (0 .. 2) \X (1 .. 2) : p[1] + p[2] <= 3}}

MCAccepted ==
  LET In(key, i) == <<key, "b", StepOf(i)>>
      keys == {"c", "d"}
  IN  {AddOp(In(k, i), Scalar("4")) : k \in keys, i \in 0 .. 3}
        \cup {AddOp(<<"c">>, Scalar("4"))}
        \cup {RemoveOp(In(k, i)) : k \in keys, i \in 0 .. 2}
        \cup {RemoveOp(<<"d">>)}
        \cup {StrInsOp(In(k, i), pos, <<"q", "q">>) : k \in keys, i \in 0 .. 2, pos \in 0 .. 3}
        \cup {StrDelOp(In(k, i), pos, len) : k \in keys, i \in 0 .. 2, pos \in 0 .. 2, len \in 1 .. 2}
        \cup {[op |-> "move", from |-> <<"c">>, path |-> <<"d">>]}

Places(paths) == [i \in DOMAIN paths |-> [register |-> i, path |-> paths[i]]]
MovePaths == {<<"c">>, <<"d">>, <<"c", "b">>, <<"d", "b">>, <<"c", "b", "1">>, <<"d", "e">>}
Pairs == {p \in MovePaths \X MovePaths : p[1] # p[2]}
MCMoves ==
  {[pick |-> Places(from), data |-> << >>, drop |-> Places(to), edit |-> << >>] :
     from \in {<<p>> : p \in MovePaths} \cup Pairs, to \in {<<p>> : p \in MovePaths} \cup Pairs}
  \cup {[pick |-> << >>, data |-> 1 :> TextOf(<<"u", "v">>), drop |-> Places(<<<<"e">>>>),
         edit |-> <<[path |-> <<"e">>, edits |-> <<Text!Retain(1), Text!Delete(1)>>]>>]}
=============================================================================
