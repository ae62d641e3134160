------------------------------ MODULE TextOps ------------------------------
(***************************************************************************)
(* The operations on a str node: InsStr puts a run of characters behind    *)
(* the one it refers to, Del hides the characters it names.  `deps` are    *)
(* the operations its author had applied.                                  *)
(***************************************************************************)
EXTENDS Clock

CONSTANTS Author,    \* the session that created the node
          InitLen,   \* characters of the first run, which every replica has
          MaxOps,    \* bound: operations issued after that run
          MaxRun     \* bound: characters one insertion may have

ASSUME TextAssumption ==
  Author \in Sids /\ InitLen \in Nat /\ MaxOps \in Nat /\ MaxRun \in Nat \ {0}

\* The node is created, then its first run, then the root is set to the node.
StrId == Ts(Author, 1)
FirstTime == 3

InsStr(id, after, span, deps) ==
  [kind |-> "ins", id |-> id, after |-> after, span |-> span, deps |-> deps]

Del(id, what, deps) ==
  [kind |-> "del", id |-> id, what |-> what, span |-> 1, deps |-> deps]
=============================================================================
