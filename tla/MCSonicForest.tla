---------------------------- MODULE MCSonicForest ----------------------------
(* Every container on its own, with as many keys as its deletion cases need: *)
(* the splaying tree holds each of three keys twice, and the iterators of    *)
(* the sorted map multiply its states.                                       *)
EXTENDS SonicForest

Sizes8 == [avl |-> 8, rb |-> 6, llrb |-> 8, splay |-> 6, sorted |-> 5]

OnlyRedBlack == [rb |-> 6]
==============================================================================
