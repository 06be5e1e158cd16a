--------------------------- MODULE MCConfirmations ---------------------------
(* An instance of Confirmations for TLC. *)
EXTENDS Confirmations

(* One chain; one that forks above the pool's first block; the pool's      *)
(* first block alone against all others, the last of which is the pool's.  *)
Chain == [b \in Blocks |-> b - 1]
Branching == [b \in Blocks |-> IF b = 3 THEN 1 ELSE b - 1]
Forked == [b \in Blocks |-> IF b <= 2 THEN Genesis ELSE b - 1]
MCTrees == {Chain, Branching, Forked}
FirstAndLast == {1, NBlocks}
=============================================================================
