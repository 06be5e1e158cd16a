---------------------------- MODULE MCChainState ----------------------------
(* Instances of ChainState for TLC. *)
EXTENDS ChainState

CONSTANTS n1, p1

MCNet == {n1}
MCPool == {p1}
NoPool == {}
NoCheckpoints == {}
LaterBlocks == Blocks \ {1}
AnyBlock == Blocks
AnyMode == BOOLEAN
Advisory == {FALSE}
Enforcing == {TRUE}

AllTrees == {f \in [Blocks -> All] : \A b \in Blocks : f[b] < b}
(* A branch of two blocks and one of one block. *)
Fork == {[b \in Blocks |-> IF b <= 2 THEN Genesis ELSE b - 2]}
SameWork == [Blocks -> {1}]
(* All blocks have the same work, or one of them more. *)
OneHeavy == {[b \in Blocks |-> IF b = 3 THEN n ELSE 1] : n \in 1..2}
=============================================================================
