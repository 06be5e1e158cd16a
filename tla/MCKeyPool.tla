----------------------------- MODULE MCKeyPool -----------------------------
(* Instances of KeyPool for TLC. *)
EXTENDS KeyPool, TLC

CONSTANTS c1, c2, p1

MCForgetful == {c1, c2}
MCPayments == {p1}
Sym == Permutations(MCForgetful)
=============================================================================
