---------------------------- MODULE MCXptReplies ----------------------------
(* An instance of XptReplies for TLC. *)
EXTENDS XptReplies

CONSTANTS m1, m2

MCClients == {m1, m2}
(* The most workloads that fit, the first number that does not, and the    *)
(* first that is refused.                                                  *)
MCPayloads == {126, 127, 129}
ThreeOrFour == [c \in MCClients |-> IF c = m1 THEN 4 ELSE 3]
=============================================================================
