----------------------------- MODULE MCXptLogin -----------------------------
(* An instance of XptLogin for TLC. *)
EXTENDS XptLogin

CONSTANTS m1, m2, m3, short, long, cut

MCClients == {m1, m2, m3}
MCNames == {short, long, cut}

(* Two miners of one worker, and one of a worker with a name of more than  *)
(* 32 characters.                                                          *)
TwoWorkers == [c \in MCClients |-> IF c = m3 THEN long ELSE short]
FirstPart == [n \in MCNames |-> IF n = long THEN cut ELSE n]
OnceOrTwice == [c \in MCClients |-> IF c = m2 THEN 2 ELSE 1]
=============================================================================
