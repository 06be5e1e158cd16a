---------------------------- MODULE MCCheckQueue ----------------------------
(* An instance of CheckQueue for TLC. *)
EXTENDS CheckQueue

CONSTANTS w1, w2, m1, none, good1, good2, good3, bad

MCWorkers == {w1, w2}
MCMasters == {m1}
MCChecks == {good1, good2, good3, bad}
MCFailing == {bad}
=============================================================================
