---------------------------- MODULE MCXptServer ----------------------------
(***************************************************************************)
(* Small instances of XptServer.                                           *)
(***************************************************************************)
EXTENDS XptServer

CONSTANTS c1, c2
=============================================================================
