---------------------------- MODULE MCConnection ----------------------------
(***************************************************************************)
(* Connection for TLC.  Which end sends how many messages is a definition. *)
(***************************************************************************)
EXTENDS Connection

Sends_Both == [p \in End |-> 2]
=============================================================================
