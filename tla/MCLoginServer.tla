---------------------------- MODULE MCLoginServer ----------------------------
(* LoginServer for TLC. *)
EXTENDS LoginServer, TLC
=============================================================================
