--------------------------- MODULE MCLockFreeQueue ---------------------------
(* LockFreeQueue for TLC. *)
EXTENDS LockFreeQueue, TLC
=============================================================================
