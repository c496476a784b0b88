--------------------------- MODULE MCSessionSlots ---------------------------
(* SessionSlots for TLC. *)
EXTENDS SessionSlots, TLC

Symmetry == Permutations(Workers)
=============================================================================
