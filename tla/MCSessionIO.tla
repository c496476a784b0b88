----------------------------- MODULE MCSessionIO -----------------------------
(* SessionIO for TLC.  Packets of different lengths, then packets of one.   *)
EXTENDS SessionIO, TLC

MCGrowing == [p \in 1 .. MaxPackets |-> p]
MCEqual   == [p \in 1 .. MaxPackets |-> 1]
MCSymmetry == Permutations(Workers)
=============================================================================
