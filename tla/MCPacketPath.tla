---------------------------- MODULE MCPacketPath ----------------------------
(* PacketPath for TLC: chars of two bits, packets of three to six units in a  *)
(* ring of eight cells; logins of two lengths, another type, an empty packet. *)
EXTENDS PacketPath, TLC

MCXorTable ==
    [a, b \in 0 .. 3 |-> 2 * ((a \div 2 + b \div 2) % 2) + ((a + b) % 2)]
MCXor(a, b) == MCXorTable[a, b]
MCPayloads == {<<>>, <<3>>, <<1, 2>>, <<1, 3, 2>>}
=============================================================================
