----------------------------- MODULE PacketPath -----------------------------
(***************************************************************************)
(* The way of a packet from the peer to OnRecv: setHeader and encryption,  *)
(* the stream, WSARecv into the two free pieces of recvBuffer, recved, the *)
(* parse loop over recvedPacket, OnRecv's decryption and reading, and the  *)
(* packet it answers with.                                                 *)
(*                                                                         *)
(* One receive is in progress at a time (SessionIO!OneReceive), so the     *)
(* receiving side is one thread whose steps alternate with the kernel's.   *)
(***************************************************************************)
EXTENDS RingBuffer, SequencesExt

CONSTANTS
    Capacity, CharSize, Xor(_, _),   \* see Serializer
    StaticKey,     \* getStatickey
    RandKeys,      \* what getRandKey may return
    LoginType,     \* the type of a login, 101
    AnswerType,    \* the type of its answer, 102
    Payloads,      \* the payloads the peer sends
    MaxPackets     \* bound: packets sent in a behaviour

S == INSTANCE Serializer

HeaderSize == S!HeaderSize

\* A packet fits its serializer, and the ring with a unit to spare: recved
\* refuses a receive that leaves no unit free.  (The ring has 256 cells, a login
\* packet is shorter than 100 units.)
ASSUME PacketPathAssumption ==
    /\ S!ConstantsFit
    /\ StaticKey \in S!Chars /\ RandKeys \subseteq S!Chars
    /\ LoginType \in S!Chars /\ AnswerType \in S!Chars
    /\ HeaderSize + 3 <= Capacity
    /\ Payloads \subseteq Seq(S!Chars)
    /\ \A payload \in Payloads :
          /\ HeaderSize + Len(payload) <= Capacity
          /\ HeaderSize + Len(payload) < _maxSize
    /\ MaxPackets \in Nat

VARIABLES
    recvBuffer,  \* session::recvBuffer
    wire,        \* the units the peer has sent and the kernel has not delivered
    pc,          \* of the receiving side
    bufs,        \* the WSABUFs of the posted WSARecv
    transfer,    \* the units the completion reports
    p,           \* the serializer of the pool the parse loop uses
    response,    \* the serializer of the pool the next answer will use
    sent,        \* the packets sent: payload, randKey, whether damaged on the way
    delivered,   \* what OnRecv got: the payload, and whether the checksum was good
    answers,     \* the packets given to sendReq: the units, and which it answers
    closing      \* OnRecv has asked to disconnect: cancelIOFlag

receiver == <<recvBuffer, pc, bufs, transfer, p>>
content  == <<response, delivered, answers, closing>>
vars     == <<receiver, content, wire, sent>>

\* The ring was cleared when the slot's last session ended, wherever it was.
Init ==
    /\ recvBuffer \in {clear([NewRing EXCEPT !.tailPtr = i]) : i \in Cells}
    /\ p = S!NewSerializer /\ response = S!NewSerializer
    /\ wire = <<>> /\ bufs = <<>> /\ transfer = 0
    /\ pc = "recvIO"
    /\ sent = <<>> /\ delivered = <<>> /\ answers = <<>> /\ closing = FALSE

Message == [payload : Payloads, key : RandKeys, damaged : BOOLEAN]

\* What the peer puts on the wire.  A damaged packet has a wrong last unit, which
\* the sum always shows (the checksum does not show every damage).
Encoded ==
    [m \in Message |->
        LET built == S!setHeader(S!push(S!ReserveHeader(S!NewSerializer), m.payload), m.key)
            units == S!Pending(S!encryption(built, StaticKey))
        IN  IF m.damaged THEN [units EXCEPT ![Len(units)] = (@ + 1) % CharSize] ELSE units]

Units(m) == Encoded[m]

Send ==
    /\ Len(sent) < MaxPackets
    /\ \E m \in Message :
          /\ sent' = Append(sent, m)
          /\ wire' = wire \o Units(m)
    /\ UNCHANGED <<receiver, content>>

\* recvIO: the free units behind tail(), then those at the buffer's start.
RecvIO ==
    /\ pc = "recvIO"
    /\ LET direct == DirectEnqueueSize(recvBuffer)
       IN  bufs' = << [buf |-> tail(recvBuffer), len |-> direct],
                      [buf |-> 0, len |-> freeSize(recvBuffer) - direct] >>
    /\ pc' = "posted"
    /\ UNCHANGED <<recvBuffer, transfer, p, content, wire, sent>>

\* The kernel fills the buffers, with as much as it likes of what has come.
Fill ==
    /\ pc = "posted"
    /\ \E n \in 1 .. AtMost(Len(wire), bufs[1].len + bufs[2].len) :
          LET m == AtMost(n, bufs[1].len)
          IN  /\ recvBuffer' = [recvBuffer EXCEPT !.buffer =
                     Copy(Copy(@, bufs[1].buf, SubSeq(wire, 1, m)),
                          bufs[2].buf, SubSeq(wire, m + 1, n))]
              /\ wire' = SubSeq(wire, n + 1, Len(wire))
              /\ transfer' = n
    /\ pc' = "completed"
    /\ UNCHANGED <<bufs, p, content, sent>>

\* recved.  A receive that leaves nothing free is refused, and none follows.
Recved ==
    /\ pc = "completed"
    /\ IF freeSize(recvBuffer) <= transfer
       THEN /\ pc' = "refused"
            /\ UNCHANGED recvBuffer
       ELSE /\ pc' = "parse"
            /\ recvBuffer' = MoveRear(recvBuffer, transfer)
    /\ UNCHANGED <<bufs, transfer, p, content, wire, sent>>

\* The payload's size, from the header at the front of the ring.
HeaderNames == front(recvBuffer, HeaderSize)[S!SizeAt + 1]

\* Mutant: a packet that ends with what has been received is not complete.
PacketReadyLate ==
    /\ size(recvBuffer) >= HeaderSize
    /\ size(recvBuffer) > HeaderSize + HeaderNames

\* recvedPacket would return true.
PacketReady ==
    /\ size(recvBuffer) >= HeaderSize
    /\ size(recvBuffer) >= HeaderSize + HeaderNames

\* recvedPacket: the whole packet to the start of the serializer.
Extracted ==
    S!moveFront(
        S!moveRear(
            S!Write(S!ReserveHeader(p), 0, front(recvBuffer, HeaderSize + HeaderNames)),
            HeaderNames),
        -HeaderSize)

-----------------------------------------------------------------------------
(* OnRecv.                                                                 *)

\* packet's constructor, three << and the header, then encryption and sendReq; the
\* serializer comes back to the pool when it was sent.
Answer(account) ==
    \E key \in RandKeys :
    \E type \in {S!Put(S!ReserveHeader(response), AnswerType)} :
    \E body \in {S!Put(S!Put(type, account), 1)} :
    \E packet \in {S!setHeader(body, key)} :
    \E r \in {S!encryption(packet, StaticKey)} :
        /\ response' = r
        /\ answers' = Append(answers, [units |-> S!Pending(r), to |-> Len(delivered) + 1])

\* The payload is read with >>: a login is answered, another type disconnects.
OnRecv(payload) ==
    \E type \in {S!Get(payload)} :
        IF type.value = LoginType
        THEN \E accountNo \in {S!Get(type.rest)} :
                /\ Answer(accountNo.value)
                /\ p' = accountNo.rest
                /\ UNCHANGED closing
        ELSE /\ closing' = TRUE
             /\ p' = type.rest
             /\ UNCHANGED <<response, answers>>

\* One turn of the loop, which ends in OnRecv: it reads size and randKey, decrypts,
\* and reads the checksum.  A wrong one disconnects; the loop goes on all the same.
Parse ==
    /\ pc = "parse" /\ PacketReady
    /\ recvBuffer' = pop(recvBuffer, HeaderSize + HeaderNames)
    /\ \E packet \in {Extracted} :
       \E plain \in {S!decryption(S!moveFront(packet, S!CheckSumAt), StaticKey)} :
       \E payload \in {S!moveFront(plain, 1)} :
          /\ delivered' = Append(delivered,
                 [good |-> S!ChecksOut(plain), payload |-> S!Pending(payload)])
          /\ IF S!ChecksOut(plain)
             THEN OnRecv(payload)
             ELSE /\ closing' = TRUE /\ p' = plain
                  /\ UNCHANGED <<response, answers>>
    /\ UNCHANGED <<pc, bufs, transfer, wire, sent>>

\* The turn that finds no packet and leaves the loop; recvIO does not start another
\* receive after a disconnect request.
ParseEnds ==
    /\ pc = "parse" /\ ~PacketReady
    /\ p' = S!ReserveHeader(p)
    /\ pc' = IF closing THEN "closed" ELSE "recvIO"
    /\ UNCHANGED <<recvBuffer, bufs, transfer, content, wire, sent>>

Receive == RecvIO \/ Fill \/ Recved \/ Parse \/ ParseEnds
Next == Send \/ Receive

Spec == Init /\ [][Next]_vars

\* The connection delivers what was sent, and the worker goes on.
FairSpec == Spec /\ WF_vars(Receive)
-----------------------------------------------------------------------------
\* The units that the kernel has put behind them and recved has not seen.
Arrived ==
    Behind(recvBuffer, IF pc \in {"completed", "refused"} THEN transfer ELSE 0)

\* The packets that OnRecv has not got, as they are on the wire.
Undelivered ==
    [i \in 1 .. Len(sent) - Len(delivered) |-> Units(sent[Len(delivered) + i])]

\* Types: the indices stay inside the ring and the cursors in the serializer.
TypeOK ==
    /\ recvBuffer.headPtr \in Cells /\ recvBuffer.tailPtr \in Cells
    /\ DOMAIN recvBuffer.buffer = Cells
    /\ p.headPtr \in 0 .. p.tailPtr /\ p.tailPtr \in 0 .. Capacity
    /\ response.headPtr \in 0 .. response.tailPtr /\ response.tailPtr \in 0 .. Capacity
    /\ pc \in {"recvIO", "posted", "completed", "parse", "refused", "closed"}
    /\ transfer \in 0 .. bufferSize
    /\ closing \in BOOLEAN

\* The ring, what has arrived and the wire together are, unit for unit, the
\* packets not yet delivered, wherever the ring wraps and however the stream
\* was cut into receives: the two buffers of recvIO never reach over unread
\* units, and MoveRear and pop agree with what the kernel wrote.
StreamInOrder ==
    Unread(recvBuffer) \o Arrived \o wire = FlattenSeq(Undelivered)

\* OnRecv gets exactly the packets that were sent, in order: the payload of one
\* that came through, a wrong checksum for a damaged one.  front's two pieces, the
\* header's size and the chains of the cipher on both sides fit each other.
PacketsIntact ==
    /\ Len(delivered) <= Len(sent)
    /\ \A i \in DOMAIN delivered :
          /\ delivered[i].good = ~sent[i].damaged
          /\ delivered[i].good => delivered[i].payload = sent[i].payload

\* The client finds that in the units: it decrypts and checks as OnRecv does.
Reads(units, payload) ==
    \E packet \in {S!push(S!NewSerializer, units)} :
    \E plain \in {S!decryption(packet, StaticKey)} :
        S!ChecksOut(plain) /\ S!Pending(S!moveFront(plain, HeaderSize)) = payload

AnswersTo(i) == {n \in DOMAIN answers : answers[n].to = i}

\* A login that came through is answered once, to the client's eye with its own
\* account and the result 1, in a serializer that other packets used before; a
\* damaged packet and another type get no answer.  A packet too short for what
\* OnRecv reads is left out: there >> reads what the serializer last held.
AnswersAreTheirs ==
    \A i \in DOMAIN delivered :
        LET got == delivered[i].payload
        IN  IF delivered[i].good /\ Len(got) >= 1 /\ got[1] = LoginType
            THEN Len(got) >= 2 =>
                    \E n \in DOMAIN answers :
                        /\ AnswersTo(i) = {n}
                        /\ Reads(answers[n].units, <<AnswerType, got[2], 1>>)
            ELSE (~delivered[i].good \/ Len(got) >= 1) => AnswersTo(i) = {}

\* When the loop has ended, no complete packet stays in the ring, whatever its
\* header says there: the next receive may never come to wake it.
NothingHeldBack ==
    pc \in {"recvIO", "posted", "closed"} /\ Len(delivered) < Len(sent) =>
        size(recvBuffer) < Len(Units(sent[Len(delivered) + 1]))

\* A packet that was sent reaches OnRecv, unless a receive was refused or OnRecv
\* disconnected: no state of the ring leaves a packet too little room.
EveryPacketArrives ==
    \A n \in 1 .. MaxPackets :
        (Len(sent) >= n) ~> (Len(delivered) >= n \/ pc \in {"refused", "closed"})

-----------------------------------------------------------------------------
(* The inductive invariants, proved in PacketPathProofs.                   *)

\* Whatever a cell of the ring may hold.
AllUnits == {0} \cup UNION {Range(Units(m)) : m \in Message}

StreamTypes ==
    /\ recvBuffer \in Rings(AllUnits) /\ wire \in Seq(AllUnits)
    /\ sent \in Seq(Message)
    /\ delivered \in Seq(Range(delivered)) /\ Len(delivered) <= Len(sent)
    /\ pc \in {"recvIO", "posted", "completed", "parse", "refused", "closed"}
    /\ closing \in BOOLEAN

\* A posted receive has the free pieces of the ring, and what came fits them.
ReceivesFit ==
    /\ pc = "posted" =>
          /\ bufs[1].buf = tail(recvBuffer) /\ bufs[1].len = DirectEnqueueSize(recvBuffer)
          /\ bufs[2].buf = 0 /\ bufs[2].len = freeSize(recvBuffer) - bufs[1].len
    /\ transfer \in 0 .. _maxSize
    /\ pc \in {"completed", "refused"} => transfer <= freeSize(recvBuffer)

StreamInv ==
    /\ StreamTypes
    /\ ReceivesFit
    /\ S!CursorsInBuffer(p) /\ S!CursorsInBuffer(response)
    /\ StreamInOrder

\* Every answer is to a packet that OnRecv has got.
AnswersFollow ==
    /\ answers \in Seq(Range(answers))
    /\ \A n \in DOMAIN answers : answers[n].to \in 1 .. Len(delivered)

\* With the stream in order, what is read from it is inductive.
ContentInv ==
    /\ StreamInv
    /\ PacketsIntact /\ NothingHeldBack
    /\ AnswersFollow /\ AnswersAreTheirs
=============================================================================
