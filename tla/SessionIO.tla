------------------------------ MODULE SessionIO ------------------------------
(***************************************************************************)
(* Send, receive and cancel on one live session: the accept thread starts  *)
(* the first receive, the IOCP workers handle completions and posted send  *)
(* requests side by side, and the timeout thread may ask to disconnect.    *)
(*                                                                         *)
(* sendFlag lets one thread at a time drain sendBuffer into one WSASend;   *)
(* cancelIOFlag, set before CancelIoEx and read again after an operation   *)
(* was started, makes sure that no operation escapes a disconnect request. *)
(* The kernel and the peer are part of the model: an operation completes,  *)
(* fails, is cancelled, or waits for the peer as long as it likes.         *)
(*                                                                         *)
(* findSession and deleteSession are one step each here; SessionSlots has  *)
(* their interleavings.  A packet is a number: the order of sendReq calls. *)
(***************************************************************************)
EXTENDS Integers, Sequences, FiniteSets, SequencesExt, Elements

CONSTANTS
    Workers,      \* IOCP workers
    Acceptor,     \* the accept thread, at its call of recvIO
    Closer,       \* the thread that calls disconnectReq once
    QueueCap,     \* packets sendBuffer can hold (256 nodes less the dummy)
    MaxPackets,   \* bound: packets sent by the content in a behaviour
    MaxBytes,     \* bound: bytes received in a behaviour
    RecvCap,      \* what an empty recvBuffer can take
    PacketSize,   \* bytes of a complete packet of the peer
    Size,         \* Size[p], the bytes of packet p
    PeerFills,    \* whether the peer may fill recvBuffer to the last byte
    OtherErrors   \* whether WSASend may fail although the peer is there

Threads == Workers \cup {Acceptor, Closer}
Packets == 1 .. MaxPackets

ASSUME IOAssumption ==
    /\ IsFiniteSet(Workers)
    /\ Acceptor # Closer /\ Workers \cap {Acceptor, Closer} = {}
    /\ QueueCap \in Nat \ {0} /\ MaxPackets \in Nat /\ MaxBytes \in Nat
    /\ RecvCap \in Nat /\ PacketSize \in Nat \ {0} /\ PacketSize < RecvCap
    /\ Size \in [Packets -> Nat \ {0}]
    /\ PeerFills \in BOOLEAN /\ OtherErrors \in BOOLEAN

VARIABLES
    count,      \* low bits of session::IOcount
    deleted,    \* deleteSession took the session
    sendFlag,   \* session::sendFlag
    cancelFlag, \* session::cancelIOFlag
    queue,      \* session::sendBuffer, as a set: LockFreeQueue gives packets out in
                \* an order of its own
    batch,      \* session::sendedBuffer, the pointers that are whole
    lost,       \* packets whose pointer found no room in sendedBuffer
    inflight,   \* the packets of the WSASend outstanding
    sendOp,     \* the state of the operation on sendOverlapped
    recvOp,     \* the state of the operation on recvOverlapped
    port,       \* the completion port: completions and posted requests, in order
    fill,       \* session::recvBuffer.size()
    bytes,      \* bytes received so far
    peerGone,   \* the peer closed or reset the connection
    posted,     \* packets given to sendReq so far
    dequeued,   \* the packets in the order sendIO took them from sendBuffer
    wire,       \* the packets the kernel sent, in order
    freed,      \* how often the reference of a packet was dropped
    broken,     \* a WSASend failed for another reason than a connection reset
    pc, msg, n  \* per thread: where it is, what is left of its completion, a size it read

flags  == <<sendFlag, cancelFlag>>
kernel == <<sendOp, recvOp, port, inflight, wire, peerGone, bytes>>
pkts   == <<queue, batch, lost, posted, dequeued, freed, broken>>
vars   == <<count, deleted, flags, kernel, pkts, fill, pc, msg, n>>

None == [kind |-> "none"]
Req(p)  == [kind |-> "req", pkt |-> p]
Sent    == [kind |-> "sent"]
Recv(k) == [kind |-> "recv", len |-> k]
\* A completion for which GetQueuedCompletionStatus returns false.
Failed  == [kind |-> "failed"]

OpStates == {"none", "pending", "cancelled"}

\* OnNewConnect has returned, the accept thread holds the reference of init.
Init ==
    /\ count = 1 /\ deleted = FALSE
    /\ sendFlag = 0 /\ cancelFlag = 0
    /\ queue = {} /\ batch = <<>> /\ lost = <<>> /\ inflight = <<>>
    /\ sendOp = "none" /\ recvOp = "none" /\ port = <<>>
    /\ fill = 0 /\ bytes = 0 /\ peerGone = FALSE
    /\ posted = 0 /\ dequeued = <<>> /\ wire = <<>> /\ broken = FALSE
    /\ freed = [p \in Packets |-> 0]
    /\ pc = [t \in Threads |-> IF t = Acceptor THEN "recvIO"
                               ELSE IF t = Closer THEN "close" ELSE "idle"]
    /\ msg = [t \in Threads |-> None]
    /\ n = [t \in Threads |-> 0]

Goto(t, from, to) == pc[t] = from /\ pc' = [pc EXCEPT ![t] = to]

\* decReferenceCounter of every packet in a sequence.
FreeAll(s) == [p \in Packets |-> freed[p] + Among({p}, s)]

In(p, S) == IF p \in S THEN 1 ELSE 0

\* The ways to take k elements of a set one after the other.
Draws(S, k) == Injection(1 .. k, S)

\* How many pointers more fit into sendedBuffer, a ring of 2047 bytes.  Of the first
\* that does not, push leaves 7 of 8 bytes: none that follows can be read again.
Room == IF lost = <<>> THEN QueueCap - Len(batch) ELSE 0

\* The bytes of a sequence of packets, each named by its packet and its place there.
Bytes(s) == Cardinality(UNION {{i} \X (1 .. Size[s[i]]) : i \in DOMAIN s})

\* How many packets of sendedBuffer have together that many bytes.
PrefixesOf(b) == {k \in 0 .. Len(batch) : Bytes(SubSeq(batch, 1, k)) = b}

\* CancelIoEx: an operation that is not outstanding is ERROR_NOT_FOUND.
Cancel(op) == IF op = "pending" THEN "cancelled" ELSE op

-----------------------------------------------------------------------------
(* workerThread.                                                           *)

\* GetQueuedCompletionStatus, and the branch its result takes.
Take(w) ==
    /\ w \in Workers /\ pc[w] = "idle" /\ port # <<>>
    /\ LET m == Head(port) IN
          /\ msg' = [msg EXCEPT ![w] = IF m.kind \in {"req", "recv"} THEN m ELSE None]
          /\ pc' = [pc EXCEPT ![w] =
                CASE m.kind = "req" -> "collect"
                  [] m.kind = "sent" -> "sended"
                  [] m.kind = "recv" /\ m.len > 0 -> "recved"
                  [] OTHER -> "drop"]
    /\ port' = Tail(port)
    /\ UNCHANGED <<count, deleted, flags, sendOp, recvOp, inflight, wire, peerGone,
                   bytes, pkts, fill, n>>

\* collectSendPacket puts the packet into sendBuffer; one that finds no node free
\* is dropped, and nothing is sent.
Collect(w) ==
    LET room == Cardinality(queue) < QueueCap
        p == msg[w].pkt
    IN
    /\ Goto(w, "collect", IF room THEN "sendIO" ELSE "drop")
    /\ queue' = IF room THEN queue \cup {p} ELSE queue
    /\ freed' = IF room THEN freed ELSE FreeAll(<<p>>)
    /\ msg' = [msg EXCEPT ![w] = None]
    /\ UNCHANGED <<count, deleted, flags, kernel, batch, lost, posted, dequeued, broken,
                   fill, n>>

\* (Mutant: a completion frees one packet, whatever it reports.)
SendedOne(w) ==
    /\ Goto(w, "sended", "unflag")
    /\ freed' = FreeAll(<<Head(batch)>>)
    /\ batch' = Tail(batch)
    /\ inflight' = <<>>
    /\ UNCHANGED <<count, deleted, flags, sendOp, recvOp, port, wire, peerGone, bytes,
                   queue, lost, posted, dequeued, broken, fill, msg, n>>

\* sended: packets leave sendedBuffer until transfer, the bytes sent, is used up.
\* The counter is unsigned and tested for zero alone: if no prefix of the pointers
\* that are whole has as many bytes, the loop runs on over what is not a packet, and
\* the model stops (SendedReachesZero).
Sended(w) ==
    /\ Goto(w, "sended", "unflag")
    /\ \E k \in PrefixesOf(Bytes(inflight)) :
          /\ freed' = FreeAll(SubSeq(batch, 1, k))
          /\ batch' = SubSeq(batch, k + 1, Len(batch))
    /\ inflight' = <<>>
    /\ UNCHANGED <<count, deleted, flags, sendOp, recvOp, port, wire, peerGone, bytes,
                   queue, lost, posted, dequeued, broken, fill, msg, n>>

\* sendFlag = 0, a plain store.
Unflag(w) ==
    /\ Goto(w, "unflag", "resend")
    /\ sendFlag' = 0
    /\ UNCHANGED <<count, deleted, cancelFlag, kernel, pkts, fill, msg, n>>

\* (Mutant: every completion starts a receive, not only that of a receive.)
ResendOrRecv(w) ==
    /\ Goto(w, "resend", IF queue # {} THEN "sendIO" ELSE "recvIO")
    /\ UNCHANGED <<count, deleted, flags, kernel, pkts, fill, msg, n>>

\* if (sendBuffer.size() > 0) sendIO().
Resend(w) ==
    /\ Goto(w, "resend", IF queue # {} THEN "sendIO" ELSE "drop")
    /\ UNCHANGED <<count, deleted, flags, kernel, pkts, fill, msg, n>>

\* recved: without one byte to spare the data is refused, and the loop body is
\* left with the reference of the completion still counted.
Recved(w) ==
    LET len == msg[w].len IN
    /\ Goto(w, "recved", IF RecvCap - fill =< len THEN "idle" ELSE "parse")
    /\ fill' = IF RecvCap - fill =< len THEN fill ELSE fill + len
    /\ msg' = [msg EXCEPT ![w] = None]
    /\ UNCHANGED <<count, deleted, flags, kernel, pkts, n>>

\* (Mutant: a packet is popped without a look at what recvBuffer holds.)
ParseUnchecked(w) ==
    /\ Goto(w, "parse", "OnRecv")
    /\ fill' = fill - PacketSize
    /\ UNCHANGED <<count, deleted, flags, kernel, pkts, msg, n>>

\* recvedPacket: a complete packet goes to OnRecv, else the next recvIO follows.
Parse(w) ==
    /\ Goto(w, "parse", IF fill >= PacketSize THEN "OnRecv" ELSE "recvIO")
    /\ fill' = IF fill >= PacketSize THEN fill - PacketSize ELSE fill
    /\ UNCHANGED <<count, deleted, flags, kernel, pkts, msg, n>>

\* The content answers: sendReq counts a reference and posts the packet.
OnRecvReply(w) ==
    /\ posted < MaxPackets
    /\ Goto(w, "OnRecv", "parse")
    /\ posted' = posted + 1
    /\ port' = Append(port, Req(posted + 1))
    /\ count' = count + 1
    /\ UNCHANGED <<deleted, flags, sendOp, recvOp, inflight, wire, peerGone, bytes,
                   queue, batch, lost, dequeued, freed, broken, fill, msg, n>>

\* The content refuses the packet: disconnectReq of its own session.
OnRecvDisconnect(w) ==
    /\ Goto(w, "OnRecv", "cancel")
    /\ UNCHANGED <<count, deleted, flags, kernel, pkts, fill, msg, n>>

\* With the bound on packets reached the content does neither.
OnRecvNothing(w) ==
    /\ posted = MaxPackets
    /\ Goto(w, "OnRecv", "parse")
    /\ UNCHANGED <<count, deleted, flags, kernel, pkts, fill, msg, n>>

\* (Mutant: the last reference is dropped without deleteSession's bufferClear.)
DropUncleared(t) ==
    /\ Goto(t, "drop", IF t \in Workers THEN "idle" ELSE "done")
    /\ count' = count - 1
    /\ deleted' = (count = 1)
    /\ msg' = [msg EXCEPT ![t] = None]
    /\ UNCHANGED <<flags, kernel, pkts, fill, n>>

\* decrementIO at the end of a loop body; the last one is deleteSession, whose
\* bufferClear frees what was never sent.  Its last pop may meet the 7 bytes of a
\* pointer that was cut off, and the eighth where it puts them may be right or wrong.
Drop(t) ==
    /\ Goto(t, "drop", IF t \in Workers THEN "idle" ELSE "done")
    /\ count' = count - 1
    /\ msg' = [msg EXCEPT ![t] = None]
    /\ IF count = 1
       THEN /\ deleted' = TRUE
            /\ \E k \in {0, 1} :
                  /\ k =< Len(lost)
                  /\ freed' = [p \in Packets |-> freed[p] + In(p, queue)
                                   + Among({p}, batch) + Among({p}, SubSeq(lost, 1, k))]
                  /\ lost' = SubSeq(lost, k + 1, Len(lost))
            /\ queue' = {} /\ batch' = <<>> /\ fill' = 0
       ELSE UNCHANGED <<deleted, freed, queue, batch, lost, fill>>
    /\ UNCHANGED <<flags, kernel, posted, dequeued, broken, n>>

-----------------------------------------------------------------------------
(* sendIO.                                                                 *)

SendIOCheck(t) ==
    /\ Goto(t, "sendIO", IF cancelFlag = 1 THEN "drop" ELSE "exchange")
    /\ UNCHANGED <<count, deleted, flags, kernel, pkts, fill, msg, n>>

\* (Mutant: the flag is tested and set, but not by one exchange.)
SendIOTestOnly(t) ==
    /\ Goto(t, "exchange", IF sendFlag = 1 THEN "drop" ELSE "size")
    /\ UNCHANGED <<count, deleted, flags, kernel, pkts, fill, msg, n>>

\* InterlockedExchange16(&sendFlag, 1).
SendIOExchange(t) ==
    /\ Goto(t, "exchange", IF sendFlag = 1 THEN "drop" ELSE "size")
    /\ sendFlag' = 1
    /\ UNCHANGED <<count, deleted, cancelFlag, kernel, pkts, fill, msg, n>>

\* sendBuffer.size(), the number of packets this send will take.
SendIOSize(t) ==
    /\ Goto(t, "size", IF queue = {} THEN "giveup" ELSE "WSASend")
    /\ n' = [n EXCEPT ![t] = Cardinality(queue)]
    /\ UNCHANGED <<count, deleted, flags, kernel, pkts, fill, msg>>

\* Nothing to send: the flag is given back.
SendIOGiveUp(t) ==
    /\ Goto(t, "giveup", "drop")
    /\ sendFlag' = 0
    /\ UNCHANGED <<count, deleted, cancelFlag, kernel, pkts, fill, msg, n>>

\* incrementIO, the packets go from sendBuffer to sendedBuffer (pop is repeated
\* until there were as many as size() said), and WSASend.  What push says of the
\* pointers is not looked at: those that find no room are lost.  WSASend
\* sends at once, stays pending, or fails; only a pending send checks the cancel
\* flag afterwards.
WSASend(t) ==
    /\ pc[t] = "WSASend"
    /\ \E taken \in Draws(queue, n[t]) :
          LET kept == IF n[t] =< Room THEN n[t] ELSE Room IN
          /\ queue' = queue \ Range(taken)
          /\ batch' = batch \o SubSeq(taken, 1, kept)
          /\ lost' = lost \o SubSeq(taken, kept + 1, n[t])
          /\ dequeued' = dequeued \o taken
          /\ \/ /\ ~peerGone
                /\ port' = Append(port, Sent) /\ wire' = wire \o taken /\ inflight' = taken
                /\ pc' = [pc EXCEPT ![t] = "drop"]
                /\ UNCHANGED <<sendOp, broken>>
             \/ /\ sendOp' = "pending" /\ inflight' = taken
                /\ pc' = [pc EXCEPT ![t] = "sendRecheck"]
                /\ UNCHANGED <<port, wire, broken>>
             \/ /\ peerGone
                /\ pc' = [pc EXCEPT ![t] = "sendFailed"]
                /\ UNCHANGED <<sendOp, inflight, port, wire, broken>>
             \/ /\ OtherErrors
                /\ broken' = TRUE
                /\ pc' = [pc EXCEPT ![t] = "sendError"]
                /\ UNCHANGED <<sendOp, inflight, port, wire>>
    /\ count' = count + 1
    /\ n' = [n EXCEPT ![t] = 0]
    /\ UNCHANGED <<deleted, flags, recvOp, peerGone, bytes, posted, freed, fill, msg>>

\* A pending send looks at the cancel flag again.
SendRecheck(t) ==
    /\ Goto(t, "sendRecheck", "drop")
    /\ sendOp' = IF cancelFlag = 1 THEN Cancel(sendOp) ELSE sendOp
    /\ UNCHANGED <<count, deleted, flags, recvOp, port, inflight, wire, peerGone, bytes,
                   pkts, fill, msg, n>>

\* An error other than a reset: the flag is reset before the cancel flag is set.
SendError(t) ==
    /\ Goto(t, "sendError", "sendFailed")
    /\ sendFlag' = 0
    /\ UNCHANGED <<count, deleted, cancelFlag, kernel, pkts, fill, msg, n>>

\* cancelIORegist ...
SendFailed(t) ==
    /\ Goto(t, "sendFailed", "sendFailedCancel")
    /\ cancelFlag' = 1
    /\ UNCHANGED <<count, deleted, sendFlag, kernel, pkts, fill, msg, n>>

\* ... CancelIoEx of the receive, and decrementIO under the caller's reference.
SendFailedCancel(t) ==
    /\ Goto(t, "sendFailedCancel", "drop")
    /\ recvOp' = Cancel(recvOp)
    /\ count' = count - 1
    /\ UNCHANGED <<deleted, flags, sendOp, port, inflight, wire, peerGone, bytes, pkts,
                   fill, msg, n>>

-----------------------------------------------------------------------------
(* recvIO.                                                                 *)

\* The kernel has data: as much as the peer sends, at most the free bytes of
\* recvBuffer.
Receive ==
    /\ ~peerGone
    /\ \E k \in 1 .. RecvCap - fill :
          /\ bytes + k =< MaxBytes
          /\ ~PeerFills => k < RecvCap - fill
          /\ port' = Append(port, Recv(k))
          /\ bytes' = bytes + k

RecvIOCheck(t) ==
    /\ Goto(t, "recvIO", IF cancelFlag = 1 THEN "drop" ELSE "WSARecv")
    /\ UNCHANGED <<count, deleted, flags, kernel, pkts, fill, msg, n>>

\* incrementIO and WSARecv: data at once, pending, or failed at once.
WSARecv(t) ==
    /\ pc[t] = "WSARecv"
    /\ count' = count + 1
    /\ \/ /\ Receive
          /\ pc' = [pc EXCEPT ![t] = "drop"]
          /\ UNCHANGED recvOp
       \/ /\ recvOp' = "pending"
          /\ pc' = [pc EXCEPT ![t] = "recvRecheck"]
          /\ UNCHANGED <<port, bytes>>
       \/ /\ peerGone
          /\ pc' = [pc EXCEPT ![t] = "recvFailed"]
          /\ UNCHANGED <<recvOp, port, bytes>>
    /\ UNCHANGED <<deleted, flags, sendOp, inflight, wire, peerGone, pkts, fill, msg, n>>

\* (Mutant: the cancel flag is not read again.)
RecvNoRecheck(t) ==
    /\ Goto(t, "recvRecheck", "drop")
    /\ UNCHANGED <<count, deleted, flags, kernel, pkts, fill, msg, n>>

\* A pending receive looks at the cancel flag again.
RecvRecheck(t) ==
    /\ Goto(t, "recvRecheck", "drop")
    /\ recvOp' = IF cancelFlag = 1 THEN Cancel(recvOp) ELSE recvOp
    /\ UNCHANGED <<count, deleted, flags, sendOp, port, inflight, wire, peerGone, bytes,
                   pkts, fill, msg, n>>

RecvFailed(t) ==
    /\ Goto(t, "recvFailed", "recvFailedCancel")
    /\ cancelFlag' = 1
    /\ UNCHANGED <<count, deleted, sendFlag, kernel, pkts, fill, msg, n>>

\* (Mutant: the error path returns without decrementIO.)
RecvFailedLeak(t) ==
    /\ Goto(t, "recvFailedCancel", "drop")
    /\ sendOp' = Cancel(sendOp)
    /\ UNCHANGED <<count, deleted, flags, recvOp, port, inflight, wire, peerGone, bytes,
                   pkts, fill, msg, n>>

RecvFailedCancel(t) ==
    /\ Goto(t, "recvFailedCancel", "drop")
    /\ sendOp' = Cancel(sendOp)
    /\ count' = count - 1
    /\ UNCHANGED <<deleted, flags, recvOp, port, inflight, wire, peerGone, bytes, pkts,
                   fill, msg, n>>

-----------------------------------------------------------------------------
(* disconnectReq.                                                          *)

\* (Mutant: findSession hands out the session without counting it.)
CloserFindUncounted ==
    /\ pc[Closer] = "close"
    /\ pc' = [pc EXCEPT ![Closer] = IF deleted THEN "done" ELSE "cancel"]
    /\ UNCHANGED <<count, deleted, flags, kernel, pkts, fill, msg, n>>

\* findSession, by a thread that has no reference of its own.
CloserFind ==
    /\ pc[Closer] = "close"
    /\ pc' = [pc EXCEPT ![Closer] = IF deleted THEN "done" ELSE "cancel"]
    /\ count' = IF deleted THEN count ELSE count + 1
    /\ UNCHANGED <<deleted, flags, kernel, pkts, fill, msg, n>>

CancelRegist(t) ==
    /\ Goto(t, "cancel", "cancelRecv")
    /\ cancelFlag' = 1
    /\ UNCHANGED <<count, deleted, sendFlag, kernel, pkts, fill, msg, n>>

CancelRecv(t) ==
    /\ Goto(t, "cancelRecv", "cancelSend")
    /\ recvOp' = Cancel(recvOp)
    /\ UNCHANGED <<count, deleted, flags, sendOp, port, inflight, wire, peerGone, bytes,
                   pkts, fill, msg, n>>

\* A worker goes on in OnRecv, under the reference of its loop body.
CancelSend(t) ==
    /\ Goto(t, "cancelSend", IF t = Closer THEN "drop" ELSE "parse")
    /\ sendOp' = Cancel(sendOp)
    /\ UNCHANGED <<count, deleted, flags, recvOp, port, inflight, wire, peerGone, bytes,
                   pkts, fill, msg, n>>

-----------------------------------------------------------------------------
(* The kernel and the peer.                                                *)

RecvArrives ==
    /\ recvOp # "none" /\ Receive
    /\ recvOp' = "none"
    /\ UNCHANGED <<count, deleted, flags, sendOp, inflight, wire, peerGone, pkts, fill,
                   pc, msg, n>>

\* A cancelled receive fails; one whose peer is gone fails or returns no data.
RecvEnds ==
    /\ recvOp = "cancelled" \/ (recvOp = "pending" /\ peerGone)
    /\ \/ port' = Append(port, Failed)
       \/ peerGone /\ port' = Append(port, Recv(0))
    /\ recvOp' = "none"
    /\ UNCHANGED <<count, deleted, flags, sendOp, inflight, wire, peerGone, bytes, pkts,
                   fill, pc, msg, n>>

SendCompletes ==
    /\ sendOp # "none" /\ ~peerGone
    /\ port' = Append(port, Sent)
    /\ wire' = wire \o inflight
    /\ sendOp' = "none"
    /\ UNCHANGED <<count, deleted, flags, recvOp, inflight, peerGone, bytes, pkts, fill,
                   pc, msg, n>>

SendEnds ==
    /\ sendOp = "cancelled" \/ (sendOp = "pending" /\ peerGone)
    /\ port' = Append(port, Failed)
    /\ sendOp' = "none"
    /\ UNCHANGED <<count, deleted, flags, recvOp, inflight, wire, peerGone, bytes, pkts,
                   fill, pc, msg, n>>

PeerLeaves ==
    /\ ~peerGone
    /\ peerGone' = TRUE
    /\ UNCHANGED <<count, deleted, flags, sendOp, recvOp, port, inflight, wire, bytes,
                   pkts, fill, pc, msg, n>>

-----------------------------------------------------------------------------
Handle(t) ==
    \/ Collect(t) \/ Sended(t) \/ Unflag(t) \/ Resend(t)
    \/ Recved(t) \/ Parse(t)
    \/ OnRecvReply(t) \/ OnRecvDisconnect(t) \/ OnRecvNothing(t)
    \/ SendIOCheck(t) \/ SendIOExchange(t) \/ SendIOSize(t) \/ SendIOGiveUp(t)
    \/ WSASend(t) \/ SendRecheck(t)
    \/ SendError(t) \/ SendFailed(t) \/ SendFailedCancel(t)
    \/ RecvIOCheck(t) \/ WSARecv(t) \/ RecvRecheck(t)
    \/ RecvFailed(t) \/ RecvFailedCancel(t)
    \/ CancelRegist(t) \/ CancelRecv(t) \/ CancelSend(t)
    \/ Drop(t)

Next ==
    \/ \E w \in Workers : Take(w)
    \/ \E t \in Threads : Handle(t)
    \/ CloserFind
    \/ RecvArrives \/ RecvEnds \/ SendCompletes \/ SendEnds \/ PeerLeaves

Spec == Init /\ [][Next]_vars

\* Threads are scheduled, a worker returns from GetQueuedCompletionStatus when
\* there is a completion, and the kernel ends the operations that are cancelled
\* or whose peer is gone.  No receive has to get data, no peer has to leave.
Fairness ==
    /\ \A t \in Threads : WF_vars(Handle(t))
    /\ \A w \in Workers : WF_vars(Take(w))
    /\ WF_vars(RecvEnds) /\ WF_vars(SendEnds)

FairSpec == Spec /\ Fairness

-----------------------------------------------------------------------------
(* Properties.                                                             *)

Pcs == {"idle", "done", "close", "collect", "sended", "unflag", "resend", "recved",
        "parse", "OnRecv", "drop", "sendIO", "exchange", "size", "giveup", "WSASend",
        "sendRecheck", "sendError", "sendFailed", "sendFailedCancel", "recvIO",
        "WSARecv", "recvRecheck", "recvFailed", "recvFailedCancel", "cancel",
        "cancelRecv", "cancelSend"}

Messages == [kind : {"req"}, pkt : Packets] \cup [kind : {"sent", "failed", "none"}]
            \cup [kind : {"recv"}, len : 0 .. RecvCap]

\* The ranges of session's members; sendBuffer and recvBuffer never hold more than
\* they can, and no thread read a size sendBuffer could not have.
TypeOK ==
    /\ count \in Nat /\ deleted \in BOOLEAN /\ peerGone \in BOOLEAN
    /\ sendFlag \in {0, 1} /\ cancelFlag \in {0, 1}
    /\ queue \subseteq Packets /\ Cardinality(queue) =< QueueCap
    /\ {batch, lost, inflight, dequeued, wire} \subseteq Seq(Packets)
    /\ Len(batch) =< QueueCap /\ broken \in BOOLEAN
    /\ port \in Seq(Messages) /\ msg \in [Threads -> Messages]
    /\ sendOp \in OpStates /\ recvOp \in OpStates
    /\ fill \in 0 .. RecvCap - 1 /\ bytes \in 0 .. MaxBytes /\ posted \in 0 .. MaxPackets
    /\ freed \in [Packets -> Nat]
    /\ pc \in [Threads -> Pcs] /\ n \in [Threads -> 0 .. QueueCap]

\* Where a thread works in the session under a reference, and where it has one more,
\* of an operation that it could not start.
InSession == Pcs \ {"idle", "done", "close"}
InFailure == {"sendError", "sendFailed", "sendFailedCancel", "recvFailed", "recvFailedCancel"}

\* How many threads of T are at one of S.
At(T, S) == Cardinality({t \in T : pc[t] \in S})

Outstanding(op) == IF op = "none" THEN 0 ELSE 1

\* What IOcount counts: a thread at work in the session, the operation a thread
\* just failed to start, the operations outstanding, and what the port holds.
References ==
    At(Threads, InSession) + At(Threads, InFailure)
    + Outstanding(sendOp) + Outstanding(recvOp) + Len(port)

\* IOcount is exactly the number of references on every path through workerThread,
\* sendIO, recvIO and disconnectReq, and a session is deleted when none is left:
\* an error path that returned early, or dropped twice, would break it.
RefsAreOwned == count = References /\ (deleted <=> count = 0)

SendPoints == {"size", "giveup", "WSASend", "sended", "unflag", "sendError"}
SendTokens == At(Threads, SendPoints) + Outstanding(sendOp) + Among({Sent}, port)

\* sendFlag keeps sendBuffer and sendedBuffer to one thread: from the exchange
\* that sets it, over the operation and its completion, to the store that resets
\* it, there is never a second send, whichever worker handles the completion.
OneSend == SendTokens =< 1 /\ (SendTokens = 1 => sendFlag = 1)

RecvPoints   == {"recved", "parse", "OnRecv", "recvIO", "WSARecv"}
CancelPoints == {"cancel", "cancelRecv", "cancelSend"}
Received     == {Recv(k) : k \in 0 .. RecvCap}
RecvTokens ==
    At(Threads, RecvPoints) + At(Workers, CancelPoints)
    + Outstanding(recvOp) + Among(Received, port)

\* recvBuffer has no lock: one receive at a time is outstanding, completed, or
\* handled by the worker that will start the next one.
OneReceive == RecvTokens =< 1

Posted(p) == IF p =< posted THEN 1 ELSE 0

\* A packet's reference is dropped once, by sended or by bufferClear, never while a
\* posted request, a worker, sendBuffer or sendedBuffer still has it, and when the
\* session is deleted none is left, but for those of the packets that sendedBuffer
\* lost: nothing drops them any more (SendedFits says when there are none).
PacketsConserved ==
    \A p \in Packets :
        /\ freed[p] + In(p, queue) + Among({p}, batch) + Among({p}, lost) + Among({Req(p)}, port)
                    + Cardinality({t \in Threads : msg[t] = Req(p)}) = Posted(p)
        /\ deleted => freed[p] + Among({p}, lost) = Posted(p)

\* Unless a WSASend failed hard, the peer gets the packets in the order sendIO took
\* them from sendBuffer, none twice and none left out, up to some point: no send
\* overtakes another or skips one, whoever sends.
StreamIntact == broken \/ IsPrefix(wire, dequeued)

\* sendedBuffer has room for exactly the packets of a full sendBuffer, and
\* session.cpp:123 never looks at what push returns.  Unless a WSASend failed hard,
\* whoever is about to fill it finds it empty, and no pointer is lost.  After a hard
\* error the failed packets are still there when the next send comes, and they are.
SendedFits ==
    broken \/ (lost = <<>> /\ \A t \in Threads : pc[t] = "size" => batch = <<>>)

\* When sended runs, the packets at the head of sendedBuffer have exactly the
\* bytes the completion reports (session.cpp:177: transfer is 0 after sended).
SendedReachesZero ==
    \A w \in Workers : pc[w] = "sended" => PrefixesOf(Bytes(inflight)) # {}

Contract == INSTANCE SessionContract WITH
    Sessions  <- {"session"},
    Parties   <- Threads,
    stage     <- [s \in {"session"} |-> IF deleted THEN "deleted" ELSE "open"],
    inside    <- [s \in {"session"} |->
                    {w \in Workers : pc[w] \in {"OnRecv", "cancel", "cancelRecv", "cancelSend"}}],
    holders   <- [s \in {"session"} |->
                    {t \in {Closer} : pc[t] \in {"cancel", "cancelRecv", "cancelSend", "drop"}}],
    cancelled <- IF cancelFlag = 1 THEN {"session"} ELSE {}

\* The paths of a live session keep the promise of network.h:70-99: OnRecv runs in
\* one worker at a time, and the session is not deleted under it nor under the
\* thread that found it in disconnectReq.
ImplementsSessionContract == Contract!Spec

\* A session with the cancel flag is deleted, wherever sends, receives and
\* callbacks were when the flag was set: no operation escapes the cancel.
CancelEnds == cancelFlag = 1 ~> deleted

\* A session whose peer closed the connection is deleted.
PeerGoneEnds == peerGone ~> deleted

\* When no worker is busy and no send is outstanding, sendBuffer is empty, unless
\* the connection ends (session.h:49: a send is requested again if something is
\* left in sendBuffer).
QueuedIsSent ==
    (/\ \A w \in Workers : pc[w] = "idle"
     /\ port = <<>> /\ sendOp = "none" /\ cancelFlag = 0 /\ ~peerGone)
    => queue = {}

-----------------------------------------------------------------------------
(* The inductive invariant.                                                *)

\* Only a worker takes completions and runs callbacks; the accept thread starts one
\* receive, the closer cancels.  A thread has a completion where it needs one.
Roles ==
    /\ pc[Acceptor] \in {"recvIO", "WSARecv", "recvRecheck", "recvFailed",
                         "recvFailedCancel", "drop", "done"}
    /\ pc[Closer] \in CancelPoints \cup {"close", "drop", "done"}
    /\ \A w \in Workers : pc[w] \notin {"close", "done"}
    /\ \A t \in Threads :
          /\ msg[t].kind = "req" <=> pc[t] = "collect"
          /\ pc[t] = "recved" => msg[t].kind = "recv"
          /\ pc[t] = "sendError" => broken

\* No reference is missing, and the last one deletes the session.  (RefsAreOwned
\* says too that none is left over, which a peer that fills recvBuffer refutes.)
RefsAreHeld == count >= References /\ (deleted <=> count = 0)

\* An operation is cancelled only after the flag was set.
CancelsAreFlagged ==
    cancelFlag = 1
    \/ /\ sendOp # "cancelled"
       /\ \A t \in Threads : pc[t] \notin {"cancelRecv", "cancelSend", "sendFailedCancel",
                                           "recvFailedCancel"}

\* What is being sent.
OnTheWay == IF sendOp = "none" THEN <<>> ELSE inflight

\* The stream and the send outstanding are what was taken, in that order; all of it
\* as long as another send can follow.
StreamInOrder ==
    /\ IsPrefix(wire \o OnTheWay, dequeued)
    /\ sendFlag = 0 \/ SendTokens = 1 => dequeued = wire \o OnTheWay

\* Nobody has the flag, or its holder has not filled sendedBuffer yet, or emptied it.
Unfilled ==
    sendFlag = 0 \/ \E t \in Threads : pc[t] \in {"size", "giveup", "WSASend", "unflag"}

\* A send was started, and sended has not run.
Unsended ==
    sendOp # "none" \/ Among({Sent}, port) > 0 \/ \E t \in Threads : pc[t] = "sended"

\* sendedBuffer holds the packets of the send that has the flag, from WSASend to
\* sended, and nothing else; none is lost.
BatchIsInflight ==
    /\ lost = <<>>
    /\ Unfilled => batch = <<>>
    /\ Unsended => batch = inflight

IOInv ==
    /\ TypeOK /\ Roles /\ RefsAreHeld /\ OneSend /\ OneReceive /\ PacketsConserved
    /\ CancelsAreFlagged
    /\ broken => OtherErrors
    /\ broken \/ (StreamInOrder /\ BatchIsInflight)

\* With a peer that leaves a byte free: what was received fits, and no reference is
\* left over.
FillFits ==
    /\ \A i \in DOMAIN port : port[i].kind = "recv" => fill + port[i].len < RecvCap
    /\ \A t \in Threads : pc[t] = "recved" => fill + msg[t].len < RecvCap

FillInv == IOInv /\ FillFits /\ count = References
=============================================================================
