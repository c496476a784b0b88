--------------------------- MODULE SessionIOProofs ---------------------------
(***************************************************************************)
(* The invariants of one session, for any workers, sizes and bounds: IOInv *)
(* is inductive, and with it the session's type, reference count, single   *)
(* send and receive, packets' references and stream.                       *)
(*                                                                         *)
(* A lemma Handle... is about the steps of a thread at work in the session, *)
(* a lemma Other... about taking a completion, the closer's lookup, the    *)
(* kernel and the peer.  Each part of IOInv has the two, over the parts it *)
(* needs; NextKeeps puts them together.  The last part shows that a        *)
(* session implements SessionContract.                                     *)
(***************************************************************************)
EXTENDS SessionIO, Counting

-----------------------------------------------------------------------------
(* Threads at points of the code.                                          *)

\* There are finitely many threads.
LEMMA ThreadsFinite == IsFiniteSet(Threads)
<1>1. Threads = (Workers \cup {Acceptor}) \cup {Closer}
  BY DEF Threads
<1>2. QED
  BY <1>1, IOAssumption, FS_AddElement

\* What At counts is a natural number, and positive when somebody is there.
LEMMA AtType ==
  ASSUME NEW T \in SUBSET Threads, NEW S
  PROVE  /\ At(T, S) \in Nat
         /\ \A t \in T : pc[t] \in S => At(T, S) > 0
         /\ At(T, S) > 0 => \E t \in T : pc[t] \in S
<1> DEFINE A == {t \in T : pc[t] \in S}
<1>1. IsFiniteSet(A)
  BY ThreadsFinite, FS_Subset
<1>2. Cardinality(A) \in Nat /\ (Cardinality(A) = 0 <=> A = {})
  BY <1>1, FS_CardinalityType, FS_EmptySet
<1>3. QED
  BY <1>2 DEF At

\* Two threads of T at points of S count as two.
LEMMA TwoCount ==
  ASSUME NEW T \in SUBSET Threads, NEW S, NEW t \in T, NEW u \in T,
         pc[t] \in S, pc[u] \in S, At(T, S) =< 1
  PROVE  t = u
<1> SUFFICES ASSUME t # u PROVE FALSE
  OBVIOUS
<1> DEFINE A == {x \in T : pc[x] \in S}
<1>1. IsFiniteSet(A) /\ Cardinality(A) \in Nat
  BY ThreadsFinite, FS_Subset, FS_CardinalityType
<1>2. IsFiniteSet(A \ {t}) /\ Cardinality(A \ {t}) = Cardinality(A) - 1
  BY <1>1, FS_RemoveElement
<1>3. u \in A \ {t}
  OBVIOUS
<1>4. Cardinality(A \ {t}) # 0
  BY <1>2, <1>3, FS_EmptySet
<1>5. Cardinality(A \ {t}) \in Nat
  BY <1>2, FS_CardinalityType
<1>6. QED
  BY <1>1, <1>2, <1>4, <1>5 DEF At

\* A thread goes from one point to another.
LEMMA ThreadMoves ==
  ASSUME NEW T \in SUBSET Threads, NEW S, pc \in [Threads -> Pcs],
         NEW t \in T, NEW to, pc' = [pc EXCEPT ![t] = to]
  PROVE  At(T, S)' = At(T, S) + (IF to \in S THEN 1 ELSE 0)
                              - (IF pc[t] \in S THEN 1 ELSE 0)
<1> DEFINE A == {u \in T : pc[u] \in S}
           B == {u \in T : pc'[u] \in S}
<1>1. IsFiniteSet(A)
  BY ThreadsFinite, FS_Subset
<1>2. A \ {t} = B \ {t} /\ (t \in B <=> to \in S) /\ (t \in A <=> pc[t] \in S)
  OBVIOUS
<1>3. At(T, S) = Cardinality(A) /\ At(T, S)' = Cardinality(B)
  BY DEF At
<1>4. HIDE DEF A, B
<1>5. Cardinality(B) = Cardinality(A) + (IF t \in B THEN 1 ELSE 0) - (IF t \in A THEN 1 ELSE 0)
  BY <1>1, <1>2, OneChanges
<1>6. QED
  BY <1>2, <1>3, <1>5

\* A thread outside T moves.
LEMMA OtherMoves ==
  ASSUME NEW T \in SUBSET Threads, NEW S, pc \in [Threads -> Pcs],
         NEW t \in Threads \ T, NEW to, pc' = [pc EXCEPT ![t] = to]
  PROVE  At(T, S)' = At(T, S)
<1>1. {u \in T : pc'[u] \in S} = {u \in T : pc[u] \in S}
  OBVIOUS
<1>2. QED
  BY <1>1 DEF At

\* No thread moves.
LEMMA NobodyMoves ==
  ASSUME NEW T, NEW S, pc' = pc
  PROVE  At(T, S)' = At(T, S)
BY DEF At

-----------------------------------------------------------------------------
(* Bytes.                                                                  *)

\* The bytes of a sequence of packets, as places.
ByteSet(s) == UNION {{i} \X (1 .. Size[s[i]]) : i \in DOMAIN s}

\* A sequence of packets has finitely many bytes.
LEMMA ByteSetFinite ==
  ASSUME NEW s \in Seq(Packets)
  PROVE  IsFiniteSet(ByteSet(s))
<1> DEFINE F == [i \in DOMAIN s |-> {i} \X (1 .. Size[s[i]])]
           R == {F[i] : i \in DOMAIN s}
<1>1. IsFiniteSet(DOMAIN s)
  BY LenProperties, FS_Interval
<1>2. F \in Surjection(DOMAIN s, R)
  BY DEF Surjection
<1>3. \A i \in DOMAIN s : IsFiniteSet({i} \X (1 .. Size[s[i]]))
  <2> TAKE i \in DOMAIN s
  <2>1. PICK m \in Nat : m = Size[s[i]]
    BY IOAssumption, ElementOfSeq, LenProperties
  <2>2. IsFiniteSet({i})
    BY FS_Singleton
  <2>3. IsFiniteSet(1 .. m)
    BY FS_Interval
  <2>4. IsFiniteSet({i} \X (1 .. m))
    BY <2>2, <2>3, FS_Product
  <2>5. QED
    BY <2>1, <2>4
<1>4. \A x \in R : IsFiniteSet(x)
  BY <1>3
<1>5. ByteSet(s) = UNION R
  BY DEF ByteSet
<1>6. HIDE DEF F, R
<1>7. IsFiniteSet(R)
  BY <1>1, <1>2, FS_Surjection
<1>8. QED
  BY <1>4, <1>5, <1>7, FS_UNION

\* No packet is empty: only all of a sequence has as many bytes as it has.  This is
\* what the loop of sended relies on when it counts transfer down to zero.
LEMMA OnlyAllHaveItsBytes ==
  ASSUME NEW s \in Seq(Packets), NEW k \in 0 .. Len(s)
  PROVE  Bytes(SubSeq(s, 1, k)) = Bytes(s) <=> k = Len(s)
<1>1. Len(s) \in Nat /\ DOMAIN s = 1 .. Len(s)
  BY LenProperties
<1> DEFINE l == Len(s)
<1>0. l \in Nat /\ k \in 0 .. l
  BY <1>1
<1>2. CASE k = Len(s)
  BY <1>2, SubSeqFull
<1>3. CASE k < Len(s)
  <2> DEFINE a == SubSeq(s, 1, k)
             A == ByteSet(a)
             B == ByteSet(s)
  <2>1. a \in Seq(Packets) /\ Len(a) = k
    BY Split
  <2>2. DOMAIN a = 1 .. k /\ \A i \in 1 .. k : a[i] = s[i]
    <3>1. \A i \in 1 .. k - 1 + 1 : a[i] = s[1 + i - 1]
      BY <1>1, SubSeqProperties, Z3
    <3>2. QED
      BY <2>1, <3>1, LenProperties
  <2>3. HIDE DEF a
  <2>4. A \subseteq B
    BY <1>1, <1>3, <2>2 DEF ByteSet
  <2>5. <<k + 1, 1>> \in B
    <3>1. k + 1 \in DOMAIN s /\ s[k + 1] \in Packets
      BY <1>1, <1>3
    <3>2. 1 \in 1 .. Size[s[k + 1]]
      BY <3>1, IOAssumption
    <3>3. QED
      BY <3>1, <3>2 DEF ByteSet
  <2>6. <<k + 1, 1>> \notin A
    BY <1>1, <2>2 DEF ByteSet
  <2>7. IsFiniteSet(B) /\ Bytes(s) = Cardinality(B) /\ Bytes(a) = Cardinality(A)
    BY ByteSetFinite DEF Bytes, ByteSet
  <2>8. HIDE DEF A, B
  <2>9. Cardinality(A) # Cardinality(B)
    BY <2>4, <2>5, <2>6, <2>7, FS_Subset
  <2>10. Bytes(a) # Bytes(s)
    BY <2>7, <2>9
  <2>11. k # Len(s)
    <3>1. k < l
      BY <1>3
    <3> HIDE DEF l
    <3>2. k # l
      BY <1>0, <3>1
    <3>3. QED
      BY <3>2 DEF l
  <2>12. QED
    BY <2>10, <2>11 DEF a
<1>4. k = Len(s) \/ k < Len(s)
  <2> HIDE DEF l
  <2>1. k = l \/ k < l
    BY <1>0
  <2>2. QED
    BY <2>1 DEF l
<1>5. QED
  BY <1>2, <1>3, <1>4

-----------------------------------------------------------------------------
(* The types, and who is where.                                            *)

\* A thread in the session has a reference, so the session is not deleted.
LEMMA InsideCounts ==
  ASSUME TypeOK, RefsAreHeld, NEW t \in Threads, pc[t] \in InSession
  PROVE  count > 0 /\ ~deleted /\ (pc[t] \in InFailure => count > 1)
<1>1. /\ At(Threads, InSession) \in Nat /\ At(Threads, InSession) > 0
      /\ At(Threads, InFailure) \in Nat /\ (pc[t] \in InFailure => At(Threads, InFailure) > 0)
  BY AtType
<1>2. Outstanding(sendOp) \in Nat /\ Outstanding(recvOp) \in Nat /\ Len(port) \in Nat /\ count \in Nat
  BY LenProperties DEF TypeOK, Outstanding
<1>3. QED
  BY <1>1, <1>2 DEF RefsAreHeld, References

\* There are finitely many packets, in sendBuffer as anywhere.
LEMMA PacketsFinite == \A S \in SUBSET Packets : IsFiniteSet(S) /\ Cardinality(S) \in Nat
<1>1. IsFiniteSet(Packets)
  BY IOAssumption, FS_Interval DEF Packets
<1>2. QED
  BY <1>1, FS_Subset, FS_CardinalityType

\* Packets taken from sendBuffer are a sequence of packets, wherever it is cut.
LEMMA Drawn ==
  ASSUME TypeOK, NEW k \in Nat, NEW s \in Draws(queue, k)
  PROVE  /\ s \in Seq(Packets) /\ Len(s) = k
         /\ \A j \in 0 .. k : /\ SubSeq(s, 1, j) \in Seq(Packets) /\ Len(SubSeq(s, 1, j)) = j
                             /\ SubSeq(s, j + 1, k) \in Seq(Packets)
<1>1. s \in [1 .. k -> Packets]
  BY DEF Draws, Injection, TypeOK
<1>2. s \in Seq(Packets) /\ Len(s) = k
  BY <1>1
<1>3. QED
  BY <1>2, Split

\* What a send takes from sendBuffer, and how much of it finds room in sendedBuffer.
LEMMA SendTakes ==
  ASSUME TypeOK, NEW t \in Threads, WSASend(t)
  PROVE  \E s \in Draws(queue, n[t]), k \in 0 .. n[t] :
            /\ queue' = queue \ Range(s)
            /\ batch' = batch \o SubSeq(s, 1, k) /\ Len(batch) + k =< QueueCap
            /\ lost' = lost \o SubSeq(s, k + 1, n[t])
            /\ dequeued' = dequeued \o s
            /\ lost = <<>> /\ batch = <<>> => k = n[t]
            /\ \/ ~peerGone /\ port' = Append(port, Sent) /\ wire' = wire \o s /\ inflight' = s
                  /\ pc'[t] = "drop" /\ UNCHANGED <<sendOp, broken>>
               \/ sendOp' = "pending" /\ inflight' = s /\ pc'[t] = "sendRecheck"
                  /\ UNCHANGED <<port, wire, broken>>
               \/ peerGone /\ pc'[t] = "sendFailed" /\ UNCHANGED <<sendOp, inflight, port, wire, broken>>
               \/ OtherErrors /\ broken' = TRUE /\ pc'[t] = "sendError"
                  /\ UNCHANGED <<sendOp, inflight, port, wire>>
<1>1. n[t] \in Nat /\ n[t] =< QueueCap /\ QueueCap \in Nat /\ pc \in [Threads -> Pcs]
  BY IOAssumption DEF TypeOK
<1>2. Len(batch) \in Nat /\ Len(batch) =< QueueCap
  <2>1. batch \in Seq(Packets) /\ Len(batch) =< QueueCap
    BY DEF TypeOK
  <2>2. QED
    BY <2>1, LenProperties
<1>3. PICK s \in Draws(queue, n[t]), k \in {IF n[t] =< Room THEN n[t] ELSE Room} :
            /\ queue' = queue \ Range(s)
            /\ batch' = batch \o SubSeq(s, 1, k)
            /\ lost' = lost \o SubSeq(s, k + 1, n[t])
            /\ dequeued' = dequeued \o s
            /\ \/ ~peerGone /\ port' = Append(port, Sent) /\ wire' = wire \o s /\ inflight' = s
                  /\ pc' = [pc EXCEPT ![t] = "drop"] /\ UNCHANGED <<sendOp, broken>>
               \/ sendOp' = "pending" /\ inflight' = s /\ pc' = [pc EXCEPT ![t] = "sendRecheck"]
                  /\ UNCHANGED <<port, wire, broken>>
               \/ peerGone /\ pc' = [pc EXCEPT ![t] = "sendFailed"]
                  /\ UNCHANGED <<sendOp, inflight, port, wire, broken>>
               \/ OtherErrors /\ broken' = TRUE /\ pc' = [pc EXCEPT ![t] = "sendError"]
                  /\ UNCHANGED <<sendOp, inflight, port, wire>>
  BY Zenon DEF WSASend
<1>4. Room \in Nat /\ Room =< QueueCap - Len(batch) /\ (lost = <<>> => Room = QueueCap - Len(batch))
  BY <1>1, <1>2 DEF Room
<1>5. k \in 0 .. n[t] /\ Len(batch) + k =< QueueCap
  BY <1>1, <1>2, <1>3, <1>4
<1>6. lost = <<>> /\ batch = <<>> => k = n[t]
  <2>1. batch = <<>> => Len(batch) = 0
    OBVIOUS
  <2>2. QED
    BY <1>1, <1>3, <1>4, <2>1
<1>7. QED
  BY <1>1, <1>3, <1>5, <1>6, ZenonT(60)

\* What is freed are natural numbers.
LEMMA FreeAllType ==
  ASSUME TypeOK, NEW s \in Seq(Packets)
  PROVE  FreeAll(s) \in [Packets -> Nat]
<1>1. \A p \in Packets : Among({p}, s) \in Nat
  BY AmongType
<1>2. freed \in [Packets -> Nat]
  BY DEF TypeOK
<1>3. QED
  BY <1>1, <1>2 DEF FreeAll

\* The steps of a thread.
LEMMA HandleTypes ==
  ASSUME TypeOK, Roles, RefsAreHeld, NEW t \in Threads, Handle(t)
  PROVE  TypeOK'
<1> USE IOAssumption DEF TypeOK, Goto, flags, kernel, pkts, Pcs, OpStates, Cancel, Messages, None
<1>1. CASE Collect(t)
  <2>1. msg[t].kind = "req"
    BY <1>1 DEF Collect, Roles
  <2>2. msg[t].pkt \in Packets
    BY <2>1
  <2>3. <<msg[t].pkt>> \in Seq(Packets)
    BY <2>2
  <2>4. freed' \in [Packets -> Nat]
    BY <1>1, <2>3, FreeAllType DEF Collect
  <2>5. queue' \subseteq Packets /\ Cardinality(queue') =< QueueCap
    <3>1. queue' = (IF Cardinality(queue) < QueueCap THEN queue \cup {msg[t].pkt} ELSE queue)
      BY <1>1 DEF Collect
    <3>2. /\ Cardinality(queue) \in Nat /\ QueueCap \in Nat
          /\ Cardinality(queue \cup {msg[t].pkt}) =< Cardinality(queue) + 1
      <4>1. IsFiniteSet(queue) /\ Cardinality(queue) \in Nat
        BY PacketsFinite
      <4>2. PICK p : p = msg[t].pkt
        OBVIOUS
      <4>3. Cardinality(queue \cup {p}) = IF p \in queue THEN Cardinality(queue) ELSE Cardinality(queue) + 1
        BY <4>1, FS_AddElement
      <4>4. QED
        BY <4>1, <4>2, <4>3
    <3>3. CASE Cardinality(queue) < QueueCap
      <4>1. \A a, b, c \in Nat : a < b /\ c =< a + 1 => c =< b
        OBVIOUS
      <4>2. Cardinality(queue \cup {msg[t].pkt}) \in Nat
        BY <2>2, PacketsFinite
      <4>3. QED
        BY <2>2, <3>1, <3>2, <3>3, <4>1, <4>2
    <3>4. QED
      BY <3>1, <3>3
  <2>6. msg' \in [Threads -> Messages] /\ pc' \in [Threads -> Pcs]
    BY <1>1 DEF Collect
  <2>7. QED
    BY ZenonT(60), <1>1, <2>4, <2>5, <2>6 DEF Collect
<1>2. CASE Sended(t)
  <2>1. PICK k \in 0 .. Len(batch) : /\ freed' = FreeAll(SubSeq(batch, 1, k))
                                    /\ batch' = SubSeq(batch, k + 1, Len(batch))
    BY <1>2 DEF Sended, PrefixesOf
  <2>2. SubSeq(batch, 1, k) \in Seq(Packets) /\ batch' \in Seq(Packets) /\ Len(batch') =< QueueCap
    <3>1. batch \in Seq(Packets) /\ Len(batch) \in Nat /\ Len(batch) =< QueueCap
      BY LenProperties
    <3>2. batch' \in Seq(Packets) /\ Len(batch') = Len(batch) - k /\ SubSeq(batch, 1, k) \in Seq(Packets)
      BY <2>1, Split
    <3>3. Len(batch') =< QueueCap
      BY <3>1, <3>2
    <3>4. QED
      BY <3>2, <3>3
  <2>3. freed' \in [Packets -> Nat]
    BY <2>1, <2>2, FreeAllType
  <2>4. QED
    BY <1>2, <2>2, <2>3 DEF Sended
<1>3. CASE Unflag(t)
  BY <1>3 DEF Unflag
<1>4. CASE Resend(t)
  BY <1>4 DEF Resend
<1>5. CASE Recved(t)
  <2>1. msg[t].kind = "recv"
    BY <1>5 DEF Recved, Roles
  <2>2. msg[t].len \in 0 .. RecvCap
    BY <2>1
  <2>3. fill' \in 0 .. RecvCap - 1
    <3>1. PICK len \in 0 .. RecvCap : len = msg[t].len
      BY <2>2
    <3>2. fill' = IF RecvCap - fill =< len THEN fill ELSE fill + len
      BY <1>5, <3>1 DEF Recved
    <3>3. QED
      BY <3>2
  <2>4. QED
    BY <1>5, <2>3 DEF Recved
<1>6. CASE Parse(t)
  BY <1>6 DEF Parse
<1>7. CASE OnRecvReply(t)
  <2>1. posted' \in 0 .. MaxPackets /\ posted + 1 \in Packets
    BY <1>7 DEF OnRecvReply, Packets
  <2>2. Req(posted + 1) \in Messages
    BY <2>1 DEF Req
  <2>3. port' \in Seq(Messages)
    BY <1>7, <2>2 DEF OnRecvReply
  <2>4. QED
    BY SMTT(30), <1>7, <2>1, <2>3 DEF OnRecvReply
<1>8. CASE OnRecvDisconnect(t)
  BY <1>8 DEF OnRecvDisconnect
<1>9. CASE OnRecvNothing(t)
  BY <1>9 DEF OnRecvNothing
<1>10. CASE SendIOCheck(t)
  BY <1>10 DEF SendIOCheck
<1>11. CASE SendIOExchange(t)
  BY <1>11 DEF SendIOExchange
<1>12. CASE SendIOSize(t)
  <2>1. Cardinality(queue) \in 0 .. QueueCap
    BY PacketsFinite
  <2>2. QED
    BY <1>12, <2>1 DEF SendIOSize
<1>13. CASE SendIOGiveUp(t)
  BY <1>13 DEF SendIOGiveUp
<1>14. CASE WSASend(t)
  <2>1. PICK s \in Draws(queue, n[t]), k \in 0 .. n[t] :
            /\ queue' = queue \ Range(s)
            /\ batch' = batch \o SubSeq(s, 1, k) /\ Len(batch) + k =< QueueCap
            /\ lost' = lost \o SubSeq(s, k + 1, n[t])
            /\ dequeued' = dequeued \o s
            /\ inflight' \in {s, inflight} /\ wire' \in {wire \o s, wire}
            /\ port' \in {Append(port, Sent), port} /\ sendOp' \in {"pending", sendOp}
            /\ broken' \in {TRUE, broken}
    BY <1>14, SendTakes, ZenonT(60)
  <2>2. n[t] \in Nat
    OBVIOUS
  <2>3. /\ s \in Seq(Packets) /\ SubSeq(s, 1, k) \in Seq(Packets) /\ Len(SubSeq(s, 1, k)) = k
        /\ SubSeq(s, k + 1, n[t]) \in Seq(Packets)
    <3> HIDE DEF TypeOK, Goto, flags, kernel, pkts, Pcs, OpStates, Cancel, Messages, None
    <3>1. /\ s \in Seq(Packets)
          /\ \A j \in 0 .. n[t] : /\ SubSeq(s, 1, j) \in Seq(Packets) /\ Len(SubSeq(s, 1, j)) = j
                                 /\ SubSeq(s, j + 1, n[t]) \in Seq(Packets)
      BY <2>2, Drawn
    <3>2. QED
      BY <3>1, Zenon
  <2>4. queue' \subseteq Packets /\ Cardinality(queue') =< QueueCap
    <3>1. queue' \subseteq queue /\ queue' \subseteq Packets
      BY <2>1
    <3>2. Cardinality(queue') =< Cardinality(queue) /\ Cardinality(queue') \in Nat /\ Cardinality(queue) \in Nat
      BY <3>1, PacketsFinite, FS_Subset
    <3>3. QED
      BY <3>1, <3>2
  <2>5. {batch', lost', dequeued', inflight', wire'} \subseteq Seq(Packets)
    <3>1. PICK a, b : a = SubSeq(s, 1, k) /\ b = SubSeq(s, k + 1, n[t])
      OBVIOUS
    <3>2. {batch, lost, dequeued, inflight, wire, a, b, s} \subseteq Seq(Packets)
      BY <2>3, <3>1
    <3>3. \A x, y \in Seq(Packets) : x \o y \in Seq(Packets)
      OBVIOUS
    <3>4. batch' = batch \o a /\ lost' = lost \o b /\ dequeued' = dequeued \o s
      BY <2>1, <3>1
    <3>5. /\ batch' \in Seq(Packets) /\ lost' \in Seq(Packets) /\ dequeued' \in Seq(Packets)
          /\ wire \o s \in Seq(Packets)
      BY <3>2, <3>3, <3>4, Zenon
    <3>6. inflight' \in Seq(Packets) /\ wire' \in Seq(Packets)
      BY <2>1, <3>2, <3>5
    <3>7. QED
      BY <3>5, <3>6
  <2>6. Len(batch') =< QueueCap
    <3>1. PICK a \in Seq(Packets) : a = SubSeq(s, 1, k) /\ Len(a) = k
      BY <2>3
    <3>2. batch \in Seq(Packets) /\ batch' = batch \o a
      BY <2>1, <3>1
    <3>3. Len(batch \o a) = Len(batch) + Len(a)
      BY <3>2, ConcatProperties
    <3>4. QED
      BY <2>1, <3>1, <3>2, <3>3
  <2>7. port' \in Seq(Messages) /\ sendOp' \in OpStates /\ broken' \in BOOLEAN
    <3>1. Append(port, Sent) \in Seq(Messages)
      BY DEF Sent
    <3>2. QED
      BY <2>1, <3>1
  <2>8. /\ count' = count + 1 /\ n' = [n EXCEPT ![t] = 0]
        /\ pc' \in [Threads -> Pcs]
        /\ UNCHANGED <<deleted, flags, recvOp, peerGone, bytes, posted, freed, fill, msg>>
    BY <1>14 DEF WSASend
  <2>9. QED
    BY <2>4, <2>5, <2>6, <2>7, <2>8
<1>15. CASE SendRecheck(t)
  BY <1>15 DEF SendRecheck
<1>16. CASE SendError(t)
  BY <1>16 DEF SendError
<1>17. CASE SendFailed(t)
  BY <1>17 DEF SendFailed
<1>18. CASE SendFailedCancel(t)
  <2>1. count > 1
    BY <1>18, InsideCounts DEF SendFailedCancel, InSession, InFailure
  <2>2. QED
    BY <1>18, <2>1 DEF SendFailedCancel
<1>19. CASE RecvIOCheck(t)
  BY <1>19 DEF RecvIOCheck
<1>20. CASE WSARecv(t)
  <2>1. port' \in Seq(Messages) /\ bytes' \in 0 .. MaxBytes
    <3>1. CASE Receive
      <4>1. PICK k \in 1 .. RecvCap - fill : /\ bytes + k =< MaxBytes /\ bytes' = bytes + k
                                            /\ port' = Append(port, Recv(k))
        BY <3>1 DEF Receive
      <4>2. Recv(k) \in Messages
        BY DEF Recv
      <4>3. QED
        BY <4>1, <4>2
    <3>2. CASE UNCHANGED <<port, bytes>>
      BY <3>2
    <3>3. QED
      BY <1>20, <3>1, <3>2 DEF WSARecv
  <2>2. /\ count' = count + 1 /\ pc' \in [Threads -> Pcs] /\ recvOp' \in OpStates
        /\ UNCHANGED <<deleted, flags, sendOp, inflight, wire, peerGone, pkts, fill, msg, n>>
    BY <1>20 DEF WSARecv
  <2>3. QED
    BY <2>1, <2>2
<1>21. CASE RecvRecheck(t)
  BY <1>21 DEF RecvRecheck
<1>22. CASE RecvFailed(t)
  BY <1>22 DEF RecvFailed
<1>23. CASE RecvFailedCancel(t)
  <2>1. count > 1
    BY <1>23, InsideCounts DEF RecvFailedCancel, InSession, InFailure
  <2>2. QED
    BY <1>23, <2>1 DEF RecvFailedCancel
<1>24. CASE CancelRegist(t)
  BY <1>24 DEF CancelRegist
<1>25. CASE CancelRecv(t)
  BY <1>25 DEF CancelRecv
<1>26. CASE CancelSend(t)
  BY <1>26 DEF CancelSend
<1>27. CASE Drop(t)
  <2>1. count > 0
    BY <1>27, InsideCounts DEF Drop, InSession
  <2>2. /\ freed' \in [Packets -> Nat] /\ {batch', lost'} \subseteq Seq(Packets)
        /\ queue' \subseteq Packets /\ Cardinality(queue') =< QueueCap /\ Len(batch') =< QueueCap
        /\ fill' \in 0 .. RecvCap - 1 /\ deleted' \in BOOLEAN
    <3>1. CASE count = 1
      <4>1. PICK k \in {0, 1} :
                /\ k =< Len(lost)
                /\ freed' = [p \in Packets |-> freed[p] + In(p, queue) + Among({p}, batch)
                                               + Among({p}, SubSeq(lost, 1, k))]
                /\ lost' = SubSeq(lost, k + 1, Len(lost))
        BY <1>27, <3>1, Zenon DEF Drop
      <4>2. k \in 0 .. Len(lost) /\ lost \in Seq(Packets) /\ batch \in Seq(Packets)
        BY <4>1, LenProperties
      <4>3. SubSeq(lost, 1, k) \in Seq(Packets) /\ lost' \in Seq(Packets)
        BY <4>1, <4>2, Split
      <4>4. \A p \in Packets : /\ freed[p] \in Nat /\ In(p, queue) \in Nat /\ Among({p}, batch) \in Nat
                              /\ Among({p}, SubSeq(lost, 1, k)) \in Nat
        BY <4>2, <4>3, AmongType DEF In
      <4>5. freed' \in [Packets -> Nat]
        <5>1. \A a, b, c, d \in Nat : a + b + c + d \in Nat
          OBVIOUS
        <5>2. \A p \in Packets : freed[p] + In(p, queue) + Among({p}, batch)
                                      + Among({p}, SubSeq(lost, 1, k)) \in Nat
          BY <4>4, <5>1
        <5>3. QED
          BY <4>1, <5>2, Zenon
      <4>6. queue' = {} /\ batch' = <<>> /\ fill' = 0 /\ deleted' = TRUE
        BY <1>27, <3>1 DEF Drop
      <4>7. Cardinality({}) = 0 /\ Len(<<>>) = 0 /\ <<>> \in Seq(Packets)
        BY FS_EmptySet
      <4>8. QED
        BY <4>3, <4>5, <4>6, <4>7
    <3>2. CASE count # 1
      BY <1>27, <3>2 DEF Drop
    <3>3. QED
      BY <3>1, <3>2
  <2>4. count' \in Nat /\ msg' \in [Threads -> Messages] /\ pc' \in [Threads -> Pcs]
    BY SMTT(30), <1>27, <2>1 DEF Drop
  <2>5. UNCHANGED <<flags, kernel, posted, dequeued, broken, n>>
    BY <1>27 DEF Drop
  <2>6. QED
    BY <2>2, <2>4, <2>5
<1>28. QED
  BY <1>1, <1>2, <1>3, <1>4, <1>5, <1>6, <1>7, <1>8, <1>9, <1>10, <1>11, <1>12, <1>13, <1>14, <1>15, <1>16, <1>17, <1>18, <1>19, <1>20, <1>21, <1>22, <1>23, <1>24, <1>25, <1>26, <1>27 DEF Handle

\* A completion is taken.
LEMMA TakeTypes ==
  ASSUME TypeOK, NEW w \in Workers, Take(w)
  PROVE  TypeOK'
<1> USE IOAssumption
<1> DEFINE m == Head(port)
<1>1. m \in Messages /\ Tail(port) \in Seq(Messages)
  BY SMTT(30) DEF TypeOK, Take
<1>2. None \in Messages
  BY DEF None, Messages
<1>3. msg' \in [Threads -> Messages] /\ pc' \in [Threads -> Pcs]
  <2> HIDE DEF m
  <2>1. /\ msg' = [msg EXCEPT ![w] = IF m.kind \in {"req", "recv"} THEN m ELSE None]
        /\ pc' = [pc EXCEPT ![w] = CASE m.kind = "req" -> "collect"
                                    [] m.kind = "sent" -> "sended"
                                    [] m.kind = "recv" /\ m.len > 0 -> "recved"
                                    [] OTHER -> "drop"]
    BY DEF Take, m
  <2>2. QED
    BY <1>1, <1>2, <2>1 DEF TypeOK, Pcs
<1>4. QED
  BY <1>1, <1>3 DEF TypeOK, Take, flags, pkts

\* The closer's lookup, the kernel and the peer.
LEMMA KernelTypes ==
  ASSUME TypeOK, CloserFind \/ RecvArrives \/ RecvEnds \/ SendCompletes \/ SendEnds \/ PeerLeaves
  PROVE  TypeOK'
<1> USE IOAssumption DEF TypeOK, flags, kernel, pkts, OpStates
<1>1. CASE CloserFind
  BY <1>1 DEF CloserFind, Threads, Pcs
<1>2. CASE RecvArrives
  <2>1. PICK k \in 1 .. RecvCap - fill : /\ bytes + k =< MaxBytes /\ bytes' = bytes + k
                                        /\ port' = Append(port, Recv(k))
    BY <1>2 DEF RecvArrives, Receive
  <2>2. Recv(k) \in Messages
    BY SMTT(30) DEF Recv, Messages
  <2>3. QED
    BY <1>2, <2>1, <2>2 DEF RecvArrives
<1>3. CASE RecvEnds
  <2>1. Failed \in Messages /\ Recv(0) \in Messages
    BY DEF Failed, Recv, Messages
  <2>2. Append(port, Failed) \in Seq(Messages) /\ Append(port, Recv(0)) \in Seq(Messages)
    BY <2>1
  <2>3. port' \in Seq(Messages) /\ recvOp' \in OpStates
    BY <1>3, <2>2 DEF RecvEnds
  <2>4. UNCHANGED <<count, deleted, flags, sendOp, inflight, wire, peerGone, bytes, pkts, fill, pc, msg, n>>
    BY <1>3 DEF RecvEnds
  <2>5. QED
    BY <2>3, <2>4
<1>4. CASE SendCompletes
  <2>1. Sent \in Messages
    BY DEF Sent, Messages
  <2>2. wire \o inflight \in Seq(Packets) /\ Append(port, Sent) \in Seq(Messages)
    BY <2>1
  <2>3. wire' \in Seq(Packets) /\ port' \in Seq(Messages) /\ sendOp' \in OpStates
    BY <1>4, <2>2 DEF SendCompletes
  <2>4. UNCHANGED <<count, deleted, flags, recvOp, inflight, peerGone, bytes, pkts, fill, pc, msg, n>>
    BY <1>4 DEF SendCompletes
  <2>5. QED
    BY <2>3, <2>4
<1>5. CASE SendEnds
  <2>1. Failed \in Messages
    BY DEF Failed, Messages
  <2>2. QED
    BY <1>5, <2>1 DEF SendEnds
<1>6. CASE PeerLeaves
  BY <1>6 DEF PeerLeaves
<1>7. QED
  BY <1>1, <1>2, <1>3, <1>4, <1>5, <1>6

\* Every thread keeps to the points of its role.
LEMMA HandleRoles ==
  ASSUME TypeOK, Roles, NEW t \in Threads, Handle(t)
  PROVE  Roles'
<1> USE IOAssumption DEF TypeOK, Roles, Goto, pkts, CancelPoints, Threads, None
<1>1. CASE Collect(t)
  BY <1>1 DEF Collect
<1>2. CASE Sended(t)
  BY <1>2 DEF Sended
<1>3. CASE Unflag(t)
  BY <1>3 DEF Unflag
<1>4. CASE Resend(t)
  BY <1>4 DEF Resend
<1>5. CASE Recved(t)
  BY <1>5 DEF Recved
<1>6. CASE Parse(t)
  BY <1>6 DEF Parse
<1>7. CASE OnRecvReply(t)
  BY <1>7 DEF OnRecvReply
<1>8. CASE OnRecvDisconnect(t)
  BY <1>8 DEF OnRecvDisconnect
<1>9. CASE OnRecvNothing(t)
  BY <1>9 DEF OnRecvNothing
<1>10. CASE SendIOCheck(t)
  BY <1>10 DEF SendIOCheck
<1>11. CASE SendIOExchange(t)
  BY <1>11 DEF SendIOExchange
<1>12. CASE SendIOSize(t)
  BY <1>12 DEF SendIOSize
<1>13. CASE SendIOGiveUp(t)
  BY <1>13 DEF SendIOGiveUp
<1>14. CASE WSASend(t)
  <2>1. pc' = [pc EXCEPT ![t] = pc'[t]]
    BY <1>14 DEF WSASend
  <2>2. msg' = msg /\ pc[t] = "WSASend"
    BY <1>14 DEF WSASend
  <2>3. pc'[t] \in {"drop", "sendRecheck", "sendFailed", "sendError"}
    BY <1>14, SendTakes, Zenon
  <2>4. (pc'[t] = "sendError" => broken') /\ (broken => broken')
    <3> HIDE DEF TypeOK, Roles, Goto, pkts, CancelPoints, Threads, None
    <3>1. \/ pc'[t] \in {"drop", "sendRecheck", "sendFailed"} /\ broken' = broken
          \/ broken' = TRUE
      BY <1>14, SendTakes, Zenon
    <3>2. QED
      BY <3>1
  <2>5. QED
    BY <2>1, <2>2, <2>3, <2>4
<1>15. CASE SendRecheck(t)
  BY <1>15 DEF SendRecheck
<1>16. CASE SendError(t)
  BY <1>16 DEF SendError
<1>17. CASE SendFailed(t)
  BY <1>17 DEF SendFailed
<1>18. CASE SendFailedCancel(t)
  BY <1>18 DEF SendFailedCancel
<1>19. CASE RecvIOCheck(t)
  BY <1>19 DEF RecvIOCheck
<1>20. CASE WSARecv(t)
  BY <1>20 DEF WSARecv
<1>21. CASE RecvRecheck(t)
  BY <1>21 DEF RecvRecheck
<1>22. CASE RecvFailed(t)
  BY <1>22 DEF RecvFailed
<1>23. CASE RecvFailedCancel(t)
  BY <1>23 DEF RecvFailedCancel
<1>24. CASE CancelRegist(t)
  BY <1>24 DEF CancelRegist
<1>25. CASE CancelRecv(t)
  BY <1>25 DEF CancelRecv
<1>26. CASE CancelSend(t)
  BY <1>26 DEF CancelSend
<1>27. CASE Drop(t)
  BY <1>27 DEF Drop
<1>28. QED
  BY <1>1, <1>2, <1>3, <1>4, <1>5, <1>6, <1>7, <1>8, <1>9, <1>10, <1>11, <1>12, <1>13, <1>14, <1>15, <1>16, <1>17, <1>18, <1>19, <1>20, <1>21, <1>22, <1>23, <1>24, <1>25, <1>26, <1>27 DEF Handle

\* Also when it takes a completion.
LEMMA OtherRoles ==
  ASSUME TypeOK, Roles,
         \/ \E w \in Workers : Take(w)
         \/ CloserFind \/ RecvArrives \/ RecvEnds \/ SendCompletes \/ SendEnds \/ PeerLeaves
  PROVE  Roles'
<1> USE IOAssumption
<1>1. ASSUME NEW w \in Workers, Take(w) PROVE Roles'
  <2> DEFINE m == Head(port)
  <2>1. m \in Messages
    BY SMTT(30), <1>1 DEF TypeOK, Take
  <2>2. /\ pc[w] = "idle"
        /\ msg' = [msg EXCEPT ![w] = IF m.kind \in {"req", "recv"} THEN m ELSE None]
        /\ pc' = [pc EXCEPT ![w] = CASE m.kind = "req" -> "collect"
                                    [] m.kind = "sent" -> "sended"
                                    [] m.kind = "recv" /\ m.len > 0 -> "recved"
                                    [] OTHER -> "drop"]
        /\ broken' = broken
    BY <1>1 DEF Take, pkts
  <2> HIDE DEF m
  <2>3. CASE m.kind = "req"
    BY <2>2, <2>3 DEF TypeOK, Roles, Threads, CancelPoints
  <2>4. CASE m.kind = "recv"
    BY <2>2, <2>4 DEF TypeOK, Roles, Threads, CancelPoints
  <2>5. CASE m.kind \notin {"req", "recv"}
    BY <2>2, <2>5 DEF TypeOK, Roles, Threads, CancelPoints, None
  <2>6. QED
    BY <2>3, <2>4, <2>5
<1>2. CASE CloserFind
  BY <1>2 DEF CloserFind, TypeOK, Roles, Threads, CancelPoints, pkts
<1>3. ASSUME UNCHANGED <<pc, msg, broken>> PROVE Roles'
  BY <1>3 DEF Roles
<1>4. QED
  BY <1>1, <1>2, <1>3 DEF RecvArrives, RecvEnds, SendCompletes, SendEnds, PeerLeaves, pkts

-----------------------------------------------------------------------------
(* The reference count.                                                    *)

\* How the threads that hold references and the parties to the send and to the
\* receive change when one thread moves.
LEMMA Moves ==
  ASSUME TypeOK, NEW t \in Threads, pc' = [pc EXCEPT ![t] = pc'[t]]
  PROVE  /\ At(Threads, InSession)' = At(Threads, InSession)
               + (IF pc'[t] \in InSession THEN 1 ELSE 0) - (IF pc[t] \in InSession THEN 1 ELSE 0)
         /\ At(Threads, InFailure)' = At(Threads, InFailure)
               + (IF pc'[t] \in InFailure THEN 1 ELSE 0) - (IF pc[t] \in InFailure THEN 1 ELSE 0)
         /\ At(Threads, SendPoints)' = At(Threads, SendPoints)
               + (IF pc'[t] \in SendPoints THEN 1 ELSE 0) - (IF pc[t] \in SendPoints THEN 1 ELSE 0)
         /\ At(Threads, RecvPoints)' = At(Threads, RecvPoints)
               + (IF pc'[t] \in RecvPoints THEN 1 ELSE 0) - (IF pc[t] \in RecvPoints THEN 1 ELSE 0)
         /\ t \in Workers =>
               At(Workers, CancelPoints)' = At(Workers, CancelPoints)
               + (IF pc'[t] \in CancelPoints THEN 1 ELSE 0) - (IF pc[t] \in CancelPoints THEN 1 ELSE 0)
         /\ t \notin Workers => At(Workers, CancelPoints)' = At(Workers, CancelPoints)
<1> DEFINE to == pc'[t]
<1>1. Threads \in SUBSET Threads /\ Workers \in SUBSET Threads /\ pc \in [Threads -> Pcs]
  BY DEF Threads, TypeOK
<1>2. pc' = [pc EXCEPT ![t] = to]
  OBVIOUS
<1>3. HIDE DEF to
<1>4. \A S : At(Threads, S)' = At(Threads, S) + (IF to \in S THEN 1 ELSE 0)
                                           - (IF pc[t] \in S THEN 1 ELSE 0)
  BY <1>1, <1>2, ThreadMoves
<1>5. t \in Workers => At(Workers, CancelPoints)' = At(Workers, CancelPoints)
          + (IF to \in CancelPoints THEN 1 ELSE 0) - (IF pc[t] \in CancelPoints THEN 1 ELSE 0)
  BY <1>1, <1>2, ThreadMoves
<1>6. t \notin Workers => At(Workers, CancelPoints)' = At(Workers, CancelPoints)
  BY <1>1, <1>2, OtherMoves
<1>7. QED
  BY <1>4, <1>5, <1>6 DEF to

\* A step of a thread moves no other thread.
LEMMA HandleMoves ==
  ASSUME TypeOK, NEW t \in Threads, Handle(t)
  PROVE  pc' = [pc EXCEPT ![t] = pc'[t]]
BY DEF TypeOK, Handle, Goto, Collect, Sended, Unflag, Resend, Recved, Parse, OnRecvReply,
       OnRecvDisconnect, OnRecvNothing, SendIOCheck, SendIOExchange, SendIOSize, SendIOGiveUp,
       WSASend, SendRecheck, SendError, SendFailed, SendFailedCancel, RecvIOCheck, WSARecv,
       RecvRecheck, RecvFailed, RecvFailedCancel, CancelRegist, CancelRecv, CancelSend, Drop

\* Each of them is a number, and positive when a thread is there.
LEMMA Counts ==
  TypeOK => /\ \A S \in {InSession, InFailure, SendPoints, RecvPoints} :
                  /\ At(Threads, S) \in Nat
                  /\ \A t \in Threads : pc[t] \in S => At(Threads, S) > 0
            /\ At(Workers, CancelPoints) \in Nat
            /\ \A w \in Workers : pc[w] \in CancelPoints => At(Workers, CancelPoints) > 0
            /\ Among({Sent}, port) \in Nat /\ Among(Received, port) \in Nat
            /\ Outstanding(sendOp) \in {0, 1} /\ Outstanding(recvOp) \in {0, 1}
            /\ Len(port) \in Nat
<1> SUFFICES ASSUME TypeOK PROVE
            /\ \A S \in {InSession, InFailure, SendPoints, RecvPoints} :
                  /\ At(Threads, S) \in Nat
                  /\ \A t \in Threads : pc[t] \in S => At(Threads, S) > 0
            /\ At(Workers, CancelPoints) \in Nat
            /\ \A w \in Workers : pc[w] \in CancelPoints => At(Workers, CancelPoints) > 0
            /\ Among({Sent}, port) \in Nat /\ Among(Received, port) \in Nat
            /\ Outstanding(sendOp) \in {0, 1} /\ Outstanding(recvOp) \in {0, 1}
            /\ Len(port) \in Nat
  OBVIOUS
<1>1. Workers \in SUBSET Threads
  BY DEF Threads
<1>2. port \in Seq(Messages)
  BY DEF TypeOK
<1>3. QED
  BY <1>1, <1>2, AtType, AmongType, LenProperties DEF Outstanding

\* With the send in the hands of one party, nothing is outstanding before WSASend.
LEMMA NothingOutstanding ==
  ASSUME TypeOK, NEW t \in Threads
  PROVE  /\ OneSend /\ pc[t] \in SendPoints => sendOp = "none" /\ Among({Sent}, port) = 0
         /\ OneReceive /\ pc[t] \in RecvPoints => recvOp = "none" /\ Among(Received, port) = 0
BY Counts DEF OneSend, SendTokens, OneReceive, RecvTokens, Outstanding

\* What a step of a thread does to the count and to the references: they change
\* alike, but for the refusal of recved, which forgets a reference.
LEMMA HandleRefs ==
  ASSUME TypeOK, RefsAreHeld, OneSend, OneReceive, NEW t \in Threads, Handle(t)
  PROVE  /\ RefsAreHeld'
         /\ \/ count' - References' = count - References
            \/ Recved(t) /\ RecvCap - fill =< msg[t].len
<1> DEFINE a == At(Threads, InSession)
           b == At(Threads, InFailure)
<1>1. /\ a' = a + (IF pc'[t] \in InSession THEN 1 ELSE 0) - (IF pc[t] \in InSession THEN 1 ELSE 0)
      /\ b' = b + (IF pc'[t] \in InFailure THEN 1 ELSE 0) - (IF pc[t] \in InFailure THEN 1 ELSE 0)
  BY HandleMoves, Moves
<1>2. /\ a \in Nat /\ b \in Nat /\ Len(port) \in Nat /\ count \in Nat /\ deleted \in BOOLEAN
      /\ Outstanding(sendOp) \in {0, 1} /\ Outstanding(recvOp) \in {0, 1}
  BY Counts DEF TypeOK
<1>3. /\ References = a + b + Outstanding(sendOp) + Outstanding(recvOp) + Len(port)
      /\ References' = a' + b' + Outstanding(sendOp') + Outstanding(recvOp') + Len(port')
  BY DEF References, Outstanding
<1>4. count >= References /\ (deleted <=> count = 0)
  BY DEF RefsAreHeld
<1>5. pc[t] \in InSession => count > 0 /\ ~deleted /\ (pc[t] \in InFailure => count > 1)
  BY InsideCounts
<1>6. SUFFICES /\ count' >= References' /\ (deleted' <=> count' = 0)
               /\ \/ count' - References' = count - References
                  \/ Recved(t) /\ RecvCap - fill =< msg[t].len
  BY DEF RefsAreHeld
<1> HIDE DEF a, b
<1> USE DEF Goto, flags, kernel, pkts
<1>7. CASE Collect(t)
  BY <1>1, <1>2, <1>3, <1>4, <1>5, <1>7 DEF Collect, TypeOK, InSession, InFailure, Pcs
<1>8. CASE Sended(t)
  BY <1>1, <1>2, <1>3, <1>4, <1>5, <1>8 DEF Sended, TypeOK, InSession, InFailure, Pcs
<1>9. CASE Unflag(t)
  BY <1>1, <1>2, <1>3, <1>4, <1>5, <1>9 DEF Unflag, TypeOK, InSession, InFailure, Pcs
<1>10. CASE Resend(t)
  BY <1>1, <1>2, <1>3, <1>4, <1>5, <1>10 DEF Resend, TypeOK, InSession, InFailure, Pcs
<1>11. CASE Recved(t)
  <2>1. /\ pc[t] = "recved" /\ UNCHANGED <<count, deleted, kernel>>
        /\ pc'[t] = IF RecvCap - fill =< msg[t].len THEN "idle" ELSE "parse"
    BY <1>11 DEF TypeOK, Recved
  <2>2. CASE RecvCap - fill =< msg[t].len
    <3>1. a' = a - 1 /\ b' = b
      BY <1>1, <1>2, <2>1, <2>2 DEF InSession, InFailure, Pcs
    <3>2. count' = count /\ deleted' = deleted /\ References' = References - 1 /\ References \in Nat
      BY <1>2, <1>3, <2>1, <3>1
    <3>3. QED
      BY <1>2, <1>4, <1>11, <2>2, <3>2
  <2>3. CASE ~(RecvCap - fill =< msg[t].len)
    BY <1>1, <1>2, <1>3, <1>4, <1>5, <2>1, <2>3 DEF InSession, InFailure, Pcs
  <2>4. QED
    BY <2>2, <2>3
<1>12. CASE Parse(t)
  BY <1>1, <1>2, <1>3, <1>4, <1>5, <1>12 DEF Parse, TypeOK, InSession, InFailure, Pcs
<1>13. CASE OnRecvReply(t)
  <2>1. Len(port') = Len(port) + 1
    BY <1>13 DEF TypeOK, OnRecvReply
  <2>2. pc[t] = "OnRecv" /\ pc'[t] = "parse" /\ count' = count + 1 /\ UNCHANGED <<deleted, sendOp, recvOp>>
    BY <1>13 DEF OnRecvReply, TypeOK
  <2>3. a' = a /\ b' = b
    BY <1>1, <1>2, <2>2 DEF InSession, InFailure, Pcs
  <2>4. ~deleted
    BY <1>5, <2>2 DEF InSession, Pcs
  <2>5. Outstanding(sendOp') = Outstanding(sendOp) /\ Outstanding(recvOp') = Outstanding(recvOp)
    BY <2>2
  <2>6. References' = References + 1 /\ References \in Nat
    BY <1>2, <1>3, <2>1, <2>3, <2>5
  <2>7. QED
    BY <1>2, <1>4, <2>2, <2>4, <2>6
<1>14. CASE OnRecvDisconnect(t)
  BY <1>1, <1>2, <1>3, <1>4, <1>5, <1>14 DEF OnRecvDisconnect, TypeOK, InSession, InFailure, Pcs
<1>15. CASE OnRecvNothing(t)
  BY <1>1, <1>2, <1>3, <1>4, <1>5, <1>15 DEF OnRecvNothing, TypeOK, InSession, InFailure, Pcs
<1>16. CASE SendIOCheck(t)
  BY <1>1, <1>2, <1>3, <1>4, <1>5, <1>16 DEF SendIOCheck, TypeOK, InSession, InFailure, Pcs
<1>17. CASE SendIOExchange(t)
  BY <1>1, <1>2, <1>3, <1>4, <1>5, <1>17 DEF SendIOExchange, TypeOK, InSession, InFailure, Pcs
<1>18. CASE SendIOSize(t)
  BY <1>1, <1>2, <1>3, <1>4, <1>5, <1>18 DEF SendIOSize, TypeOK, InSession, InFailure, Pcs
<1>19. CASE SendIOGiveUp(t)
  BY <1>1, <1>2, <1>3, <1>4, <1>5, <1>19 DEF SendIOGiveUp, TypeOK, InSession, InFailure, Pcs
<1>20. CASE WSASend(t)
  <2>1. sendOp = "none"
    BY <1>20, NothingOutstanding DEF WSASend, SendPoints
  <2>2. \/ pc'[t] = "drop" /\ port' = Append(port, Sent) /\ sendOp' = sendOp
        \/ pc'[t] = "sendRecheck" /\ port' = port /\ sendOp' = "pending"
        \/ pc'[t] \in {"sendFailed", "sendError"} /\ port' = port /\ sendOp' = sendOp
    BY <1>20 DEF TypeOK, WSASend
  <2>3. Len(Append(port, Sent)) = Len(port) + 1
    BY DEF TypeOK
  <2>4. pc[t] = "WSASend" /\ count' = count + 1 /\ UNCHANGED <<deleted, recvOp>>
    BY <1>20 DEF WSASend
  <2>5. a' = a /\ b' = b + IF pc'[t] \in {"sendFailed", "sendError"} THEN 1 ELSE 0
    BY <1>1, <1>2, <2>2, <2>4 DEF InSession, InFailure, Pcs
  <2>6. ~deleted
    BY <1>5, <2>4 DEF InSession, Pcs
  <2>7. QED
    BY SMTT(30), <1>2, <1>3, <1>4, <2>1, <2>2, <2>3, <2>4, <2>5, <2>6 DEF Outstanding
<1>21. CASE SendRecheck(t)
  BY SMTT(30), <1>1, <1>2, <1>3, <1>4, <1>5, <1>21 DEF SendRecheck, TypeOK, InSession, InFailure, Pcs, Outstanding, Cancel
<1>22. CASE SendError(t)
  BY <1>1, <1>2, <1>3, <1>4, <1>5, <1>22 DEF SendError, TypeOK, InSession, InFailure, Pcs
<1>23. CASE SendFailed(t)
  BY <1>1, <1>2, <1>3, <1>4, <1>5, <1>23 DEF SendFailed, TypeOK, InSession, InFailure, Pcs
<1>24. CASE SendFailedCancel(t)
  <2>1. /\ pc[t] = "sendFailedCancel" /\ pc'[t] = "drop" /\ count' = count - 1
        /\ UNCHANGED <<deleted, sendOp, port>>
    BY <1>24 DEF TypeOK, SendFailedCancel
  <2>2. Outstanding(recvOp') = Outstanding(recvOp)
    BY <1>24 DEF SendFailedCancel, Outstanding, Cancel
  <2>3. QED
    BY SMTT(30), <1>1, <1>2, <1>3, <1>4, <1>5, <2>1, <2>2 DEF InSession, InFailure, Pcs
<1>25. CASE RecvIOCheck(t)
  BY <1>1, <1>2, <1>3, <1>4, <1>5, <1>25 DEF RecvIOCheck, TypeOK, InSession, InFailure, Pcs
<1>26. CASE WSARecv(t)
  <2>1. recvOp = "none"
    BY <1>26, NothingOutstanding DEF WSARecv, RecvPoints
  <2>2. \/ pc'[t] = "drop" /\ (\E m : port' = Append(port, m)) /\ recvOp' = recvOp
        \/ pc'[t] = "recvRecheck" /\ port' = port /\ recvOp' = "pending"
        \/ pc'[t] = "recvFailed" /\ port' = port /\ recvOp' = recvOp
    BY <1>26 DEF TypeOK, WSARecv, Receive
  <2>3. \A m : Len(Append(port, m)) = Len(port) + 1
    BY DEF TypeOK
  <2>4. pc[t] = "WSARecv" /\ count' = count + 1 /\ UNCHANGED <<deleted, sendOp>>
    BY <1>26 DEF WSARecv
  <2>5. QED
    BY <1>1, <1>2, <1>3, <1>4, <1>5, <2>1, <2>2, <2>3, <2>4 DEF InSession, InFailure, Pcs, Outstanding
<1>27. CASE RecvRecheck(t)
  BY SMTT(30), <1>1, <1>2, <1>3, <1>4, <1>5, <1>27 DEF RecvRecheck, TypeOK, InSession, InFailure, Pcs, Outstanding, Cancel
<1>28. CASE RecvFailed(t)
  BY <1>1, <1>2, <1>3, <1>4, <1>5, <1>28 DEF RecvFailed, TypeOK, InSession, InFailure, Pcs
<1>29. CASE RecvFailedCancel(t)
  <2>1. /\ pc[t] = "recvFailedCancel" /\ pc'[t] = "drop" /\ count' = count - 1
        /\ UNCHANGED <<deleted, recvOp, port>>
    BY <1>29 DEF TypeOK, RecvFailedCancel
  <2>2. Outstanding(sendOp') = Outstanding(sendOp)
    BY <1>29 DEF RecvFailedCancel, Outstanding, Cancel
  <2>3. QED
    BY SMTT(30), <1>1, <1>2, <1>3, <1>4, <1>5, <2>1, <2>2 DEF InSession, InFailure, Pcs
<1>30. CASE CancelRegist(t)
  BY <1>1, <1>2, <1>3, <1>4, <1>5, <1>30 DEF CancelRegist, TypeOK, InSession, InFailure, Pcs
<1>31. CASE CancelRecv(t)
  BY SMTT(30), <1>1, <1>2, <1>3, <1>4, <1>5, <1>31 DEF CancelRecv, TypeOK, InSession, InFailure, Pcs, Outstanding, Cancel
<1>32. CASE CancelSend(t)
  BY <1>1, <1>2, <1>3, <1>4, <1>5, <1>32 DEF CancelSend, TypeOK, InSession, InFailure, Pcs, Outstanding, Cancel
<1>33. CASE Drop(t)
  <2>1. /\ pc[t] = "drop" /\ pc'[t] \in {"idle", "done"} /\ count' = count - 1
        /\ UNCHANGED <<sendOp, recvOp, port>>
    BY <1>33 DEF TypeOK, Drop
  <2>2. ~deleted => (deleted' <=> count = 1)
    BY <1>33 DEF TypeOK, Drop
  <2>3. a' = a - 1 /\ b' = b
    BY <1>1, <1>2, <2>1 DEF InSession, InFailure, Pcs
  <2>4. ~deleted /\ count > 0
    BY <1>5, <2>1 DEF InSession, Pcs
  <2>5. QED
    BY SMTT(30), <1>2, <1>3, <1>4, <2>1, <2>2, <2>3, <2>4
<1>34. QED
  BY <1>7, <1>8, <1>9, <1>10, <1>11, <1>12, <1>13, <1>14, <1>15, <1>16, <1>17, <1>18, <1>19, <1>20, <1>21, <1>22, <1>23, <1>24, <1>25, <1>26, <1>27, <1>28, <1>29, <1>30, <1>31, <1>32, <1>33 DEF Handle

\* A completion that is taken, an operation that ends: the reference only moves.
LEMMA OtherRefs ==
  ASSUME TypeOK, RefsAreHeld,
         \/ \E w \in Workers : Take(w)
         \/ CloserFind \/ RecvArrives \/ RecvEnds \/ SendCompletes \/ SendEnds \/ PeerLeaves
  PROVE  RefsAreHeld' /\ count' - References' = count - References
<1> DEFINE a == At(Threads, InSession)
           b == At(Threads, InFailure)
<1>1. /\ a \in Nat /\ b \in Nat /\ Len(port) \in Nat /\ count \in Nat /\ deleted \in BOOLEAN
      /\ Outstanding(sendOp) \in {0, 1} /\ Outstanding(recvOp) \in {0, 1}
  BY Counts DEF TypeOK
<1>2. /\ References = a + b + Outstanding(sendOp) + Outstanding(recvOp) + Len(port)
      /\ References' = a' + b' + Outstanding(sendOp') + Outstanding(recvOp') + Len(port')
  BY DEF References, Outstanding
<1>3. count >= References /\ (deleted <=> count = 0)
  BY DEF RefsAreHeld
<1>4. pc' = pc => a' = a /\ b' = b
  BY NobodyMoves
<1>5. ASSUME NEW t \in Threads, pc' = [pc EXCEPT ![t] = pc'[t]]
      PROVE  /\ a' = a + (IF pc'[t] \in InSession THEN 1 ELSE 0) - (IF pc[t] \in InSession THEN 1 ELSE 0)
             /\ b' = b + (IF pc'[t] \in InFailure THEN 1 ELSE 0) - (IF pc[t] \in InFailure THEN 1 ELSE 0)
  BY <1>5, Moves
<1>6. SUFFICES /\ count' >= References' /\ (deleted' <=> count' = 0)
               /\ count' - References' = count - References
  BY DEF RefsAreHeld
<1> HIDE DEF a, b
<1>7. \A m : Len(Append(port, m)) = Len(port) + 1
  BY DEF TypeOK
<1>8. CASE \E w \in Workers : Take(w)
  <2>1. PICK w \in Workers : Take(w)
    BY <1>8
  <2>2. w \in Threads /\ pc[w] = "idle" /\ pc' = [pc EXCEPT ![w] = pc'[w]]
        /\ pc'[w] \in {"collect", "sended", "recved", "drop"}
    BY <2>1 DEF Take, Threads, TypeOK
  <2>3. a' = a + 1 /\ b' = b
    BY <1>1, <1>5, <2>2 DEF InSession, InFailure, Pcs
  <2>4. Len(port') = Len(port) - 1 /\ UNCHANGED <<count, deleted, sendOp, recvOp>>
    BY <2>1 DEF Take, TypeOK
  <2>5. QED
    BY <1>1, <1>2, <1>3, <2>3, <2>4 DEF Outstanding
<1>9. CASE CloserFind
  <2>1. Closer \in Threads /\ pc[Closer] = "close" /\ pc' = [pc EXCEPT ![Closer] = pc'[Closer]]
        /\ pc'[Closer] = (IF deleted THEN "done" ELSE "cancel")
        /\ UNCHANGED <<deleted, sendOp, recvOp, port>>
        /\ count' = IF deleted THEN count ELSE count + 1
    BY <1>9 DEF CloserFind, Threads, TypeOK, kernel
  <2>2. a' = a + (IF deleted THEN 0 ELSE 1) /\ b' = b
    BY <1>1, <1>5, <2>1 DEF InSession, InFailure, Pcs
  <2>3. QED
    BY <1>1, <1>2, <1>3, <2>1, <2>2 DEF Outstanding
<1>10. CASE RecvArrives \/ RecvEnds
  <2>1. /\ recvOp # "none" /\ recvOp' = "none" /\ \E m : port' = Append(port, m)
        /\ UNCHANGED <<count, deleted, sendOp, pc>>
    BY <1>10 DEF RecvArrives, RecvEnds, Receive
  <2>2. QED
    BY <1>1, <1>2, <1>3, <1>4, <1>7, <2>1 DEF Outstanding
<1>11. CASE SendCompletes \/ SendEnds
  <2>1. /\ sendOp # "none" /\ sendOp' = "none" /\ \E m : port' = Append(port, m)
        /\ UNCHANGED <<count, deleted, recvOp, pc>>
    BY <1>11 DEF SendCompletes, SendEnds
  <2>2. QED
    BY <1>1, <1>2, <1>3, <1>4, <1>7, <2>1 DEF Outstanding
<1>12. CASE PeerLeaves
  BY <1>1, <1>2, <1>3, <1>4, <1>12 DEF PeerLeaves, Outstanding
<1>13. QED
  BY <1>8, <1>9, <1>10, <1>11, <1>12

-----------------------------------------------------------------------------
(* One send, one receive.                                                  *)

\* Somebody sends, or may start to.
Sendable == sendFlag = 0 \/ SendTokens = 1

\* The send goes from hand to hand, and its last party resets the flag.
LEMMA HandleOneSend ==
  ASSUME TypeOK, OneSend, NEW t \in Threads, Handle(t)
  PROVE  OneSend' /\ (Sendable' => Sendable)
<1> DEFINE a == At(Threads, SendPoints)
           q == Among({Sent}, port)
<1>1. a' = a + (IF pc'[t] \in SendPoints THEN 1 ELSE 0) - (IF pc[t] \in SendPoints THEN 1 ELSE 0)
  BY HandleMoves, Moves
<1>2. /\ a \in Nat /\ q \in Nat /\ (pc[t] \in SendPoints => a > 0)
      /\ Outstanding(sendOp) \in {0, 1} /\ sendFlag \in {0, 1}
  BY Counts DEF TypeOK
<1>3. /\ a + Outstanding(sendOp) + q =< 1
      /\ a + Outstanding(sendOp) + q = 1 => sendFlag = 1
  BY DEF OneSend, SendTokens
<1>4. port' = port => q' = q
  OBVIOUS
<1>5. SUFFICES /\ a' + Outstanding(sendOp') + q' =< 1
               /\ a' + Outstanding(sendOp') + q' = 1 => sendFlag' = 1
               /\ sendFlag' = 0 \/ a' + Outstanding(sendOp') + q' = 1
                  => sendFlag = 0 \/ a + Outstanding(sendOp) + q = 1
  BY DEF OneSend, Sendable, SendTokens, Outstanding
<1>6. \A m \in Messages : port' = Append(port, m) => q' = q + IF m = Sent THEN 1 ELSE 0
  BY AmongAppend DEF TypeOK
<1> HIDE DEF a, q
<1> USE DEF Goto, flags, kernel, pkts
<1>7. CASE Collect(t)
  BY <1>1, <1>2, <1>3, <1>4, <1>7 DEF Collect, TypeOK, SendPoints
<1>8. CASE Sended(t)
  BY <1>1, <1>2, <1>3, <1>4, <1>8 DEF Sended, TypeOK, SendPoints
<1>9. CASE Unflag(t)
  BY <1>1, <1>2, <1>3, <1>4, <1>9 DEF Unflag, TypeOK, SendPoints
<1>10. CASE Resend(t)
  BY <1>1, <1>2, <1>3, <1>4, <1>10 DEF Resend, TypeOK, SendPoints
<1>11. CASE Recved(t)
  BY <1>1, <1>2, <1>3, <1>4, <1>11 DEF Recved, TypeOK, SendPoints
<1>12. CASE Parse(t)
  BY <1>1, <1>2, <1>3, <1>4, <1>12 DEF Parse, TypeOK, SendPoints
<1>13. CASE OnRecvReply(t)
  <2>1. Req(posted + 1) \in Messages /\ Req(posted + 1) # Sent
    <3>1. posted + 1 \in Packets
      BY <1>13, IOAssumption DEF OnRecvReply, TypeOK, Packets
    <3>2. Req(posted + 1).kind # Sent.kind
      BY DEF Req, Sent
    <3>3. QED
      BY <3>1, <3>2 DEF Req, Messages
  <2>2. q' = q
    BY <1>2, <1>6, <1>13, <2>1 DEF OnRecvReply
  <2>3. QED
    BY <1>1, <1>2, <1>3, <1>13, <2>2 DEF OnRecvReply, TypeOK, SendPoints
<1>14. CASE OnRecvDisconnect(t)
  BY <1>1, <1>2, <1>3, <1>4, <1>14 DEF OnRecvDisconnect, TypeOK, SendPoints
<1>15. CASE OnRecvNothing(t)
  BY <1>1, <1>2, <1>3, <1>4, <1>15 DEF OnRecvNothing, TypeOK, SendPoints
<1>16. CASE SendIOCheck(t)
  BY <1>1, <1>2, <1>3, <1>4, <1>16 DEF SendIOCheck, TypeOK, SendPoints
<1>17. CASE SendIOExchange(t)
  BY SMTT(30), <1>1, <1>2, <1>3, <1>4, <1>17 DEF SendIOExchange, TypeOK, SendPoints
<1>18. CASE SendIOSize(t)
  BY <1>1, <1>2, <1>3, <1>4, <1>18 DEF SendIOSize, TypeOK, SendPoints
<1>19. CASE SendIOGiveUp(t)
  BY <1>1, <1>2, <1>3, <1>4, <1>19 DEF SendIOGiveUp, TypeOK, SendPoints
<1>20. CASE WSASend(t)
  <2>1. a > 0 /\ sendOp = "none"
    BY <1>2, <1>3, <1>20 DEF WSASend, SendPoints, Outstanding
  <2>2. Sent \in Messages
    BY DEF Sent, Messages
  <2>3. \/ pc'[t] = "drop" /\ port' = Append(port, Sent) /\ sendOp' = sendOp
        \/ pc'[t] = "sendRecheck" /\ port' = port /\ sendOp' = "pending"
        \/ pc'[t] \in {"sendFailed", "sendError"} /\ port' = port /\ sendOp' = sendOp
    BY <1>20 DEF TypeOK, WSASend
  <2>4. pc[t] = "WSASend" /\ sendFlag' = sendFlag
    BY <1>20 DEF WSASend
  <2>5. a' = a - (IF pc'[t] = "sendError" THEN 0 ELSE 1)
    BY <1>1, <1>2, <2>3, <2>4 DEF SendPoints
  <2>6. q' = q + (IF pc'[t] = "drop" THEN 1 ELSE 0)
    BY <1>2, <1>4, <1>6, <2>2, <2>3
  <2>7. QED
    BY <1>2, <1>3, <2>1, <2>3, <2>4, <2>5, <2>6 DEF Outstanding
<1>21. CASE SendRecheck(t)
  BY <1>1, <1>2, <1>3, <1>4, <1>21 DEF SendRecheck, TypeOK, SendPoints, Outstanding, Cancel
<1>22. CASE SendError(t)
  BY <1>1, <1>2, <1>3, <1>4, <1>22 DEF SendError, TypeOK, SendPoints
<1>23. CASE SendFailed(t)
  BY <1>1, <1>2, <1>3, <1>4, <1>23 DEF SendFailed, TypeOK, SendPoints
<1>24. CASE SendFailedCancel(t)
  BY <1>1, <1>2, <1>3, <1>4, <1>24 DEF SendFailedCancel, TypeOK, SendPoints
<1>25. CASE RecvIOCheck(t)
  BY <1>1, <1>2, <1>3, <1>4, <1>25 DEF RecvIOCheck, TypeOK, SendPoints
<1>26. CASE WSARecv(t)
  <2>1. q' = q
    <3>1. CASE Receive
      <4>1. PICK k \in 1 .. RecvCap - fill : port' = Append(port, Recv(k))
        BY <3>1 DEF Receive
      <4>2. Recv(k) \in Messages /\ Recv(k) # Sent
        BY IOAssumption DEF TypeOK, Recv, Sent, Messages
      <4>3. QED
        BY <1>2, <1>6, <4>1, <4>2
    <3>2. QED
      BY <1>4, <1>26, <3>1 DEF WSARecv
  <2>2. /\ pc[t] = "WSARecv" /\ pc'[t] \in {"drop", "recvRecheck", "recvFailed"}
        /\ UNCHANGED <<sendOp, sendFlag>>
    BY <1>26 DEF WSARecv, TypeOK
  <2>3. QED
    BY <1>1, <1>2, <1>3, <2>1, <2>2 DEF SendPoints
<1>27. CASE RecvRecheck(t)
  BY <1>1, <1>2, <1>3, <1>4, <1>27 DEF RecvRecheck, TypeOK, SendPoints
<1>28. CASE RecvFailed(t)
  BY <1>1, <1>2, <1>3, <1>4, <1>28 DEF RecvFailed, TypeOK, SendPoints
<1>29. CASE RecvFailedCancel(t)
  BY <1>1, <1>2, <1>3, <1>4, <1>29 DEF RecvFailedCancel, TypeOK, SendPoints, Outstanding, Cancel
<1>30. CASE CancelRegist(t)
  BY <1>1, <1>2, <1>3, <1>4, <1>30 DEF CancelRegist, TypeOK, SendPoints
<1>31. CASE CancelRecv(t)
  BY <1>1, <1>2, <1>3, <1>4, <1>31 DEF CancelRecv, TypeOK, SendPoints
<1>32. CASE CancelSend(t)
  BY <1>1, <1>2, <1>3, <1>4, <1>32 DEF CancelSend, TypeOK, SendPoints, Outstanding, Cancel
<1>33. CASE Drop(t)
  BY <1>1, <1>2, <1>3, <1>4, <1>33 DEF Drop, TypeOK, SendPoints
<1>34. QED
  BY <1>7, <1>8, <1>9, <1>10, <1>11, <1>12, <1>13, <1>14, <1>15, <1>16, <1>17, <1>18, <1>19, <1>20, <1>21, <1>22, <1>23, <1>24, <1>25, <1>26, <1>27, <1>28, <1>29, <1>30, <1>31, <1>32, <1>33 DEF Handle

\* The send goes on to the port, and from there to the worker that takes it.
LEMMA OtherOneSend ==
  ASSUME TypeOK, Roles, OneSend,
         \/ \E w \in Workers : Take(w)
         \/ CloserFind \/ RecvArrives \/ RecvEnds \/ SendCompletes \/ SendEnds \/ PeerLeaves
  PROVE  OneSend' /\ (Sendable' => Sendable)
<1> DEFINE a == At(Threads, SendPoints)
           q == Among({Sent}, port)
<1>1. /\ a \in Nat /\ q \in Nat /\ Outstanding(sendOp) \in {0, 1} /\ sendFlag \in {0, 1}
  BY Counts DEF TypeOK
<1>2. /\ a + Outstanding(sendOp) + q =< 1
      /\ a + Outstanding(sendOp) + q = 1 => sendFlag = 1
  BY DEF OneSend, SendTokens
<1>3. pc' = pc => a' = a
  BY NobodyMoves
<1>4. ASSUME NEW t \in Threads, pc' = [pc EXCEPT ![t] = pc'[t]]
      PROVE  a' = a + (IF pc'[t] \in SendPoints THEN 1 ELSE 0) - (IF pc[t] \in SendPoints THEN 1 ELSE 0)
  BY <1>4, Moves
<1>5. \A m \in Messages : port' = Append(port, m) => q' = q + IF m = Sent THEN 1 ELSE 0
  BY AmongAppend DEF TypeOK
<1>6. port # <<>> => Among({Sent}, Tail(port)) = q - (IF Head(port) = Sent THEN 1 ELSE 0)
  BY AmongTail DEF TypeOK
<1>7. SUFFICES /\ a' + Outstanding(sendOp') + q' =< 1
               /\ a' + Outstanding(sendOp') + q' = 1 => sendFlag' = 1
               /\ sendFlag' = 0 \/ a' + Outstanding(sendOp') + q' = 1
                  => sendFlag = 0 \/ a + Outstanding(sendOp) + q = 1
  BY DEF OneSend, Sendable, SendTokens, Outstanding
<1>8. \A k \in 0 .. RecvCap : Recv(k) \in Messages /\ Recv(k) # Sent
  BY DEF Recv, Sent, Messages
<1>9. Sent \in Messages /\ Failed \in Messages /\ Failed # Sent
  BY DEF Sent, Failed, Messages
<1>10. port' = port => q' = q
  OBVIOUS
<1>11. CASE \E w \in Workers : Take(w)
  <2>1. PICK w \in Workers : Take(w)
    BY <1>11
  <2>2. /\ w \in Threads /\ pc[w] = "idle" /\ pc' = [pc EXCEPT ![w] = pc'[w]]
        /\ Head(port) \in Messages /\ (Head(port).kind = "sent" <=> Head(port) = Sent)
    BY <2>1 DEF Take, Threads, TypeOK, Messages, Sent
  <2>3. pc'[w] \in SendPoints <=> Head(port) = Sent
    BY <2>1, <2>2 DEF Take, TypeOK, SendPoints
  <2>4. a' = a + (IF Head(port) = Sent THEN 1 ELSE 0)
    BY <1>1, <1>4, <2>2, <2>3 DEF SendPoints
  <2>5. q' = q - (IF Head(port) = Sent THEN 1 ELSE 0) /\ UNCHANGED <<sendOp, sendFlag>>
    BY <1>6, <2>1 DEF Take, flags
  <2>6. QED
    BY <1>1, <1>2, <2>4, <2>5 DEF Outstanding
<1> HIDE DEF a, q
<1>12. CASE CloserFind
  <2>1. Closer \in Threads /\ pc[Closer] = "close" /\ pc' = [pc EXCEPT ![Closer] = pc'[Closer]]
        /\ pc'[Closer] \in {"done", "cancel"} /\ UNCHANGED <<sendOp, port, sendFlag>>
    BY <1>12 DEF CloserFind, Threads, TypeOK, kernel, flags
  <2>2. QED
    BY <1>1, <1>2, <1>4, <1>10, <2>1 DEF SendPoints, Outstanding
<1>13. CASE RecvArrives \/ RecvEnds
  <2>1. /\ \E m \in Messages : m # Sent /\ port' = Append(port, m)
        /\ UNCHANGED <<sendOp, sendFlag, pc>>
    BY SMTT(30), <1>8, <1>9, <1>13, IOAssumption DEF RecvArrives, RecvEnds, Receive, flags, TypeOK
  <2>2. q' = q
    BY <1>1, <1>5, <2>1
  <2>3. QED
    BY <1>1, <1>2, <1>3, <2>1, <2>2 DEF Outstanding
<1>14. CASE SendCompletes \/ SendEnds
  <2>1. /\ sendOp # "none" /\ sendOp' = "none" /\ \E m \in Messages : port' = Append(port, m)
        /\ UNCHANGED <<sendFlag, pc>>
    BY <1>9, <1>14 DEF SendCompletes, SendEnds, flags
  <2>2. q' = q \/ q' = q + 1
    BY <1>1, <1>5, <2>1
  <2>3. QED
    BY <1>1, <1>2, <1>3, <2>1, <2>2 DEF Outstanding
<1>15. CASE PeerLeaves
  BY <1>1, <1>2, <1>3, <1>10, <1>15 DEF PeerLeaves, Outstanding, flags
<1>16. QED
  BY <1>11, <1>12, <1>13, <1>14, <1>15

\* Which completions are of a receive.
LEMMA ReceivedMessages ==
  /\ \A m \in Messages : m \in Received <=> m.kind = "recv"
  /\ \A k \in 0 .. RecvCap : Recv(k) \in Messages /\ Recv(k) \in Received
  /\ Sent \in Messages \ Received /\ Failed \in Messages \ Received
  /\ \A p \in Packets : Req(p) \in Messages \ Received
<1>1. \A m \in Messages : m \in Received <=> m.kind = "recv"
  BY DEF Messages, Received, Recv
<1>2. \A k \in 0 .. RecvCap : Recv(k) \in Messages /\ Recv(k) \in Received
  BY DEF Messages, Received, Recv
<1>3. Sent \in Messages /\ Sent.kind = "sent" /\ Failed \in Messages /\ Failed.kind = "failed"
  BY DEF Messages, Sent, Failed
<1>4. \A p \in Packets : Req(p) \in Messages /\ Req(p).kind = "req"
  BY DEF Messages, Req
<1>5. QED
  BY <1>1, <1>2, <1>3, <1>4

\* Only the party that has the receive passes it on.
LEMMA HandleOneReceive ==
  ASSUME TypeOK, Roles, OneReceive, NEW t \in Threads, Handle(t)
  PROVE  OneReceive'
<1> DEFINE a == At(Threads, RecvPoints)
           c == At(Workers, CancelPoints)
           q == Among(Received, port)
<1>1. /\ a' = a + (IF pc'[t] \in RecvPoints THEN 1 ELSE 0) - (IF pc[t] \in RecvPoints THEN 1 ELSE 0)
      /\ t \in Workers => c' = c + (IF pc'[t] \in CancelPoints THEN 1 ELSE 0)
                                 - (IF pc[t] \in CancelPoints THEN 1 ELSE 0)
      /\ t \notin Workers => c' = c
  BY HandleMoves, Moves
<1>2. /\ a \in Nat /\ c \in Nat /\ q \in Nat /\ (pc[t] \in RecvPoints => a > 0)
      /\ Outstanding(recvOp) \in {0, 1}
  BY Counts DEF TypeOK
<1>3. a + c + Outstanding(recvOp) + q =< 1
  BY DEF OneReceive, RecvTokens
<1>4. port' = port => q' = q
  OBVIOUS
<1>5. SUFFICES a' + c' + Outstanding(recvOp') + q' =< 1
  BY DEF OneReceive, RecvTokens, Outstanding
<1>6. \A m \in Messages : port' = Append(port, m) => q' = q + IF m \in Received THEN 1 ELSE 0
  BY AmongAppend DEF TypeOK
<1> HIDE DEF a, c, q
<1> USE DEF Goto, flags, kernel, pkts
<1>7. CASE Collect(t)
  BY SMTT(30), <1>1, <1>2, <1>3, <1>4, <1>7 DEF Collect, TypeOK, RecvPoints, CancelPoints
<1>8. CASE Sended(t)
  BY <1>1, <1>2, <1>3, <1>4, <1>8 DEF Sended, TypeOK, RecvPoints, CancelPoints
<1>9. CASE Unflag(t)
  BY <1>1, <1>2, <1>3, <1>4, <1>9 DEF Unflag, TypeOK, RecvPoints, CancelPoints
<1>10. CASE Resend(t)
  BY <1>1, <1>2, <1>3, <1>4, <1>10 DEF Resend, TypeOK, RecvPoints, CancelPoints
<1>11. CASE Recved(t)
  <2>1. pc[t] = "recved" /\ pc'[t] \in {"idle", "parse"} /\ UNCHANGED <<recvOp, port>>
    BY <1>11 DEF Recved, TypeOK
  <2>2. QED
    BY <1>1, <1>2, <1>3, <1>4, <2>1 DEF RecvPoints, CancelPoints, Outstanding
<1>12. CASE Parse(t)
  BY SMTT(30), <1>1, <1>2, <1>3, <1>4, <1>12 DEF Parse, TypeOK, RecvPoints, CancelPoints
<1>13. CASE OnRecvReply(t)
  <2>1. posted + 1 \in Packets
    BY <1>13, IOAssumption DEF OnRecvReply, TypeOK, Packets
  <2>2. q' = q
    BY <1>2, <1>6, <1>13, <2>1, ReceivedMessages DEF OnRecvReply
  <2>3. pc[t] = "OnRecv" /\ pc'[t] = "parse" /\ recvOp' = recvOp
    BY <1>13 DEF OnRecvReply, TypeOK
  <2>4. QED
    BY <1>1, <1>2, <1>3, <2>2, <2>3 DEF RecvPoints, CancelPoints, Outstanding
<1>14. CASE OnRecvDisconnect(t)
  BY SMTT(30), <1>1, <1>2, <1>3, <1>4, <1>14 DEF OnRecvDisconnect, TypeOK, RecvPoints, CancelPoints
<1>15. CASE OnRecvNothing(t)
  BY <1>1, <1>2, <1>3, <1>4, <1>15 DEF OnRecvNothing, TypeOK, RecvPoints, CancelPoints
<1>16. CASE SendIOCheck(t)
  BY <1>1, <1>2, <1>3, <1>4, <1>16 DEF SendIOCheck, TypeOK, RecvPoints, CancelPoints
<1>17. CASE SendIOExchange(t)
  BY <1>1, <1>2, <1>3, <1>4, <1>17 DEF SendIOExchange, TypeOK, RecvPoints, CancelPoints
<1>18. CASE SendIOSize(t)
  BY <1>1, <1>2, <1>3, <1>4, <1>18 DEF SendIOSize, TypeOK, RecvPoints, CancelPoints
<1>19. CASE SendIOGiveUp(t)
  BY <1>1, <1>2, <1>3, <1>4, <1>19 DEF SendIOGiveUp, TypeOK, RecvPoints, CancelPoints
<1>20. CASE WSASend(t)
  <2>1. q' = q
    BY SMTT(30), <1>2, <1>4, <1>6, <1>20, ReceivedMessages DEF WSASend
  <2>2. /\ pc[t] = "WSASend" /\ pc'[t] \in {"drop", "sendRecheck", "sendFailed", "sendError"}
        /\ UNCHANGED recvOp
    BY <1>20 DEF WSASend, TypeOK
  <2>3. QED
    BY <1>1, <1>2, <1>3, <2>1, <2>2 DEF RecvPoints, CancelPoints, Outstanding
<1>21. CASE SendRecheck(t)
  BY <1>1, <1>2, <1>3, <1>4, <1>21 DEF SendRecheck, TypeOK, RecvPoints, CancelPoints
<1>22. CASE SendError(t)
  BY <1>1, <1>2, <1>3, <1>4, <1>22 DEF SendError, TypeOK, RecvPoints, CancelPoints
<1>23. CASE SendFailed(t)
  BY <1>1, <1>2, <1>3, <1>4, <1>23 DEF SendFailed, TypeOK, RecvPoints, CancelPoints
<1>24. CASE SendFailedCancel(t)
  BY SMTT(30), <1>1, <1>2, <1>3, <1>4, <1>24 DEF SendFailedCancel, TypeOK, RecvPoints, CancelPoints, Outstanding, Cancel
<1>25. CASE RecvIOCheck(t)
  <2>1. pc[t] = "recvIO" /\ pc'[t] \in {"drop", "WSARecv"} /\ UNCHANGED <<recvOp, port>>
    BY <1>25 DEF RecvIOCheck, TypeOK
  <2>2. QED
    BY <1>1, <1>2, <1>3, <1>4, <2>1 DEF RecvPoints, CancelPoints, Outstanding
<1>26. CASE WSARecv(t)
  <2>1. a > 0 /\ recvOp = "none" /\ q = 0
    BY <1>2, <1>3, <1>26 DEF WSARecv, RecvPoints, Outstanding
  <2>2. \/ /\ pc'[t] = "drop" /\ recvOp' = recvOp
           /\ \E k \in 0 .. RecvCap : port' = Append(port, Recv(k))
        \/ pc'[t] = "recvRecheck" /\ port' = port /\ recvOp' = "pending"
        \/ pc'[t] = "recvFailed" /\ port' = port /\ recvOp' = recvOp
    <3>1. CASE Receive /\ pc' = [pc EXCEPT ![t] = "drop"] /\ UNCHANGED recvOp
      <4>1. PICK k \in 1 .. RecvCap - fill : port' = Append(port, Recv(k))
        BY <3>1 DEF Receive
      <4>2. k \in 0 .. RecvCap
        BY IOAssumption DEF TypeOK
      <4>3. QED
        BY <3>1, <4>1, <4>2 DEF TypeOK
    <3>2. QED
      BY <1>26, <3>1 DEF TypeOK, WSARecv
  <2>3. a' = a - 1 /\ c' = c
    BY <1>1, <1>2, <1>26, <2>2 DEF WSARecv, RecvPoints, CancelPoints
  <2>4. q' = q + (IF pc'[t] = "drop" THEN 1 ELSE 0)
    BY <1>2, <1>4, <1>6, <2>2, ReceivedMessages
  <2>5. QED
    BY <1>2, <1>3, <2>1, <2>2, <2>3, <2>4 DEF Outstanding
<1>27. CASE RecvRecheck(t)
  BY SMTT(30), <1>1, <1>2, <1>3, <1>4, <1>27 DEF RecvRecheck, TypeOK, RecvPoints, CancelPoints, Outstanding, Cancel
<1>28. CASE RecvFailed(t)
  BY <1>1, <1>2, <1>3, <1>4, <1>28 DEF RecvFailed, TypeOK, RecvPoints, CancelPoints
<1>29. CASE RecvFailedCancel(t)
  BY <1>1, <1>2, <1>3, <1>4, <1>29 DEF RecvFailedCancel, TypeOK, RecvPoints, CancelPoints
<1>30. CASE CancelRegist(t)
  BY <1>1, <1>2, <1>3, <1>4, <1>30 DEF CancelRegist, TypeOK, RecvPoints, CancelPoints
<1>31. CASE CancelRecv(t)
  BY SMTT(30), <1>1, <1>2, <1>3, <1>4, <1>31 DEF CancelRecv, TypeOK, RecvPoints, CancelPoints, Outstanding, Cancel
<1>32. CASE CancelSend(t)
  <2>1. /\ pc[t] = "cancelSend" /\ pc'[t] = (IF t = Closer THEN "drop" ELSE "parse")
        /\ UNCHANGED <<recvOp, port>>
    BY <1>32 DEF CancelSend, TypeOK
  <2>2. t = Closer \/ t \in Workers
    BY <2>1 DEF Roles, Threads
  <2>3. Closer \notin Workers
    BY IOAssumption
  <2>4. QED
    BY <1>1, <1>2, <1>3, <1>4, <2>1, <2>2, <2>3 DEF RecvPoints, CancelPoints, Outstanding
<1>33. CASE Drop(t)
  BY <1>1, <1>2, <1>3, <1>4, <1>33 DEF Drop, TypeOK, RecvPoints, CancelPoints
<1>34. QED
  BY <1>7, <1>8, <1>9, <1>10, <1>11, <1>12, <1>13, <1>14, <1>15, <1>16, <1>17, <1>18, <1>19, <1>20, <1>21, <1>22, <1>23, <1>24, <1>25, <1>26, <1>27, <1>28, <1>29, <1>30, <1>31, <1>32, <1>33 DEF Handle

\* The receive goes on to the port, and from there to the worker that takes it.
LEMMA OtherOneReceive ==
  ASSUME TypeOK, OneReceive,
         \/ \E w \in Workers : Take(w)
         \/ CloserFind \/ RecvArrives \/ RecvEnds \/ SendCompletes \/ SendEnds \/ PeerLeaves
  PROVE  OneReceive'
<1> DEFINE a == At(Threads, RecvPoints)
           c == At(Workers, CancelPoints)
           q == Among(Received, port)
<1>1. /\ a \in Nat /\ c \in Nat /\ q \in Nat /\ Outstanding(recvOp) \in {0, 1}
  BY Counts
<1>2. a + c + Outstanding(recvOp) + q =< 1
  BY DEF OneReceive, RecvTokens
<1>3. pc' = pc => a' = a /\ c' = c
  BY NobodyMoves
<1>4. ASSUME NEW t \in Threads, pc' = [pc EXCEPT ![t] = pc'[t]]
      PROVE  /\ a' = a + (IF pc'[t] \in RecvPoints THEN 1 ELSE 0) - (IF pc[t] \in RecvPoints THEN 1 ELSE 0)
             /\ t \in Workers => c' = c + (IF pc'[t] \in CancelPoints THEN 1 ELSE 0)
                                        - (IF pc[t] \in CancelPoints THEN 1 ELSE 0)
             /\ t \notin Workers => c' = c
  BY <1>4, Moves
<1>5. \A m \in Messages : port' = Append(port, m) => q' = q + IF m \in Received THEN 1 ELSE 0
  BY AmongAppend DEF TypeOK
<1>6. port # <<>> => Among(Received, Tail(port)) = q - (IF Head(port) \in Received THEN 1 ELSE 0)
  BY AmongTail DEF TypeOK
<1>7. SUFFICES a' + c' + Outstanding(recvOp') + q' =< 1
  BY DEF OneReceive, RecvTokens, Outstanding
<1>8. port' = port => q' = q
  OBVIOUS
<1>9. CASE \E w \in Workers : Take(w)
  <2>1. PICK w \in Workers : Take(w)
    BY <1>9
  <2>2. /\ w \in Threads /\ pc[w] = "idle" /\ pc' = [pc EXCEPT ![w] = pc'[w]]
        /\ Head(port) \in Messages
    BY <2>1 DEF Take, Threads, TypeOK
  <2>3. /\ pc'[w] \in {"recved", "collect", "sended", "drop"}
        /\ pc'[w] = "recved" => Head(port) \in Received
    BY <2>1, <2>2, ReceivedMessages DEF Take, TypeOK
  <2>4. a' = a + (IF pc'[w] = "recved" THEN 1 ELSE 0) /\ c' = c
    BY <1>1, <1>4, <2>2, <2>3 DEF RecvPoints, CancelPoints
  <2>5. q' = q - (IF Head(port) \in Received THEN 1 ELSE 0) /\ UNCHANGED recvOp
    BY <1>6, <2>1 DEF Take
  <2>6. QED
    BY <1>1, <1>2, <2>3, <2>4, <2>5 DEF Outstanding
<1> HIDE DEF a, c, q
<1>10. CASE CloserFind
  <2>1. Closer \in Threads \ Workers /\ pc[Closer] = "close" /\ pc' = [pc EXCEPT ![Closer] = pc'[Closer]]
        /\ pc'[Closer] \in {"done", "cancel"} /\ UNCHANGED <<recvOp, port>>
    BY <1>10, IOAssumption DEF CloserFind, Threads, TypeOK, kernel
  <2>2. QED
    BY <1>1, <1>2, <1>4, <1>8, <2>1 DEF RecvPoints, CancelPoints, Outstanding
<1>11. CASE RecvArrives \/ RecvEnds
  <2>1. /\ recvOp # "none" /\ recvOp' = "none" /\ (\E m \in Messages : port' = Append(port, m))
        /\ UNCHANGED pc
    BY SMTT(30), <1>11, ReceivedMessages, IOAssumption DEF RecvArrives, RecvEnds, Receive, TypeOK
  <2>2. q' = q \/ q' = q + 1
    BY <1>1, <1>5, <2>1
  <2>3. QED
    BY <1>1, <1>2, <1>3, <2>1, <2>2 DEF Outstanding
<1>12. CASE SendCompletes \/ SendEnds
  <2>1. /\ \E m \in Messages \ Received : port' = Append(port, m)
        /\ UNCHANGED <<recvOp, pc>>
    BY <1>12, ReceivedMessages DEF SendCompletes, SendEnds
  <2>2. q' = q
    BY <1>1, <1>5, <2>1
  <2>3. QED
    BY <1>1, <1>2, <1>3, <2>1, <2>2 DEF Outstanding
<1>13. CASE PeerLeaves
  BY <1>1, <1>2, <1>3, <1>8, <1>13 DEF PeerLeaves, Outstanding
<1>14. QED
  BY <1>9, <1>10, <1>11, <1>12, <1>13

-----------------------------------------------------------------------------
(* The packets' references.                                                *)

\* The workers that hold a posted request of packet p.
Held(p) == Cardinality({t \in Threads : msg[t] = Req(p)})

\* The sum of PacketsConserved.
Traced(p) ==
    freed[p] + In(p, queue) + Among({p}, batch) + Among({p}, lost) + Among({Req(p)}, port) + Held(p)

\* The places of a packet are counted in natural numbers.
LEMMA TracedTypes ==
  ASSUME TypeOK, NEW p \in Packets
  PROVE  /\ freed[p] \in Nat /\ In(p, queue) \in Nat /\ Among({p}, batch) \in Nat
         /\ Among({p}, lost) \in Nat /\ Among({Req(p)}, port) \in Nat /\ Held(p) \in Nat
<1>1. IsFiniteSet({t \in Threads : msg[t] = Req(p)})
  BY ThreadsFinite, FS_Subset
<1>2. lost \in Seq(Packets) /\ batch \in Seq(Packets) /\ port \in Seq(Messages)
  BY DEF TypeOK
<1>3. QED
  BY <1>1, <1>2, AmongType, FS_CardinalityType DEF TypeOK, Held, In

\* A packet taken from sendBuffer is taken once, and is no longer there.
LEMMA DrawnOnce ==
  ASSUME NEW S, NEW k \in Nat, NEW s \in Draws(S, k), NEW p
  PROVE  In(p, S) = In(p, S \ Range(s)) + Among({p}, s)
<1> DEFINE D == {i \in DOMAIN s : s[i] \in {p}}
<1>1. /\ \A i \in DOMAIN s : s[i] \in S
      /\ \A i, j \in DOMAIN s : s[i] = s[j] => i = j
  BY DEF Draws, Injection, IsInjective
<1>2. Among({p}, s) = Cardinality(D)
  BY DEF Among
<1>3. CASE p \in Range(s)
  <2>1. PICK i \in DOMAIN s : s[i] = p
    BY <1>3 DEF Range
  <2>2. D = {i}
    BY <1>1, <2>1
  <2>3. Cardinality(D) = 1
    BY <2>2, FS_Singleton
  <2>4. p \in S /\ p \notin S \ Range(s)
    BY <1>1, <1>3, <2>1
  <2>5. QED
    BY <1>2, <2>3, <2>4 DEF In
<1>4. CASE p \notin Range(s)
  <2>1. D = {}
    BY <1>4 DEF Range
  <2>2. Cardinality(D) = 0
    BY <2>1, FS_EmptySet
  <2>3. p \in S <=> p \in S \ Range(s)
    BY <1>4
  <2>4. QED
    BY <1>2, <2>2, <2>3 DEF In
<1>5. QED
  BY <1>3, <1>4

\* A thread takes a completion or is done with it.
LEMMA HeldChanges ==
  ASSUME TypeOK, NEW t \in Threads, NEW m, msg' = [msg EXCEPT ![t] = m], NEW p
  PROVE  Held(p)' = Held(p) + (IF m = Req(p) THEN 1 ELSE 0) - (IF msg[t] = Req(p) THEN 1 ELSE 0)
<1> DEFINE A == {u \in Threads : msg[u] = Req(p)}
           B == {u \in Threads : msg'[u] = Req(p)}
<1>1. IsFiniteSet(A)
  BY ThreadsFinite, FS_Subset
<1>2. A \ {t} = B \ {t} /\ (t \in B <=> m = Req(p)) /\ (t \in A <=> msg[t] = Req(p))
  BY DEF TypeOK
<1>3. Held(p) = Cardinality(A) /\ Held(p)' = Cardinality(B)
  BY DEF Held
<1>4. HIDE DEF A, B
<1>5. Cardinality(B) = Cardinality(A) + (IF t \in B THEN 1 ELSE 0) - (IF t \in A THEN 1 ELSE 0)
  BY <1>1, <1>2, OneChanges
<1>6. QED
  BY <1>2, <1>3, <1>5

\* A message is added to the completion port.
LEMMA PortAppends ==
  ASSUME TypeOK, NEW M, NEW m \in Messages, port' = Append(port, m)
  PROVE  Among(M, port)' = Among(M, port) + (IF m \in M THEN 1 ELSE 0)
<1>1. port \in Seq(Messages)
  BY DEF TypeOK
<1>2. Among(M, Append(port, m)) = Among(M, port) + (IF m \in M THEN 1 ELSE 0)
  BY <1>1, AmongAppend
<1>3. QED
  BY <1>2

\* The thread that drops the last reference is alone in the session.
LEMMA AloneAtLast ==
  ASSUME TypeOK, RefsAreHeld, NEW t \in Threads, pc[t] \in InSession, count = 1
  PROVE  /\ port = <<>> /\ sendOp = "none" /\ recvOp = "none"
         /\ \A u \in Threads : pc[u] \in InSession => u = t
<1>1. /\ At(Threads, InSession) \in Nat /\ At(Threads, InFailure) \in Nat /\ Len(port) \in Nat
      /\ Outstanding(sendOp) \in {0, 1} /\ Outstanding(recvOp) \in {0, 1}
      /\ At(Threads, InSession) > 0
  BY Counts
<1>2. 1 >= At(Threads, InSession) + At(Threads, InFailure)
            + Outstanding(sendOp) + Outstanding(recvOp) + Len(port)
  BY DEF RefsAreHeld, References
<1>3. At(Threads, InSession) =< 1 /\ Len(port) = 0 /\ Outstanding(sendOp) = 0 /\ Outstanding(recvOp) = 0
  BY <1>1, <1>2
<1>4. \A u \in Threads : pc[u] \in InSession => u = t
  BY <1>3, TwoCount
<1>5. QED
  BY <1>3, <1>4 DEF TypeOK, Outstanding

\* A step that moves packets from one place to another, and deletes nothing.
LEMMA TracedKept ==
  ASSUME PacketsConserved, ~deleted', \A p \in Packets : Traced(p)' - Posted(p)' = Traced(p) - Posted(p),
         TypeOK, TypeOK'
  PROVE  PacketsConserved'
<1> SUFFICES ASSUME NEW p \in Packets PROVE Traced(p)' = Posted(p)'
  BY DEF PacketsConserved, Traced, Held
<1>1. Traced(p) = Posted(p)
  BY DEF PacketsConserved, Traced, Held
<1>2. Traced(p) \in Int
  BY TracedTypes DEF Traced
<1>3. Traced(p)' \in Int
  <2>1. TypeOK' => /\ freed'[p] \in Nat /\ In(p, queue)' \in Nat /\ Among({p}, batch)' \in Nat
                   /\ Among({p}, lost)' \in Nat /\ Among({Req(p)}, port)' \in Nat /\ Held(p)' \in Nat
    <3>1. IsFiniteSet({t \in Threads : msg'[t] = Req(p)})
      BY ThreadsFinite, FS_Subset
    <3>2. TypeOK' => lost' \in Seq(Packets) /\ batch' \in Seq(Packets) /\ port' \in Seq(Messages)
      BY DEF TypeOK
    <3>3. QED
      BY <3>1, <3>2, AmongType, FS_CardinalityType DEF TypeOK, Held, In
  <2>2. QED
    BY <2>1 DEF Traced
<1>4. Posted(p) \in Int /\ Posted(p)' \in Int
  BY DEF Posted
<1>5. Traced(p)' - Posted(p)' = Traced(p) - Posted(p)
  OBVIOUS
<1>6. QED
  BY <1>1, <1>2, <1>3, <1>4, <1>5

\* Nothing else moves packets.
LEMMA TracedUntouched ==
  ASSUME PacketsConserved, UNCHANGED <<queue, batch, lost, port, msg, freed, posted, deleted>>
  PROVE  PacketsConserved'
BY DEF PacketsConserved, Posted

\* Posted requests, sendBuffer, sendedBuffer and the freed packets, through every
\* step of a thread.
LEMMA HandlePackets ==
  ASSUME TypeOK, TypeOK', Roles, RefsAreHeld, PacketsConserved, NEW t \in Threads, Handle(t)
  PROVE  PacketsConserved'
<1> USE DEF Goto, flags, kernel, pkts
<1>1. ASSUME pc[t] \in InSession PROVE ~deleted
  BY <1>1, InsideCounts
<1>2. ASSUME NEW p \in Packets, msg[t].kind # "req", msg' = [msg EXCEPT ![t] = None]
      PROVE  Held(p)' = Held(p)
  <2>1. None # Req(p) /\ msg[t] # Req(p)
    <3>1. None.kind # Req(p).kind /\ Req(p).kind = "req"
      BY DEF None, Req
    <3>2. QED
      BY <1>2, <3>1
  <2>2. Held(p)' = Held(p) + (IF None = Req(p) THEN 1 ELSE 0) - (IF msg[t] = Req(p) THEN 1 ELSE 0)
    BY <1>2, HeldChanges
  <2>3. Held(p) \in Nat
    BY TracedTypes
  <2>4. QED
    BY <2>1, <2>2, <2>3
<1>3. ASSUME NEW p, msg' = msg PROVE Held(p)' = Held(p)
  BY <1>3 DEF Held
<1>4. ASSUME NEW m \in Messages, m.kind # "req", port' = Append(port, m), NEW p \in Packets
      PROVE  Among({Req(p)}, port)' = Among({Req(p)}, port)
  <2>1. m # Req(p)
    BY <1>4 DEF Req
  <2>2. Among({Req(p)}, port)' = Among({Req(p)}, port) + (IF m \in {Req(p)} THEN 1 ELSE 0)
    BY <1>4, PortAppends
  <2>3. Among({Req(p)}, port) \in Nat
    BY TracedTypes
  <2>4. QED
    BY <2>1, <2>2, <2>3
<1>5. CASE Collect(t)
  <2>1. PICK q \in Packets : msg[t] = Req(q)
    BY <1>5 DEF Collect, Roles, TypeOK, Messages, Req
  <2>2. msg[t].pkt = q
    BY <2>1 DEF Req
  <2>3. ~deleted'
    BY <1>1, <1>5 DEF Collect, InSession, Pcs
  <2>4. ASSUME NEW p \in Packets
        PROVE  Held(p)' = Held(p) - IF p = q THEN 1 ELSE 0
    <3>1. None # Req(p) /\ (msg[t] = Req(p) <=> p = q)
      BY <2>1 DEF None, Req
    <3>2. msg' = [msg EXCEPT ![t] = None]
      BY <1>5 DEF Collect
    <3>3. Held(p)' = Held(p) + (IF None = Req(p) THEN 1 ELSE 0) - (IF msg[t] = Req(p) THEN 1 ELSE 0)
      BY <3>2, HeldChanges
    <3>4. Held(p) \in Nat
      BY TracedTypes
    <3>5. QED
      BY <3>1, <3>3, <3>4
  <2>5. ASSUME NEW p \in Packets PROVE Traced(p)' - Posted(p)' = Traced(p) - Posted(p)
    <3>1. Posted(p)' = Posted(p) /\ Among({p}, batch)' = Among({p}, batch)
          /\ Among({p}, lost)' = Among({p}, lost)
          /\ Among({Req(p)}, port)' = Among({Req(p)}, port) /\ Posted(p) \in Int
      BY <1>5 DEF Collect, Posted
    <3>2. CASE Cardinality(queue) < QueueCap
      <4>1. freed'[p] = freed[p]
        BY <1>5, <3>2 DEF Collect
      <4>2. queue' = queue \cup {q}
        BY <1>5, <2>2, <3>2 DEF Collect
      <4>3. q \notin queue
        <5>1. Traced(q) = Posted(q) /\ Posted(q) =< 1
          BY DEF PacketsConserved, Traced, Held, Posted
        <5>2. Held(q) >= 1
          <6>1. Held(q)' = Held(q) - 1 /\ Held(q)' \in Nat /\ Held(q) \in Nat
            <7>1. IsFiniteSet({u \in Threads : msg'[u] = Req(q)})
              BY ThreadsFinite, FS_Subset
            <7>2. Held(q)' \in Nat
              BY <7>1, FS_CardinalityType DEF Held
            <7>3. QED
              BY <2>4, <7>2, TracedTypes
          <6>2. QED
            BY <6>1
        <5>3. In(q, queue) = 0
          BY <5>1, <5>2, TracedTypes DEF Traced, Posted
        <5>4. QED
          BY <5>3 DEF In
      <4>4. In(p, queue)' = In(p, queue) + IF p = q THEN 1 ELSE 0
        BY <4>2, <4>3 DEF In
      <4>5. QED
        BY <2>4, <3>1, <4>1, <4>4, TracedTypes DEF Traced
    <3>3. CASE ~(Cardinality(queue) < QueueCap)
      <4>1. freed' = FreeAll(<<q>>) /\ queue' = queue
        BY <1>5, <2>2, <3>3 DEF Collect
      <4>2. Among({p}, <<q>>) = IF p = q THEN 1 ELSE 0
        BY AmongOne
      <4>3. freed'[p] = freed[p] + IF p = q THEN 1 ELSE 0
        BY <4>1, <4>2 DEF FreeAll
      <4>4. In(p, queue)' = In(p, queue)
        BY <4>1
      <4>5. QED
        BY <2>4, <3>1, <4>3, <4>4, TracedTypes DEF Traced
    <3>4. QED
      BY <3>2, <3>3
  <2>6. QED
    BY <2>3, <2>5, TracedKept
<1>6. CASE Sended(t)
  <2>1. PICK k \in 0 .. Len(batch) : /\ freed' = FreeAll(SubSeq(batch, 1, k))
                                    /\ batch' = SubSeq(batch, k + 1, Len(batch))
    BY <1>6 DEF Sended, PrefixesOf
  <2>2. ~deleted'
    BY <1>1, <1>6 DEF Sended, InSession, Pcs
  <2>3. ASSUME NEW p \in Packets PROVE Traced(p)' - Posted(p)' = Traced(p) - Posted(p)
    <3>1. Posted(p)' = Posted(p) /\ In(p, queue)' = In(p, queue) /\ Held(p)' = Held(p)
          /\ Among({p}, lost)' = Among({p}, lost)
          /\ Among({Req(p)}, port)' = Among({Req(p)}, port) /\ Posted(p) \in Int
      BY <1>3, <1>6 DEF Sended, Posted
    <3>2. PICK r : r = Among({p}, SubSeq(batch, 1, k))
      OBVIOUS
    <3>3. Among({p}, batch) = r + Among({p}, batch)'
      <4>1. batch \in Seq(Packets)
        BY DEF TypeOK
      <4>2. QED
        BY <2>1, <3>2, <4>1, AmongSplit
    <3>4. r \in Nat /\ Among({p}, batch)' \in Nat
      <4>1. SubSeq(batch, 1, k) \in Seq(Packets) /\ batch' \in Seq(Packets)
        BY <2>1, Split DEF TypeOK
      <4>2. QED
        BY <3>2, <4>1, AmongType
    <3>5. freed'[p] = freed[p] + r
      BY <2>1, <3>2 DEF FreeAll
    <3>6. /\ freed[p] \in Nat /\ In(p, queue) \in Nat /\ Among({p}, lost) \in Nat
          /\ Among({Req(p)}, port) \in Nat /\ Held(p) \in Nat
      BY TracedTypes
    <3>7. Traced(p)' = Traced(p)
      BY <3>1, <3>3, <3>4, <3>5, <3>6 DEF Traced
    <3>8. QED
      BY <3>1, <3>7
  <2>4. QED
    BY <2>2, <2>3, TracedKept
<1>7. CASE Recved(t)
  <2>1. ~deleted' /\ msg' = [msg EXCEPT ![t] = None] /\ msg[t].kind # "req"
    BY <1>1, <1>7 DEF Recved, Roles, InSession, Pcs
  <2>2. ASSUME NEW p \in Packets PROVE Traced(p)' - Posted(p)' = Traced(p) - Posted(p)
    <3>1. Held(p)' = Held(p) /\ UNCHANGED <<freed, posted, queue, batch, lost, port>>
      BY <1>2, <1>7, <2>1 DEF Recved
    <3>2. Traced(p)' = Traced(p)
      BY <3>1 DEF Traced
    <3>3. Posted(p)' = Posted(p)
      BY <3>1 DEF Posted
    <3>4. QED
      BY <3>2, <3>3
  <2>3. QED
    BY <2>1, <2>2, TracedKept
<1>8. CASE OnRecvReply(t)
  <2>1. ~deleted'
    BY <1>1, <1>8 DEF OnRecvReply, InSession, Pcs
  <2>2. PICK q \in Packets : q = posted + 1
    BY <1>8, IOAssumption DEF OnRecvReply, TypeOK, Packets
  <2>3. posted' = q /\ port' = Append(port, Req(q)) /\ Req(q) \in Messages
    BY <1>8, <2>2 DEF OnRecvReply, Req, Messages
  <2>4. ASSUME NEW p \in Packets PROVE Traced(p)' - Posted(p)' = Traced(p) - Posted(p)
    <3>1. UNCHANGED <<freed, queue, batch, lost>> /\ Held(p)' = Held(p)
      BY <1>3, <1>8 DEF OnRecvReply
    <3>2. Req(q) = Req(p) <=> p = q
      BY DEF Req
    <3>3. Among({Req(p)}, port)' = Among({Req(p)}, port) + IF p = q THEN 1 ELSE 0
      <4>1. Among({Req(p)}, port)' = Among({Req(p)}, port) + (IF Req(q) \in {Req(p)} THEN 1 ELSE 0)
        BY <2>3, PortAppends
      <4>2. QED
        BY <3>2, <4>1
    <3>4. Posted(p)' = Posted(p) + IF p = q THEN 1 ELSE 0
      <4>1. posted \in Nat /\ p \in Nat /\ posted' = posted + 1 /\ q = posted + 1
        BY <2>2, <2>3, IOAssumption DEF TypeOK, Packets
      <4>2. QED
        BY <4>1 DEF Posted
    <3>5. Posted(p) \in Nat
      BY DEF Posted
    <3>6. /\ freed[p] \in Nat /\ In(p, queue) \in Nat /\ Among({p}, batch) \in Nat
          /\ Among({p}, lost) \in Nat /\ Among({Req(p)}, port) \in Nat /\ Held(p) \in Nat
      BY TracedTypes
    <3>7. Traced(p)' = freed[p] + In(p, queue) + Among({p}, batch) + Among({p}, lost)
                       + (Among({Req(p)}, port) + IF p = q THEN 1 ELSE 0) + Held(p)
      BY <3>1, <3>3 DEF Traced
    <3>8. Traced(p)' = Traced(p) + IF p = q THEN 1 ELSE 0
      BY <3>6, <3>7 DEF Traced
    <3>9. Traced(p) \in Nat
      BY <3>6 DEF Traced
    <3>10. QED
      BY <3>4, <3>5, <3>8, <3>9
  <2>5. QED
    BY <2>1, <2>4, TracedKept
<1>9. CASE WSASend(t)
  <2>1. ~deleted' /\ n[t] \in Nat
    BY <1>1, <1>9 DEF WSASend, TypeOK, InSession, Pcs
  <2>2. PICK s \in Draws(queue, n[t]), k \in 0 .. n[t] :
            /\ queue' = queue \ Range(s)
            /\ batch' = batch \o SubSeq(s, 1, k)
            /\ lost' = lost \o SubSeq(s, k + 1, n[t])
    BY <1>9, SendTakes, ZenonT(60)
  <2>3. PICK a, b : a = SubSeq(s, 1, k) /\ b = SubSeq(s, k + 1, n[t])
    OBVIOUS
  <2>4. s \in Seq(Packets) /\ Len(s) = n[t] /\ a \in Seq(Packets) /\ b \in Seq(Packets)
    BY <2>1, <2>3, Drawn
  <2>5. ASSUME NEW p \in Packets PROVE Traced(p)' - Posted(p)' = Traced(p) - Posted(p)
    <3>1. UNCHANGED <<freed, posted>> /\ Held(p)' = Held(p)
      BY <1>3, <1>9 DEF WSASend
    <3>2. Among({Req(p)}, port)' = Among({Req(p)}, port)
      <4>1. Sent \in Messages /\ Sent.kind # "req"
        BY DEF Sent, Messages
      <4>2. port' = Append(port, Sent) \/ port' = port
        BY <1>9 DEF WSASend
      <4>3. QED
        BY <1>4, <4>1, <4>2
    <3>3. In(p, queue) = In(p, queue') + Among({p}, s)
      BY <2>1, <2>2, DrawnOnce
    <3>4. Among({p}, s) = Among({p}, a) + Among({p}, b)
      <4>1. Among({p}, s) = Among({p}, SubSeq(s, 1, k)) + Among({p}, SubSeq(s, k + 1, Len(s)))
        BY <2>4, AmongSplit
      <4>2. QED
        BY <2>3, <2>4, <4>1
    <3>5. Among({p}, batch)' = Among({p}, batch) + Among({p}, a)
          /\ Among({p}, lost)' = Among({p}, lost) + Among({p}, b)
      <4>1. batch \in Seq(Packets) /\ lost \in Seq(Packets) /\ batch' = batch \o a /\ lost' = lost \o b
        BY <2>2, <2>3 DEF TypeOK
      <4>2. QED
        BY <2>4, <4>1, AmongConcat
    <3>6. Among({p}, a) \in Nat /\ Among({p}, b) \in Nat /\ In(p, queue') \in Nat
      BY <2>4, AmongType DEF In
    <3>7. In(p, queue)' = In(p, queue') /\ Posted(p)' = Posted(p)
      BY <3>1 DEF In, Posted
    <3>8. /\ freed[p] \in Nat /\ In(p, queue) \in Nat /\ Among({p}, batch) \in Nat
          /\ Among({p}, lost) \in Nat /\ Among({Req(p)}, port) \in Nat /\ Held(p) \in Nat
      BY TracedTypes
    <3>9. Traced(p)' = freed[p] + In(p, queue') + (Among({p}, batch) + Among({p}, a))
                       + (Among({p}, lost) + Among({p}, b)) + Among({Req(p)}, port) + Held(p)
      BY <3>1, <3>2, <3>5, <3>7 DEF Traced
    <3>10. Traced(p)' = Traced(p)
      BY <3>3, <3>4, <3>6, <3>8, <3>9 DEF Traced
    <3>11. Traced(p) \in Nat /\ Posted(p) \in Nat
      BY <3>8 DEF Traced, Posted
    <3>12. QED
      BY <3>7, <3>10, <3>11
  <2>6. QED
    BY <2>1, <2>5, TracedKept
<1>10. CASE WSARecv(t)
  <2>1. ~deleted'
    BY <1>1, <1>10 DEF WSARecv, InSession, Pcs
  <2>2. \/ port' = port
        \/ \E m \in Messages : m.kind # "req" /\ port' = Append(port, m)
    <3>1. CASE Receive
      <4>1. PICK k \in 1 .. RecvCap - fill : port' = Append(port, Recv(k))
        BY <3>1 DEF Receive
      <4>2. Recv(k) \in Messages /\ Recv(k).kind # "req"
        BY IOAssumption DEF TypeOK, Recv, Messages
      <4>3. QED
        BY <4>1, <4>2
    <3>2. QED
      BY <1>10, <3>1 DEF WSARecv
  <2>3. ASSUME NEW p \in Packets PROVE Traced(p)' - Posted(p)' = Traced(p) - Posted(p)
    <3>1. UNCHANGED <<freed, posted, queue, batch, lost>> /\ Held(p)' = Held(p)
      BY <1>3, <1>10 DEF WSARecv
    <3>2. Among({Req(p)}, port)' = Among({Req(p)}, port)
      BY <1>4, <2>2
    <3>3. QED
      BY <3>1, <3>2 DEF Traced, Posted
  <2>4. QED
    BY <2>1, <2>3, TracedKept
<1>11. CASE Drop(t)
  <2>1. /\ pc[t] = "drop" /\ msg[t].kind # "req" /\ msg' = [msg EXCEPT ![t] = None]
        /\ pc[t] \in InSession
    BY <1>11 DEF Drop, Roles, InSession, Pcs
  <2>2. CASE count # 1
    <3>1. ~deleted' /\ UNCHANGED <<queue, batch, lost, port, freed, posted>>
      BY <1>1, <1>11, <2>1, <2>2 DEF Drop
    <3>2. ASSUME NEW p \in Packets PROVE Traced(p)' - Posted(p)' = Traced(p) - Posted(p)
      BY <1>2, <2>1, <3>1 DEF Traced, Posted
    <3>3. QED
      BY <3>1, <3>2, TracedKept
  <2>3. CASE count = 1
    <3>1. port = <<>> /\ \A u \in Threads : pc[u] \in InSession => u = t
      BY <2>1, <2>3, AloneAtLast
    <3>2. PICK k \in {0, 1} :
              /\ k =< Len(lost)
              /\ freed' = [p \in Packets |-> freed[p] + In(p, queue) + Among({p}, batch)
                                             + Among({p}, SubSeq(lost, 1, k))]
              /\ lost' = SubSeq(lost, k + 1, Len(lost))
      BY <1>11, <2>3, Zenon DEF Drop
    <3>3. queue' = {} /\ batch' = <<>> /\ UNCHANGED <<port, posted>>
      BY <1>11, <2>3 DEF Drop
    <3>4. ASSUME NEW p \in Packets
          PROVE  /\ freed'[p] + Among({p}, lost)'
                        = freed[p] + In(p, queue) + Among({p}, batch) + Among({p}, lost)
                 /\ freed'[p] \in Nat /\ Among({p}, lost)' \in Nat
                 /\ Held(p) = 0 /\ Held(p)' = 0 /\ Among({Req(p)}, port) = 0
                 /\ In(p, queue)' = 0 /\ Among({p}, batch)' = 0
      <4>1. PICK r : r = Among({p}, SubSeq(lost, 1, k))
        OBVIOUS
      <4>2. /\ freed'[p] + Among({p}, lost)'
                   = freed[p] + In(p, queue) + Among({p}, batch) + Among({p}, lost)
            /\ freed'[p] \in Nat /\ Among({p}, lost)' \in Nat
        <5>1. lost \in Seq(Packets) /\ k \in 0 .. Len(lost)
          BY <3>2, LenProperties DEF TypeOK
        <5>2. Among({p}, lost) = r + Among({p}, lost)'
          BY <3>2, <4>1, <5>1, AmongSplit
        <5>3. r \in Nat /\ Among({p}, lost)' \in Nat
          BY <3>2, <4>1, <5>1, Split, AmongType
        <5>4. freed'[p] = freed[p] + In(p, queue) + Among({p}, batch) + r
          BY <3>2, <4>1
        <5>5. freed[p] \in Nat /\ In(p, queue) \in Nat /\ Among({p}, batch) \in Nat
          BY TracedTypes
        <5>6. QED
          BY <5>2, <5>3, <5>4, <5>5
      <4>3. \A u \in Threads : msg[u] # Req(p)
        <5>1. Req(p).kind = "req"
          BY DEF Req
        <5>2. \A u \in Threads : msg[u].kind # "req"
          BY <2>1, <3>1 DEF Roles, InSession, Pcs
        <5>3. QED
          BY <5>1, <5>2
      <4>4. Held(p) = 0
        <5>1. {u \in Threads : msg[u] = Req(p)} = {}
          BY <4>3
        <5>2. QED
          BY <5>1, FS_EmptySet DEF Held
      <4>5. Held(p)' = 0
        BY <1>2, <2>1, <4>4
      <4>6. In(p, queue)' = 0
        BY <3>3 DEF In
      <4>7. QED
        BY <3>1, <3>3, <4>2, <4>4, <4>5, <4>6, AmongEmpty
    <3>5. ASSUME NEW p \in Packets
          PROVE  Traced(p)' = Posted(p)' /\ freed'[p] + Among({p}, lost)' = Posted(p)'
      <4>1. Traced(p) = Posted(p) /\ Posted(p)' = Posted(p)
        BY <3>3 DEF PacketsConserved, Traced, Held, Posted
      <4>2. Among({Req(p)}, port)' = Among({Req(p)}, port)
        BY <3>3
      <4>3. freed[p] \in Nat /\ In(p, queue) \in Nat /\ Among({p}, batch) \in Nat /\ Among({p}, lost) \in Nat
        BY TracedTypes
      <4>4. Traced(p) = freed[p] + In(p, queue) + Among({p}, batch) + Among({p}, lost)
        <5>1. Held(p) = 0 /\ Among({Req(p)}, port) = 0
          BY <3>4
        <5>2. QED
          BY <4>3, <5>1 DEF Traced
      <4>5. Traced(p)' = freed'[p] + Among({p}, lost)'
        <5>1. /\ freed'[p] \in Nat /\ Among({p}, lost)' \in Nat /\ Held(p)' = 0
              /\ In(p, queue)' = 0 /\ Among({p}, batch)' = 0 /\ Among({Req(p)}, port) = 0
          BY <3>4
        <5>2. QED
          BY <4>2, <5>1 DEF Traced
      <4>6. QED
        BY <3>4, <4>1, <4>4, <4>5
    <3>6. QED
      BY <3>5 DEF PacketsConserved, Traced, Held
  <2>4. QED
    BY <2>2, <2>3
<1>12. CASE UNCHANGED <<queue, batch, lost, port, msg, freed, posted, deleted>>
  BY <1>12, TracedUntouched
<1>13. QED
  BY <1>5, <1>6, <1>7, <1>8, <1>9, <1>10, <1>11, <1>12
  DEF Handle, Unflag, Resend, Parse, OnRecvDisconnect, OnRecvNothing, SendIOCheck, SendIOExchange,
      SendIOSize, SendIOGiveUp, SendRecheck, SendError, SendFailed, SendFailedCancel, RecvIOCheck,
      RecvRecheck, RecvFailed, RecvFailedCancel, CancelRegist, CancelRecv, CancelSend

\* And through the completion port.
LEMMA OtherPackets ==
  ASSUME TypeOK, TypeOK', Roles, RefsAreHeld, PacketsConserved,
         \/ \E w \in Workers : Take(w)
         \/ CloserFind \/ RecvArrives \/ RecvEnds \/ SendCompletes \/ SendEnds \/ PeerLeaves
  PROVE  PacketsConserved'
<1>1. port # <<>> \/ sendOp # "none" \/ recvOp # "none" => ~deleted
  <2>1. count >= References /\ (deleted <=> count = 0)
    BY DEF RefsAreHeld
  <2>2. /\ At(Threads, InSession) \in Nat /\ At(Threads, InFailure) \in Nat /\ Len(port) \in Nat
        /\ Outstanding(sendOp) \in {0, 1} /\ Outstanding(recvOp) \in {0, 1}
    BY Counts
  <2>3. port # <<>> => Len(port) > 0
    BY DEF TypeOK
  <2>4. QED
    BY <2>1, <2>2, <2>3 DEF References, Outstanding
<1>2. ASSUME NEW m \in Messages, m.kind # "req", port' = Append(port, m), ~deleted',
             UNCHANGED <<queue, batch, lost, msg, freed, posted>>
      PROVE  PacketsConserved'
  <2>1. ASSUME NEW p \in Packets PROVE Traced(p)' - Posted(p)' = Traced(p) - Posted(p)
    <3>1. Req(p) # m
      BY <1>2 DEF Req
    <3>2. Among({Req(p)}, port)' = Among({Req(p)}, port) + (IF m \in {Req(p)} THEN 1 ELSE 0)
      BY <1>2, PortAppends
    <3>3. Among({Req(p)}, port) \in Nat
      BY TracedTypes
    <3>4. Among({Req(p)}, port)' = Among({Req(p)}, port) /\ Held(p)' = Held(p)
      BY <1>2, <3>1, <3>2, <3>3 DEF Held
    <3>5. Traced(p)' = Traced(p) /\ Posted(p)' = Posted(p)
      BY <1>2, <3>4 DEF Traced, Posted
    <3>6. QED
      BY <3>5
  <2>2. QED
    BY <1>2, <2>1, TracedKept
<1>3. CASE \E w \in Workers : Take(w)
  <2>1. PICK w \in Workers : Take(w)
    BY <1>3
  <2>2. PICK m \in Messages : m = Head(port)
    BY SMTT(30), <2>1 DEF Take, TypeOK
  <2>3. w \in Threads /\ msg[w].kind # "req"
    BY <2>1 DEF Take, Roles, Threads
  <2>4. /\ msg' = [msg EXCEPT ![w] = IF m.kind \in {"req", "recv"} THEN m ELSE None]
        /\ port' = Tail(port) /\ port # <<>>
        /\ UNCHANGED <<queue, batch, lost, freed, posted, deleted>>
    BY <2>1, <2>2 DEF Take, pkts
  <2>5. ASSUME NEW p \in Packets PROVE Traced(p)' - Posted(p)' = Traced(p) - Posted(p)
    <3>1. PICK x : x = IF m.kind \in {"req", "recv"} THEN m ELSE None
      OBVIOUS
    <3>2. (x = Req(p) <=> m = Req(p)) /\ msg[w] # Req(p)
      <4>1. Req(p).kind = "req" /\ None.kind = "none"
        BY DEF Req, None
      <4>2. QED
        BY <2>3, <3>1, <4>1
    <3>3. Held(p)' = Held(p) + (IF x = Req(p) THEN 1 ELSE 0) - (IF msg[w] = Req(p) THEN 1 ELSE 0)
      BY <2>3, <2>4, <3>1, HeldChanges
    <3>4. Among({Req(p)}, port)' = Among({Req(p)}, port) - (IF m \in {Req(p)} THEN 1 ELSE 0)
      <4>1. port \in Seq(Messages)
        BY DEF TypeOK
      <4>2. Among({Req(p)}, Tail(port)) = Among({Req(p)}, port) - (IF Head(port) \in {Req(p)} THEN 1 ELSE 0)
        BY <2>4, <4>1, AmongTail
      <4>3. QED
        BY <2>2, <2>4, <4>2
    <3>5. /\ freed[p] \in Nat /\ In(p, queue) \in Nat /\ Among({p}, batch) \in Nat
          /\ Among({p}, lost) \in Nat /\ Among({Req(p)}, port) \in Nat /\ Held(p) \in Nat
      BY TracedTypes
    <3>6. Traced(p)' = Traced(p) /\ Posted(p)' = Posted(p)
      BY <2>4, <3>2, <3>3, <3>4, <3>5 DEF Traced, Posted
    <3>7. QED
      BY <3>6
  <2>6. ~deleted'
    BY <1>1, <2>4
  <2>7. QED
    BY <2>5, <2>6, TracedKept
<1>4. CASE CloserFind \/ PeerLeaves
  BY <1>4, TracedUntouched DEF CloserFind, PeerLeaves, kernel, pkts
<1>5. CASE RecvArrives \/ RecvEnds
  <2>1. ~deleted' /\ UNCHANGED <<queue, batch, lost, msg, freed, posted>>
    BY <1>1, <1>5 DEF RecvArrives, RecvEnds, pkts
  <2>2. \A k \in 0 .. RecvCap : Recv(k) \in Messages /\ Recv(k).kind # "req"
    BY DEF Recv, Messages
  <2>3. Failed \in Messages /\ Failed.kind # "req"
    BY DEF Failed, Messages
  <2>4. \E m \in Messages : m.kind # "req" /\ port' = Append(port, m)
    <3>1. CASE RecvArrives
      <4>1. PICK k \in 1 .. RecvCap - fill : port' = Append(port, Recv(k))
        BY <3>1 DEF RecvArrives, Receive
      <4>2. k \in 0 .. RecvCap
        BY IOAssumption DEF TypeOK
      <4>3. QED
        BY <2>2, <4>1, <4>2
    <3>2. CASE RecvEnds
      <4>1. 0 \in 0 .. RecvCap
        BY IOAssumption
      <4>2. QED
        BY <2>2, <2>3, <3>2, <4>1 DEF RecvEnds
    <3>3. QED
      BY <1>5, <3>1, <3>2
  <2>5. QED
    BY <1>2, <2>1, <2>4
<1>6. CASE SendCompletes \/ SendEnds
  <2>1. ~deleted' /\ UNCHANGED <<queue, batch, lost, msg, freed, posted>>
    BY <1>1, <1>6 DEF SendCompletes, SendEnds, pkts
  <2>2. Failed \in Messages /\ Failed.kind # "req" /\ Sent \in Messages /\ Sent.kind # "req"
    BY DEF Failed, Sent, Messages
  <2>3. \E m \in Messages : m.kind # "req" /\ port' = Append(port, m)
    BY <1>6, <2>2 DEF SendCompletes, SendEnds
  <2>4. QED
    BY <1>2, <2>1, <2>3
<1>7. QED
  BY <1>3, <1>4, <1>5, <1>6

-----------------------------------------------------------------------------
(* Cancels and failures.                                                   *)

\* Once the flag is set it stays, and only its setters go on to CancelIoEx.
LEMMA CancelsStayFlagged ==
  ASSUME TypeOK, CancelsAreFlagged, Next
  PROVE  CancelsAreFlagged' /\ (cancelFlag = 1 => cancelFlag' = 1)
<1> USE DEF Goto, flags, kernel, pkts, CancelsAreFlagged, TypeOK, Threads
<1>1. ASSUME NEW w \in Workers, Take(w) PROVE CancelsAreFlagged' /\ cancelFlag' = cancelFlag
  BY <1>1 DEF Take
<1>2. CASE CloserFind \/ RecvArrives \/ RecvEnds \/ SendCompletes \/ SendEnds \/ PeerLeaves
  BY <1>2 DEF CloserFind, RecvArrives, RecvEnds, SendCompletes, SendEnds, PeerLeaves
<1>3. ASSUME NEW t \in Threads, Handle(t)
      PROVE  CancelsAreFlagged' /\ (cancelFlag = 1 => cancelFlag' = 1)
  <2>1. CASE SendFailed(t) \/ RecvFailed(t) \/ CancelRegist(t)
    BY <2>1 DEF SendFailed, RecvFailed, CancelRegist
  <2>2. CASE SendRecheck(t) \/ SendFailedCancel(t) \/ RecvFailedCancel(t) \/ CancelRecv(t) \/ CancelSend(t)
    BY <2>2 DEF SendRecheck, SendFailedCancel, RecvFailedCancel, CancelRecv, CancelSend, Cancel
  <2>3. CASE WSASend(t) \/ WSARecv(t)
    BY <2>3 DEF WSASend, WSARecv
  <2>4. CASE Collect(t) \/ Sended(t) \/ Unflag(t) \/ Resend(t) \/ Recved(t) \/ Parse(t) \/ OnRecvReply(t)
    BY <2>4 DEF Collect, Sended, Unflag, Resend, Recved, Parse, OnRecvReply
  <2>5. CASE \/ OnRecvDisconnect(t) \/ OnRecvNothing(t) \/ SendIOCheck(t) \/ SendIOExchange(t) \/ SendIOSize(t)
             \/ SendIOGiveUp(t) \/ SendError(t) \/ RecvIOCheck(t) \/ RecvRecheck(t) \/ Drop(t)
    BY <2>5 DEF OnRecvDisconnect, OnRecvNothing, SendIOCheck, SendIOExchange, SendIOSize, SendIOGiveUp,
                SendError, RecvIOCheck, RecvRecheck, Drop
  <2>6. QED
    BY <1>3, <2>1, <2>2, <2>3, <2>4, <2>5 DEF Handle
<1>4. QED
  BY <1>1, <1>2, <1>3 DEF Next

\* Only a WSASend that fails for another reason breaks the stream, and nothing mends it.
LEMMA BrokenStays ==
  ASSUME Next
  PROVE  broken' = broken \/ (broken' /\ OtherErrors)
<1> USE DEF flags, kernel, pkts
<1>1. ASSUME NEW t \in Threads, Handle(t)
      PROVE  broken' = broken \/ (broken' /\ OtherErrors)
  <2>1. CASE WSASend(t)
    BY <2>1 DEF WSASend
  <2>2. CASE Collect(t) \/ Sended(t) \/ OnRecvReply(t) \/ Drop(t)
    BY <2>2 DEF Collect, Sended, OnRecvReply, Drop
  <2>3. CASE UNCHANGED pkts
    BY <2>3
  <2>4. QED
    BY <1>1, <2>1, <2>2, <2>3 DEF Handle, Unflag, Resend, Recved, Parse, OnRecvDisconnect,
       OnRecvNothing, SendIOCheck, SendIOExchange, SendIOSize, SendIOGiveUp, SendRecheck, SendError,
       SendFailed, SendFailedCancel, RecvIOCheck, WSARecv, RecvRecheck, RecvFailed, RecvFailedCancel,
       CancelRegist, CancelRecv, CancelSend
<1>2. QED
  BY <1>1 DEF Next, Take, CloserFind, RecvArrives, RecvEnds, SendCompletes, SendEnds, PeerLeaves

-----------------------------------------------------------------------------
(* The stream.                                                             *)

\* Sequences of packets in a row.
LEMMA InARow ==
  /\ \A a, b \in Seq(Packets) : /\ a \o b \in Seq(Packets)
                               /\ IsPrefix(a, a) /\ IsPrefix(a, a \o b)
  /\ \A a \in Seq(Packets) : a \o <<>> = a /\ <<>> \o a = a
  /\ \A a, b, c \in Seq(Packets) : IsPrefix(a \o b, c) => IsPrefix(a, c)
<1>1. \A a \in Seq(Packets) : a \o <<>> = a /\ <<>> \o a = a
  BY ConcatEmptySeq
<1>2. \A a, b \in Seq(Packets) : a \o b \in Seq(Packets) /\ IsPrefix(a, a \o b)
  BY DEF IsPrefix
<1>3. \A a \in Seq(Packets) : IsPrefix(a, a)
  BY DEF IsPrefix
<1>4. ASSUME NEW a \in Seq(Packets), NEW b \in Seq(Packets), NEW c \in Seq(Packets), IsPrefix(a \o b, c)
      PROVE  IsPrefix(a, c)
  <2> DEFINE ab == a \o b
  <2>1. /\ ab \in Seq(Packets) /\ Len(ab) = Len(a) + Len(b)
        /\ \A i \in 1 .. Len(a) : ab[i] = a[i]
        /\ Len(a) \in Nat /\ Len(b) \in Nat /\ Len(c) \in Nat
    BY ConcatProperties, LenProperties
  <2>2. Len(ab) =< Len(c) /\ SubSeq(ab, 1, Len(ab)) = SubSeq(c, 1, Len(ab))
    BY <1>4 DEF IsPrefix
  <2>3. \A i \in 1 .. Len(a) : c[i] = a[i]
    <3> HIDE DEF ab
    <3>1. ASSUME NEW i \in 1 .. Len(a)
          PROVE  c[i] = a[i]
      <4>1. i \in 1 .. Len(ab) /\ Len(ab) \in Nat /\ Len(ab) \in 0 .. Len(c)
        BY <2>1, <2>2
      <4>2. SubSeq(ab, 1, Len(ab)) = ab
        BY <2>1, SubSeqFull
      <4>3. SubSeq(c, 1, Len(ab))[i] = c[i]
        BY <4>1
      <4>4. QED
        BY <2>1, <2>2, <4>2, <4>3
    <3>2. QED
      BY <3>1
  <2>4. Len(a) =< Len(c)
    BY <2>1, <2>2
  <2>5. SubSeq(a, 1, Len(a)) = SubSeq(c, 1, Len(a))
    <3>1. SubSeq(a, 1, Len(a)) = a
      BY SubSeqFull
    <3>2. PICK d : d = SubSeq(c, 1, Len(a))
      OBVIOUS
    <3>3. d \in Seq(Packets) /\ Len(d) = Len(a)
      BY <2>1, <2>4, <3>2, Split
    <3>4. \A i \in 1 .. Len(a) : d[i] = a[i]
      BY <2>1, <2>3, <2>4, <3>2
    <3>5. d = a
      BY <3>3, <3>4, SeqEqual
    <3>6. QED
      BY <3>1, <3>2, <3>5
  <2>6. QED
    BY <2>4, <2>5 DEF IsPrefix
<1>5. QED
  BY <1>1, <1>2, <1>3, <1>4

\* A WSASend takes one more stretch from sendBuffer, and puts it behind what is on the
\* wire or on its way; if it fails because of the peer, no other send follows.  A send
\* that ends without having sent has no successor either.
LEMMA StreamKeeps ==
  ASSUME TypeOK, Roles, OneSend, StreamInOrder, Next, TypeOK', OneSend', ~broken, ~broken'
  PROVE  StreamInOrder'
<1> USE DEF Goto, flags, kernel, pkts
<1>1. /\ wire \in Seq(Packets) /\ inflight \in Seq(Packets) /\ dequeued \in Seq(Packets)
      /\ OnTheWay \in Seq(Packets)
  BY DEF TypeOK, OnTheWay
<1>2. /\ IsPrefix(wire \o OnTheWay, dequeued)
      /\ Sendable => dequeued = wire \o OnTheWay
  BY DEF StreamInOrder, Sendable
<1>3. Sendable' => Sendable
  BY HandleOneSend, OtherOneSend DEF Next
<1>4. SUFFICES /\ IsPrefix(wire' \o OnTheWay', dequeued')
               /\ Sendable' => dequeued' = wire' \o OnTheWay'
  BY DEF StreamInOrder, Sendable
<1>5. ASSUME wire' \o OnTheWay' = wire \o OnTheWay, UNCHANGED dequeued
      PROVE  IsPrefix(wire' \o OnTheWay', dequeued') /\ (Sendable' => dequeued' = wire' \o OnTheWay')
  BY <1>2, <1>3, <1>5
<1>6. ASSUME UNCHANGED <<wire, dequeued, inflight>>, sendOp' = "none" <=> sendOp = "none"
      PROVE  IsPrefix(wire' \o OnTheWay', dequeued') /\ (Sendable' => dequeued' = wire' \o OnTheWay')
  BY <1>5, <1>6 DEF OnTheWay
<1>7. ASSUME NEW t \in Threads, WSASend(t)
      PROVE  IsPrefix(wire' \o OnTheWay', dequeued') /\ (Sendable' => dequeued' = wire' \o OnTheWay')
  <2>1. pc[t] = "WSASend" /\ n[t] \in Nat /\ pc[t] \in SendPoints
    BY <1>7 DEF WSASend, TypeOK, SendPoints
  <2>2. /\ sendOp = "none" /\ Among({Sent}, port) = 0
        /\ At(Threads, SendPoints) \in Nat /\ At(Threads, SendPoints) > 0
    BY <2>1, NothingOutstanding, Counts
  <2>3. At(Threads, SendPoints) = 1 /\ SendTokens = 1 /\ sendFlag = 1
    BY <2>2 DEF OneSend, SendTokens, Outstanding
  <2>4. PICK s \in Draws(queue, n[t]) :
            /\ dequeued' = dequeued \o s
            /\ \/ wire' = wire \o s /\ sendOp' = sendOp
               \/ wire' = wire /\ sendOp' = "pending" /\ inflight' = s
               \/ pc'[t] = "sendFailed" /\ UNCHANGED <<sendOp, port, wire>>
               \/ broken'
    BY <1>7, SendTakes, ZenonT(60)
  <2>5. s \in Seq(Packets)
    BY <2>1, Drawn
  <2>6. OnTheWay = <<>> /\ dequeued = wire
    BY <1>1, <1>2, <2>2, <2>3, InARow DEF OnTheWay, Sendable
  <2>7. wire \o s \in Seq(Packets) /\ dequeued' = wire \o s
    BY <1>1, <2>4, <2>5, <2>6
  <2>8. CASE wire' = wire \o s /\ sendOp' = sendOp
    <3>1. OnTheWay' = <<>>
      BY <2>2, <2>8 DEF OnTheWay
    <3>2. wire' \o OnTheWay' = wire \o s
      BY <2>7, <2>8, <3>1, InARow
    <3>3. QED
      BY <2>7, <3>2, InARow
  <2>9. CASE wire' = wire /\ sendOp' = "pending" /\ inflight' = s
    <3>1. OnTheWay' = s
      BY <2>9 DEF OnTheWay
    <3>2. wire' \o OnTheWay' = wire \o s
      BY <2>9, <3>1
    <3>3. QED
      BY <2>7, <3>2, InARow
  <2>10. CASE pc'[t] = "sendFailed" /\ UNCHANGED <<sendOp, port, wire>>
    <3>1. OnTheWay' = <<>> /\ wire' \o OnTheWay' = wire
      BY <1>1, <2>2, <2>10, InARow DEF OnTheWay
    <3>2. IsPrefix(wire, wire \o s)
      BY <1>1, <2>5, InARow
    <3>3. At(Threads, SendPoints)' = At(Threads, SendPoints)
                + (IF pc'[t] \in SendPoints THEN 1 ELSE 0) - (IF pc[t] \in SendPoints THEN 1 ELSE 0)
      BY <1>7, HandleMoves, Moves DEF Handle
    <3>4. At(Threads, SendPoints)' = 0
      BY <2>1, <2>3, <2>10, <3>3 DEF SendPoints
    <3>5. Among({Sent}, port)' = 0 /\ Outstanding(sendOp)' = 0
      BY <2>2, <2>10 DEF Outstanding
    <3>6. SendTokens' = 0
      BY <3>4, <3>5 DEF SendTokens
    <3>7. sendFlag' = 1
      BY <1>7, <2>3 DEF WSASend
    <3>8. QED
      BY <2>7, <3>1, <3>2, <3>6, <3>7 DEF Sendable
  <2>11. QED
    BY <2>4, <2>8, <2>9, <2>10
<1>8. ASSUME NEW t \in Threads, Sended(t)
      PROVE  IsPrefix(wire' \o OnTheWay', dequeued') /\ (Sendable' => dequeued' = wire' \o OnTheWay')
  <2>1. sendOp = "none"
    BY <1>8, NothingOutstanding DEF Sended, SendPoints
  <2>2. OnTheWay' = OnTheWay /\ UNCHANGED <<wire, dequeued>>
    BY <1>8, <2>1 DEF Sended, OnTheWay
  <2>3. QED
    BY <1>5, <2>2
<1>9. CASE SendCompletes
  <2>1. OnTheWay = inflight /\ OnTheWay' = <<>> /\ wire' = wire \o inflight /\ UNCHANGED dequeued
    BY <1>9 DEF SendCompletes, OnTheWay
  <2>2. wire' \o OnTheWay' = wire \o OnTheWay
    BY <1>1, <2>1, InARow
  <2>3. QED
    BY <1>5, <2>1, <2>2
<1>10. CASE SendEnds
  <2>1. /\ sendOp # "none" /\ sendOp' = "none" /\ port' = Append(port, Failed)
        /\ UNCHANGED <<wire, dequeued, pc, sendFlag>>
    BY <1>10 DEF SendEnds
  <2>2. Outstanding(sendOp) = 1 /\ Outstanding(sendOp)' = 0
    BY <2>1 DEF Outstanding
  <2>3. /\ At(Threads, SendPoints) \in Nat /\ Among({Sent}, port) \in Nat
    BY Counts
  <2>4. At(Threads, SendPoints) = 0 /\ Among({Sent}, port) = 0 /\ sendFlag = 1
    BY <2>2, <2>3 DEF OneSend, SendTokens
  <2>5. At(Threads, SendPoints)' = At(Threads, SendPoints)
    BY <2>1, NobodyMoves
  <2>6. Among({Sent}, port)' = Among({Sent}, port) + (IF Failed \in {Sent} THEN 1 ELSE 0)
    <3>1. Failed \in Messages
      BY DEF Failed, Messages
    <3>2. QED
      BY <2>1, <3>1, PortAppends
  <2>7. Failed # Sent
    BY DEF Failed, Sent
  <2>8. SendTokens' = 0
    BY <2>2, <2>4, <2>5, <2>6, <2>7 DEF SendTokens
  <2>9. OnTheWay' = <<>> /\ wire' \o OnTheWay' = wire
    BY <1>1, <2>1, InARow DEF OnTheWay
  <2>10. IsPrefix(wire, dequeued)
    BY <1>1, <1>2, InARow
  <2>11. QED
    BY <2>1, <2>4, <2>8, <2>9, <2>10 DEF Sendable
<1>11. ASSUME NEW t \in Threads, Drop(t)
       PROVE  IsPrefix(wire' \o OnTheWay', dequeued') /\ (Sendable' => dequeued' = wire' \o OnTheWay')
  BY <1>6, <1>11 DEF Drop
<1>12. ASSUME NEW t \in Threads, SendRecheck(t) \/ RecvFailedCancel(t) \/ CancelSend(t)
       PROVE  IsPrefix(wire' \o OnTheWay', dequeued') /\ (Sendable' => dequeued' = wire' \o OnTheWay')
  BY <1>6, <1>12 DEF SendRecheck, RecvFailedCancel, CancelSend, Cancel
<1>13. ASSUME NEW w \in Workers, Take(w)
       PROVE  IsPrefix(wire' \o OnTheWay', dequeued') /\ (Sendable' => dequeued' = wire' \o OnTheWay')
  BY <1>6, <1>13 DEF Take
<1>14. CASE CloserFind \/ RecvArrives \/ RecvEnds \/ PeerLeaves
  BY <1>6, <1>14 DEF CloserFind, RecvArrives, RecvEnds, PeerLeaves
<1>15. ASSUME NEW t \in Threads,
              \/ Collect(t) \/ Unflag(t) \/ Resend(t) \/ Recved(t) \/ Parse(t) \/ OnRecvReply(t)
              \/ OnRecvDisconnect(t) \/ OnRecvNothing(t) \/ SendIOCheck(t) \/ SendIOExchange(t)
              \/ SendIOSize(t) \/ SendIOGiveUp(t) \/ SendError(t) \/ SendFailed(t) \/ SendFailedCancel(t)
              \/ RecvIOCheck(t) \/ WSARecv(t) \/ RecvRecheck(t) \/ RecvFailed(t) \/ CancelRegist(t)
              \/ CancelRecv(t)
       PROVE  UNCHANGED <<wire, dequeued, inflight, sendOp>>
  BY <1>15 DEF Collect, Unflag, Resend, Recved, Parse, OnRecvReply, OnRecvDisconnect, OnRecvNothing,
     SendIOCheck, SendIOExchange, SendIOSize, SendIOGiveUp, SendError, SendFailed, SendFailedCancel,
     RecvIOCheck, WSARecv, RecvRecheck, RecvFailed, CancelRegist, CancelRecv
<1>16. QED
  BY <1>6, <1>7, <1>8, <1>9, <1>10, <1>11, <1>12, <1>13, <1>14, <1>15 DEF Next, Handle

-----------------------------------------------------------------------------
(* sendedBuffer.                                                           *)

\* A step that leaves sendedBuffer alone, and starts no phase of a send.
LEMMA BatchUntouched ==
  ASSUME BatchIsInflight, UNCHANGED <<batch, lost, inflight>>, Unfilled' => Unfilled,
         Unsended' => Unsended
  PROVE  BatchIsInflight'
BY DEF BatchIsInflight

\* sendedBuffer is filled by WSASend alone, which finds it empty, and emptied by
\* sended, which finds in it exactly what is reported.
LEMMA HandleBatch ==
  ASSUME TypeOK, TypeOK', Roles, RefsAreHeld, OneSend, ~broken, ~broken', BatchIsInflight,
         NEW t \in Threads, Handle(t)
  PROVE  BatchIsInflight'
<1> USE DEF Goto, flags, kernel, pkts
<1> DEFINE q == Among({Sent}, port)
           early == {"size", "giveup", "WSASend", "unflag"}
<1>1. pc' = [pc EXCEPT ![t] = pc'[t]]
  BY HandleMoves
<1>2. \A u \in Threads : u # t => pc'[u] = pc[u]
  BY <1>1 DEF TypeOK
<1>3. q \in Nat
  BY Counts
<1>4. \A m \in Messages : m # Sent /\ port' = Append(port, m) => q' = q
  <2>1. TAKE m \in Messages
  <2>2. HAVE m # Sent /\ port' = Append(port, m)
  <2>3. q' = q + (IF m \in {Sent} THEN 1 ELSE 0)
    BY <2>2, PortAppends
  <2>4. QED
    BY <1>3, <2>2, <2>3
<1>5. port' = port => q' = q
  OBVIOUS
<1>6. ASSUME pc[t] \in SendPoints
      PROVE  /\ sendOp = "none" /\ q = 0 /\ sendFlag = 1
             /\ \A u \in Threads : u # t => pc'[u] \notin SendPoints
  <2>1. sendOp = "none" /\ q = 0
    BY <1>6, NothingOutstanding
  <2>2. /\ At(Threads, SendPoints) \in Nat /\ At(Threads, SendPoints) > 0
        /\ Outstanding(sendOp) \in {0, 1}
    BY <1>6, Counts
  <2>3. At(Threads, SendPoints) =< 1 /\ sendFlag = 1
    <3>1. SendTokens = At(Threads, SendPoints) + Outstanding(sendOp) + q
      BY DEF SendTokens
    <3>2. SendTokens =< 1 /\ (SendTokens = 1 => sendFlag = 1)
      BY DEF OneSend
    <3>3. HIDE DEF q
    <3>4. QED
      BY <1>3, <2>2, <3>1, <3>2
  <2>4. \A u \in Threads : pc[u] \in SendPoints => u = t
    BY <1>6, <2>3, TwoCount
  <2>5. QED
    BY <1>2, <2>1, <2>3, <2>4
<1>7. ASSUME UNCHANGED <<batch, lost, inflight>>, sendFlag' = sendFlag \/ pc[t] \in early,
             pc'[t] \notin early \cup {"sended"} \/ (pc[t] \in early /\ pc'[t] \in early),
             q' = q, sendOp' = "none" <=> sendOp = "none"
      PROVE  BatchIsInflight'
  <2>1. Unfilled' => Unfilled
    BY <1>2, <1>7 DEF Unfilled
  <2>2. Unsended' => Unsended
    BY <1>2, <1>7 DEF Unsended
  <2>3. QED
    BY <1>7, <2>1, <2>2, BatchUntouched
<1> HIDE DEF q
<1>8. CASE Sended(t)
  <2>1. batch = inflight
    BY <1>8 DEF Sended, BatchIsInflight, Unsended
  <2>2. PICK k \in 0 .. Len(batch) : /\ Bytes(SubSeq(batch, 1, k)) = Bytes(inflight)
                                    /\ batch' = SubSeq(batch, k + 1, Len(batch))
    BY <1>8 DEF Sended, PrefixesOf
  <2>3. batch \in Seq(Packets) /\ Len(batch) \in Nat
    BY LenProperties DEF TypeOK
  <2>4. k = Len(batch)
    BY <2>1, <2>2, <2>3, OnlyAllHaveItsBytes
  <2>5. batch' \in Seq(Packets) /\ Len(batch') = 0
    <3>1. batch' = SubSeq(batch, Len(batch) + 1, Len(batch))
      BY <2>2, <2>4
    <3>2. Len(batch) \in 0 .. Len(batch)
      BY <2>3
    <3>3. Len(SubSeq(batch, Len(batch) + 1, Len(batch))) = Len(batch) - Len(batch)
      BY <2>3, <3>2, Split
    <3>4. QED
      BY <2>3, <3>1, <3>3 DEF TypeOK
  <2>6. batch' = <<>> /\ inflight' = <<>> /\ lost' = lost
    BY <1>8, <2>5 DEF Sended
  <2>7. QED
    BY <2>6 DEF BatchIsInflight
<1>9. CASE WSASend(t)
  <2>1. batch = <<>> /\ lost = <<>>
    BY <1>9 DEF WSASend, BatchIsInflight, Unfilled
  <2>2. PICK s \in Draws(queue, n[t]), k \in 0 .. n[t] :
            /\ batch' = batch \o SubSeq(s, 1, k) /\ lost' = lost \o SubSeq(s, k + 1, n[t])
            /\ lost = <<>> /\ batch = <<>> => k = n[t]
            /\ \/ inflight' = s
               \/ pc'[t] = "sendFailed" /\ UNCHANGED <<sendOp, port>>
               \/ broken'
    BY <1>9, SendTakes, ZenonT(60)
  <2>3. n[t] \in Nat /\ s \in Seq(Packets) /\ Len(s) = n[t]
    <3>1. n[t] \in Nat
      BY DEF TypeOK
    <3>2. QED
      BY <3>1, Drawn
  <2>4. batch' = s /\ lost' = <<>>
    <3>1. batch' = <<>> \o SubSeq(s, 1, n[t]) /\ lost' = <<>> \o SubSeq(s, n[t] + 1, n[t])
      BY <2>1, <2>2
    <3>2. SubSeq(s, 1, n[t]) = s
      BY <2>3, SubSeqFull
    <3>3. SubSeq(s, n[t] + 1, n[t]) = <<>>
      BY <2>3, SubSeqEmpty
    <3>4. <<>> \o s = s /\ <<>> \o <<>> = <<>>
      BY <2>3, InARow
    <3>5. QED
      BY <3>1, <3>2, <3>3, <3>4
  <2>5. ~Unfilled'
    <3>1. sendFlag' = 1
      BY <1>6, <1>9 DEF WSASend, SendPoints
    <3>2. \A u \in Threads : u # t => pc'[u] \notin SendPoints
      BY <1>6, <1>9 DEF WSASend, SendPoints
    <3>3. pc'[t] \notin {"size", "giveup", "WSASend", "unflag"}
      BY <1>9 DEF WSASend, TypeOK
    <3>4. QED
      BY <3>1, <3>2, <3>3 DEF Unfilled, SendPoints
  <2>6. Unsended' => inflight' = s
    <3>1. CASE inflight' = s
      BY <3>1
    <3>2. CASE UNCHANGED <<sendOp, port>> /\ pc'[t] = "sendFailed"
      <4>1. sendOp = "none" /\ q = 0 /\ \A u \in Threads : u # t => pc'[u] \notin SendPoints
        BY <1>6, <1>9 DEF WSASend, SendPoints
      <4>2. sendOp' = "none" /\ q' = 0
        BY <1>5, <3>2, <4>1
      <4>3. QED
        BY <3>2, <4>1, <4>2 DEF Unsended, SendPoints, q
    <3>3. QED
      BY <2>2, <3>1, <3>2
  <2>7. QED
    BY <2>4, <2>5, <2>6 DEF BatchIsInflight
<1>10. CASE SendError(t)
  BY <1>10 DEF SendError, Roles
<1>11. CASE SendIOExchange(t)
  <2>1. UNCHANGED <<batch, lost, inflight, sendOp, port>> /\ (pc'[t] = "size" => sendFlag = 0)
        /\ sendFlag' = 1 /\ pc'[t] \in {"size", "drop"}
    BY <1>11 DEF SendIOExchange, TypeOK
  <2>2. Unfilled' => Unfilled
    BY <1>2, <2>1 DEF Unfilled
  <2>3. Unsended' => Unsended
    BY <1>2, <1>5, <2>1 DEF Unsended, q
  <2>4. QED
    BY <2>1, <2>2, <2>3, BatchUntouched
<1>12. CASE Unflag(t)
  <2>1. batch = <<>> /\ UNCHANGED <<batch, lost, inflight, sendOp, port>> /\ pc'[t] = "resend"
    BY <1>12 DEF Unflag, BatchIsInflight, Unfilled, TypeOK
  <2>2. Unsended' => Unsended
    BY <1>2, <1>5, <2>1 DEF Unsended, q
  <2>3. QED
    BY <2>1, <2>2 DEF BatchIsInflight
<1>13. CASE SendIOGiveUp(t)
  <2>1. batch = <<>> /\ UNCHANGED <<batch, lost, inflight, sendOp, port>> /\ pc'[t] = "drop"
    BY <1>13 DEF SendIOGiveUp, BatchIsInflight, Unfilled, TypeOK
  <2>2. Unsended' => Unsended
    BY <1>2, <1>5, <2>1 DEF Unsended, q
  <2>3. QED
    BY <2>1, <2>2 DEF BatchIsInflight
<1>14. CASE SendIOSize(t)
  BY <1>5, <1>7, <1>14 DEF SendIOSize, TypeOK
<1>15. CASE Drop(t)
  <2>1. CASE count = 1
    <3>1. /\ sendOp = "none" /\ port = <<>>
          /\ \A u \in Threads : pc[u] \in InSession => u = t
      BY <1>15, <2>1, AloneAtLast DEF Drop, InSession, Pcs
    <3>2. batch' = <<>> /\ sendOp' = "none" /\ port' = <<>> /\ pc'[t] \in {"idle", "done"}
      BY <1>15, <2>1, <3>1 DEF Drop, TypeOK
    <3>3. q' = 0
      BY <3>2, AmongEmpty DEF q
    <3>4. ~Unsended'
      BY <1>2, <3>1, <3>2, <3>3 DEF Unsended, q, InSession, Pcs
    <3>5. lost' = <<>>
      <4>1. PICK k \in {0, 1} : k =< Len(lost) /\ lost' = SubSeq(lost, k + 1, Len(lost))
        BY <1>15, <2>1, Zenon DEF Drop
      <4>2. lost = <<>> /\ Len(<<>>) = 0
        BY DEF BatchIsInflight
      <4>3. k = 0
        BY <4>1, <4>2
      <4>4. SubSeq(lost, 1, 0) = <<>>
        BY SubSeqEmpty
      <4>5. QED
        BY <4>1, <4>2, <4>3, <4>4
    <3>6. QED
      BY <3>2, <3>4, <3>5 DEF BatchIsInflight
  <2>2. CASE count # 1
    BY <1>5, <1>7, <1>15, <2>2 DEF Drop, TypeOK
  <2>3. QED
    BY <2>1, <2>2
<1>16. CASE OnRecvReply(t)
  <2>1. Req(posted + 1) \in Messages /\ Req(posted + 1) # Sent
    <3>1. posted + 1 \in Packets
      BY <1>16, IOAssumption DEF OnRecvReply, TypeOK, Packets
    <3>2. Req(posted + 1).kind # Sent.kind
      BY DEF Req, Sent
    <3>3. QED
      BY <3>1, <3>2 DEF Req, Messages
  <2>2. port' = Append(port, Req(posted + 1))
    BY <1>16 DEF OnRecvReply
  <2>3. q' = q
    BY <1>4, <2>1, <2>2
  <2>4. QED
    BY <1>7, <1>16, <2>3 DEF OnRecvReply, TypeOK
<1>17. CASE WSARecv(t)
  <2>1. q' = q
    <3>1. CASE Receive
      <4>1. PICK k \in 1 .. RecvCap - fill : port' = Append(port, Recv(k))
        BY <3>1 DEF Receive
      <4>2. Recv(k) \in Messages /\ Recv(k) # Sent
        <5>1. k \in 0 .. RecvCap
          BY IOAssumption DEF TypeOK
        <5>2. QED
          BY <5>1, ReceivedMessages
      <4>3. QED
        BY <1>4, <4>1, <4>2
    <3>2. CASE UNCHANGED port
      BY <1>5, <3>2
    <3>3. QED
      BY <1>17, <3>1, <3>2 DEF WSARecv
  <2>2. QED
    BY <1>7, <1>17, <2>1 DEF WSARecv, TypeOK
<1>18. CASE SendRecheck(t) \/ RecvFailedCancel(t) \/ CancelSend(t)
  BY <1>5, <1>7, <1>18 DEF SendRecheck, RecvFailedCancel, CancelSend, Cancel, TypeOK
<1>19. CASE \/ Collect(t) \/ Resend(t) \/ Recved(t) \/ Parse(t) \/ OnRecvDisconnect(t) \/ OnRecvNothing(t)
            \/ SendIOCheck(t)
  BY <1>5, <1>7, <1>19 DEF Collect, Resend, Recved, Parse, OnRecvDisconnect, OnRecvNothing, SendIOCheck, TypeOK
<1>20. CASE \/ SendFailed(t) \/ SendFailedCancel(t) \/ RecvIOCheck(t) \/ RecvRecheck(t) \/ RecvFailed(t)
            \/ CancelRegist(t) \/ CancelRecv(t)
  BY <1>5, <1>7, <1>20 DEF SendFailed, SendFailedCancel, RecvIOCheck, RecvRecheck, RecvFailed, CancelRegist,
     CancelRecv, TypeOK
<1>21. QED
  BY <1>8, <1>9, <1>10, <1>11, <1>12, <1>13, <1>14, <1>15, <1>16, <1>17, <1>18, <1>19, <1>20 DEF Handle

\* The kernel and the port only pass the send on.
LEMMA OtherBatch ==
  ASSUME TypeOK, TypeOK', BatchIsInflight,
         \/ \E w \in Workers : Take(w)
         \/ CloserFind \/ RecvArrives \/ RecvEnds \/ SendCompletes \/ SendEnds \/ PeerLeaves
  PROVE  BatchIsInflight'
<1> DEFINE q == Among({Sent}, port)
<1>1. \A m \in Messages : port' = Append(port, m) => q' = q + (IF m \in {Sent} THEN 1 ELSE 0)
  BY PortAppends
<1>2. q \in Nat
  BY Counts
<1>3. CASE \E w \in Workers : Take(w)
  <2>1. PICK w \in Workers : Take(w)
    BY <1>3
  <2>2. port \in Seq(Messages) /\ port # <<>>
    BY <2>1 DEF Take, TypeOK
  <2>3. q' = q - (IF Head(port) \in {Sent} THEN 1 ELSE 0)
    BY <2>1, <2>2, AmongTail DEF Take
  <2>4. /\ w \in Threads /\ pc' = [pc EXCEPT ![w] = pc'[w]]
        /\ Head(port).kind = "sent" => Head(port) = Sent
    <3>1. w \in Threads /\ pc' = [pc EXCEPT ![w] = pc'[w]]
      BY <2>1 DEF Take, Threads, TypeOK
    <3>2. Head(port) \in Messages
      BY <2>2, HeadTailProperties
    <3>3. \A m \in Messages : m.kind = "sent" => m = Sent
      BY DEF Messages, Sent
    <3>4. QED
      BY <3>1, <3>2, <3>3
  <2>5. pc'[w] \in {"collect", "sended", "recved", "drop"} /\ (pc'[w] = "sended" => Head(port) = Sent)
    BY <2>1, <2>4 DEF Take, TypeOK
  <2>6. \A u \in Threads : u # w => pc'[u] = pc[u]
    BY <2>4 DEF TypeOK
  <2>7. UNCHANGED <<batch, lost, inflight, sendFlag, sendOp>>
    BY <2>1 DEF Take, flags, pkts
  <2>8. Unfilled' => Unfilled
    BY <2>5, <2>6, <2>7 DEF Unfilled
  <2>9. Head(port) = Sent => q > 0
    <3>1. ASSUME Head(port) = Sent PROVE \E i \in DOMAIN port : port[i] \in {Sent}
      <4>1. 1 \in DOMAIN port /\ Head(port) = port[1]
        BY <2>2, HeadTailProperties, LenProperties
      <4>2. QED
        BY <3>1, <4>1
    <3>2. QED
      BY <2>2, <3>1, AmongType
  <2>10. q' > 0 => q > 0
    <3>1. HIDE DEF q
    <3>2. QED
      BY <1>2, <2>3
  <2>11. Unsended' => Unsended
    BY <2>5, <2>6, <2>7, <2>9, <2>10 DEF Unsended
  <2>12. QED
    BY <2>7, <2>8, <2>11, BatchUntouched
<1>4. ASSUME UNCHANGED <<batch, lost, inflight, sendFlag, pc>>, NEW m \in Messages, port' = Append(port, m),
             sendOp # "none" \/ (m # Sent /\ sendOp' = "none")
      PROVE  BatchIsInflight'
  <2>1. Unfilled' => Unfilled
    BY <1>4 DEF Unfilled
  <2>2. Unsended' => Unsended
    <3>1. q' = q + (IF m \in {Sent} THEN 1 ELSE 0)
      BY <1>1, <1>4
    <3>2. m # Sent => q' = q
      BY <1>2, <3>1
    <3>3. QED
      BY <1>4, <3>2 DEF Unsended
  <2>3. QED
    BY <1>4, <2>1, <2>2, BatchUntouched
<1>5. CASE RecvArrives \/ RecvEnds
  <2>1. PICK m \in Messages : m # Sent /\ port' = Append(port, m)
    <3>1. \A k \in 0 .. RecvCap : Recv(k) \in Messages /\ Recv(k) # Sent
      BY ReceivedMessages
    <3>2. Failed \in Messages /\ Failed # Sent
      BY DEF Failed, Sent, Messages
    <3>3. 0 \in 0 .. RecvCap /\ \A k \in 1 .. RecvCap - fill : k \in 0 .. RecvCap
      BY IOAssumption DEF TypeOK
    <3>4. \/ \E k \in 1 .. RecvCap - fill : port' = Append(port, Recv(k))
          \/ port' = Append(port, Failed) \/ port' = Append(port, Recv(0))
      BY <1>5 DEF RecvArrives, RecvEnds, Receive
    <3>5. QED
      BY <3>1, <3>2, <3>3, <3>4
  <2>2. UNCHANGED <<batch, lost, inflight, sendFlag, pc, sendOp>>
    BY <1>5 DEF RecvArrives, RecvEnds, flags, pkts
  <2>3. QED
    BY <1>4, <2>1, <2>2
<1>6. CASE SendCompletes \/ SendEnds
  <2>1. Sent \in Messages /\ Failed \in Messages
    BY ReceivedMessages
  <2>2. /\ UNCHANGED <<batch, lost, inflight, sendFlag, pc>> /\ sendOp # "none"
        /\ port' = Append(port, Sent) \/ port' = Append(port, Failed)
    BY <1>6 DEF SendCompletes, SendEnds, flags, pkts
  <2>3. QED
    BY <1>4, <2>1, <2>2
<1>7. CASE CloserFind \/ PeerLeaves
  <2>1. /\ UNCHANGED <<batch, lost, inflight, sendFlag, sendOp, port>>
        /\ \A u \in Threads : pc'[u] # pc[u] => pc'[u] \in {"done", "cancel"}
    BY <1>7 DEF CloserFind, PeerLeaves, flags, pkts, kernel, TypeOK
  <2>2. Unfilled' => Unfilled
    BY <2>1 DEF Unfilled
  <2>3. q' = q
    BY <2>1
  <2>4. Unsended' => Unsended
    BY <2>1, <2>3 DEF Unsended
  <2>5. QED
    BY <2>1, <2>2, <2>4, BatchUntouched
<1>8. QED
  BY <1>3, <1>5, <1>6, <1>7

-----------------------------------------------------------------------------
(* recvBuffer.                                                             *)

\* What the completion port holds.
LEMMA PortMessages ==
  ASSUME TypeOK
  PROVE  port \in Seq(Messages) /\ Len(port) \in Nat /\ \A i \in DOMAIN port : port[i] \in Messages
<1>1. port \in Seq(Messages)
  BY DEF TypeOK
<1>2. QED
  BY <1>1, LenProperties, ElementOfSeq

\* A step that puts no bytes into recvBuffer, and adds at most a completion that fits.
LEMMA FillUntouched ==
  ASSUME TypeOK, TypeOK', Roles, FillFits, fill' =< fill,
         port' = port \/ \E m \in Messages : port' = Append(port, m) /\ (m.kind = "recv" => fill' + m.len < RecvCap),
         \A t \in Threads : pc'[t] = "recved" => pc[t] = "recved" /\ msg'[t] = msg[t]
  PROVE  FillFits'
<1>1. fill \in Nat /\ fill' \in Nat /\ RecvCap \in Nat
  BY IOAssumption DEF TypeOK
<1>2. \A m \in Messages : m.kind = "recv" => m.len \in Nat
  BY DEF Messages
<1>3. \A m \in Messages : m.kind = "recv" /\ fill + m.len < RecvCap => fill' + m.len < RecvCap
  BY <1>1, <1>2
<1>4. \A i \in DOMAIN port' : port'[i].kind = "recv" => fill' + port'[i].len < RecvCap
  <2>1. \A i \in DOMAIN port : port[i].kind = "recv" => fill' + port[i].len < RecvCap
    <3>1. \A i \in DOMAIN port : port[i] \in Messages
      BY PortMessages
    <3>2. QED
      BY <1>3, <3>1 DEF FillFits
  <2>2. CASE port' = port
    BY <2>1, <2>2
  <2>3. ASSUME NEW m \in Messages, port' = Append(port, m), m.kind = "recv" => fill' + m.len < RecvCap
        PROVE  \A i \in DOMAIN port' : port'[i].kind = "recv" => fill' + port'[i].len < RecvCap
    <3>1. \A i \in DOMAIN port' : port'[i] = m \/ (i \in DOMAIN port /\ port'[i] = port[i])
      <4>1. port \in Seq(Messages) /\ port' = Append(port, m) /\ Len(port) \in Nat
        BY <2>3, PortMessages
      <4>2. /\ Len(port') = Len(port) + 1 /\ port'[Len(port) + 1] = m
            /\ \A i \in 1 .. Len(port) : port'[i] = port[i]
            /\ DOMAIN port = 1 .. Len(port) /\ DOMAIN port' = 1 .. Len(port')
        BY <4>1, AppendProperties, LenProperties
      <4>3. PICK k \in Nat : k = Len(port)
        BY <4>1
      <4>4. \A i \in 1 .. k + 1 : i \in 1 .. k \/ i = k + 1
        OBVIOUS
      <4>5. DOMAIN port' = 1 .. k + 1 /\ DOMAIN port = 1 .. k
        BY <4>2, <4>3
      <4>6. QED
        BY <4>2, <4>3, <4>4, <4>5
    <3>2. QED
      BY <2>1, <2>3, <3>1
  <2>4. QED
    BY <2>2, <2>3
<1>5. \A t \in Threads : pc'[t] = "recved" => fill' + msg'[t].len < RecvCap
  <2>1. \A t \in Threads : pc[t] = "recved" => msg[t] \in Messages /\ msg[t].kind = "recv"
    BY DEF TypeOK, Roles
  <2>2. QED
    BY <1>3, <2>1 DEF FillFits
<1>6. QED
  BY <1>4, <1>5 DEF FillFits

\* Nothing is received while recvBuffer is in a worker's hands, so that what was
\* received for its free bytes still fits when recved puts it there.
LEMMA FillKeeps ==
  ASSUME TypeOK, TypeOK', Roles, OneReceive, ~PeerFills, FillFits, Next
  PROVE  FillFits'
<1> USE DEF Goto, flags, kernel, pkts
<1>1. fill \in 0 .. RecvCap - 1 /\ fill' \in 0 .. RecvCap - 1 /\ RecvCap \in Nat /\ PacketSize \in Nat
  BY IOAssumption DEF TypeOK
<1>2. \A k \in 0 .. RecvCap : Recv(k) \in Messages /\ Recv(k).kind = "recv" /\ Recv(k).len = k
  BY ReceivedMessages DEF Recv
<1>3. ASSUME Receive, UNCHANGED fill
      PROVE  \E m \in Messages : port' = Append(port, m) /\ (m.kind = "recv" => fill' + m.len < RecvCap)
  <2>1. PICK k \in 1 .. RecvCap - fill : k < RecvCap - fill /\ port' = Append(port, Recv(k))
    BY <1>3 DEF Receive
  <2>2. k \in 0 .. RecvCap /\ fill + k < RecvCap
    BY <1>1, <2>1
  <2>3. QED
    BY <1>2, <1>3, <2>1, <2>2
<1>4. ASSUME NEW w \in Workers, Take(w) PROVE FillFits'
  <2>1. port \in Seq(Messages) /\ port # <<>> /\ port' = Tail(port) /\ UNCHANGED fill
    BY <1>4 DEF Take, TypeOK
  <2>2. /\ \A i \in DOMAIN Tail(port) : i + 1 \in DOMAIN port /\ Tail(port)[i] = port[i + 1]
        /\ 1 \in DOMAIN port /\ Head(port) = port[1]
    BY <2>1, HeadTailProperties, LenProperties
  <2>3. \A i \in DOMAIN port' : port'[i].kind = "recv" => fill' + port'[i].len < RecvCap
    BY <2>1, <2>2 DEF FillFits
  <2>4. Head(port).kind = "recv" => fill' + Head(port).len < RecvCap
    BY <2>1, <2>2 DEF FillFits
  <2>5. /\ \A t \in Threads : t # w => pc'[t] = pc[t] /\ msg'[t] = msg[t]
        /\ pc'[w] = "recved" => msg'[w] = Head(port) /\ Head(port).kind = "recv"
    <3>1. PICK m : m = Head(port)
      OBVIOUS
    <3>2. /\ msg' = [msg EXCEPT ![w] = IF m.kind \in {"req", "recv"} THEN m ELSE None]
          /\ pc' = [pc EXCEPT ![w] = CASE m.kind = "req" -> "collect"
                                      [] m.kind = "sent" -> "sended"
                                      [] m.kind = "recv" /\ m.len > 0 -> "recved"
                                      [] OTHER -> "drop"]
      BY <1>4, <3>1 DEF Take
    <3>3. w \in Threads
      BY DEF Threads
    <3>4. QED
      BY <3>1, <3>2, <3>3 DEF TypeOK
  <2>6. QED
    BY <2>1, <2>3, <2>4, <2>5 DEF FillFits
<1>5. ASSUME NEW t \in Threads, Recved(t) PROVE FillFits'
  <2>1. Among(Received, port) = 0 /\ \A u \in Threads : u # t => pc[u] # "recved"
    <3>1. pc[t] = "recved"
      BY <1>5 DEF Recved
    <3>2. At(Threads, RecvPoints) =< 1
      <4>1. /\ At(Threads, RecvPoints) \in Nat /\ At(Workers, CancelPoints) \in Nat
            /\ Outstanding(recvOp) \in {0, 1} /\ Among(Received, port) \in Nat
        BY Counts
      <4>2. RecvTokens =< 1
        BY DEF OneReceive
      <4>3. QED
        BY <4>1, <4>2 DEF RecvTokens
    <3>3. QED
      BY <3>1, <3>2, NothingOutstanding, TwoCount DEF RecvPoints
  <2>2. port' = port /\ \A u \in Threads : pc'[u] # "recved"
    BY <1>5, <2>1 DEF Recved, TypeOK
  <2>3. \A i \in DOMAIN port : port[i].kind # "recv"
    <3>1. port \in Seq(Messages) /\ \A i \in DOMAIN port : port[i] \in Messages
      BY PortMessages
    <3>2. \A i \in DOMAIN port : port[i] \notin Received
      <4>1. Among(Received, port) > 0 <=> \E i \in DOMAIN port : port[i] \in Received
        BY <3>1, AmongType
      <4>2. QED
        BY <2>1, <4>1
    <3>3. QED
      BY <3>1, <3>2, ReceivedMessages
  <2>4. QED
    BY <2>2, <2>3 DEF FillFits
<1>6. ASSUME NEW t \in Threads, WSARecv(t) PROVE FillFits'
  <2>1. UNCHANGED fill /\ (port' = port \/ Receive)
    BY <1>6 DEF WSARecv
  <2>2. \A u \in Threads : pc'[u] = "recved" => pc[u] = "recved" /\ msg'[u] = msg[u]
    BY <1>6 DEF WSARecv, TypeOK
  <2>3. QED
    BY <1>1, <1>3, <2>1, <2>2, FillUntouched
<1>7. CASE RecvArrives
  <2>1. UNCHANGED <<fill, pc, msg>> /\ Receive
    BY <1>7 DEF RecvArrives
  <2>2. QED
    BY <1>1, <1>3, <2>1, FillUntouched
<1>8. CASE RecvEnds
  <2>1. UNCHANGED <<fill, pc, msg>> /\ (port' = Append(port, Failed) \/ port' = Append(port, Recv(0)))
    BY <1>8 DEF RecvEnds
  <2>2. Failed \in Messages /\ Failed.kind = "failed"
    BY DEF Failed, Messages
  <2>3. Recv(0) \in Messages /\ fill' + Recv(0).len < RecvCap
    <3>1. 0 \in 0 .. RecvCap /\ fill' + 0 < RecvCap
      <4>1. PICK f \in 0 .. RecvCap - 1 : f = fill'
        BY <1>1
      <4>2. RecvCap \in Nat
        BY IOAssumption
      <4>3. f + 0 < RecvCap
        BY <4>2
      <4>4. 0 \in 0 .. RecvCap
        BY <4>2
      <4>5. QED
        BY <4>1, <4>3, <4>4
    <3>2. QED
      BY <1>2, <3>1
  <2>4. QED
    BY <1>1, <2>1, <2>2, <2>3, FillUntouched
<1>9. CASE SendCompletes \/ SendEnds
  <2>1. UNCHANGED <<fill, pc, msg>> /\ (port' = Append(port, Failed) \/ port' = Append(port, Sent))
    BY <1>9 DEF SendCompletes, SendEnds
  <2>2. Failed \in Messages /\ Failed.kind = "failed" /\ Sent \in Messages /\ Sent.kind = "sent"
    BY DEF Failed, Sent, Messages
  <2>3. QED
    BY <1>1, <2>1, <2>2, FillUntouched
<1>10. ASSUME NEW t \in Threads, WSASend(t) PROVE FillFits'
  <2>1. UNCHANGED fill /\ (port' = port \/ port' = Append(port, Sent))
    BY <1>10 DEF WSASend
  <2>2. Sent \in Messages /\ Sent.kind = "sent"
    BY DEF Sent, Messages
  <2>3. \A u \in Threads : pc'[u] = "recved" => pc[u] = "recved" /\ msg'[u] = msg[u]
    BY <1>10 DEF WSASend, TypeOK
  <2>4. QED
    BY <1>1, <2>1, <2>2, <2>3, FillUntouched
<1>11. ASSUME NEW t \in Threads, OnRecvReply(t) PROVE FillFits'
  <2>1. UNCHANGED fill /\ port' = Append(port, Req(posted + 1)) /\ posted + 1 \in Packets
    BY <1>11, IOAssumption DEF OnRecvReply, TypeOK, Packets
  <2>2. Req(posted + 1) \in Messages /\ Req(posted + 1).kind = "req"
    BY <2>1, ReceivedMessages DEF Req
  <2>3. \A u \in Threads : pc'[u] = "recved" => pc[u] = "recved" /\ msg'[u] = msg[u]
    BY <1>11 DEF OnRecvReply, TypeOK
  <2>4. QED
    BY <1>1, <2>1, <2>2, <2>3, FillUntouched
<1>12. ASSUME NEW t \in Threads, Handle(t), UNCHANGED port, fill' =< fill, pc[t] # "recved" PROVE FillFits'
  <2>1. pc' = [pc EXCEPT ![t] = pc'[t]]
    BY <1>12, HandleMoves
  <2>2. pc'[t] # "recved"
    BY <1>12 DEF Handle, Goto, Collect, Sended, Unflag, Resend, Recved, Parse, OnRecvReply,
       OnRecvDisconnect, OnRecvNothing, SendIOCheck, SendIOExchange, SendIOSize, SendIOGiveUp,
       WSASend, SendRecheck, SendError, SendFailed, SendFailedCancel, RecvIOCheck, WSARecv,
       RecvRecheck, RecvFailed, RecvFailedCancel, CancelRegist, CancelRecv, CancelSend, Drop, TypeOK
  <2>3. \A u \in Threads : u # t => msg'[u] = msg[u]
    BY <1>12 DEF Handle, Goto, Collect, Sended, Unflag, Resend, Recved, Parse, OnRecvReply,
       OnRecvDisconnect, OnRecvNothing, SendIOCheck, SendIOExchange, SendIOSize, SendIOGiveUp,
       WSASend, SendRecheck, SendError, SendFailed, SendFailedCancel, RecvIOCheck, WSARecv,
       RecvRecheck, RecvFailed, RecvFailedCancel, CancelRegist, CancelRecv, CancelSend, Drop, TypeOK
  <2>4. QED
    BY <1>12, <2>1, <2>2, <2>3, FillUntouched DEF TypeOK
<1>13. ASSUME NEW t \in Threads, Parse(t) \/ Drop(t) PROVE FillFits'
  <2>1. UNCHANGED port /\ fill' =< fill /\ pc[t] # "recved"
    BY <1>1, <1>13 DEF Parse, Drop
  <2>2. QED
    BY <1>12, <1>13, <2>1 DEF Handle
<1>14. ASSUME NEW t \in Threads,
              \/ Collect(t) \/ Sended(t) \/ Unflag(t) \/ Resend(t) \/ OnRecvDisconnect(t) \/ OnRecvNothing(t)
              \/ SendIOCheck(t) \/ SendIOExchange(t) \/ SendIOSize(t) \/ SendIOGiveUp(t) \/ SendRecheck(t)
              \/ SendError(t) \/ SendFailed(t) \/ SendFailedCancel(t) \/ RecvIOCheck(t) \/ RecvRecheck(t)
              \/ RecvFailed(t) \/ RecvFailedCancel(t) \/ CancelRegist(t) \/ CancelRecv(t) \/ CancelSend(t)
       PROVE FillFits'
  <2>1. UNCHANGED <<port, fill>> /\ pc[t] # "recved"
    BY <1>14 DEF Collect, Sended, Unflag, Resend, OnRecvDisconnect, OnRecvNothing, SendIOCheck, SendIOExchange,
       SendIOSize, SendIOGiveUp, SendRecheck, SendError, SendFailed, SendFailedCancel, RecvIOCheck, RecvRecheck,
       RecvFailed, RecvFailedCancel, CancelRegist, CancelRecv, CancelSend
  <2>2. QED
    BY <1>1, <1>12, <1>14, <2>1 DEF Handle
<1>15. CASE CloserFind \/ PeerLeaves
  <2>1. UNCHANGED <<port, fill, msg>> /\ \A u \in Threads : pc'[u] = "recved" => pc[u] = "recved"
    BY <1>15 DEF CloserFind, PeerLeaves, TypeOK
  <2>2. QED
    BY <1>1, <2>1, FillUntouched
<1>16. QED
  BY <1>4, <1>5, <1>6, <1>7, <1>8, <1>9, <1>10, <1>11, <1>13, <1>14, <1>15 DEF Next, Handle

-----------------------------------------------------------------------------
(* The invariant.                                                          *)

\* OnNewConnect has returned: the accept thread has the one reference.
LEMMA InitCounts ==
  ASSUME Init
  PROVE  /\ At(Threads, InSession) = 1 /\ At(Threads, InFailure) = 0
         /\ At(Threads, SendPoints) = 0 /\ At(Threads, RecvPoints) = 1 /\ At(Workers, CancelPoints) = 0
         /\ \A M : Among(M, port) = 0
<1> USE IOAssumption
<1>1. \A t \in Threads : pc[t] = IF t = Acceptor THEN "recvIO" ELSE IF t = Closer THEN "close" ELSE "idle"
  BY DEF Init
<1>2. Acceptor \in Threads /\ Workers \subseteq Threads /\ Acceptor \notin Workers
  BY DEF Threads
<1>3. {t \in Threads : pc[t] \in InSession} = {Acceptor}
  BY <1>1, <1>2 DEF InSession, Pcs
<1>4. {t \in Threads : pc[t] \in RecvPoints} = {Acceptor}
  BY <1>1, <1>2 DEF RecvPoints
<1>5. {t \in Threads : pc[t] \in InFailure} = {} /\ {t \in Threads : pc[t] \in SendPoints} = {}
  BY <1>1 DEF InFailure, SendPoints
<1>6. {t \in Workers : pc[t] \in CancelPoints} = {}
  BY <1>1, <1>2 DEF CancelPoints
<1>7. At(Threads, InSession) = 1 /\ At(Threads, RecvPoints) = 1
  BY <1>3, <1>4, FS_Singleton DEF At
<1>8. At(Threads, InFailure) = 0 /\ At(Threads, SendPoints) = 0 /\ At(Workers, CancelPoints) = 0
  BY <1>5, <1>6, FS_EmptySet DEF At
<1>9. \A M : Among(M, port) = 0
  BY AmongEmpty DEF Init
<1>10. QED
  BY <1>7, <1>8, <1>9

\* The first state.
LEMMA InitEstablishes ==
  ASSUME Init
  PROVE  FillInv
<1> USE IOAssumption
<1>1. TypeOK
  <2>1. <<>> \in Seq(Packets) /\ <<>> \in Seq(Messages) /\ Len(<<>>) = 0
    OBVIOUS
  <2>2. None \in Messages
    BY DEF None, Messages
  <2>3. {batch, lost, inflight, dequeued, wire} \subseteq Seq(Packets) /\ port \in Seq(Messages)
    BY <2>1 DEF Init
  <2>4. /\ count \in Nat /\ deleted \in BOOLEAN /\ peerGone \in BOOLEAN
        /\ sendFlag \in {0, 1} /\ cancelFlag \in {0, 1}
        /\ sendOp \in OpStates /\ recvOp \in OpStates
        /\ queue \subseteq Packets /\ Cardinality(queue) =< QueueCap
        /\ Len(batch) =< QueueCap /\ broken \in BOOLEAN
        /\ fill \in 0 .. RecvCap - 1 /\ bytes \in 0 .. MaxBytes /\ posted \in 0 .. MaxPackets
    <3>1. 0 =< QueueCap /\ 0 \in 0 .. RecvCap - 1 /\ 0 \in 0 .. MaxBytes /\ 0 \in 0 .. MaxPackets
      OBVIOUS
    <3>2. Cardinality({}) = 0
      BY FS_EmptySet
    <3>3. QED
      BY <2>1, <3>1, <3>2 DEF Init, OpStates
  <2>5. freed \in [Packets -> Nat] /\ msg \in [Threads -> Messages] /\ pc \in [Threads -> Pcs]
    BY <2>2 DEF Init, Pcs
  <2>6. n \in [Threads -> 0 .. QueueCap]
    BY DEF Init
  <2>7. QED
    BY <2>3, <2>4, <2>5, <2>6 DEF TypeOK
<1>2. Roles
  BY DEF Init, Roles, Threads, CancelPoints, None
<1>3. RefsAreHeld /\ count = References
  <2>1. count = 1 /\ deleted = FALSE /\ Outstanding(sendOp) = 0 /\ Outstanding(recvOp) = 0 /\ Len(port) = 0
    BY DEF Init, Outstanding
  <2>2. References = 1
    BY <2>1, InitCounts DEF References
  <2>3. QED
    BY <2>1, <2>2 DEF RefsAreHeld
<1>4. OneSend /\ OneReceive
  <2>1. Outstanding(sendOp) = 0 /\ Outstanding(recvOp) = 0
    BY DEF Init, Outstanding
  <2>2. SendTokens = 0 /\ RecvTokens = 1
    BY <2>1, InitCounts DEF SendTokens, RecvTokens
  <2>3. QED
    BY <2>2 DEF OneSend, OneReceive
<1>5. PacketsConserved
  <2>1. SUFFICES ASSUME NEW p \in Packets
                 PROVE  /\ freed[p] + In(p, queue) + Among({p}, batch) + Among({p}, lost)
                                     + Among({Req(p)}, port)
                                     + Cardinality({t \in Threads : msg[t] = Req(p)}) = Posted(p)
                        /\ deleted => freed[p] + Among({p}, lost) = Posted(p)
    BY DEF PacketsConserved
  <2>2. {t \in Threads : msg[t] = Req(p)} = {}
    <3>1. None.kind # Req(p).kind
      BY DEF None, Req
    <3>2. \A t \in Threads : msg[t] = None
      BY DEF Init
    <3>3. QED
      BY <3>1, <3>2
  <2>3. Cardinality({t \in Threads : msg[t] = Req(p)}) = 0
    BY <2>2, FS_EmptySet
  <2>4. /\ freed[p] = 0 /\ In(p, queue) = 0 /\ Among({p}, batch) = 0 /\ Among({p}, lost) = 0
        /\ Among({Req(p)}, port) = 0
    BY AmongEmpty DEF Init, In
  <2>5. Posted(p) = 0
    BY DEF Init, Posted, Packets
  <2>6. QED
    BY <2>3, <2>4, <2>5
<1>6. CancelsAreFlagged
  BY DEF Init, CancelsAreFlagged
<1>7. StreamInOrder /\ ~broken
  <2>1. <<>> \in Seq(Packets) /\ <<>> \o <<>> = <<>> /\ IsPrefix(<<>>, <<>>)
    BY ZenonT(60), InARow, EmptySeq
  <2>2. QED
    BY <2>1 DEF Init, StreamInOrder, OnTheWay
<1>8. BatchIsInflight
  BY InitCounts DEF Init, BatchIsInflight, Unfilled, Unsended
<1>9. FillFits
  BY DEF Init, FillFits
<1>10. QED
  BY <1>1, <1>2, <1>3, <1>4, <1>5, <1>6, <1>7, <1>8, <1>9 DEF FillInv, IOInv

\* Every step, part by part.
LEMMA NextKeeps ==
  ASSUME IOInv, Next
  PROVE  IOInv'
<1> DEFINE Other == \/ \E w \in Workers : Take(w)
                    \/ CloserFind \/ RecvArrives \/ RecvEnds \/ SendCompletes \/ SendEnds \/ PeerLeaves
<1>1. /\ TypeOK /\ Roles /\ RefsAreHeld /\ OneSend /\ OneReceive /\ PacketsConserved /\ CancelsAreFlagged
      /\ broken => OtherErrors
      /\ broken \/ (StreamInOrder /\ BatchIsInflight)
  BY DEF IOInv
<1>2. (\E t \in Threads : Handle(t)) \/ Other
  BY DEF Next
<1>3. TypeOK'
  BY <1>1, <1>2, HandleTypes, TakeTypes, KernelTypes
<1>4. Roles'
  BY <1>1, <1>2, HandleRoles, OtherRoles
<1>5. RefsAreHeld'
  BY <1>1, <1>2, HandleRefs, OtherRefs
<1>6. OneSend'
  BY <1>1, <1>2, HandleOneSend, OtherOneSend
<1>7. OneReceive'
  BY <1>1, <1>2, HandleOneReceive, OtherOneReceive
<1>8. PacketsConserved'
  BY <1>1, <1>2, <1>3, HandlePackets, OtherPackets
<1>9. CancelsAreFlagged'
  BY <1>1, CancelsStayFlagged
<1>10. (broken => broken') /\ (broken' => OtherErrors)
  BY <1>1, BrokenStays
<1>11. broken' \/ StreamInOrder'
  BY <1>1, <1>3, <1>6, <1>10, StreamKeeps
<1>12. broken' \/ BatchIsInflight'
  BY <1>1, <1>2, <1>3, <1>10, HandleBatch, OtherBatch
<1>13. QED
  BY <1>3, <1>4, <1>5, <1>6, <1>7, <1>8, <1>9, <1>10, <1>11, <1>12 DEF IOInv

\* A step of something else.
LEMMA StutterKeeps ==
  ASSUME UNCHANGED vars
  PROVE  (IOInv => IOInv') /\ (FillInv => FillInv')
<1> USE DEF vars, flags, kernel, pkts
<1>1. (TypeOK => TypeOK') /\ (Roles => Roles') /\ (CancelsAreFlagged => CancelsAreFlagged')
  BY DEF TypeOK, Roles, CancelsAreFlagged
<1>2. References' = References /\ SendTokens' = SendTokens /\ RecvTokens' = RecvTokens
  BY DEF References, SendTokens, RecvTokens, At, Outstanding
<1>3. (RefsAreHeld => RefsAreHeld') /\ (OneSend => OneSend') /\ (OneReceive => OneReceive')
  BY <1>2 DEF RefsAreHeld, OneSend, OneReceive
<1>4. PacketsConserved => PacketsConserved'
  BY TracedUntouched
<1>5. (broken' = broken) /\ (StreamInOrder => StreamInOrder') /\ (BatchIsInflight => BatchIsInflight')
  BY <1>2 DEF StreamInOrder, OnTheWay, BatchIsInflight, Unfilled, Unsended
<1>6. FillFits => FillFits'
  BY DEF FillFits
<1>7. IOInv => IOInv'
  BY <1>1, <1>3, <1>4, <1>5 DEF IOInv
<1>8. QED
  BY <1>2, <1>6, <1>7 DEF FillInv

\* IOInv holds in every state: types, roles, the references held, one send, one receive
\* and the accounting of packets (the lost among them) always, the order of the stream
\* and the contents of sendedBuffer as long as no WSASend failed hard.
THEOREM Invariance == Spec => []IOInv
<1>1. Init => IOInv
  BY InitEstablishes DEF FillInv
<1>2. IOInv /\ [Next]_vars => IOInv'
  BY NextKeeps, StutterKeeps
<1>3. QED
  BY <1>1, <1>2, PTL DEF Spec

\* References counts something.
LEMMA ReferencesType == TypeOK => References \in Nat
<1>1. SUFFICES ASSUME TypeOK PROVE References \in Nat
  OBVIOUS
<1>2. /\ At(Threads, InSession) \in Nat /\ At(Threads, InFailure) \in Nat /\ Len(port) \in Nat
      /\ Outstanding(sendOp) \in {0, 1} /\ Outstanding(recvOp) \in {0, 1}
  BY <1>1, Counts
<1>3. QED
  BY <1>2 DEF References

\* And so in the next state.
LEMMA NextReferencesType == TypeOK' => (References \in Nat)'
BY ReferencesType, PTL

\* With a peer that always leaves a byte of recvBuffer free, recved refuses nothing
\* and forgets no reference.
THEOREM FillInvariance ==
  ASSUME ~PeerFills
  PROVE  Spec => []FillInv
<1>1. Init => FillInv
  BY InitEstablishes
<1>2. ASSUME FillInv, Next
      PROVE  FillInv'
  <2>1. /\ TypeOK /\ Roles /\ RefsAreHeld /\ OneSend /\ OneReceive /\ IOInv /\ FillFits
        /\ count = References
    BY <1>2 DEF FillInv, IOInv
  <2>2. IOInv' /\ TypeOK'
    BY <1>2, <2>1, NextKeeps DEF IOInv
  <2>3. FillFits'
    BY <1>2, <2>1, <2>2, FillKeeps
  <2>4. References \in Nat /\ References' \in Nat /\ count' \in Nat /\ count \in Nat
    BY <2>1, <2>2, ReferencesType, NextReferencesType DEF TypeOK
  <2>5. count' - References' = count - References
    <3>1. ASSUME NEW t \in Threads, Handle(t)
          PROVE  count' - References' = count - References
      <4>1. ~(Recved(t) /\ RecvCap - fill =< msg[t].len)
        <5>1. Recved(t) => pc[t] = "recved"
          BY DEF Recved, Goto
        <5>2. pc[t] = "recved" => msg[t].len \in Nat
          <6>1. msg[t] \in Messages /\ (pc[t] = "recved" => msg[t].kind = "recv")
            BY <2>1 DEF TypeOK, Roles
          <6>2. QED
            BY <6>1 DEF Messages
        <5>3. fill \in Nat /\ RecvCap \in Nat
          BY <2>1, IOAssumption DEF TypeOK
        <5>4. QED
          BY <2>1, <5>1, <5>2, <5>3 DEF FillFits
      <4>2. QED
        BY <2>1, <3>1, <4>1, HandleRefs
    <3>2. QED
      BY <1>2, <2>1, <3>1, OtherRefs DEF Next
  <2>6. count' = References'
    <3>1. count' - References' = References - References
      BY <2>1, <2>5
    <3>2. \A a, b, c \in Nat : c - b = a - a => c = b
      OBVIOUS
    <3>3. QED
      BY <2>4, <3>1, <3>2
  <2>7. QED
    BY <2>2, <2>3, <2>6 DEF FillInv
<1>3. FillInv /\ [Next]_vars => FillInv'
  BY <1>2, StutterKeeps
<1>4. QED
  BY <1>1, <1>3, PTL DEF Spec

-----------------------------------------------------------------------------
(* The properties.                                                         *)

\* Every member of session stays in its range: sendBuffer and recvBuffer never hold
\* more than they can (session.cpp collect, recved, sended).
THEOREM TypeCorrect == Spec => []TypeOK
<1>1. IOInv => TypeOK
  BY DEF IOInv
<1>2. QED
  BY <1>1, Invariance, PTL

\* IOcount never falls below the references there are, so that the session is not
\* deleted under one of them, and the last decrementIO deletes it.
THEOREM NoReferenceIsMissing == Spec => []RefsAreHeld
<1>1. IOInv => RefsAreHeld
  BY DEF IOInv
<1>2. QED
  BY <1>1, Invariance, PTL

\* Unless the peer fills recvBuffer to its last byte, IOcount is exactly the number of
\* references: no path through workerThread, sendIO, recvIO and disconnectReq forgets one.
THEOREM EveryReferenceIsOwned ==
  ASSUME ~PeerFills
  PROVE  Spec => []RefsAreOwned
<1>1. FillInv => RefsAreOwned
  BY DEF FillInv, IOInv, RefsAreHeld, RefsAreOwned
<1>2. QED
  BY <1>1, FillInvariance, PTL

\* sendFlag (network.cpp sendIO) keeps the send to one thread or operation at a time.
THEOREM OneSendAtATime == Spec => []OneSend
<1>1. IOInv => OneSend
  BY DEF IOInv
<1>2. QED
  BY <1>1, Invariance, PTL

\* recvBuffer, which has no lock, has one user at a time.
THEOREM OneReceiveAtATime == Spec => []OneReceive
<1>1. IOInv => OneReceive
  BY DEF IOInv
<1>2. QED
  BY <1>1, Invariance, PTL

\* Every packet given to sendReq is in one place, or its reference was dropped once; one
\* whose pointer found sendedBuffer full (session.cpp:123) counts as lost, and only then
\* is its reference still there when the session is deleted.
THEOREM PacketsAreAccounted == Spec => []PacketsConserved
<1>1. IOInv => PacketsConserved
  BY DEF IOInv
<1>2. QED
  BY <1>1, Invariance, PTL

\* Unless a WSASend failed hard, what is on the wire are the packets in the order sendIO
\* took them from sendBuffer, none skipped.
THEOREM StreamStaysIntact == Spec => []StreamIntact
<1>1. ASSUME IOInv, ~broken
      PROVE  IsPrefix(wire, dequeued)
  <2>1. /\ wire \in Seq(Packets) /\ OnTheWay \in Seq(Packets) /\ dequeued \in Seq(Packets)
        /\ IsPrefix(wire \o OnTheWay, dequeued)
    BY <1>1 DEF IOInv, TypeOK, StreamInOrder, OnTheWay
  <2>2. QED
    BY <2>1, InARow
<1>2. IOInv => StreamIntact
  BY <1>1 DEF StreamIntact
<1>3. QED
  BY <1>2, Invariance, PTL

\* Unless a WSASend failed hard, sendedBuffer is empty when the next send is collected,
\* and session.cpp:123 loses no pointer.
THEOREM SendedBufferFits == Spec => []SendedFits
<1>1. IOInv => SendedFits
  BY DEF IOInv, SendedFits, BatchIsInflight, Unfilled
<1>2. QED
  BY <1>1, Invariance, PTL

\* As long as WSASend fails only because the peer is gone, the loop of sended ends:
\* the bytes reported are those of all the packets in sendedBuffer.
THEOREM SendedEnds ==
  ASSUME ~OtherErrors
  PROVE  Spec => []SendedReachesZero
<1>1. ASSUME IOInv
      PROVE  SendedReachesZero
  <2>1. SUFFICES ASSUME NEW w \in Workers, pc[w] = "sended"
                 PROVE  PrefixesOf(Bytes(inflight)) # {}
    BY DEF SendedReachesZero
  <2>2. w \in Threads
    BY DEF Threads
  <2>3. batch = inflight
    BY <1>1, <2>1, <2>2 DEF IOInv, BatchIsInflight, Unsended
  <2>4. batch \in Seq(Packets)
    BY <1>1 DEF IOInv, TypeOK
  <2>5. Len(batch) \in 0 .. Len(batch)
    BY <2>4, LenProperties
  <2>6. Bytes(SubSeq(batch, 1, Len(batch))) = Bytes(batch)
    BY <2>4, <2>5, OnlyAllHaveItsBytes
  <2>7. QED
    BY <2>3, <2>5, <2>6 DEF PrefixesOf
<1>2. QED
  BY <1>1, Invariance, PTL

-----------------------------------------------------------------------------
(* One session implements SessionContract.                                 *)
(*                                                                         *)
(* A packet that Parse takes out of recvBuffer delivers it to OnRecv, which *)
(* OnRecvReply, OnRecvNothing or the end of disconnectReq leave; the three *)
(* cancelIORegist cancel; the closer finds the session and gives it back;  *)
(* the last Drop deletes it.  Every other step changes nothing of the      *)
(* contract.                                                               *)

\* The state of the contract that a state of the session stands for.
InCallback == {"OnRecv", "cancel", "cancelRecv", "cancelSend"}
InDisconnect == {"cancel", "cancelRecv", "cancelSend", "drop"}
Stage == IF deleted THEN "deleted" ELSE "open"
Inside == {w \in Workers : pc[w] \in InCallback}
Holders == {t \in {Closer} : pc[t] \in InDisconnect}
Cancelled == IF cancelFlag = 1 THEN {"session"} ELSE {}

\* A step that concerns nobody who knows the contract.
LEMMA Quiet ==
  ASSUME UNCHANGED <<deleted, cancelFlag>>, Inside' = Inside, Holders' = Holders
  PROVE  UNCHANGED Contract!vars
<1>1. Stage' = Stage /\ Cancelled' = Cancelled
  BY DEF Stage, Cancelled
<1>2. QED
  BY <1>1 DEF Contract!vars, Stage, Inside, Holders, Cancelled, InCallback, InDisconnect

\* The steps of the contract, in terms of that state.
LEMMA Delivers ==
  ASSUME NEW t \in Threads, ~deleted, Inside = {}, Inside' = {t},
         UNCHANGED <<deleted, cancelFlag>>, Holders' = Holders
  PROVE  Contract!Next
<1>1. Contract!Deliver("session", t)
  BY DEF Contract!Deliver, Stage, Inside, Holders, Cancelled, InCallback, InDisconnect
<1>2. QED
  BY <1>1 DEF Contract!Next

\* OnRecv returns.
LEMMA Returns ==
  ASSUME NEW t \in Inside, Inside' = Inside \ {t}, t # Closer,
         UNCHANGED <<deleted, cancelFlag>>, Holders' = Holders
  PROVE  Contract!Next
<1>1. Holders \ {t} = Holders
  BY DEF Holders
<1>2. Contract!Return("session", t)
  BY <1>1 DEF Contract!Return, Stage, Inside, Holders, Cancelled, InCallback, InDisconnect
<1>3. t \in Threads
  BY DEF Inside, Threads
<1>4. QED
  BY <1>2, <1>3 DEF Contract!Next

\* findSession of the closer.
LEMMA Finds ==
  ASSUME ~deleted, Holders = {}, Holders' = {Closer}, UNCHANGED <<deleted, cancelFlag>>, Inside' = Inside
  PROVE  Contract!Next
<1>1. Contract!Find("session", Closer)
  BY DEF Contract!Find, Stage, Inside, Holders, Cancelled, InCallback, InDisconnect
<1>2. Closer \in Threads
  BY DEF Threads
<1>3. QED
  BY <1>1, <1>2 DEF Contract!Next

\* The closer gives its reference back.
LEMMA GivesBack ==
  ASSUME Holders = {Closer}, Holders' = {}, UNCHANGED <<deleted, cancelFlag>>, Inside' = Inside
  PROVE  Contract!Next
<1>1. Contract!GiveBack("session", Closer)
  BY DEF Contract!GiveBack, Stage, Inside, Holders, Cancelled, InCallback, InDisconnect
<1>2. Closer \in Threads
  BY DEF Threads
<1>3. QED
  BY <1>1, <1>2 DEF Contract!Next

\* The cancel flag is set.
LEMMA Cancels ==
  ASSUME ~deleted, cancelFlag' = 1, UNCHANGED deleted, Inside' = Inside, Holders' = Holders
  PROVE  Contract!Next
<1>1. Cancelled' = Cancelled \cup {"session"} /\ Stage = "open" /\ Stage' = "open"
  BY DEF Cancelled, Stage
<1>2. Contract!Cancel("session")
  BY <1>1 DEF Contract!Cancel, Stage, Inside, Holders, Cancelled, InCallback, InDisconnect
<1>3. QED
  BY <1>2 DEF Contract!Next

\* The last reference goes.
LEMMA Deletes ==
  ASSUME NEW t \in Threads, ~deleted, deleted' = TRUE, UNCHANGED cancelFlag,
         Inside = {}, Inside' = {}, Holders \subseteq {t}, Holders' = {}
  PROVE  Contract!Next
<1>1. Contract!Delete("session", t)
  BY DEF Contract!Delete, Stage, Inside, Holders, Cancelled, InCallback, InDisconnect
<1>2. QED
  BY <1>1 DEF Contract!Next

-----------------------------------------------------------------------------
\* Who is in a callback and who found the session, when one thread moves.
LEMMA WhoIsThere ==
  ASSUME TypeOK, NEW t \in Threads, pc' = [pc EXCEPT ![t] = pc'[t]]
  PROVE  /\ t # Closer \/ (pc'[t] \in InDisconnect <=> pc[t] \in InDisconnect) => Holders' = Holders
         /\ t \notin Workers \/ (pc'[t] \in InCallback <=> pc[t] \in InCallback) => Inside' = Inside
         /\ t \in Workers /\ pc'[t] \in InCallback => Inside' = Inside \cup {t}
         /\ t \in Workers /\ pc'[t] \notin InCallback => Inside' = Inside \ {t}
<1>1. \A u \in Threads : u # t => pc'[u] = pc[u]
  BY DEF TypeOK
<1>2. Workers \subseteq Threads /\ Closer \in Threads
  BY DEF Threads
<1>3. QED
  BY <1>1, <1>2 DEF Inside, Holders

\* A thread at a point of the code that only workers reach.
LEMMA WorkersOnly ==
  ASSUME Roles, NEW t \in Threads,
         pc[t] \in {"collect", "sended", "unflag", "resend", "recved", "parse", "OnRecv", "sendIO", "exchange",
                    "size", "giveup", "WSASend", "sendRecheck", "sendError", "sendFailed", "sendFailedCancel"}
  PROVE  t \in Workers /\ t # Closer
BY IOAssumption DEF Roles, Threads, CancelPoints

\* The worker that parses is alone in the receiving of the session.
LEMMA NobodyInCallback ==
  ASSUME TypeOK, OneReceive, NEW t \in Threads, pc[t] = "parse"
  PROVE  Inside = {}
<1>1. /\ At(Threads, RecvPoints) \in Nat /\ At(Workers, CancelPoints) \in Nat
      /\ Outstanding(recvOp) \in {0, 1} /\ Among(Received, port) \in Nat
      /\ At(Threads, RecvPoints) > 0
      /\ \A w \in Workers : pc[w] \in CancelPoints => At(Workers, CancelPoints) > 0
  BY Counts DEF RecvPoints
<1>2. At(Threads, RecvPoints) + At(Workers, CancelPoints) + Outstanding(recvOp) + Among(Received, port) =< 1
  BY DEF OneReceive, RecvTokens
<1>3. At(Threads, RecvPoints) =< 1 /\ At(Workers, CancelPoints) = 0
  BY <1>1, <1>2
<1>4. \A u \in Threads : pc[u] \in RecvPoints => u = t
  BY <1>3, TwoCount DEF RecvPoints
<1>5. \A w \in Workers : pc[w] \notin CancelPoints /\ pc[w] # "OnRecv"
  BY <1>1, <1>3, <1>4 DEF RecvPoints, Threads
<1>6. QED
  BY <1>5 DEF Inside, InCallback, CancelPoints

\* A step of a thread.
LEMMA HandleSteps ==
  ASSUME TypeOK, Roles, RefsAreHeld, OneReceive, NEW t \in Threads, Handle(t)
  PROVE  UNCHANGED Contract!vars \/ Contract!Next
<1> USE DEF Goto, flags
<1>1. pc' = [pc EXCEPT ![t] = pc'[t]]
  BY HandleMoves
<1>2. pc[t] \in InSession => ~deleted
  BY InsideCounts
<1>3. CASE Parse(t)
  <2>1. t \in Workers /\ t # Closer /\ pc[t] = "parse" /\ UNCHANGED <<deleted, cancelFlag>>
    BY <1>3, WorkersOnly DEF Parse
  <2>2. Holders' = Holders
    BY <1>1, <2>1, WhoIsThere
  <2>3. CASE fill >= PacketSize
    <3>1. pc'[t] = "OnRecv"
      BY <1>3, <2>3 DEF Parse, TypeOK
    <3>2. Inside = {} /\ Inside' = {t}
      <4>1. Inside = {}
        BY <2>1, NobodyInCallback
      <4>2. Inside' = Inside \cup {t}
        BY <1>1, <2>1, <3>1, WhoIsThere DEF InCallback
      <4>3. QED
        BY <4>1, <4>2
    <3>3. ~deleted
      BY <1>2, <2>1 DEF InSession, Pcs
    <3>4. QED
      BY <2>1, <2>2, <3>2, <3>3, Delivers
  <2>4. CASE ~(fill >= PacketSize)
    <3>1. pc'[t] = "recvIO"
      BY <1>3, <2>4 DEF Parse, TypeOK
    <3>2. Inside' = Inside
      BY <1>1, <2>1, <3>1, WhoIsThere DEF InCallback
    <3>3. QED
      BY <2>1, <2>2, <3>2, Quiet
  <2>5. QED
    BY <2>3, <2>4
<1>4. CASE OnRecvReply(t) \/ OnRecvNothing(t) \/ (CancelSend(t) /\ t \in Workers)
  <2>1. t \in Workers /\ t # Closer /\ UNCHANGED <<deleted, cancelFlag>>
    <3>1. CASE CancelSend(t) /\ t \in Workers
      BY <3>1, IOAssumption DEF CancelSend
    <3>2. CASE OnRecvReply(t) \/ OnRecvNothing(t)
      BY <3>2, WorkersOnly DEF OnRecvReply, OnRecvNothing
    <3>3. QED
      BY <1>4, <3>1, <3>2
  <2>2. pc[t] \in InCallback /\ pc'[t] = "parse"
    BY <1>4, <2>1 DEF OnRecvReply, OnRecvNothing, CancelSend, InCallback, TypeOK
  <2>3. t \in Inside /\ Inside' = Inside \ {t} /\ Holders' = Holders
    BY <1>1, <2>1, <2>2, WhoIsThere DEF Inside, InCallback
  <2>4. QED
    BY <2>1, <2>3, Returns
<1>5. CASE CancelRegist(t) \/ SendFailed(t) \/ RecvFailed(t)
  <2>1. UNCHANGED deleted /\ cancelFlag' = 1 /\ ~deleted
    BY <1>2, <1>5 DEF CancelRegist, SendFailed, RecvFailed, InSession, Pcs
  <2>2. pc'[t] \in InDisconnect <=> pc[t] \in InDisconnect
    BY <1>5 DEF CancelRegist, SendFailed, RecvFailed, InDisconnect, TypeOK
  <2>3. pc'[t] \in InCallback <=> pc[t] \in InCallback
    BY <1>5 DEF CancelRegist, SendFailed, RecvFailed, InCallback, TypeOK
  <2>4. Holders' = Holders /\ Inside' = Inside
    BY <1>1, <2>2, <2>3, WhoIsThere
  <2>5. QED
    BY <2>1, <2>4, Cancels
<1>6. CASE Drop(t)
  <2>1. pc[t] = "drop" /\ pc'[t] \in {"idle", "done"} /\ UNCHANGED cancelFlag /\ ~deleted
    BY <1>2, <1>6 DEF Drop, InSession, Pcs, TypeOK
  <2>2. Inside' = Inside
    BY <1>1, <2>1, WhoIsThere DEF InCallback
  <2>3. CASE count = 1
    <3>1. \A u \in Threads : pc[u] \in InSession => u = t
      BY <2>1, <2>3, AloneAtLast DEF InSession, Pcs
    <3>2. Inside = {}
      BY <2>1, <3>1 DEF Inside, InCallback, InSession, Pcs, Threads
    <3>3. Holders \subseteq {t}
      BY <3>1 DEF Holders, InDisconnect, InSession, Pcs, Threads
    <3>4. Holders' = {}
      <4>1. \A u \in Threads : u # t => pc'[u] = pc[u]
        BY <1>1 DEF TypeOK
      <4>2. Closer \in Threads
        BY DEF Threads
      <4>3. QED
        BY <2>1, <3>3, <4>1, <4>2 DEF Holders, InDisconnect
    <3>5. deleted' = TRUE
      BY <1>6, <2>3 DEF Drop
    <3>6. QED
      BY <2>1, <2>2, <3>2, <3>3, <3>4, <3>5, Deletes
  <2>4. CASE count # 1
    <3>1. UNCHANGED deleted
      BY <1>6, <2>4 DEF Drop
    <3>2. CASE t = Closer
      <4>1. Holders = {Closer} /\ Holders' = {}
        BY <2>1, <3>2 DEF Holders, InDisconnect
      <4>2. QED
        BY <2>1, <2>2, <3>1, <4>1, GivesBack
    <3>3. CASE t # Closer
      <4>1. Holders' = Holders
        BY <1>1, <3>3, WhoIsThere
      <4>2. QED
        BY <2>1, <2>2, <3>1, <4>1, Quiet
    <3>4. QED
      BY <3>2, <3>3
  <2>5. QED
    BY <2>3, <2>4
<1>7. ASSUME UNCHANGED <<deleted, cancelFlag>>, t # Closer \/ (pc'[t] \in InDisconnect <=> pc[t] \in InDisconnect),
             pc'[t] \in InCallback <=> pc[t] \in InCallback
      PROVE  UNCHANGED Contract!vars
  BY <1>1, <1>7, WhoIsThere, Quiet
<1>8. CASE CancelRecv(t) \/ (CancelSend(t) /\ t \notin Workers)
  <2>1. UNCHANGED <<deleted, cancelFlag>>
    BY <1>8 DEF CancelRecv, CancelSend
  <2>2. CASE CancelRecv(t)
    BY <1>7, <2>1, <2>2 DEF CancelRecv, InCallback, InDisconnect, TypeOK
  <2>3. CASE CancelSend(t) /\ t \notin Workers
    <3>1. t = Closer
      BY <2>3 DEF CancelSend, Roles, Threads
    <3>2. Holders' = Holders /\ Inside' = Inside
      <4>1. pc'[t] \in InDisconnect <=> pc[t] \in InDisconnect
        BY <2>3, <3>1 DEF CancelSend, InDisconnect, TypeOK
      <4>2. QED
        BY <1>1, <2>3, <4>1, WhoIsThere
    <3>3. QED
      BY <2>1, <3>2, Quiet
  <2>4. QED
    BY <1>8, <2>2, <2>3
<1>9. CASE OnRecvDisconnect(t)
  <2>1. t # Closer /\ UNCHANGED <<deleted, cancelFlag>>
    BY <1>9, WorkersOnly DEF OnRecvDisconnect
  <2>2. QED
    BY <1>7, <1>9, <2>1 DEF OnRecvDisconnect, InCallback, TypeOK
<1>10. CASE RecvIOCheck(t) \/ WSARecv(t) \/ RecvRecheck(t) \/ RecvFailedCancel(t)
  <2>1. t # Closer
    BY <1>10 DEF RecvIOCheck, WSARecv, RecvRecheck, RecvFailedCancel, Roles, CancelPoints
  <2>2. UNCHANGED <<deleted, cancelFlag>> /\ pc'[t] \notin InCallback /\ pc[t] \notin InCallback
    BY <1>10 DEF RecvIOCheck, WSARecv, RecvRecheck, RecvFailedCancel, InCallback, TypeOK
  <2>3. QED
    BY <1>7, <2>1, <2>2
<1>11. CASE \/ Collect(t) \/ Sended(t) \/ Unflag(t) \/ Resend(t) \/ Recved(t) \/ SendIOCheck(t)
            \/ SendIOExchange(t) \/ SendIOSize(t) \/ SendIOGiveUp(t) \/ WSASend(t) \/ SendRecheck(t)
            \/ SendError(t) \/ SendFailedCancel(t)
  <2>1. t # Closer
    BY <1>11, WorkersOnly DEF Collect, Sended, Unflag, Resend, Recved, SendIOCheck, SendIOExchange, SendIOSize,
       SendIOGiveUp, WSASend, SendRecheck, SendError, SendFailedCancel
  <2>2. UNCHANGED <<deleted, cancelFlag>>
    BY <1>11 DEF Collect, Sended, Unflag, Resend, Recved, SendIOCheck, SendIOExchange, SendIOSize,
       SendIOGiveUp, WSASend, SendRecheck, SendError, SendFailedCancel
  <2>3. pc'[t] \notin InCallback /\ pc[t] \notin InCallback
    BY <1>11 DEF Collect, Sended, Unflag, Resend, Recved, SendIOCheck, SendIOExchange, SendIOSize,
       SendIOGiveUp, WSASend, SendRecheck, SendError, SendFailedCancel, InCallback, TypeOK
  <2>4. QED
    BY <1>7, <2>1, <2>2, <2>3
<1>12. QED
  BY <1>3, <1>4, <1>5, <1>6, <1>8, <1>9, <1>10, <1>11 DEF Handle

\* A step of the completion port, of the closer's lookup, of the kernel or of the peer.
LEMMA OtherSteps ==
  ASSUME TypeOK,
         \/ \E w \in Workers : Take(w)
         \/ CloserFind \/ RecvArrives \/ RecvEnds \/ SendCompletes \/ SendEnds \/ PeerLeaves
  PROVE  UNCHANGED Contract!vars \/ Contract!Next
<1> USE IOAssumption DEF flags
<1>1. ASSUME NEW w \in Workers, Take(w) PROVE UNCHANGED Contract!vars
  <2>1. w \in Threads /\ w # Closer /\ pc' = [pc EXCEPT ![w] = pc'[w]]
    BY <1>1 DEF Take, Threads, TypeOK
  <2>2. pc[w] \notin InCallback /\ pc'[w] \notin InCallback /\ UNCHANGED <<deleted, cancelFlag>>
    BY <1>1, <2>1 DEF Take, InCallback, TypeOK
  <2>3. Holders' = Holders /\ Inside' = Inside
    BY <2>1, <2>2, WhoIsThere
  <2>4. QED
    BY <2>2, <2>3, Quiet
<1>2. CASE CloserFind
  <2>1. /\ Closer \in Threads \ Workers /\ pc' = [pc EXCEPT ![Closer] = pc'[Closer]]
        /\ UNCHANGED <<deleted, cancelFlag>> /\ pc[Closer] = "close"
    BY <1>2 DEF CloserFind, Threads, TypeOK
  <2>2. Inside' = Inside
    BY <2>1, WhoIsThere
  <2>3. CASE deleted
    <3>1. pc'[Closer] = "done"
      BY <1>2, <2>3 DEF CloserFind, TypeOK, Threads
    <3>2. Holders' = Holders
      BY <2>1, <3>1 DEF Holders, InDisconnect
    <3>3. QED
      BY <2>1, <2>2, <3>2, Quiet
  <2>4. CASE ~deleted
    <3>1. pc'[Closer] = "cancel"
      BY <1>2, <2>4 DEF CloserFind, TypeOK, Threads
    <3>2. Holders = {} /\ Holders' = {Closer}
      BY <2>1, <3>1 DEF Holders, InDisconnect
    <3>3. QED
      BY <2>1, <2>2, <2>4, <3>2, Finds
  <2>5. QED
    BY <2>3, <2>4
<1>3. CASE RecvArrives \/ RecvEnds \/ SendCompletes \/ SendEnds \/ PeerLeaves
  <2>1. UNCHANGED <<deleted, cancelFlag, pc>>
    BY <1>3 DEF RecvArrives, RecvEnds, SendCompletes, SendEnds, PeerLeaves
  <2>2. Holders' = Holders /\ Inside' = Inside
    BY <2>1 DEF Holders, Inside
  <2>3. QED
    BY <2>1, <2>2, Quiet
<1>4. QED
  BY <1>1, <1>2, <1>3

\* A session keeps what network.h:70-99 promises the content: OnRecv runs in one
\* worker at a time, and the session is deleted neither under a callback nor under
\* the thread that found it, for every number of workers and packets.
THEOREM ImplementsContract == Spec => ImplementsSessionContract
<1>1. Init => Contract!Init
  <2> SUFFICES ASSUME Init PROVE Contract!Init
    OBVIOUS
  <2>1. Inside = {} /\ Holders = {}
    BY IOAssumption DEF Init, Inside, Holders, InCallback, InDisconnect, Threads
  <2>2. Stage = "open" /\ Cancelled = {}
    BY DEF Init, Stage, Cancelled
  <2>3. QED
    BY <2>1, <2>2 DEF Contract!Init, Stage, Inside, Holders, Cancelled, InCallback, InDisconnect
<1>2. ASSUME IOInv, [Next]_vars
      PROVE  [UNCHANGED Contract!vars \/ Contract!Next]_(Contract!vars)
  <2>1. TypeOK /\ Roles /\ RefsAreHeld /\ OneReceive
    BY <1>2 DEF IOInv
  <2>2. CASE Next
    BY <2>1, <2>2, HandleSteps, OtherSteps DEF Next
  <2>3. CASE UNCHANGED vars
    <3>1. Inside' = Inside /\ Holders' = Holders /\ UNCHANGED <<deleted, cancelFlag>>
      BY <2>3 DEF vars, flags, Inside, Holders
    <3>2. QED
      BY <3>1, Quiet
  <2>4. QED
    BY <1>2, <2>2, <2>3
<1>3. QED
  BY <1>1, <1>2, Invariance, PTL DEF Spec, ImplementsSessionContract, Contract!Spec
=============================================================================
