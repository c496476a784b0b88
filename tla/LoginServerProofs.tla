--------------------------- MODULE LoginServerProofs ---------------------------
(***************************************************************************)
(* The invariants of the login server, for any sessions, workers, clock    *)
(* and threshold: IOcount counts the references, one thread reports the    *)
(* end of a session, connectionMap has exactly the registered sessions and *)
(* does not change under update(), and the callbacks keep the contract of  *)
(* a session.  What is said of every session is shown of one, Counted(s).  *)
(***************************************************************************)
EXTENDS LoginServer, Counting

-----------------------------------------------------------------------------
(* Threads with a session.                                                 *)

\* There are finitely many threads.
LEMMA ThreadsFinite == IsFiniteSet(Threads)
<1>1. Threads = (Workers \cup {Acceptor}) \cup {Timer}
  BY DEF Threads
<1>2. QED
  BY <1>1, LoginAssumption, FS_AddElement

\* Their number is a natural number, positive when there is one, and grows with the
\* places that count.
LEMMA WithType ==
  ASSUME NEW T \in SUBSET Threads, NEW S, NEW s
  PROVE  /\ With(T, S, s) \in Nat
         /\ \A t \in T : cur[t] = s /\ pc[t] \in S => With(T, S, s) > 0
         /\ With(T, S, s) > 0 => \E t \in T : cur[t] = s /\ pc[t] \in S
         /\ \A R \in SUBSET S : With(T, R, s) =< With(T, S, s)
<1> DEFINE A == {t \in T : cur[t] = s /\ pc[t] \in S}
<1>1. IsFiniteSet(A)
  BY ThreadsFinite, FS_Subset
<1>2. Cardinality(A) \in Nat /\ (Cardinality(A) = 0 <=> A = {})
  BY <1>1, FS_CardinalityType, FS_EmptySet
<1>3. \A R \in SUBSET S : With(T, R, s) =< Cardinality(A)
  <2> TAKE R \in SUBSET S
  <2>1. {t \in T : cur[t] = s /\ pc[t] \in R} \in SUBSET A
    OBVIOUS
  <2>2. HIDE DEF A
  <2>3. Cardinality({t \in T : cur[t] = s /\ pc[t] \in R}) =< Cardinality(A)
    BY <1>1, <2>1, FS_Subset
  <2>4. QED
    BY <2>3 DEF With
<1>4. QED
  BY <1>2, <1>3 DEF With

\* Two of them count as two.
LEMMA TwoWith ==
  ASSUME NEW T \in SUBSET Threads, NEW S, NEW s, NEW t \in T, NEW u \in T,
         cur[t] = s, pc[t] \in S, cur[u] = s, pc[u] \in S, With(T, S, s) =< 1
  PROVE  t = u
<1> SUFFICES ASSUME t # u PROVE FALSE
  OBVIOUS
<1> DEFINE A == {x \in T : cur[x] = s /\ pc[x] \in S}
<1>1. IsFiniteSet(A) /\ Cardinality(A) \in Nat
  BY ThreadsFinite, FS_Subset, FS_CardinalityType
<1>2. IsFiniteSet(A \ {t}) /\ Cardinality(A \ {t}) = Cardinality(A) - 1
  BY <1>1, FS_RemoveElement
<1>3. u \in A \ {t}
  OBVIOUS
<1>4. Cardinality(A \ {t}) # 0
  BY <1>2, <1>3, FS_EmptySet
<1>5. Cardinality(A \ {t}) \in Nat
  BY <1>2, FS_CardinalityType
<1>6. QED
  BY <1>1, <1>2, <1>4, <1>5 DEF With

\* One thread moves, or changes its session.
LEMMA WithMoves ==
  ASSUME TypeOK, NEW T \in SUBSET Threads, NEW S, NEW s, NEW t \in Threads,
         NEW to, pc' = [pc EXCEPT ![t] = to], NEW c, cur' = [cur EXCEPT ![t] = c]
  PROVE  With(T, S, s)' = With(T, S, s)
             + (IF t \in T /\ c = s /\ to \in S THEN 1 ELSE 0)
             - (IF t \in T /\ cur[t] = s /\ pc[t] \in S THEN 1 ELSE 0)
<1> DEFINE A == {u \in T : cur[u] = s /\ pc[u] \in S}
           B == {u \in T : cur'[u] = s /\ pc'[u] \in S}
<1>1. IsFiniteSet(A)
  BY ThreadsFinite, FS_Subset
<1>2. /\ A \ {t} = B \ {t}
      /\ t \in B <=> t \in T /\ c = s /\ to \in S
      /\ t \in A <=> t \in T /\ cur[t] = s /\ pc[t] \in S
  BY DEF TypeOK
<1>3. With(T, S, s) = Cardinality(A) /\ With(T, S, s)' = Cardinality(B)
  BY DEF With
<1>4. HIDE DEF A, B
<1>5. Cardinality(B) = Cardinality(A) + (IF t \in B THEN 1 ELSE 0) - (IF t \in A THEN 1 ELSE 0)
  BY <1>1, <1>2, OneChanges
<1>6. QED
  BY <1>2, <1>3, <1>5

-----------------------------------------------------------------------------
(* One session.                                                            *)

\* What the counters of a session have to do with the threads, its receive and the
\* completion port.
Counted(s) ==
    /\ refs[s] = With(Serving, InLoop, s) + With(Threads, InFound, s) + Pending(s)
                 + Among({s} \X Kinds, port)
    /\ phase[s] = "open" <=> refs[s] > 0
    /\ With(Threads, {"OnDisconnect"}, s) = IF phase[s] = "deleted" THEN 1 ELSE 0
    /\ With(Serving, Receiving, s) + Pending(s) + Among({<<s, "data">>}, port) =< 1

\* That is what the invariant says.
LEMMA AllCounted ==
  (\A s \in Sessions : Counted(s)) <=> RefsAreExact /\ OneReports /\ OneReceive
BY DEF Counted, RefsAreExact, OneReports, OneReceive

\* The types of what is counted.
LEMMA CountTypes ==
  TypeOK => \A s \in Sessions :
        /\ With(Serving, InLoop, s) \in Nat /\ With(Threads, InFound, s) \in Nat
        /\ With(Threads, {"OnDisconnect"}, s) \in Nat /\ With(Serving, Receiving, s) \in Nat
        /\ With(Serving, Receiving, s) =< With(Serving, InLoop, s)
        /\ Pending(s) \in {0, 1}
        /\ Among({s} \X Kinds, port) \in Nat /\ Among({<<s, "data">>}, port) \in Nat
        /\ refs[s] \in Nat
        /\ phase[s] \in {"none", "open", "deleted", "ended"}
        /\ recv[s] \in {"none", "pending", "cancelled", "refused"}
<1> SUFFICES ASSUME TypeOK, NEW s \in Sessions
             PROVE  /\ With(Serving, InLoop, s) \in Nat /\ With(Threads, InFound, s) \in Nat
                    /\ With(Threads, {"OnDisconnect"}, s) \in Nat /\ With(Serving, Receiving, s) \in Nat
                    /\ With(Serving, Receiving, s) =< With(Serving, InLoop, s)
                    /\ Pending(s) \in {0, 1}
                    /\ Among({s} \X Kinds, port) \in Nat /\ Among({<<s, "data">>}, port) \in Nat
                    /\ refs[s] \in Nat
                    /\ phase[s] \in {"none", "open", "deleted", "ended"}
                    /\ recv[s] \in {"none", "pending", "cancelled", "refused"}
  OBVIOUS
<1>1. Serving \in SUBSET Threads /\ Threads \in SUBSET Threads /\ Receiving \in SUBSET InLoop
  BY DEF Serving, Receiving
<1>2. port \in Seq(Sessions \X Kinds)
  BY DEF TypeOK
<1>3. /\ With(Serving, InLoop, s) \in Nat /\ With(Threads, InFound, s) \in Nat
      /\ With(Threads, {"OnDisconnect"}, s) \in Nat /\ With(Serving, Receiving, s) \in Nat
  BY <1>1, WithType
<1>4. With(Serving, Receiving, s) =< With(Serving, InLoop, s)
  BY <1>1, WithType
<1>5. Among({s} \X Kinds, port) \in Nat /\ Among({<<s, "data">>}, port) \in Nat
  BY <1>2, AmongType
<1>6. Pending(s) \in {0, 1}
  BY DEF Pending
<1>7. QED
  BY <1>3, <1>4, <1>5, <1>6 DEF TypeOK

\* How they change when one thread takes a step.
LEMMA CountsMove ==
  ASSUME TypeOK, NEW s, NEW t \in Threads,
         pc' = [pc EXCEPT ![t] = pc'[t]], cur' = [cur EXCEPT ![t] = cur'[t]]
  PROVE  /\ With(Serving, InLoop, s)' = With(Serving, InLoop, s)
              + (IF t # Timer /\ cur'[t] = s /\ pc'[t] \in InLoop THEN 1 ELSE 0)
              - (IF t # Timer /\ cur[t] = s /\ pc[t] \in InLoop THEN 1 ELSE 0)
         /\ With(Serving, Receiving, s)' = With(Serving, Receiving, s)
              + (IF t # Timer /\ cur'[t] = s /\ pc'[t] \in Receiving THEN 1 ELSE 0)
              - (IF t # Timer /\ cur[t] = s /\ pc[t] \in Receiving THEN 1 ELSE 0)
         /\ With(Threads, InFound, s)' = With(Threads, InFound, s)
              + (IF cur'[t] = s /\ pc'[t] \in InFound THEN 1 ELSE 0)
              - (IF cur[t] = s /\ pc[t] \in InFound THEN 1 ELSE 0)
         /\ With(Threads, {"OnDisconnect"}, s)' = With(Threads, {"OnDisconnect"}, s)
              + (IF cur'[t] = s /\ pc'[t] = "OnDisconnect" THEN 1 ELSE 0)
              - (IF cur[t] = s /\ pc[t] = "OnDisconnect" THEN 1 ELSE 0)
<1> DEFINE to == pc'[t]
           c == cur'[t]
<1>1. Serving \in SUBSET Threads /\ Threads \in SUBSET Threads /\ (t \in Serving <=> t # Timer)
  BY DEF Serving
<1>2. pc' = [pc EXCEPT ![t] = to] /\ cur' = [cur EXCEPT ![t] = c]
  OBVIOUS
<1>3. HIDE DEF to, c
<1>4. \A T \in SUBSET Threads : \A S :
        With(T, S, s)' = With(T, S, s)
             + (IF t \in T /\ c = s /\ to \in S THEN 1 ELSE 0)
             - (IF t \in T /\ cur[t] = s /\ pc[t] \in S THEN 1 ELSE 0)
  BY <1>2, WithMoves
<1>5. /\ \A S : With(Serving, S, s)' = With(Serving, S, s)
             + (IF t # Timer /\ c = s /\ to \in S THEN 1 ELSE 0)
             - (IF t # Timer /\ cur[t] = s /\ pc[t] \in S THEN 1 ELSE 0)
      /\ \A S : With(Threads, S, s)' = With(Threads, S, s)
             + (IF c = s /\ to \in S THEN 1 ELSE 0)
             - (IF cur[t] = s /\ pc[t] \in S THEN 1 ELSE 0)
  BY <1>1, <1>4
<1>6. QED
  BY <1>5 DEF to, c

-----------------------------------------------------------------------------
(* Types and roles.                                                        *)

\* Where a thread goes when it is done.
LEMMA Bases ==
  /\ Base(Acceptor) = "accept" /\ Base(Timer) = "iterate" /\ \A w \in Workers : Base(w) = "idle"
  /\ Acceptor \in Serving /\ Timer \notin Serving /\ Workers \subseteq Serving
  /\ Serving = {Acceptor} \cup Workers /\ Threads = Serving \cup {Timer}
  /\ Acceptor \notin Workers /\ Timer \notin Workers /\ Acceptor # Timer
BY LoginAssumption DEF Base, Serving, Threads

\* A session that a thread has a reference of has one.
LEMMA Referenced ==
  ASSUME TypeOK, NEW s \in Sessions, Counted(s), NEW t \in Threads, cur[t] = s,
         pc[t] \in InFound \/ (t # Timer /\ pc[t] \in InLoop)
  PROVE  refs[s] > 0 /\ phase[s] = "open"
<1>1. /\ With(Serving, InLoop, s) \in Nat /\ With(Threads, InFound, s) \in Nat
      /\ Pending(s) \in {0, 1} /\ Among({s} \X Kinds, port) \in Nat
  BY CountTypes
<1>2. /\ pc[t] \in InFound => With(Threads, InFound, s) > 0
      /\ t # Timer /\ pc[t] \in InLoop => With(Serving, InLoop, s) > 0
  BY WithType, Bases
<1>3. refs[s] > 0
  BY <1>1, <1>2 DEF Counted
<1>4. QED
  BY <1>3 DEF Counted

\* The steps of a thread t that may be any thread.
LEMMA CommonTypes ==
  ASSUME TypeOK, Roles, \A s \in Sessions : Counted(s), NEW t \in Threads,
         CancelSession(t) \/ ReleaseFound(t) \/ (t # Timer /\ (RecvIO(t) \/ Drop(t))) \/ OnDisconnect(t)
  PROVE  TypeOK' /\ Roles'
<1> USE DEF Goto, Kinds, Pcs
<1>1. CASE CancelSession(t)
  <2>1. cur[t] \in Sessions
    BY <1>1 DEF CancelSession, Roles, InLoop
  <2>2. TypeOK'
    BY <1>1, <2>1 DEF CancelSession, TypeOK, server, content
  <2>3. Roles'
    BY <1>1, <2>1, Bases DEF CancelSession, TypeOK, Roles, InLoop, InUpdate
  <2>4. QED
    BY <2>2, <2>3
<1>2. CASE ReleaseFound(t)
  <2>1. cur[t] \in Sessions /\ pc[t] = "found"
    BY <1>2 DEF ReleaseFound, Decrement, Roles, InLoop
  <2>2. refs[cur[t]] > 0
    BY <2>1, Referenced DEF InFound
  <2>3. refs[cur[t]] - 1 \in Nat
    BY <2>1, <2>2 DEF TypeOK
  <2>4. TypeOK'
    BY <1>2, <2>1, <2>3 DEF ReleaseFound, Decrement, TypeOK, server, content
  <2>5. Roles'
    BY <1>2, <2>1, Bases DEF ReleaseFound, Decrement, TypeOK, Roles, InLoop, InUpdate
  <2>6. QED
    BY <2>4, <2>5
<1>3. CASE t # Timer /\ RecvIO(t)
  <2>1. cur[t] \in Sessions /\ pc[t] = "recvIO"
    BY <1>3 DEF RecvIO, Roles, InLoop
  <2>2. refs[cur[t]] + 1 \in Nat
    BY <2>1 DEF TypeOK
  <2>3. TypeOK'
    BY ZenonT(60), <1>3, <2>1, <2>2 DEF RecvIO, TypeOK, server, content
  <2>4. Roles'
    BY <1>3, <2>1, Bases DEF RecvIO, TypeOK, Roles, InLoop, InUpdate
  <2>5. QED
    BY <2>3, <2>4
<1>4. CASE t # Timer /\ Drop(t)
  <2>1. cur[t] \in Sessions /\ pc[t] = "drop"
    BY <1>4 DEF Drop, Decrement, Roles, InLoop
  <2>2. refs[cur[t]] > 0
    BY <1>4, <2>1, Referenced DEF InLoop
  <2>3. refs[cur[t]] - 1 \in Nat
    BY <2>1, <2>2 DEF TypeOK
  <2>4. TypeOK'
    BY <1>4, <2>1, <2>3, Bases DEF Drop, Decrement, TypeOK, server, content, Base
  <2>5. Roles'
    BY <1>4, <2>1, Bases DEF Drop, Decrement, TypeOK, Roles, InLoop, InUpdate
  <2>6. QED
    BY <2>4, <2>5
<1>5. CASE OnDisconnect(t)
  <2>1. cur[t] \in Sessions /\ pc[t] = "OnDisconnect"
    BY <1>5 DEF OnDisconnect, Roles, InLoop
  <2>2. TypeOK'
    BY <1>5, <2>1, Bases DEF OnDisconnect, TypeOK, content, Base
  <2>3. Roles'
    BY <1>5, <2>1, Bases DEF OnDisconnect, TypeOK, Roles, InLoop, InUpdate
  <2>4. QED
    BY <2>2, <2>3
<1>6. QED
  BY <1>1, <1>2, <1>3, <1>4, <1>5

\* findSession leaves its thread where it is found, or where it is not.
LEMMA FindTypes ==
  ASSUME TypeOK, NEW t \in Threads, cur[t] \in Sessions, NEW found \in Pcs, NEW missed \in Pcs,
         Find(t, found, missed)
  PROVE  /\ refs' \in [Sessions -> Nat] /\ pc' \in [Threads -> Pcs]
         /\ pc'[t] \in {found, missed} /\ \A u \in Threads : u # t => pc'[u] = pc[u]
<1>1. refs[cur[t]] + 1 \in Nat
  BY DEF TypeOK
<1>2. CASE phase[cur[t]] = "open"
  BY ZenonT(60), <1>1, <1>2 DEF TypeOK, Find
<1>3. CASE phase[cur[t]] # "open"
  BY <1>3 DEF TypeOK, Find
<1>4. QED
  BY <1>2, <1>3

\* The steps of the accept thread alone.
LEMMA AcceptorTypes ==
  ASSUME TypeOK, Roles, NewConnection \/ Insert \/ \E s \in Sessions : Accept(s)
  PROVE  TypeOK' /\ Roles'
<1> USE DEF Goto, Kinds, Pcs
<1>1. CASE NewConnection
  <2>1. cur[Acceptor] \in Sessions /\ pc[Acceptor] = "find"
    BY <1>1, Bases DEF NewConnection, Find, Roles, InLoop
  <2>2. /\ refs' \in [Sessions -> Nat] /\ pc' \in [Threads -> Pcs]
        /\ pc'[Acceptor] \in {"insert", "recvIO"}
        /\ \A u \in Threads : u # Acceptor => pc'[u] = pc[u]
    BY <1>1, <2>1, Bases, FindTypes DEF NewConnection
  <2>3. now' \in [Threads -> 0 .. MaxTick]
    BY <1>1 DEF NewConnection, TypeOK
  <2>4. TypeOK'
    BY <1>1, <2>2, <2>3 DEF NewConnection, TypeOK, server, content
  <2>5. Roles'
    BY <1>1, <2>1, <2>2, Bases DEF NewConnection, Roles, InLoop, InUpdate
  <2>6. QED
    BY <2>4, <2>5
<1>2. CASE Insert
  <2>1. cur[Acceptor] \in Sessions /\ pc[Acceptor] = "insert"
    BY <1>2, Bases DEF Insert, Roles, InLoop
  <2>2. DOMAIN map' \subseteq Sessions /\ \A s \in DOMAIN map' : map'[s] \in 0 .. MaxTick
    BY <1>2, <2>1, Bases DEF Insert, TypeOK
  <2>0. 0 \in 0 .. MaxTick
    BY LoginAssumption
  <2>3. now' \in [Threads -> 0 .. MaxTick]
    BY <1>2, <2>0 DEF Insert, TypeOK
  <2>4. TypeOK'
    BY <1>2, <2>2, <2>3 DEF Insert, TypeOK, network, content
  <2>5. Roles'
    BY <1>2, <2>1, Bases DEF Insert, TypeOK, Roles, InLoop, InUpdate
  <2>6. QED
    BY <2>4, <2>5
<1>3. CASE \E s \in Sessions : Accept(s)
  <2>1. PICK s \in Sessions : Accept(s)
    BY <1>3
  <2>2. 1 \in Nat /\ "open" \in {"none", "open", "deleted", "ended"}
    OBVIOUS
  <2>3. TypeOK'
    BY <2>1, <2>2 DEF Accept, TypeOK, server, content
  <2>4. Roles'
    BY <2>1, Bases DEF Accept, TypeOK, Roles, InLoop, InUpdate
  <2>5. QED
    BY <2>3, <2>4
<1>4. QED
  BY <1>1, <1>2, <1>3

\* The steps of a worker alone.
LEMMA WorkerTypes ==
  ASSUME TypeOK, Roles, NEW w \in Workers,
         \/ Take(w) \/ RefuseReceive(w) \/ Refuse(w) \/ FindOwn(w) \/ Login(w) \/ Connect(w)
         \/ QueryFails(w) \/ QueryAnswered(w) \/ RedisUpdate(w) \/ Answer(w) \/ NoMorePackets(w)
  PROVE  TypeOK' /\ Roles'
<1> USE DEF Goto, Kinds, Pcs
<1>0. w \in Threads /\ w # Acceptor /\ w # Timer
  BY Bases
<1>1. CASE Take(w)
  <2>1. /\ Head(port) \in Sessions \X Kinds
        /\ Tail(port) \in Seq(Sessions \X Kinds)
    BY <1>1, HeadTailProperties DEF Take, TypeOK
  <2>2. Head(port)[1] \in Sessions
    BY <2>1
  <2>3. TypeOK'
    BY <1>1, <2>1, <2>2 DEF Take, TypeOK, server, content
  <2>4. Roles'
    BY <1>0, <1>1, <2>2 DEF Take, TypeOK, Roles, InLoop, InUpdate
  <2>5. QED
    BY <2>3, <2>4
<1>2. CASE Refuse(w) \/ Login(w) \/ QueryAnswered(w) \/ RedisUpdate(w) \/ NoMorePackets(w)
  <2>1. cur[w] \in Sessions
    BY <1>0, <1>2 DEF Refuse, Login, QueryAnswered, RedisUpdate, NoMorePackets, Roles, InLoop
  <2>2. TypeOK'
    BY ZenonT(60), <1>2 DEF Refuse, Login, QueryAnswered, RedisUpdate, NoMorePackets, TypeOK, server, network, content
  <2>3. Roles'
    <3>1. /\ pc'[w] \in {"find", "query", "redis", "answer", "recvIO"}
          /\ \A u \in Threads : u # w => pc'[u] = pc[u]
      BY <1>0, <1>2 DEF Refuse, Login, QueryAnswered, RedisUpdate, NoMorePackets, TypeOK
    <3>2. cur' = cur
      BY <1>2 DEF Refuse, Login, QueryAnswered, RedisUpdate, NoMorePackets
    <3>3. QED
      BY <1>0, <2>1, <3>1, <3>2, Bases DEF Roles, InLoop, InUpdate
  <2>4. QED
    BY <2>2, <2>3
<1>3. CASE FindOwn(w)
  <2>1. cur[w] \in Sessions /\ pc[w] = "find"
    BY <1>0, <1>3 DEF FindOwn, Find, Roles, InLoop
  <2>2. /\ refs' \in [Sessions -> Nat] /\ pc' \in [Threads -> Pcs]
        /\ pc'[w] \in {"cancel", "parse"} /\ \A u \in Threads : u # w => pc'[u] = pc[u]
    BY <1>3, <2>1, <1>0, FindTypes DEF FindOwn
  <2>3. TypeOK'
    BY <1>3, <2>2, <1>0 DEF FindOwn, TypeOK, server, content
  <2>4. Roles'
    BY <1>0, <1>3, <2>1, <2>2, Bases DEF FindOwn, Roles, InLoop, InUpdate
  <2>5. QED
    BY <2>3, <2>4
<1>4. CASE Connect(w) \/ QueryFails(w)
  <2>1. TypeOK'
    BY <1>4 DEF Connect, QueryFails, TypeOK, server, network, threads
  <2>2. Roles'
    BY <1>4 DEF Connect, QueryFails, Roles, threads
  <2>3. QED
    BY <2>1, <2>2
<1>5. CASE Answer(w)
  <2>1. cur[w] \in Sessions /\ pc[w] = "answer"
    BY <1>0, <1>5 DEF Answer, Roles, InLoop
  <2>2. refs[cur[w]] + 1 \in Nat
    BY <2>1 DEF TypeOK
  <2>3. <<cur[w], "answer">> \in Sessions \X Kinds
    BY <2>1
  <2>4. Append(port, <<cur[w], "answer">>) \in Seq(Sessions \X Kinds)
    BY <2>3 DEF TypeOK
  <2>5. TypeOK'
    BY ZenonT(60), <1>5, <2>1, <2>2, <2>4 DEF Answer, TypeOK, server, content
  <2>6. Roles'
    BY <1>0, <1>5, <2>1 DEF Answer, TypeOK, Roles, InLoop, InUpdate
  <2>7. QED
    BY <2>5, <2>6
<1>6. CASE RefuseReceive(w)
  <2>1. /\ Head(port) \in Sessions \X Kinds
        /\ Tail(port) \in Seq(Sessions \X Kinds)
    BY <1>6, HeadTailProperties DEF RefuseReceive, TypeOK
  <2>2. TypeOK'
    BY <1>6, <2>1 DEF RefuseReceive, TypeOK, server, content, threads
  <2>3. Roles'
    BY <1>6 DEF RefuseReceive, Roles, threads
  <2>4. QED
    BY <2>2, <2>3
<1>7. QED
  BY <1>1, <1>2, <1>3, <1>4, <1>5, <1>6

\* The steps of update() alone, the clock, and the receives.
LEMMA OtherTypes ==
  ASSUME TypeOK, Roles,
         \/ Tick \/ Wake \/ LockShared \/ Visit \/ FindExpired \/ UnlockShared
         \/ \E s \in Sessions : RecvData(s) \/ PeerLeaves(s) \/ RecvCancelled(s)
  PROVE  TypeOK' /\ Roles'
<1> USE DEF Goto, Kinds, Pcs
<1>1. CASE Tick
  <2>1. TypeOK'
    BY <1>1, LoginAssumption DEF Tick, TypeOK, server, network, content, threads
  <2>2. Roles'
    BY <1>1 DEF Tick, Roles, threads
  <2>3. QED
    BY <2>1, <2>2
<1>2. CASE Wake \/ LockShared \/ Visit \/ UnlockShared
  <2>1. Timer \in Threads /\ 0 \in 0 .. MaxTick
    BY LoginAssumption DEF Threads
  <2>2. TypeOK'
    BY ZenonT(60), <1>2, <2>1 DEF Wake, LockShared, Visit, UnlockShared, TypeOK, server, network, content
  <2>3. Roles'
    BY <1>2, <2>1, Bases DEF Wake, LockShared, Visit, UnlockShared, TypeOK, Roles, InLoop, InUpdate
  <2>4. QED
    BY <2>2, <2>3
<1>3. CASE FindExpired
  <2>1. cur[Timer] \in Sessions /\ pc[Timer] = "find"
    BY <1>3, Bases DEF FindExpired, Find, Roles, InLoop
  <2>2. /\ refs' \in [Sessions -> Nat] /\ pc' \in [Threads -> Pcs]
        /\ pc'[Timer] \in {"cancel", "iterate"} /\ \A u \in Threads : u # Timer => pc'[u] = pc[u]
    BY <1>3, <2>1, Bases, FindTypes DEF FindExpired
  <2>3. TypeOK'
    BY <1>3, <2>2, Bases DEF FindExpired, TypeOK, server, content
  <2>4. Roles'
    BY <1>3, <2>1, <2>2, Bases DEF FindExpired, Roles, InLoop, InUpdate
  <2>5. QED
    BY <2>3, <2>4
<1>4. ASSUME NEW s \in Sessions, NEW kind \in Kinds, Completes(s, kind)
      PROVE  TypeOK' /\ Roles'
  <2>1. <<s, kind>> \in Sessions \X Kinds
    OBVIOUS
  <2>2. Append(port, <<s, kind>>) \in Seq(Sessions \X Kinds)
    BY <2>1 DEF TypeOK
  <2>3. TypeOK'
    BY <1>4, <2>2 DEF Completes, TypeOK, server, content, threads
  <2>4. Roles'
    BY <1>4 DEF Completes, Roles, threads
  <2>5. QED
    BY <2>3, <2>4
<1>5. QED
  BY <1>1, <1>2, <1>3, <1>4 DEF RecvData, PeerLeaves, RecvCancelled

-----------------------------------------------------------------------------
(* The counters of one session.                                            *)

\* The types of what is counted, in the next state.
LEMMA NextCountTypes ==
  TypeOK' => \A s \in Sessions :
        /\ With(Serving, InLoop, s)' \in Nat /\ With(Threads, InFound, s)' \in Nat
        /\ With(Threads, {"OnDisconnect"}, s)' \in Nat /\ With(Serving, Receiving, s)' \in Nat
        /\ With(Serving, Receiving, s)' =< With(Serving, InLoop, s)'
        /\ Pending(s)' \in {0, 1}
        /\ Among({s} \X Kinds, port)' \in Nat /\ Among({<<s, "data">>}, port)' \in Nat
        /\ refs'[s] \in Nat
        /\ phase'[s] \in {"none", "open", "deleted", "ended"}
        /\ recv'[s] \in {"none", "pending", "cancelled", "refused"}
<1>1. TypeOK' => (\A s \in Sessions :
        /\ With(Serving, InLoop, s) \in Nat /\ With(Threads, InFound, s) \in Nat
        /\ With(Threads, {"OnDisconnect"}, s) \in Nat /\ With(Serving, Receiving, s) \in Nat
        /\ With(Serving, Receiving, s) =< With(Serving, InLoop, s)
        /\ Pending(s) \in {0, 1}
        /\ Among({s} \X Kinds, port) \in Nat /\ Among({<<s, "data">>}, port) \in Nat
        /\ refs[s] \in Nat
        /\ phase[s] \in {"none", "open", "deleted", "ended"}
        /\ recv[s] \in {"none", "pending", "cancelled", "refused"})'
  BY CountTypes, PTL
<1>2. QED
  BY <1>1

\* A completion is queued, or the first one is taken.
LEMMA PortMoves ==
  ASSUME TypeOK, NEW s \in Sessions
  PROVE  /\ UNCHANGED port => /\ Among({s} \X Kinds, port)' = Among({s} \X Kinds, port)
                              /\ Among({<<s, "data">>}, port)' = Among({<<s, "data">>}, port)
         /\ \A r \in Sessions, k \in Kinds : port' = Append(port, <<r, k>>) =>
              /\ Among({s} \X Kinds, port)' = Among({s} \X Kinds, port) + (IF r = s THEN 1 ELSE 0)
              /\ Among({<<s, "data">>}, port)' =
                    Among({<<s, "data">>}, port) + (IF r = s /\ k = "data" THEN 1 ELSE 0)
         /\ port # <<>> /\ port' = Tail(port) =>
              /\ Head(port) \in Sessions \X Kinds
              /\ Among({s} \X Kinds, port)' =
                    Among({s} \X Kinds, port) - (IF Head(port)[1] = s THEN 1 ELSE 0)
              /\ Among({<<s, "data">>}, port)' =
                    Among({<<s, "data">>}, port) - (IF Head(port) = <<s, "data">> THEN 1 ELSE 0)
<1>1. port \in Seq(Sessions \X Kinds)
  BY DEF TypeOK
<1>2. UNCHANGED port => /\ Among({s} \X Kinds, port)' = Among({s} \X Kinds, port)
                        /\ Among({<<s, "data">>}, port)' = Among({<<s, "data">>}, port)
  BY DEF Among
<1>3. ASSUME NEW r \in Sessions, NEW k \in Kinds, port' = Append(port, <<r, k>>)
      PROVE  /\ Among({s} \X Kinds, port)' = Among({s} \X Kinds, port) + (IF r = s THEN 1 ELSE 0)
             /\ Among({<<s, "data">>}, port)' =
                    Among({<<s, "data">>}, port) + (IF r = s /\ k = "data" THEN 1 ELSE 0)
  <2>1. <<r, k>> \in Sessions \X Kinds
    OBVIOUS
  <2>2. \A M : Among(M, Append(port, <<r, k>>)) = Among(M, port) + (IF <<r, k>> \in M THEN 1 ELSE 0)
    BY <1>1, <2>1, AmongAppend
  <2>3. \A M : Among(M, port)' = Among(M, Append(port, <<r, k>>))
    BY <1>3 DEF Among
  <2>4. (<<r, k>> \in {s} \X Kinds <=> r = s) /\ (<<r, k>> \in {<<s, "data">>} <=> r = s /\ k = "data")
    OBVIOUS
  <2>5. /\ Among({s} \X Kinds, port)' = Among({s} \X Kinds, port) + (IF <<r, k>> \in {s} \X Kinds THEN 1 ELSE 0)
        /\ Among({<<s, "data">>}, port)' = Among({<<s, "data">>}, port)
                                             + (IF <<r, k>> \in {<<s, "data">>} THEN 1 ELSE 0)
    BY <2>2, <2>3
  <2>6. QED
    BY <2>4, <2>5
<1>4. ASSUME port # <<>>, port' = Tail(port)
      PROVE  /\ Head(port) \in Sessions \X Kinds
             /\ Among({s} \X Kinds, port)' =
                    Among({s} \X Kinds, port) - (IF Head(port)[1] = s THEN 1 ELSE 0)
             /\ Among({<<s, "data">>}, port)' =
                    Among({<<s, "data">>}, port) - (IF Head(port) = <<s, "data">> THEN 1 ELSE 0)
  <2>1. Head(port) \in Sessions \X Kinds
    BY <1>1, <1>4, HeadTailProperties
  <2>2. \A M : Among(M, Tail(port)) = Among(M, port) - (IF Head(port) \in M THEN 1 ELSE 0)
    BY <1>1, <1>4, AmongTail
  <2>3. \A M : Among(M, port)' = Among(M, Tail(port))
    BY <1>4 DEF Among
  <2>4. (Head(port) \in {s} \X Kinds <=> Head(port)[1] = s)
        /\ (Head(port) \in {<<s, "data">>} <=> Head(port) = <<s, "data">>)
    BY <2>1
  <2>5. /\ Among({s} \X Kinds, port)' = Among({s} \X Kinds, port) - (IF Head(port) \in {s} \X Kinds THEN 1 ELSE 0)
        /\ Among({<<s, "data">>}, port)' = Among({<<s, "data">>}, port)
                                             - (IF Head(port) \in {<<s, "data">>} THEN 1 ELSE 0)
    BY <2>2, <2>3
  <2>6. QED
    BY <2>1, <2>4, <2>5
<1>5. QED
  BY <1>2, <1>3, <1>4

\* A step after which the thread counts where it counted before.
LEMMA CountedStays ==
  ASSUME TypeOK, NEW s \in Sessions, Counted(s), NEW t \in Threads,
         pc' = [pc EXCEPT ![t] = pc'[t]], cur' = [cur EXCEPT ![t] = cur'[t]],
         t # Timer => /\ (cur'[t] = s /\ pc'[t] \in InLoop) <=> (cur[t] = s /\ pc[t] \in InLoop)
                      /\ (cur'[t] = s /\ pc'[t] \in Receiving) <=> (cur[t] = s /\ pc[t] \in Receiving),
         (cur'[t] = s /\ pc'[t] \in InFound) <=> (cur[t] = s /\ pc[t] \in InFound),
         (cur'[t] = s /\ pc'[t] = "OnDisconnect") <=> (cur[t] = s /\ pc[t] = "OnDisconnect"),
         refs'[s] = refs[s], phase'[s] = phase[s], (recv'[s] = "none") <=> (recv[s] = "none"),
         Among({s} \X Kinds, port)' = Among({s} \X Kinds, port),
         Among({<<s, "data">>}, port)' = Among({<<s, "data">>}, port)
  PROVE  Counted(s)'
<1>1. /\ With(Serving, InLoop, s) \in Nat /\ With(Threads, InFound, s) \in Nat
      /\ With(Threads, {"OnDisconnect"}, s) \in Nat /\ With(Serving, Receiving, s) \in Nat
  BY CountTypes
<1>2. /\ With(Serving, InLoop, s)' = With(Serving, InLoop, s)
      /\ With(Serving, Receiving, s)' = With(Serving, Receiving, s)
      /\ With(Threads, InFound, s)' = With(Threads, InFound, s)
      /\ With(Threads, {"OnDisconnect"}, s)' = With(Threads, {"OnDisconnect"}, s)
  BY <1>1, CountsMove
<1>3. Pending(s)' = Pending(s)
  BY DEF Pending
<1>4. QED
  BY <1>2, <1>3 DEF Counted

\* Steps that take or give back no reference.
LEMMA PlainCounted ==
  ASSUME TypeOK, Roles, NEW s \in Sessions, Counted(s),
         \/ Insert \/ Wake \/ LockShared \/ Visit \/ UnlockShared
         \/ \E t \in Threads : CancelSession(t)
         \/ \E w \in Workers : \/ Refuse(w) \/ Login(w) \/ QueryAnswered(w) \/ RedisUpdate(w)
                               \/ NoMorePackets(w)
  PROVE  Counted(s)'
<1> USE DEF Goto, server, network
<1>1. CASE Insert
  <2>1. /\ pc' = [pc EXCEPT ![Acceptor] = pc'[Acceptor]] /\ cur' = [cur EXCEPT ![Acceptor] = cur'[Acceptor]]
        /\ pc[Acceptor] = "insert" /\ pc'[Acceptor] = "found" /\ cur'[Acceptor] = cur[Acceptor]
        /\ Acceptor \in Threads /\ UNCHANGED <<refs, phase, recv, port>>
    BY <1>1, Bases DEF Insert, TypeOK
  <2>2. QED
    BY <2>1, PortMoves, CountedStays DEF InLoop, Receiving, InFound
<1>2. CASE Wake \/ LockShared \/ Visit \/ UnlockShared
  <2>1. /\ pc' = [pc EXCEPT ![Timer] = pc'[Timer]] /\ cur' = [cur EXCEPT ![Timer] = cur'[Timer]]
        /\ pc[Timer] \in {"sleep", "lock", "iterate"} /\ pc'[Timer] \in {"lock", "iterate", "find", "sleep"}
        /\ Timer \in Threads /\ UNCHANGED <<refs, phase, recv, port>>
    BY <1>2, Bases DEF Wake, LockShared, Visit, UnlockShared, TypeOK
  <2>2. QED
    BY <2>1, PortMoves, CountedStays DEF InFound
<1>3. ASSUME NEW t \in Threads, CancelSession(t)
      PROVE  Counted(s)'
  <2>1. /\ pc' = [pc EXCEPT ![t] = pc'[t]] /\ cur' = [cur EXCEPT ![t] = cur'[t]]
        /\ pc[t] = "cancel" /\ pc'[t] = "found" /\ cur'[t] = cur[t]
        /\ UNCHANGED <<refs, phase, port>>
        /\ (recv'[s] = "none") <=> (recv[s] = "none")
    BY <1>3 DEF CancelSession, TypeOK
  <2>2. QED
    BY <2>1, PortMoves, CountedStays DEF InLoop, Receiving, InFound
<1>4. ASSUME NEW w \in Workers,
             Refuse(w) \/ Login(w) \/ QueryAnswered(w) \/ RedisUpdate(w) \/ NoMorePackets(w)
      PROVE  Counted(s)'
  <2>1. /\ pc' = [pc EXCEPT ![w] = pc'[w]] /\ cur' = [cur EXCEPT ![w] = cur'[w]]
        /\ pc[w] \in {"parse", "query", "redis"} /\ pc'[w] \in {"find", "query", "redis", "answer", "recvIO"}
        /\ cur'[w] = cur[w] /\ w \in Threads
        /\ UNCHANGED <<refs, phase, recv, port>>
    BY <1>4, Bases DEF Refuse, Login, QueryAnswered, RedisUpdate, NoMorePackets, TypeOK
  <2>2. QED
    BY <2>1, PortMoves, CountedStays DEF InLoop, Receiving, InFound
<1>5. QED
  BY <1>1, <1>2, <1>3, <1>4

\* The accept thread takes the first reference of a session.
LEMMA AcceptCounted ==
  ASSUME TypeOK, TypeOK', Roles, NEW s \in Sessions, Counted(s), NEW r \in Sessions, Accept(r)
  PROVE  Counted(s)'
<1>1. /\ pc' = [pc EXCEPT ![Acceptor] = pc'[Acceptor]] /\ cur' = [cur EXCEPT ![Acceptor] = cur'[Acceptor]]
      /\ pc[Acceptor] = "accept" /\ pc'[Acceptor] = "find" /\ cur'[Acceptor] = r
      /\ Acceptor \in Threads /\ Acceptor # Timer
      /\ UNCHANGED <<recv, port>>
  BY Bases DEF Accept, Goto, TypeOK
<1>2. CASE s # r
  <2>1. refs'[s] = refs[s] /\ phase'[s] = phase[s]
    BY <1>2 DEF Accept, TypeOK
  <2>2. QED
    BY <1>1, <1>2, <2>1, PortMoves, CountedStays DEF InLoop, Receiving, InFound
<1>3. CASE s = r
  <2>1. phase[s] = "none" /\ phase'[s] = "open" /\ refs'[s] = 1
    BY <1>3 DEF Accept, TypeOK
  <2>2. /\ With(Serving, InLoop, s) \in Nat /\ With(Threads, InFound, s) \in Nat
        /\ With(Threads, {"OnDisconnect"}, s) \in Nat /\ With(Serving, Receiving, s) \in Nat
        /\ With(Serving, Receiving, s) =< With(Serving, InLoop, s)
        /\ Pending(s) \in {0, 1} /\ refs[s] \in Nat
        /\ Among({s} \X Kinds, port) \in Nat /\ Among({<<s, "data">>}, port) \in Nat
    BY CountTypes
  <2>3. /\ refs[s] = 0 /\ With(Threads, {"OnDisconnect"}, s) = 0
        /\ With(Serving, InLoop, s) = 0 /\ With(Threads, InFound, s) = 0 /\ With(Serving, Receiving, s) = 0
        /\ Pending(s) = 0 /\ Among({s} \X Kinds, port) = 0
    BY SMTT(30), <2>1, <2>2 DEF Counted
  <2>4. /\ With(Serving, InLoop, s)' = 1 /\ With(Threads, InFound, s)' = 0
        /\ With(Threads, {"OnDisconnect"}, s)' = 0 /\ With(Serving, Receiving, s)' = 1
    BY <1>1, <1>3, <2>3, CountsMove DEF InLoop, Receiving, InFound
  <2>5. Pending(s)' = Pending(s) /\ Among({s} \X Kinds, port)' = 0
    BY <1>1, <2>3, PortMoves DEF Pending
  <2>6. Among({<<s, "data">>}, port) = 0 /\ Among({<<s, "data">>}, port)' = 0
    <3>1. <<s, "data">> \in {s} \X Kinds
      BY DEF Kinds
    <3>2. port \in Seq(Sessions \X Kinds)
      BY DEF TypeOK
    <3>3. (Among({s} \X Kinds, port) > 0 <=> \E i \in DOMAIN port : port[i] \in {s} \X Kinds)
          /\ (Among({<<s, "data">>}, port) > 0 <=> \E i \in DOMAIN port : port[i] \in {<<s, "data">>})
      BY <3>2, AmongType
    <3>4. Among({<<s, "data">>}, port) = 0
      BY <2>2, <2>3, <3>1, <3>3
    <3>5. QED
      BY <1>1, <3>4, PortMoves
  <2>7. QED
    BY <2>1, <2>3, <2>4, <2>5, <2>6 DEF Counted
<1>4. QED
  BY <1>2, <1>3

\* findSession: it finds only who is open, and counts.
LEMMA FindCounted ==
  ASSUME TypeOK, TypeOK', Roles, NEW s \in Sessions, Counted(s), NEW t \in Threads,
         NEW found \in {"insert", "cancel"}, NEW missed \in {"recvIO", "parse", "iterate"},
         t # Timer => missed \in {"recvIO", "parse"}, Find(t, found, missed),
         UNCHANGED <<phase, recv, port, cur>>
  PROVE  Counted(s)'
<1>1. /\ pc' = [pc EXCEPT ![t] = pc'[t]] /\ cur' = [cur EXCEPT ![t] = cur'[t]]
      /\ pc[t] = "find" /\ pc'[t] \in {found, missed} /\ cur'[t] = cur[t]
  BY DEF Find, TypeOK
<1>2. CASE s # cur[t] \/ phase[s] # "open"
  <2>1. refs'[s] = refs[s]
    BY <1>2 DEF Find, TypeOK
  <2>2. s = cur[t] => pc'[t] = missed
    BY <1>2 DEF Find, TypeOK
  <2>3. QED
    BY <1>1, <2>1, <2>2, PortMoves, CountedStays DEF InLoop, Receiving, InFound
<1>3. CASE s = cur[t] /\ phase[s] = "open"
  <2>1. refs'[s] = refs[s] + 1 /\ pc'[t] = found /\ phase'[s] = "open" /\ refs[s] \in Nat
    BY <1>3 DEF Find, TypeOK
  <2>2. /\ With(Serving, InLoop, s) \in Nat /\ With(Threads, InFound, s) \in Nat
        /\ With(Threads, {"OnDisconnect"}, s) \in Nat /\ With(Serving, Receiving, s) \in Nat
        /\ Pending(s) \in {0, 1} /\ refs[s] \in Nat
        /\ Among({s} \X Kinds, port) \in Nat /\ Among({<<s, "data">>}, port) \in Nat
    BY CountTypes
  <2>3. /\ With(Serving, InLoop, s)' = With(Serving, InLoop, s)
        /\ With(Threads, InFound, s)' = With(Threads, InFound, s) + 1
        /\ With(Threads, {"OnDisconnect"}, s)' = With(Threads, {"OnDisconnect"}, s)
        /\ With(Serving, Receiving, s)' = With(Serving, Receiving, s)
    <3>1. /\ pc[t] \in InLoop /\ pc'[t] \in InLoop /\ pc[t] \in Receiving /\ pc'[t] \in Receiving
          /\ pc[t] \notin InFound /\ pc'[t] \in InFound
          /\ pc[t] # "OnDisconnect" /\ pc'[t] # "OnDisconnect"
      BY <1>1, <2>1 DEF InLoop, Receiving, InFound
    <3>2. cur[t] = s /\ cur'[t] = s
      BY <1>1, <1>3
    <3>3. QED
      BY <1>1, <2>2, <3>1, <3>2, CountsMove
  <2>4. Pending(s)' = Pending(s) /\ Among({s} \X Kinds, port)' = Among({s} \X Kinds, port)
        /\ Among({<<s, "data">>}, port)' = Among({<<s, "data">>}, port)
    BY PortMoves DEF Pending
  <2>5. QED
    BY <1>3, <2>1, <2>2, <2>3, <2>4 DEF Counted
<1>4. QED
  BY <1>2, <1>3

\* The reference of findSession is given back.  Only update() can be left with the
\* last one: the others have that of their loop body besides.
LEMMA ReleaseCounted ==
  ASSUME TypeOK, Roles, NEW s \in Sessions, Counted(s), NEW t \in Threads, ReleaseFound(t)
  PROVE  Counted(s)'
<1>1. /\ pc' = [pc EXCEPT ![t] = pc'[t]] /\ cur' = [cur EXCEPT ![t] = cur'[t]]
      /\ pc[t] = "found" /\ cur'[t] = cur[t] /\ UNCHANGED <<recv, port>>
      /\ pc'[t] \in {"recvIO", "iterate", "parse", "OnDisconnect"}
      /\ t # Timer => pc'[t] # "iterate"
  BY DEF ReleaseFound, Decrement, TypeOK
<1>2. CASE s # cur[t]
  <2>1. refs'[s] = refs[s] /\ phase'[s] = phase[s]
    BY <1>2 DEF ReleaseFound, Decrement, TypeOK
  <2>2. QED
    BY <1>1, <1>2, <2>1, PortMoves, CountedStays
<1>3. CASE s = cur[t]
  <2>1. /\ With(Serving, InLoop, s) \in Nat /\ With(Threads, InFound, s) \in Nat
        /\ With(Threads, {"OnDisconnect"}, s) \in Nat /\ With(Serving, Receiving, s) \in Nat
        /\ With(Serving, Receiving, s) =< With(Serving, InLoop, s)
        /\ Pending(s) \in {0, 1} /\ refs[s] \in Nat
        /\ Among({s} \X Kinds, port) \in Nat /\ Among({<<s, "data">>}, port) \in Nat
    BY CountTypes
  <2>2. Pending(s)' = Pending(s) /\ Among({s} \X Kinds, port)' = Among({s} \X Kinds, port)
        /\ Among({<<s, "data">>}, port)' = Among({<<s, "data">>}, port)
    BY <1>1, PortMoves DEF Pending
  <2>3. refs'[s] = refs[s] - 1 /\ refs[s] > 0 /\ phase[s] = "open"
    <3>1. refs'[s] = refs[s] - 1
      BY <1>3 DEF ReleaseFound, Decrement, TypeOK
    <3>2. QED
      BY <1>1, <1>3, <3>1, Referenced DEF InFound
  <2>4. /\ With(Threads, InFound, s) > 0
        /\ t # Timer => With(Serving, InLoop, s) > 0
    BY <1>1, <1>3, WithType, Bases DEF InFound, InLoop
  <2>5. CASE refs[s] = 1
    <3>1. t = Timer /\ With(Serving, InLoop, s) = 0 /\ With(Threads, InFound, s) = 1
      <4>1. With(Serving, InLoop, s) + With(Threads, InFound, s) + Pending(s) + Among({s} \X Kinds, port) = 1
        BY <2>5 DEF Counted
      <4>2. QED
        BY <2>1, <2>4, <4>1
    <3>2. phase'[s] = "deleted" /\ pc'[t] = "OnDisconnect"
      BY <1>3, <2>5 DEF ReleaseFound, Decrement, TypeOK
    <3>3. /\ With(Serving, InLoop, s)' = With(Serving, InLoop, s)
          /\ With(Threads, InFound, s)' = With(Threads, InFound, s) - 1
          /\ With(Threads, {"OnDisconnect"}, s)' = With(Threads, {"OnDisconnect"}, s) + 1
          /\ With(Serving, Receiving, s)' = With(Serving, Receiving, s)
      <4>1. pc[t] \in InFound /\ pc'[t] \notin InFound /\ pc[t] # "OnDisconnect"
        BY <1>1, <3>2 DEF InFound
      <4>2. /\ With(Serving, InLoop, s)' = With(Serving, InLoop, s)
            /\ With(Serving, Receiving, s)' = With(Serving, Receiving, s)
        BY <1>1, <2>1, <3>1, CountsMove
      <4>3. /\ With(Threads, InFound, s)' = With(Threads, InFound, s) - 1
            /\ With(Threads, {"OnDisconnect"}, s)' = With(Threads, {"OnDisconnect"}, s) + 1
        BY <1>1, <1>3, <2>1, <3>2, <4>1, CountsMove
      <4>4. QED
        BY <4>2, <4>3
    <3>4. QED
      BY <2>1, <2>2, <2>3, <2>5, <3>1, <3>2, <3>3 DEF Counted
  <2>6. CASE refs[s] # 1
    <3>1. phase'[s] = phase[s] /\ pc'[t] # "OnDisconnect"
      BY <1>3, <2>6 DEF ReleaseFound, Decrement, TypeOK
    <3>2. /\ With(Serving, InLoop, s)' = With(Serving, InLoop, s)
          /\ With(Threads, InFound, s)' = With(Threads, InFound, s) - 1
          /\ With(Threads, {"OnDisconnect"}, s)' = With(Threads, {"OnDisconnect"}, s)
          /\ With(Serving, Receiving, s)' = With(Serving, Receiving, s)
      <4>1. /\ pc[t] \in InFound /\ pc'[t] \notin InFound /\ pc[t] # "OnDisconnect"
            /\ t # Timer => /\ pc[t] \in InLoop /\ pc'[t] \in InLoop
                            /\ pc[t] \in Receiving /\ pc'[t] \in Receiving
        BY <1>1, <3>1 DEF InFound, InLoop, Receiving
      <4>2. QED
        BY <1>1, <1>3, <2>1, <3>1, <4>1, CountsMove
    <3>3. QED
      BY <2>1, <2>2, <2>3, <2>6, <3>1, <3>2 DEF Counted
  <2>7. QED
    BY <2>5, <2>6
<1>4. QED
  BY <1>2, <1>3

\* The next receive, with its reference, or none after a cancel.
LEMMA RecvIOCounted ==
  ASSUME TypeOK, Roles, NEW s \in Sessions, Counted(s), NEW t \in Threads, t # Timer, RecvIO(t)
  PROVE  Counted(s)'
<1>1. /\ pc' = [pc EXCEPT ![t] = pc'[t]] /\ cur' = [cur EXCEPT ![t] = cur'[t]]
      /\ pc[t] = "recvIO" /\ pc'[t] = "drop" /\ cur'[t] = cur[t] /\ UNCHANGED <<phase, port>>
  BY DEF RecvIO, Goto, TypeOK
<1>2. CASE s # cur[t]
  <2>1. refs'[s] = refs[s] /\ recv'[s] = recv[s]
    BY <1>2 DEF RecvIO, TypeOK
  <2>2. QED
    BY <1>1, <1>2, <2>1, PortMoves, CountedStays
<1>3. CASE s = cur[t]
  <2>1. /\ With(Serving, InLoop, s) \in Nat /\ With(Threads, InFound, s) \in Nat
        /\ With(Threads, {"OnDisconnect"}, s) \in Nat /\ With(Serving, Receiving, s) \in Nat
        /\ Pending(s) \in {0, 1} /\ refs[s] \in Nat
        /\ Among({s} \X Kinds, port) \in Nat /\ Among({<<s, "data">>}, port) \in Nat
    BY CountTypes
  <2>2. With(Serving, Receiving, s) > 0
    BY <1>1, <1>3, WithType, Bases DEF InLoop, Receiving
  <2>3. Pending(s) = 0 /\ Among({<<s, "data">>}, port) = 0 /\ With(Serving, Receiving, s) = 1
    <3>1. With(Serving, Receiving, s) + Pending(s) + Among({<<s, "data">>}, port) =< 1
      BY DEF Counted
    <3>2. QED
      BY <2>1, <2>2, <3>1
  <2>4. /\ Among({s} \X Kinds, port)' = Among({s} \X Kinds, port)
        /\ Among({<<s, "data">>}, port)' = Among({<<s, "data">>}, port)
    BY <1>1, PortMoves
  <2>5. /\ With(Serving, InLoop, s)' = With(Serving, InLoop, s)
        /\ With(Threads, InFound, s)' = With(Threads, InFound, s)
        /\ With(Threads, {"OnDisconnect"}, s)' = With(Threads, {"OnDisconnect"}, s)
        /\ With(Serving, Receiving, s)' = With(Serving, Receiving, s) - 1
    <3>1. /\ pc[t] \in InLoop /\ pc'[t] \in InLoop /\ pc[t] \in Receiving /\ pc'[t] \notin Receiving
          /\ pc[t] \notin InFound /\ pc'[t] \notin InFound
      BY <1>1 DEF InFound, InLoop, Receiving
    <3>2. QED
      BY <1>1, <1>3, <2>1, <3>1, CountsMove
  <2>6. phase[s] = "open" /\ phase'[s] = "open"
    BY <1>1, <1>3, Referenced DEF InLoop
  <2>7. \/ refs'[s] = refs[s] /\ Pending(s)' = 0
        \/ refs'[s] = refs[s] + 1 /\ Pending(s)' = 1
    <3>1. recv[s] = "none"
      BY <2>3 DEF Pending
    <3>2. \/ refs'[s] = refs[s] /\ recv'[s] = "none"
          \/ refs'[s] = refs[s] + 1 /\ recv'[s] = "pending"
      BY <1>3, <3>1 DEF RecvIO, TypeOK
    <3>3. QED
      BY <3>2 DEF Pending
  <2>8. QED
    BY <2>1, <2>3, <2>4, <2>5, <2>6, <2>7 DEF Counted
<1>4. QED
  BY <1>2, <1>3

\* The reference of the loop body is given back, and with the last one the session
\* is deleted.
LEMMA DropCounted ==
  ASSUME TypeOK, Roles, NEW s \in Sessions, Counted(s), NEW t \in Threads, t # Timer, Drop(t)
  PROVE  Counted(s)'
<1>1. /\ pc' = [pc EXCEPT ![t] = pc'[t]] /\ cur' = [cur EXCEPT ![t] = cur'[t]]
      /\ pc[t] = "drop" /\ UNCHANGED <<recv, port>>
      /\ pc'[t] \in {"accept", "idle", "OnDisconnect"}
  BY Bases DEF Drop, Decrement, TypeOK
<1>2. /\ pc[t] \in InLoop /\ pc'[t] \notin InLoop /\ pc[t] \notin Receiving /\ pc'[t] \notin Receiving
      /\ pc[t] \notin InFound /\ pc'[t] \notin InFound /\ pc[t] # "OnDisconnect"
  BY <1>1 DEF InFound, InLoop, Receiving
<1>3. /\ refs[cur[t]] = 1 => cur'[t] = cur[t] /\ pc'[t] = "OnDisconnect"
      /\ refs[cur[t]] # 1 => pc'[t] # "OnDisconnect"
  BY Bases DEF Drop, Decrement, TypeOK
<1>4. CASE s # cur[t]
  <2>1. refs'[s] = refs[s] /\ phase'[s] = phase[s]
    BY <1>4 DEF Drop, Decrement, TypeOK
  <2>2. ~(cur'[t] = s /\ pc'[t] = "OnDisconnect")
    BY <1>3, <1>4
  <2>3. QED
    BY <1>1, <1>2, <1>4, <2>1, <2>2, PortMoves, CountedStays
<1>5. CASE s = cur[t]
  <2>1. /\ With(Serving, InLoop, s) \in Nat /\ With(Threads, InFound, s) \in Nat
        /\ With(Threads, {"OnDisconnect"}, s) \in Nat /\ With(Serving, Receiving, s) \in Nat
        /\ Pending(s) \in {0, 1} /\ refs[s] \in Nat
        /\ Among({s} \X Kinds, port) \in Nat /\ Among({<<s, "data">>}, port) \in Nat
    BY CountTypes
  <2>2. Pending(s)' = Pending(s) /\ Among({s} \X Kinds, port)' = Among({s} \X Kinds, port)
        /\ Among({<<s, "data">>}, port)' = Among({<<s, "data">>}, port)
    BY <1>1, PortMoves DEF Pending
  <2>3. refs'[s] = refs[s] - 1 /\ refs[s] > 0 /\ phase[s] = "open"
    <3>1. refs'[s] = refs[s] - 1
      BY <1>5 DEF Drop, Decrement, TypeOK
    <3>2. QED
      BY <1>2, <1>5, <3>1, Referenced
  <2>4. phase'[s] = IF refs[s] = 1 THEN "deleted" ELSE "open"
    BY <1>5, <2>3 DEF Drop, Decrement, TypeOK
  <2>5. /\ With(Serving, InLoop, s)' = With(Serving, InLoop, s) - 1
        /\ With(Threads, InFound, s)' = With(Threads, InFound, s)
        /\ With(Serving, Receiving, s)' = With(Serving, Receiving, s)
        /\ With(Threads, {"OnDisconnect"}, s)' = With(Threads, {"OnDisconnect"}, s)
                                                   + (IF refs[s] = 1 THEN 1 ELSE 0)
    BY <1>1, <1>2, <1>3, <1>5, <2>1, CountsMove
  <2>6. QED
    BY <2>1, <2>2, <2>3, <2>4, <2>5 DEF Counted
<1>6. QED
  BY <1>4, <1>5

\* OnDisconnect ends the session.
LEMMA OnDisconnectCounted ==
  ASSUME TypeOK, Roles, NEW s \in Sessions, Counted(s), NEW t \in Threads, OnDisconnect(t)
  PROVE  Counted(s)' /\ (cur[t] = s => phase[s] = "deleted")
<1>1. /\ pc' = [pc EXCEPT ![t] = pc'[t]] /\ cur' = [cur EXCEPT ![t] = cur'[t]]
      /\ pc[t] = "OnDisconnect" /\ UNCHANGED <<refs, recv, port>>
      /\ pc'[t] \in {"accept", "idle", "iterate"}
  BY Bases DEF OnDisconnect, Goto, TypeOK
<1>2. /\ pc[t] \notin InLoop /\ pc'[t] \notin InLoop /\ pc[t] \notin Receiving /\ pc'[t] \notin Receiving
      /\ pc[t] \notin InFound /\ pc'[t] \notin InFound /\ pc'[t] # "OnDisconnect"
  BY <1>1 DEF InFound, InLoop, Receiving
<1>3. CASE s # cur[t]
  <2>1. phase'[s] = phase[s]
    BY <1>3 DEF OnDisconnect, TypeOK
  <2>2. Counted(s)'
    BY <1>1, <1>2, <1>3, <2>1, PortMoves, CountedStays
  <2>3. QED
    BY <1>3, <2>2
<1>4. CASE s = cur[t]
  <2>1. /\ With(Serving, InLoop, s) \in Nat /\ With(Threads, InFound, s) \in Nat
        /\ With(Threads, {"OnDisconnect"}, s) \in Nat /\ With(Serving, Receiving, s) \in Nat
        /\ Pending(s) \in {0, 1} /\ refs[s] \in Nat
        /\ Among({s} \X Kinds, port) \in Nat /\ Among({<<s, "data">>}, port) \in Nat
    BY CountTypes
  <2>2. Pending(s)' = Pending(s) /\ Among({s} \X Kinds, port)' = Among({s} \X Kinds, port)
        /\ Among({<<s, "data">>}, port)' = Among({<<s, "data">>}, port)
    BY <1>1, PortMoves DEF Pending
  <2>3. With(Threads, {"OnDisconnect"}, s) > 0
    BY <1>1, <1>4, WithType
  <2>4. phase[s] = "deleted" /\ phase'[s] = "ended" /\ With(Threads, {"OnDisconnect"}, s) = 1
    <3>1. phase[s] = "deleted" /\ With(Threads, {"OnDisconnect"}, s) = 1
      BY <2>3 DEF Counted
    <3>2. phase'[s] = "ended"
      BY <1>4 DEF OnDisconnect, TypeOK
    <3>3. QED
      BY <3>1, <3>2
  <2>5. /\ With(Serving, InLoop, s)' = With(Serving, InLoop, s)
        /\ With(Threads, InFound, s)' = With(Threads, InFound, s)
        /\ With(Serving, Receiving, s)' = With(Serving, Receiving, s)
        /\ With(Threads, {"OnDisconnect"}, s)' = With(Threads, {"OnDisconnect"}, s) - 1
    BY <1>1, <1>2, <1>4, <2>1, CountsMove
  <2>6. refs'[s] = refs[s]
    BY <1>1
  <2>7. Counted(s)'
    BY <2>1, <2>2, <2>4, <2>5, <2>6 DEF Counted
  <2>8. QED
    BY <2>4, <2>7
<1>5. QED
  BY <1>3, <1>4

\* The reference of a completion becomes that of the worker that takes it.
LEMMA TakeCounted ==
  ASSUME TypeOK, Roles, NEW s \in Sessions, Counted(s), NEW w \in Workers, Take(w)
  PROVE  Counted(s)'
<1>1. /\ pc' = [pc EXCEPT ![w] = pc'[w]] /\ cur' = [cur EXCEPT ![w] = cur'[w]]
      /\ pc[w] = "idle" /\ UNCHANGED <<refs, phase, recv>> /\ w \in Threads /\ w # Timer
      /\ pc'[w] = (IF Head(port)[2] = "data" THEN "parse" ELSE "drop")
      /\ cur'[w] = Head(port)[1]
  BY Bases DEF Take, TypeOK
<1>2. /\ pc[w] \notin InLoop /\ pc'[w] \in InLoop
      /\ pc[w] \notin Receiving /\ (pc'[w] \in Receiving <=> Head(port)[2] = "data")
      /\ pc[w] \notin InFound /\ pc'[w] \notin InFound
      /\ pc[w] # "OnDisconnect" /\ pc'[w] # "OnDisconnect"
  BY <1>1 DEF InFound, InLoop, Receiving
<1>3. /\ Head(port) \in Sessions \X Kinds
      /\ Among({s} \X Kinds, port)' =
            Among({s} \X Kinds, port) - (IF Head(port)[1] = s THEN 1 ELSE 0)
      /\ Among({<<s, "data">>}, port)' =
            Among({<<s, "data">>}, port) - (IF Head(port) = <<s, "data">> THEN 1 ELSE 0)
  BY PortMoves DEF Take
<1>4. Head(port) = <<s, "data">> <=> Head(port)[1] = s /\ Head(port)[2] = "data"
  BY <1>3
<1>5. /\ With(Serving, InLoop, s) \in Nat /\ With(Threads, InFound, s) \in Nat
      /\ With(Threads, {"OnDisconnect"}, s) \in Nat /\ With(Serving, Receiving, s) \in Nat
      /\ Pending(s) \in {0, 1} /\ refs[s] \in Nat
      /\ Among({s} \X Kinds, port) \in Nat /\ Among({<<s, "data">>}, port) \in Nat
  BY CountTypes
<1>6. Pending(s)' = Pending(s) /\ refs'[s] = refs[s] /\ phase'[s] = phase[s]
  BY <1>1 DEF Pending
<1>7. /\ With(Threads, InFound, s)' = With(Threads, InFound, s)
      /\ With(Threads, {"OnDisconnect"}, s)' = With(Threads, {"OnDisconnect"}, s)
  BY <1>1, <1>2, <1>5, CountsMove
<1>8. /\ With(Serving, InLoop, s)' = With(Serving, InLoop, s) + (IF Head(port)[1] = s THEN 1 ELSE 0)
      /\ With(Serving, Receiving, s)' = With(Serving, Receiving, s)
                                          + (IF Head(port) = <<s, "data">> THEN 1 ELSE 0)
  BY <1>1, <1>2, <1>4, <1>5, CountsMove
<1>9. /\ With(Serving, InLoop, s)' + Among({s} \X Kinds, port)'
            = With(Serving, InLoop, s) + Among({s} \X Kinds, port)
      /\ With(Serving, Receiving, s)' + Among({<<s, "data">>}, port)'
            = With(Serving, Receiving, s) + Among({<<s, "data">>}, port)
  BY <1>3, <1>5, <1>8
<1>10. /\ With(Serving, InLoop, s)' \in Int /\ Among({s} \X Kinds, port)' \in Int
       /\ With(Serving, Receiving, s)' \in Int /\ Among({<<s, "data">>}, port)' \in Int
  BY <1>3, <1>5, <1>8
<1>11. QED
  BY <1>5, <1>6, <1>7, <1>9, <1>10 DEF Counted

\* An answer is posted with a reference, to a session that is found.
LEMMA AnswerCounted ==
  ASSUME TypeOK, Roles, NEW s \in Sessions, Counted(s), NEW w \in Workers, Answer(w)
  PROVE  Counted(s)'
<1>1. /\ pc' = [pc EXCEPT ![w] = pc'[w]] /\ cur' = [cur EXCEPT ![w] = cur'[w]]
      /\ pc[w] = "answer" /\ pc'[w] = "parse" /\ cur'[w] = cur[w]
      /\ UNCHANGED <<phase, recv>> /\ w \in Threads /\ w # Timer
  BY Bases DEF Answer, Goto, TypeOK
<1>2. cur[w] \in Sessions /\ "answer" \in Kinds
  BY <1>1 DEF Roles, InLoop, Kinds
<1>3. /\ (pc[w] \in InLoop) /\ (pc'[w] \in InLoop) /\ (pc[w] \in Receiving) /\ (pc'[w] \in Receiving)
      /\ pc[w] \notin InFound /\ pc'[w] \notin InFound
  BY <1>1 DEF InFound, InLoop, Receiving
<1>4. CASE phase[cur[w]] # "open" \/ s # cur[w]
  <2>1. refs'[s] = refs[s]
    BY <1>2, <1>4 DEF Answer, TypeOK
  <2>2. /\ Among({s} \X Kinds, port)' = Among({s} \X Kinds, port)
        /\ Among({<<s, "data">>}, port)' = Among({<<s, "data">>}, port)
    <3>1. CASE phase[cur[w]] # "open"
      BY <3>1, PortMoves DEF Answer
    <3>2. CASE phase[cur[w]] = "open"
      <4>1. port' = Append(port, <<cur[w], "answer">>) /\ s # cur[w]
        BY <1>4, <3>2 DEF Answer
      <4>2. /\ Among({s} \X Kinds, port)' = Among({s} \X Kinds, port) + 0
            /\ Among({<<s, "data">>}, port)' = Among({<<s, "data">>}, port) + 0
        BY <1>2, <4>1, PortMoves
      <4>3. Among({s} \X Kinds, port) \in Nat /\ Among({<<s, "data">>}, port) \in Nat
        BY CountTypes
      <4>4. QED
        BY <4>2, <4>3
    <3>3. QED
      BY <3>1, <3>2
  <2>3. QED
    BY <1>1, <1>3, <2>1, <2>2, CountedStays
<1>5. CASE phase[cur[w]] = "open" /\ s = cur[w]
  <2>1. /\ With(Serving, InLoop, s) \in Nat /\ With(Threads, InFound, s) \in Nat
        /\ With(Threads, {"OnDisconnect"}, s) \in Nat /\ With(Serving, Receiving, s) \in Nat
        /\ Pending(s) \in {0, 1} /\ refs[s] \in Nat
        /\ Among({s} \X Kinds, port) \in Nat /\ Among({<<s, "data">>}, port) \in Nat
    BY CountTypes
  <2>2. refs'[s] = refs[s] + 1
    BY <1>5 DEF Answer, TypeOK
  <2>3. /\ Among({s} \X Kinds, port)' = Among({s} \X Kinds, port) + 1
        /\ Among({<<s, "data">>}, port)' = Among({<<s, "data">>}, port)
    <3>1. port' = Append(port, <<s, "answer">>)
      BY <1>5 DEF Answer
    <3>2. /\ Among({s} \X Kinds, port)' = Among({s} \X Kinds, port) + 1
          /\ Among({<<s, "data">>}, port)' = Among({<<s, "data">>}, port) + 0
      BY <1>2, <3>1, PortMoves
    <3>3. QED
      BY <2>1, <3>2
  <2>4. /\ With(Serving, InLoop, s)' = With(Serving, InLoop, s)
        /\ With(Threads, InFound, s)' = With(Threads, InFound, s)
        /\ With(Threads, {"OnDisconnect"}, s)' = With(Threads, {"OnDisconnect"}, s)
        /\ With(Serving, Receiving, s)' = With(Serving, Receiving, s)
    BY SMTT(30), <1>1, <1>3, <2>1, CountsMove
  <2>5. Pending(s)' = Pending(s) /\ phase'[s] = phase[s] /\ phase[s] = "open"
    BY <1>1, <1>5 DEF Pending
  <2>6. QED
    BY <2>1, <2>2, <2>3, <2>4, <2>5 DEF Counted
<1>6. QED
  BY <1>4, <1>5

\* The reference of a receive becomes that of its completion.
LEMMA CompletesCounted ==
  ASSUME TypeOK, NEW s \in Sessions, Counted(s), NEW r \in Sessions, NEW kind \in Kinds,
         recv[r] # "none", Completes(r, kind)
  PROVE  Counted(s)'
<1>1. UNCHANGED <<refs, phase, pc, cur>>
  BY DEF Completes, threads
<1>2. /\ With(Serving, InLoop, s)' = With(Serving, InLoop, s)
      /\ With(Threads, InFound, s)' = With(Threads, InFound, s)
      /\ With(Threads, {"OnDisconnect"}, s)' = With(Threads, {"OnDisconnect"}, s)
      /\ With(Serving, Receiving, s)' = With(Serving, Receiving, s)
  BY <1>1 DEF With
<1>3. /\ With(Serving, InLoop, s) \in Nat /\ With(Threads, InFound, s) \in Nat
      /\ With(Serving, Receiving, s) \in Nat
      /\ Pending(s) \in {0, 1} /\ refs[s] \in Nat
      /\ Among({s} \X Kinds, port) \in Nat /\ Among({<<s, "data">>}, port) \in Nat
  BY CountTypes
<1>4. /\ Among({s} \X Kinds, port)' = Among({s} \X Kinds, port) + (IF r = s THEN 1 ELSE 0)
      /\ Among({<<s, "data">>}, port)' =
            Among({<<s, "data">>}, port) + (IF r = s /\ kind = "data" THEN 1 ELSE 0)
  BY PortMoves DEF Completes
<1>5. Pending(s)' = Pending(s) - (IF r = s THEN 1 ELSE 0)
  <2>1. CASE r = s
    <3>1. recv'[s] = "none" /\ recv[s] # "none"
      BY <2>1 DEF Completes, TypeOK
    <3>2. QED
      BY <2>1, <3>1 DEF Pending
  <2>2. CASE r # s
    <3>1. recv'[s] = recv[s]
      BY <2>2 DEF Completes, TypeOK
    <3>2. QED
      BY <2>2, <3>1 DEF Pending
  <2>3. QED
    BY <2>1, <2>2
<1>6. QED
  <2>1. refs'[s] = refs[s] /\ phase'[s] = phase[s]
    BY <1>1
  <2>2. /\ Pending(s)' + Among({s} \X Kinds, port)' = Pending(s) + Among({s} \X Kinds, port)
        /\ Pending(s)' + Among({<<s, "data">>}, port)' =< Pending(s) + Among({<<s, "data">>}, port)
    BY <1>3, <1>4, <1>5
  <2>3. /\ Pending(s)' \in Int /\ Among({s} \X Kinds, port)' \in Int
        /\ Among({<<s, "data">>}, port)' \in Int
    BY <1>3, <1>4, <1>5
  <2>4. QED
    BY <1>2, <1>3, <2>1, <2>2, <2>3 DEF Counted

\* The reference of a completion that is refused stays in IOcount, where the session
\* had no receive outstanding any more.
LEMMA RefuseReceiveCounted ==
  ASSUME TypeOK, \A s \in Sessions : Counted(s), NEW s \in Sessions,
         NEW w \in Workers, RefuseReceive(w)
  PROVE  Counted(s)'
<1> DEFINE r == Head(port)[1]
<1>1. UNCHANGED <<refs, phase, pc, cur>>
  BY DEF RefuseReceive, threads
<1>2. /\ With(Serving, InLoop, s)' = With(Serving, InLoop, s)
      /\ With(Threads, InFound, s)' = With(Threads, InFound, s)
      /\ With(Threads, {"OnDisconnect"}, s)' = With(Threads, {"OnDisconnect"}, s)
      /\ With(Serving, Receiving, s)' = With(Serving, Receiving, s)
  BY <1>1 DEF With
<1>3. /\ With(Serving, InLoop, s) \in Nat /\ With(Threads, InFound, s) \in Nat
      /\ With(Serving, Receiving, s) \in Nat
      /\ Pending(s) \in {0, 1} /\ refs[s] \in Nat
      /\ Among({s} \X Kinds, port) \in Nat /\ Among({<<s, "data">>}, port) \in Nat
  BY CountTypes
<1>4. /\ Head(port) \in Sessions \X Kinds
      /\ Among({s} \X Kinds, port)' = Among({s} \X Kinds, port) - (IF r = s THEN 1 ELSE 0)
      /\ Among({<<s, "data">>}, port)' =
            Among({<<s, "data">>}, port) - (IF Head(port) = <<s, "data">> THEN 1 ELSE 0)
  BY PortMoves DEF RefuseReceive
<1>5. r \in Sessions /\ (Head(port) = <<s, "data">> <=> r = s)
  BY <1>4 DEF RefuseReceive
<1>6. CASE r = s
  <2>1. Among({<<s, "data">>}, port) > 0
    <3>1. port \in Seq(Sessions \X Kinds) /\ port # <<>>
      BY DEF RefuseReceive, TypeOK
    <3>2. 1 \in DOMAIN port /\ port[1] \in {<<s, "data">>}
      BY <1>5, <1>6, <3>1
    <3>3. QED
      BY <3>1, <3>2, AmongType
  <2>2. With(Serving, Receiving, s) + Pending(s) + Among({<<s, "data">>}, port) =< 1
    BY DEF Counted
  <2>3. Pending(s) = 0
    BY <1>3, <2>1, <2>2
  <2>4. recv'[s] = "refused"
    BY <1>5, <1>6 DEF RefuseReceive, TypeOK
  <2>5. Pending(s)' = 1
    BY <2>4 DEF Pending
  <2>6. /\ Pending(s)' + Among({s} \X Kinds, port)' = Pending(s) + Among({s} \X Kinds, port)
        /\ Pending(s)' + Among({<<s, "data">>}, port)' = Pending(s) + Among({<<s, "data">>}, port)
        /\ Among({s} \X Kinds, port)' \in Int /\ Among({<<s, "data">>}, port)' \in Int
    BY <1>3, <1>4, <1>5, <1>6, <2>3, <2>5
  <2>7. Pending(s)' \in Int /\ refs'[s] = refs[s] /\ phase'[s] = phase[s]
    BY <1>1, <2>5
  <2>8. refs'[s] = With(Serving, InLoop, s)' + With(Threads, InFound, s)' + Pending(s)'
                    + Among({s} \X Kinds, port)'
    <3>1. refs[s] = With(Serving, InLoop, s) + With(Threads, InFound, s) + Pending(s)
                      + Among({s} \X Kinds, port)
      BY DEF Counted
    <3>2. QED
      BY <1>2, <1>3, <2>6, <2>7, <3>1
  <2>9. With(Serving, Receiving, s)' + Pending(s)' + Among({<<s, "data">>}, port)' =< 1
    BY <1>2, <1>3, <2>2, <2>6, <2>7
  <2>10. /\ phase'[s] = "open" <=> refs'[s] > 0
         /\ With(Threads, {"OnDisconnect"}, s)' = IF phase'[s] = "deleted" THEN 1 ELSE 0
    BY <1>2, <2>7 DEF Counted
  <2>11. QED
    BY <2>8, <2>9, <2>10 DEF Counted
<1>7. CASE r # s
  <2>1. Pending(s)' = Pending(s)
    BY <1>7 DEF RefuseReceive, TypeOK, Pending
  <2>2. /\ Among({s} \X Kinds, port)' = Among({s} \X Kinds, port)
        /\ Among({<<s, "data">>}, port)' = Among({<<s, "data">>}, port)
    BY <1>3, <1>4, <1>5, <1>7
  <2>3. QED
    BY <1>1, <1>2, <2>1, <2>2 DEF Counted
<1>8. QED
  BY <1>6, <1>7

\* Nothing of it changes.
LEMMA UntouchedCounted ==
  ASSUME NEW s, Counted(s), UNCHANGED <<refs, phase, recv, port, pc, cur>>
  PROVE  Counted(s)'
BY DEF Counted, With, Pending, Among

-----------------------------------------------------------------------------
(* Every step.                                                             *)

\* The steps, by what they do to the references.
LEMMA NextCases ==
  ASSUME Next
  PROVE  \/ Tick
         \/ \E s \in Sessions : Accept(s)
         \/ \E s \in Sessions, kind \in Kinds : recv[s] # "none" /\ Completes(s, kind)
         \/ NewConnection \/ FindExpired \/ \E w \in Workers : FindOwn(w)
         \/ Insert \/ Wake \/ LockShared \/ Visit \/ UnlockShared
         \/ \E t \in Threads : CancelSession(t)
         \/ \E t \in Threads : ReleaseFound(t)
         \/ \E t \in Serving : RecvIO(t)
         \/ \E t \in Serving : Drop(t)
         \/ \E t \in Threads : OnDisconnect(t)
         \/ \E w \in Workers : \/ Refuse(w) \/ Login(w) \/ QueryAnswered(w) \/ RedisUpdate(w)
                               \/ NoMorePackets(w)
         \/ \E w \in Workers : Connect(w) \/ QueryFails(w)
         \/ \E w \in Workers : Take(w)
         \/ \E w \in Workers : RefuseReceive(w)
         \/ \E w \in Workers : Answer(w)
<1>1. ASSUME NEW s \in Sessions, RecvData(s) \/ PeerLeaves(s) \/ RecvCancelled(s)
      PROVE  \E kind \in Kinds : recv[s] # "none" /\ Completes(s, kind)
  BY <1>1 DEF RecvData, PeerLeaves, RecvCancelled, Kinds
<1>2. CASE \E w \in Workers : Work(w)
  BY <1>2, Bases DEF Work
<1>3. CASE AcceptWork
  BY <1>3, Bases DEF AcceptWork
<1>4. CASE Update
  BY <1>4, Bases DEF Update
<1>5. CASE LockExclusive
  BY <1>5 DEF LockExclusive
<1>6. CASE Tick \/ \E s \in Sessions : Accept(s) \/ RecvData(s) \/ PeerLeaves(s) \/ RecvCancelled(s)
  BY <1>1, <1>6
<1>7. QED
  BY <1>2, <1>3, <1>4, <1>5, <1>6 DEF Next

\* No step leaves the types, or a thread's code.
LEMMA NextTypes ==
  ASSUME TypeOK, Roles, \A s \in Sessions : Counted(s), Next
  PROVE  TypeOK' /\ Roles'
<1>1. CASE \E w \in Workers : Work(w)
  <2>1. PICK w \in Workers : Work(w)
    BY <1>1
  <2>2. w \in Threads /\ w # Timer
    BY Bases
  <2>3. CASE CancelSession(w) \/ ReleaseFound(w) \/ RecvIO(w) \/ Drop(w)
    BY <2>2, <2>3, CommonTypes
  <2>4. CASE \/ Take(w) \/ RefuseReceive(w) \/ Refuse(w) \/ FindOwn(w) \/ Login(w) \/ Connect(w)
             \/ QueryFails(w) \/ QueryAnswered(w) \/ RedisUpdate(w) \/ Answer(w) \/ NoMorePackets(w)
    BY <2>4, WorkerTypes
  <2>5. QED
    BY <2>1, <2>3, <2>4 DEF Work
<1>2. CASE AcceptWork
  BY <1>2, Bases, CommonTypes, AcceptorTypes DEF AcceptWork
<1>3. CASE Update
  BY <1>3, Bases, CommonTypes, OtherTypes DEF Update
<1>4. CASE LockExclusive
  BY <1>4, CommonTypes, AcceptorTypes DEF LockExclusive
<1>5. CASE Tick \/ \E s \in Sessions : Accept(s) \/ RecvData(s) \/ PeerLeaves(s) \/ RecvCancelled(s)
  BY <1>5, AcceptorTypes, OtherTypes
<1>6. QED
  BY <1>1, <1>2, <1>3, <1>4, <1>5 DEF Next

\* No step loses count of a session.
LEMMA NextCounted ==
  ASSUME TypeOK, TypeOK', Roles, \A r \in Sessions : Counted(r), NEW s \in Sessions, Next
  PROVE  Counted(s)'
<1>1. CASE Tick \/ \E w \in Workers : Connect(w) \/ QueryFails(w)
  <2>1. UNCHANGED <<refs, phase, recv, port, pc, cur>>
    BY <1>1 DEF Tick, Connect, QueryFails, network, threads
  <2>2. QED
    BY <2>1, UntouchedCounted
<1>2. CASE \/ Insert \/ Wake \/ LockShared \/ Visit \/ UnlockShared
           \/ \E t \in Threads : CancelSession(t)
           \/ \E w \in Workers : \/ Refuse(w) \/ Login(w) \/ QueryAnswered(w) \/ RedisUpdate(w)
                                 \/ NoMorePackets(w)
  BY <1>2, PlainCounted
<1>3. CASE NewConnection \/ FindExpired \/ \E w \in Workers : FindOwn(w)
  BY <1>3, Bases, FindCounted DEF NewConnection, FindExpired, FindOwn
<1>4. CASE \E r \in Sessions : Accept(r)
  BY <1>4, AcceptCounted
<1>5. CASE \E r \in Sessions, kind \in Kinds : recv[r] # "none" /\ Completes(r, kind)
  BY <1>5, CompletesCounted
<1>6. CASE \E t \in Threads : ReleaseFound(t)
  BY <1>6, ReleaseCounted
<1>7. CASE \E t \in Serving : RecvIO(t)
  BY <1>7, Bases, RecvIOCounted
<1>8. CASE \E t \in Serving : Drop(t)
  BY <1>8, Bases, DropCounted
<1>9. CASE \E t \in Threads : OnDisconnect(t)
  BY <1>9, OnDisconnectCounted
<1>10. CASE \E w \in Workers : Take(w)
  BY <1>10, TakeCounted
<1>11. CASE \E w \in Workers : Answer(w)
  BY <1>11, AnswerCounted
<1>12. CASE \E w \in Workers : RefuseReceive(w)
  BY <1>12, RefuseReceiveCounted
<1>13. QED
  BY <1>1, <1>2, <1>3, <1>4, <1>5, <1>6, <1>7, <1>8, <1>9, <1>10, <1>11, <1>12, NextCases

\* The thread of update() stays where it is when another one moves.
LEMMA TimerKeeps ==
  ASSUME TypeOK, NEW t \in Serving, pc' = [pc EXCEPT ![t] = pc'[t]]
  PROVE  pc'[Timer] = pc[Timer]
BY Bases DEF TypeOK

\* containorLock is the timer's from the lock to the unlock of update().
LEMMA NextLock ==
  ASSUME TypeOK, Roles, LockIsTimers, Next
  PROVE  LockIsTimers'
<1> USE DEF Goto, LockIsTimers, InUpdate, server, threads
<1>1. CASE Tick \/ (\E s \in Sessions, kind \in Kinds : Completes(s, kind))
           \/ \E w \in Workers : Connect(w) \/ QueryFails(w) \/ RefuseReceive(w)
  BY <1>1 DEF Tick, Completes, Connect, QueryFails, RefuseReceive
<1>2. CASE Wake \/ LockShared \/ Visit \/ UnlockShared \/ FindExpired
  BY <1>2, Bases DEF Wake, LockShared, Visit, UnlockShared, FindExpired, Find, TypeOK
<1>3. CASE Insert \/ NewConnection \/ \E s \in Sessions : Accept(s)
  BY <1>3, Bases DEF Insert, NewConnection, Accept, Find, TypeOK
<1>4. ASSUME NEW w \in Workers,
             \/ Refuse(w) \/ Login(w) \/ QueryAnswered(w) \/ RedisUpdate(w) \/ NoMorePackets(w)
             \/ Take(w) \/ Answer(w) \/ FindOwn(w)
      PROVE  LockIsTimers'
  <2>1. lock' = lock /\ pc' = [pc EXCEPT ![w] = pc'[w]]
    BY <1>4, Bases DEF Refuse, Login, QueryAnswered, RedisUpdate, NoMorePackets, Take, Answer, FindOwn, Find,
                       TypeOK
  <2>2. QED
    BY <2>1, Bases, TimerKeeps
<1>5. ASSUME NEW t \in Threads, CancelSession(t) \/ ReleaseFound(t) \/ (t \in Serving /\ (RecvIO(t) \/ Drop(t)))
      PROVE  LockIsTimers'
  <2>1. lock' = lock /\ pc' = [pc EXCEPT ![t] = pc'[t]]
    BY <1>5, Bases DEF CancelSession, ReleaseFound, RecvIO, Drop, Decrement, TypeOK
  <2>2. t = Timer => pc[t] \in InUpdate /\ pc'[t] \in InUpdate
    BY <1>5, Bases DEF CancelSession, ReleaseFound, Decrement, TypeOK
  <2>3. QED
    BY <2>1, <2>2, Bases, TimerKeeps
<1>6. ASSUME NEW t \in Threads, OnDisconnect(t)
      PROVE  LockIsTimers'
  <2>1. lock' = lock /\ pc' = [pc EXCEPT ![t] = pc'[t]] /\ t # Timer
    BY <1>6 DEF OnDisconnect, TypeOK
  <2>2. QED
    BY <2>1, Bases, TimerKeeps
<1>7. QED
  BY <1>1, <1>2, <1>3, <1>4, <1>5, <1>6, Bases, NextCases

\* A step that neither opens or ends a session nor concerns the one that the accept
\* thread is about to register.
LEMMA MapStays ==
  ASSUME MapIsExact, UNCHANGED map,
         \A s \in Sessions :
            /\ phase'[s] \in {"open", "deleted"} <=> phase[s] \in {"open", "deleted"}
            /\ phase[s] \in {"open", "deleted"} =>
                  ((cur'[Acceptor] = s /\ pc'[Acceptor] \in {"find", "insert"})
                   <=> (cur[Acceptor] = s /\ pc[Acceptor] \in {"find", "insert"}))
  PROVE  MapIsExact'
BY DEF MapIsExact, Registered

\* connectionMap keeps up with OnNewConnect and OnDisconnect.
LEMMA NextMap ==
  ASSUME TypeOK, Roles, \A s \in Sessions : Counted(s), MapIsExact, Next
  PROVE  MapIsExact'
<1> USE DEF Goto, server, network, threads
<1>1. CASE \/ Tick \/ (\E s \in Sessions, kind \in Kinds : Completes(s, kind))
           \/ \E w \in Workers : Connect(w) \/ QueryFails(w) \/ RefuseReceive(w)
  <2>1. UNCHANGED <<map, phase, pc, cur>>
    BY <1>1 DEF Tick, Completes, Connect, QueryFails, RefuseReceive
  <2>2. QED
    BY <2>1 DEF MapIsExact, Registered
<1>2. CASE Wake \/ LockShared \/ Visit \/ UnlockShared \/ FindExpired
  <2>1. /\ UNCHANGED <<map, phase>>
        /\ cur'[Acceptor] = cur[Acceptor] /\ pc'[Acceptor] = pc[Acceptor]
    BY <1>2, Bases DEF Wake, LockShared, Visit, UnlockShared, FindExpired, Find, TypeOK
  <2>2. QED
    BY <2>1, MapStays
<1>3. ASSUME NEW w \in Workers,
             \/ Refuse(w) \/ Login(w) \/ QueryAnswered(w) \/ RedisUpdate(w) \/ NoMorePackets(w)
             \/ Take(w) \/ Answer(w) \/ FindOwn(w)
      PROVE  MapIsExact'
  <2>1. /\ UNCHANGED <<map, phase>>
        /\ cur'[Acceptor] = cur[Acceptor] /\ pc'[Acceptor] = pc[Acceptor]
    BY <1>3, Bases DEF Refuse, Login, QueryAnswered, RedisUpdate, NoMorePackets, Take, Answer, FindOwn, Find,
                       TypeOK
  <2>2. QED
    BY <2>1, MapStays
<1>4. CASE NewConnection
  <2>1. cur[Acceptor] \in Sessions /\ pc[Acceptor] = "find"
    BY <1>4, Bases DEF NewConnection, Find, Roles, InLoop
  <2>2. phase[cur[Acceptor]] = "open"
    BY <2>1, Bases, Referenced DEF InLoop
  <2>3. pc'[Acceptor] = "insert" /\ UNCHANGED <<map, phase, cur>>
    BY <1>4, <2>2, Bases DEF NewConnection, Find, TypeOK
  <2>4. QED
    BY <2>1, <2>3, MapStays
<1>5. CASE Insert
  <2>1. cur[Acceptor] \in Sessions /\ pc[Acceptor] = "insert"
    BY <1>5, Bases DEF Insert, Roles, InLoop
  <2>2. phase[cur[Acceptor]] = "open"
    BY <2>1, Bases, Referenced DEF InLoop
  <2>3. /\ DOMAIN map' = DOMAIN map \cup {cur[Acceptor]} /\ UNCHANGED <<phase, cur>>
        /\ pc'[Acceptor] = "found"
    BY <1>5, Bases DEF Insert, TypeOK
  <2>4. QED
    BY <2>1, <2>2, <2>3 DEF MapIsExact, Registered
<1>6. CASE \E s \in Sessions : Accept(s)
  <2>1. PICK s \in Sessions : Accept(s)
    BY <1>6
  <2>2. /\ phase[s] = "none" /\ phase'[s] = "open" /\ \A r \in Sessions : r # s => phase'[r] = phase[r]
        /\ cur'[Acceptor] = s /\ pc[Acceptor] = "accept" /\ pc'[Acceptor] = "find" /\ UNCHANGED map
    BY <2>1, Bases DEF Accept, TypeOK
  <2>3. QED
    BY <2>2 DEF MapIsExact, Registered
<1>7. ASSUME NEW t \in Threads, CancelSession(t) \/ ReleaseFound(t) \/ (t \in Serving /\ (RecvIO(t) \/ Drop(t)))
      PROVE  MapIsExact'
  <2>1. cur[t] \in Sessions
    BY <1>7 DEF CancelSession, ReleaseFound, RecvIO, Drop, Decrement, Roles, InLoop
  <2>2. pc[t] \in InFound \/ (t # Timer /\ pc[t] \in InLoop)
    BY <1>7, Bases DEF CancelSession, ReleaseFound, RecvIO, Drop, Decrement, InLoop, InFound
  <2>3. phase[cur[t]] = "open"
    BY <2>1, <2>2, Referenced
  <2>4. \A s \in Sessions : phase'[s] \in {"open", "deleted"} <=> phase[s] \in {"open", "deleted"}
    BY <1>7, <2>1, <2>3 DEF CancelSession, ReleaseFound, RecvIO, Drop, Decrement, TypeOK
  <2>5. /\ UNCHANGED map
        /\ t # Acceptor => pc'[Acceptor] = pc[Acceptor] /\ cur'[Acceptor] = cur[Acceptor]
        /\ pc[t] \notin {"find", "insert"} /\ pc'[t] \notin {"find", "insert"}
    BY <1>7, Bases DEF CancelSession, ReleaseFound, RecvIO, Drop, Decrement, TypeOK
  <2>6. QED
    BY <2>4, <2>5, MapStays
<1>8. ASSUME NEW t \in Threads, OnDisconnect(t)
      PROVE  MapIsExact'
  <2>1. cur[t] \in Sessions /\ pc[t] = "OnDisconnect"
    BY <1>8 DEF OnDisconnect, Roles
  <2>2. phase[cur[t]] = "deleted"
    BY <1>8, <2>1, OnDisconnectCounted
  <2>3. /\ DOMAIN map' = DOMAIN map \ {cur[t]} /\ phase' = [phase EXCEPT ![cur[t]] = "ended"]
        /\ t # Acceptor => pc'[Acceptor] = pc[Acceptor] /\ cur'[Acceptor] = cur[Acceptor]
        /\ pc'[t] \notin {"find", "insert"}
    BY <1>8, Bases DEF OnDisconnect, TypeOK
  <2>4. /\ phase'[cur[t]] = "ended"
        /\ \A s \in Sessions : s # cur[t] => phase'[s] = phase[s]
    BY <2>1, <2>3 DEF TypeOK
  <2>5. \A s \in Sessions : s \in DOMAIN map' <=> Registered(s)'
    <3>1. CASE t = Acceptor
      BY <2>1, <2>3, <2>4, <3>1 DEF MapIsExact, Registered
    <3>2. CASE t # Acceptor
      BY <2>1, <2>3, <2>4, <3>2 DEF MapIsExact, Registered
    <3>3. QED
      BY <3>1, <3>2
  <2>6. QED
    BY <2>3, <2>5 DEF MapIsExact
<1>9. QED
  BY <1>1, <1>2, <1>3, <1>4, <1>5, <1>6, <1>7, <1>8, Bases, NextCases

-----------------------------------------------------------------------------
(* The theorems.                                                           *)

\* start() returns with no session, no reference and an empty map.
LEMMA InitInv == Init => LoginInv
<1> SUFFICES ASSUME Init PROVE LoginInv
  OBVIOUS
<1>1. TypeOK
  <2>1. 0 \in 0 .. MaxTick /\ 0 \in Nat
    BY LoginAssumption
  <2>2. <<>> \in Seq(Sessions \X Kinds)
    OBVIOUS
  <2>3. \A t \in Threads : pc[t] \in Pcs
    BY DEF Init, Base, Pcs
  <2>4. QED
    BY <2>1, <2>2, <2>3 DEF Init, TypeOK
<1>2. \A t \in Threads : pc[t] \notin InLoop \cup InFound \cup {"OnDisconnect"}
  BY DEF Init, Base, InLoop, InFound
<1>3. Roles
  BY <1>2, Bases DEF Init, Roles, InUpdate, InLoop
<1>4. LockIsTimers
  BY Bases DEF Init, LockIsTimers, InUpdate
<1>5. MapIsExact
  BY DEF Init, MapIsExact, Registered
<1>6. ASSUME NEW s \in Sessions
      PROVE  Counted(s)
  <2>1. /\ With(Serving, InLoop, s) \in Nat /\ With(Threads, InFound, s) \in Nat
        /\ With(Threads, {"OnDisconnect"}, s) \in Nat /\ With(Serving, Receiving, s) \in Nat
        /\ With(Serving, Receiving, s) =< With(Serving, InLoop, s)
    BY <1>1, CountTypes
  <2>2. Serving \in SUBSET Threads
    BY Bases
  <2>3. /\ ~(With(Serving, InLoop, s) > 0) /\ ~(With(Threads, InFound, s) > 0)
        /\ ~(With(Threads, {"OnDisconnect"}, s) > 0)
    BY <1>1, <1>2, <2>2, WithType
  <2>4. /\ With(Serving, InLoop, s) = 0 /\ With(Threads, InFound, s) = 0
        /\ With(Threads, {"OnDisconnect"}, s) = 0 /\ With(Serving, Receiving, s) = 0
    BY <2>1, <2>3
  <2>5. Among({s} \X Kinds, port) = 0 /\ Among({<<s, "data">>}, port) = 0
    BY AmongEmpty DEF Init
  <2>6. Pending(s) = 0 /\ refs[s] = 0 /\ phase[s] = "none"
    BY DEF Init, Pending
  <2>7. QED
    BY <2>4, <2>5, <2>6 DEF Counted
<1>7. QED
  BY <1>1, <1>3, <1>4, <1>5, <1>6, AllCounted DEF LoginInv

\* Every step, and every stuttering, keeps all of it.
LEMMA NextInv == LoginInv /\ [Next]_vars => LoginInv'
<1> SUFFICES ASSUME LoginInv, [Next]_vars PROVE LoginInv'
  OBVIOUS
<1>1. TypeOK /\ Roles /\ LockIsTimers /\ MapIsExact /\ \A s \in Sessions : Counted(s)
  BY AllCounted DEF LoginInv
<1>2. CASE Next
  <2>1. TypeOK' /\ Roles'
    BY <1>1, <1>2, NextTypes
  <2>2. \A s \in Sessions : Counted(s)'
    BY <1>1, <1>2, <2>1, NextCounted
  <2>3. (\A s \in Sessions : Counted(s))' => (RefsAreExact /\ OneReports /\ OneReceive)'
    BY AllCounted, PTL
  <2>4. LockIsTimers' /\ MapIsExact'
    BY <1>1, <1>2, NextLock, NextMap
  <2>5. QED
    BY <2>1, <2>2, <2>3, <2>4 DEF LoginInv
<1>3. CASE UNCHANGED vars
  <2>1. /\ UNCHANGED <<tick, lock, map, refs, phase, cancel, recv, port, login, mysqlConnect>>
        /\ UNCHANGED <<pc, cur, now, todo>>
    BY <1>3 DEF vars, server, network, content, threads
  <2>2. TypeOK' /\ Roles' /\ LockIsTimers' /\ MapIsExact'
    BY <1>1, <2>1 DEF TypeOK, Roles, LockIsTimers, MapIsExact, Registered
  <2>3. \A s \in Sessions : Counted(s)'
    BY <1>1, <2>1, UntouchedCounted
  <2>4. (\A s \in Sessions : Counted(s))' => (RefsAreExact /\ OneReports /\ OneReceive)'
    BY AllCounted, PTL
  <2>5. QED
    BY <2>2, <2>3, <2>4 DEF LoginInv
<1>4. QED
  BY <1>2, <1>3

\* The inductive invariant: IOcount counts the threads, receives (a refused one as
\* well, for good) and completions that have the session, one thread reports a deleted session, there is one receive at a
\* time, containorLock is the timer's, and the map is that of the callbacks.
THEOREM Invariance == Spec => []LoginInv
<1>1. QED
  BY InitInv, NextInv, PTL DEF Spec

\* The variables keep their types, and IOcount never goes below zero.
THEOREM TypeCorrect == Spec => []TypeOK
<1>1. LoginInv => TypeOK
  BY DEF LoginInv
<1>2. QED
  BY <1>1, Invariance, PTL

\* connectionMap has exactly the sessions that OnNewConnect has registered and
\* OnDisconnect has not: the two callbacks never overtake each other.
THEOREM MapKeepsUp == Spec => []MapIsExact
<1>1. LoginInv => MapIsExact
  BY DEF LoginInv
<1>2. QED
  BY <1>1, Invariance, PTL

\* IOcount of every session is the number of its references, whatever the accept
\* thread, the workers, update(), the receives and the port do at once, and a session
\* stays open as long as one is counted.  The reference of a receive that recved
\* refused (network.cpp:374) is counted with the receive, as IOcount does: nobody
\* gives it back.  No other one is left over.
THEOREM ReferencesAreExact == Spec => []RefsAreExact
<1>1. LoginInv => RefsAreExact
  BY DEF LoginInv
<1>2. QED
  BY <1>1, Invariance, PTL

\* While update() iterates under its shared hold of containorLock, neither
\* OnNewConnect nor OnDisconnect changes connectionMap under it.
THEOREM UpdateIteratesSafely == Spec => IterationIsStable
<1>1. ASSUME LoginInv, Next, pc[Timer] \in {"iterate", "find", "cancel", "found"}
      PROVE  map' = map
  <2>1. lock # "free"
    BY <1>1 DEF LoginInv, LockIsTimers, InUpdate
  <2>2. ~Insert /\ \A t \in Threads : ~OnDisconnect(t)
    BY <2>1 DEF Insert, OnDisconnect
  <2>3. CASE Tick \/ (\E s \in Sessions : Accept(s) \/ (\E k \in Kinds : Completes(s, k)))
             \/ NewConnection \/ FindExpired \/ Wake \/ LockShared \/ Visit \/ UnlockShared
    BY <2>3 DEF Tick, Accept, Completes, NewConnection, FindExpired, Wake, LockShared, Visit, UnlockShared,
                server
  <2>4. CASE \E t \in Threads : CancelSession(t) \/ ReleaseFound(t) \/ RecvIO(t) \/ Drop(t)
    BY <2>4 DEF CancelSession, ReleaseFound, RecvIO, Drop, server
  <2>5. CASE \E w \in Workers :
               \/ FindOwn(w) \/ Refuse(w) \/ Login(w) \/ QueryAnswered(w) \/ RedisUpdate(w)
               \/ NoMorePackets(w) \/ Connect(w) \/ QueryFails(w) \/ Take(w) \/ Answer(w)
               \/ RefuseReceive(w)
    BY <2>5 DEF RefuseReceive, FindOwn, Refuse, Login, QueryAnswered, RedisUpdate, NoMorePackets, Connect, QueryFails, Take,
                Answer, server
  <2>6. QED
    BY <1>1, <2>2, <2>3, <2>4, <2>5, Bases, NextCases
<1>2. LoginInv /\ [Next]_vars => [pc[Timer] \in {"iterate", "find", "cancel", "found"} => map' = map]_vars
  BY <1>1
<1>3. QED
  BY <1>2, Invariance, PTL DEF Spec, IterationIsStable

-----------------------------------------------------------------------------
(* The login server implements SessionContract.  Accept connects, a packet  *)
(* that OnRecv acts on delivers, the answer or the end of disconnectReq     *)
(* returns, findSession finds, update() gives back or deletes, the last     *)
(* Drop deletes, and OnDisconnect reports.  Every other step changes        *)
(* nothing of the contract.                                                *)

\* The state of the contract that a state of the server stands for.
InCallback == {"find", "insert", "cancel", "found", "query", "redis", "answer"}
Stage == [s \in Sessions |-> IF phase[s] = "ended" THEN "reported" ELSE phase[s]]
Inside == [s \in Sessions |-> {t \in {Acceptor} \cup Workers : cur[t] = s /\ pc[t] \in InCallback}]
Holders == [s \in Sessions |-> {t \in Threads : cur[t] = s /\ pc[t] \in InFound}]

\* Who is in a callback and who found a session, when one thread moves.
LEMMA PlacesMove ==
  ASSUME TypeOK, NEW s \in Sessions, NEW t \in Threads,
         pc' = [pc EXCEPT ![t] = pc'[t]], cur' = [cur EXCEPT ![t] = cur'[t]]
  PROVE  /\ Inside'[s] = (Inside[s] \ {t})
               \cup {u \in {t} : u # Timer /\ cur'[t] = s /\ pc'[t] \in InCallback}
         /\ Holders'[s] = (Holders[s] \ {t}) \cup {u \in {t} : cur'[t] = s /\ pc'[t] \in InFound}
         /\ t \in Inside[s] <=> t # Timer /\ cur[t] = s /\ pc[t] \in InCallback
         /\ t \in Holders[s] <=> cur[t] = s /\ pc[t] \in InFound
<1>1. \A u \in Threads : u # t => pc'[u] = pc[u] /\ cur'[u] = cur[u]
  BY DEF TypeOK
<1>2. {Acceptor} \cup Workers \subseteq Threads /\ (t \in {Acceptor} \cup Workers <=> t # Timer)
  BY Bases
<1>3. /\ Inside[s] = {u \in {Acceptor} \cup Workers : cur[u] = s /\ pc[u] \in InCallback}
      /\ Inside'[s] = {u \in {Acceptor} \cup Workers : cur'[u] = s /\ pc'[u] \in InCallback}
  BY DEF Inside
<1>4. /\ Holders[s] = {u \in Threads : cur[u] = s /\ pc[u] \in InFound}
      /\ Holders'[s] = {u \in Threads : cur'[u] = s /\ pc'[u] \in InFound}
  BY DEF Holders
<1>5. Inside'[s] = (Inside[s] \ {t})
               \cup {u \in {t} : u # Timer /\ cur'[t] = s /\ pc'[t] \in InCallback}
  BY <1>1, <1>2, <1>3
<1>6. Holders'[s] = (Holders[s] \ {t}) \cup {u \in {t} : cur'[t] = s /\ pc'[t] \in InFound}
  BY <1>1, <1>4
<1>7. QED
  BY <1>2, <1>3, <1>4, <1>5, <1>6

\* A step that nobody who knows the contract sees.
LEMMA Quiet ==
  ASSUME TypeOK, NEW t \in Threads, UNCHANGED <<phase, cancel>>,
         pc' = [pc EXCEPT ![t] = pc'[t]], cur' = [cur EXCEPT ![t] = cur'[t]],
         \A s \in Sessions :
            /\ t # Timer => ((cur'[t] = s /\ pc'[t] \in InCallback) <=> (cur[t] = s /\ pc[t] \in InCallback))
            /\ (cur'[t] = s /\ pc'[t] \in InFound) <=> (cur[t] = s /\ pc[t] \in InFound)
  PROVE  UNCHANGED Contract!vars
<1>1. ASSUME NEW s \in Sessions
      PROVE  Inside'[s] = Inside[s] /\ Holders'[s] = Holders[s]
  <2>1. /\ Inside'[s] = (Inside[s] \ {t})
               \cup {u \in {t} : u # Timer /\ cur'[t] = s /\ pc'[t] \in InCallback}
        /\ Holders'[s] = (Holders[s] \ {t}) \cup {u \in {t} : cur'[t] = s /\ pc'[t] \in InFound}
        /\ t \in Inside[s] <=> t # Timer /\ cur[t] = s /\ pc[t] \in InCallback
        /\ t \in Holders[s] <=> cur[t] = s /\ pc[t] \in InFound
    BY PlacesMove
  <2>2. Inside'[s] = Inside[s]
    BY <2>1
  <2>3. Holders'[s] = Holders[s]
    BY <2>1
  <2>4. QED
    BY <2>2, <2>3
<1>2. Inside' = Inside
  BY <1>1 DEF Inside
<1>3. Holders' = Holders
  BY <1>1 DEF Holders
<1>4. Stage' = Stage
  BY DEF Stage
<1>5. QED
  BY <1>2, <1>3, <1>4 DEF Contract!vars, Stage, Inside, Holders, InCallback, InFound

\* The steps of the contract, in terms of that state.
LEMMA AbstractSteps ==
  ASSUME NEW s \in Sessions, NEW t \in Threads,
         \/ /\ Stage[s] = "none" /\ Stage' = [Stage EXCEPT ![s] = "open"]
            /\ Inside' = [Inside EXCEPT ![s] = {t}] /\ Holders' = Holders /\ cancel' = cancel
         \/ /\ Stage[s] = "open" /\ Stage' = Stage /\ Inside[s] = {}
            /\ Inside' = [Inside EXCEPT ![s] = {t}] /\ Holders' = Holders /\ cancel' = cancel
         \/ /\ t \in Inside[s] /\ Stage' = Stage /\ Inside' = [Inside EXCEPT ![s] = Inside[s] \ {t}]
            /\ Holders' = [Holders EXCEPT ![s] = Holders[s] \ {t}] /\ cancel' = cancel
         \/ /\ Stage[s] = "open" /\ Stage' = Stage /\ t \notin Holders[s] /\ Inside' = Inside
            /\ Holders' = [Holders EXCEPT ![s] = Holders[s] \cup {t}] /\ cancel' = cancel
         \/ /\ t \in Holders[s] /\ Stage' = Stage /\ Inside' = Inside
            /\ Holders' = [Holders EXCEPT ![s] = Holders[s] \ {t}] /\ cancel' = cancel
         \/ /\ Stage[s] = "open" /\ Stage' = Stage /\ Inside' = Inside /\ Holders' = Holders
            /\ cancel' = cancel \cup {s}
         \/ /\ Stage[s] = "open" /\ Stage' = [Stage EXCEPT ![s] = "deleted"]
            /\ Inside[s] = {} /\ Inside' = Inside /\ Holders[s] \subseteq {t}
            /\ Holders' = [Holders EXCEPT ![s] = {}] /\ cancel' = cancel
         \/ /\ Stage[s] = "deleted" /\ Stage' = [Stage EXCEPT ![s] = "reported"]
            /\ Inside' = Inside /\ Holders' = Holders /\ cancel' = cancel
  PROVE  Contract!Next
<1>1. \/ Contract!Connect(s, t) \/ Contract!Deliver(s, t) \/ Contract!Return(s, t) \/ Contract!Find(s, t)
      \/ Contract!GiveBack(s, t) \/ Contract!Cancel(s) \/ Contract!Delete(s, t) \/ Contract!Report(s)
  BY ZenonT(60) DEF Contract!Connect, Contract!Deliver, Contract!Return, Contract!Find, Contract!GiveBack,
         Contract!Cancel, Contract!Delete, Contract!Report, Stage, Inside, Holders, InCallback, InFound
<1>2. QED
  BY <1>1 DEF Contract!Next

\* One thread moves and nothing but one session sees it.
LEMMA OneSession ==
  ASSUME TypeOK, NEW s \in Sessions, NEW t \in Threads,
         pc' = [pc EXCEPT ![t] = pc'[t]], cur' = [cur EXCEPT ![t] = cur'[t]],
         cur'[t] = s, cur[t] = s \/ pc[t] \notin InCallback \cup InFound
  PROVE  /\ Inside' = [Inside EXCEPT ![s] = IF t # Timer /\ pc'[t] \in InCallback
                                            THEN Inside[s] \cup {t} ELSE Inside[s] \ {t}]
         /\ Holders' = [Holders EXCEPT ![s] = IF pc'[t] \in InFound
                                              THEN Holders[s] \cup {t} ELSE Holders[s] \ {t}]
<1>1. ASSUME NEW r \in Sessions, r # s
      PROVE  Inside'[r] = Inside[r] /\ Holders'[r] = Holders[r]
  <2>1. /\ Inside'[r] = (Inside[r] \ {t})
               \cup {u \in {t} : u # Timer /\ cur'[t] = r /\ pc'[t] \in InCallback}
        /\ Holders'[r] = (Holders[r] \ {t}) \cup {u \in {t} : cur'[t] = r /\ pc'[t] \in InFound}
        /\ t \in Inside[r] <=> t # Timer /\ cur[t] = r /\ pc[t] \in InCallback
        /\ t \in Holders[r] <=> cur[t] = r /\ pc[t] \in InFound
    BY PlacesMove
  <2>2. Inside'[r] = Inside[r]
    BY <1>1, <2>1
  <2>3. Holders'[r] = Holders[r]
    BY <1>1, <2>1
  <2>4. QED
    BY <2>2, <2>3
<1>2. /\ Inside'[s] = (Inside[s] \ {t})
               \cup {u \in {t} : u # Timer /\ cur'[t] = s /\ pc'[t] \in InCallback}
      /\ Holders'[s] = (Holders[s] \ {t}) \cup {u \in {t} : cur'[t] = s /\ pc'[t] \in InFound}
  BY PlacesMove
<1>3. Inside'[s] = IF t # Timer /\ pc'[t] \in InCallback THEN Inside[s] \cup {t} ELSE Inside[s] \ {t}
  BY <1>2
<1>4. Holders'[s] = IF pc'[t] \in InFound THEN Holders[s] \cup {t} ELSE Holders[s] \ {t}
  BY <1>2
<1>5. Inside' = [Inside EXCEPT ![s] = Inside'[s]]
  <2>1. /\ Inside = [r \in Sessions |-> Inside[r]]
        /\ Inside' = [r \in Sessions |-> Inside'[r]]
    BY DEF Inside
  <2>2. QED
    BY <1>1, <2>1
<1>6. Holders' = [Holders EXCEPT ![s] = Holders'[s]]
  <2>1. /\ Holders = [r \in Sessions |-> Holders[r]]
        /\ Holders' = [r \in Sessions |-> Holders'[r]]
    BY DEF Holders
  <2>2. QED
    BY <1>1, <2>1
<1>7. QED
  BY <1>3, <1>4, <1>5, <1>6

\* Without a reference nobody is in a callback of a session, or found it.
LEMMA Nobody ==
  ASSUME TypeOK, NEW s \in Sessions
  PROVE  /\ With(Serving, InLoop, s) = 0 => Inside[s] = {}
         /\ With(Threads, InFound, s) = 0 => Holders[s] = {}
<1>1. Serving \in SUBSET Threads
  BY Bases
<1>2. \A u \in Inside[s] : u \in Serving /\ cur[u] = s /\ pc[u] \in InLoop
  BY Bases DEF Inside, InCallback, InLoop
<1>3. \A u \in Inside[s] : With(Serving, InLoop, s) > 0
  BY <1>1, <1>2, WithType
<1>4. \A u \in Holders[s] : With(Threads, InFound, s) > 0
  BY WithType DEF Holders
<1>5. QED
  BY <1>3, <1>4

\* Who gives back the last reference is alone.
LEMMA LastReference ==
  ASSUME TypeOK, NEW s \in Sessions, Counted(s), refs[s] = 1, NEW t \in Threads, cur[t] = s,
         \/ pc[t] = "found"
         \/ t # Timer /\ pc[t] = "drop"
  PROVE  Inside[s] = {} /\ Holders[s] \subseteq {t} /\ (pc[t] = "found" => t = Timer)
<1>1. /\ With(Serving, InLoop, s) \in Nat /\ With(Threads, InFound, s) \in Nat
      /\ Pending(s) \in {0, 1} /\ Among({s} \X Kinds, port) \in Nat
  BY CountTypes
<1>2. With(Serving, InLoop, s) + With(Threads, InFound, s) + Pending(s) + Among({s} \X Kinds, port) = 1
  BY DEF Counted
<1>3. Serving \in SUBSET Threads /\ (t \in Serving <=> t # Timer)
  BY Bases
<1>4. CASE pc[t] = "found"
  <2>1. With(Threads, InFound, s) > 0 /\ (t # Timer => With(Serving, InLoop, s) > 0)
    BY <1>3, <1>4, WithType DEF InFound, InLoop
  <2>2. With(Serving, InLoop, s) = 0 /\ With(Threads, InFound, s) = 1 /\ t = Timer
    BY <1>1, <1>2, <2>1
  <2>3. Holders[s] \subseteq {t}
    BY <1>4, <2>2, TwoWith DEF Holders, InFound
  <2>4. QED
    BY <2>2, <2>3, Nobody
<1>5. CASE t # Timer /\ pc[t] = "drop"
  <2>1. With(Serving, InLoop, s) > 0
    BY <1>3, <1>5, WithType DEF InLoop
  <2>2. With(Serving, InLoop, s) = 1 /\ With(Threads, InFound, s) = 0
    BY <1>1, <1>2, <2>1
  <2>3. ASSUME NEW u \in Inside[s]
        PROVE  FALSE
    <3>1. u \in Serving /\ cur[u] = s /\ pc[u] \in InLoop /\ pc[u] # "drop"
      BY Bases DEF Inside, InCallback, InLoop
    <3>2. u = t
      BY <1>3, <1>5, <2>2, <3>1, TwoWith DEF InLoop
    <3>3. QED
      BY <1>5, <3>1, <3>2
  <2>4. QED
    BY <1>5, <2>2, <2>3, Nobody
<1>6. QED
  BY <1>4, <1>5

\* The worker that parses is the only one in the callbacks of its session.
LEMMA NobodyInCallback ==
  ASSUME TypeOK, NEW s \in Sessions, Counted(s), NEW w \in Workers, cur[w] = s, pc[w] = "parse"
  PROVE  Inside[s] = {}
<1>1. /\ With(Serving, Receiving, s) \in Nat /\ Pending(s) \in {0, 1}
      /\ Among({<<s, "data">>}, port) \in Nat
  BY CountTypes
<1>2. With(Serving, Receiving, s) =< 1
  BY <1>1 DEF Counted
<1>3. ASSUME NEW u \in Inside[s]
      PROVE  FALSE
  <2>1. u \in Serving /\ cur[u] = s /\ pc[u] \in Receiving /\ pc[u] # "parse"
    BY Bases DEF Inside, InCallback, InLoop, Receiving
  <2>2. w \in Serving /\ pc[w] \in Receiving /\ Serving \in SUBSET Threads
    BY Bases DEF InLoop, Receiving
  <2>3. u = w
    BY <1>2, <2>1, <2>2, TwoWith
  <2>4. QED
    BY <2>1, <2>3
<1>4. QED
  BY <1>3

\* Steps that keep to one side of every callback and every findSession.
LEMMA QuietSteps ==
  ASSUME TypeOK, Roles,
         \/ Tick \/ (\E s \in Sessions, kind \in Kinds : Completes(s, kind))
         \/ Insert \/ Wake \/ LockShared \/ Visit \/ UnlockShared
         \/ \E t \in Serving : RecvIO(t)
         \/ \E w \in Workers : \/ QueryAnswered(w) \/ RedisUpdate(w) \/ NoMorePackets(w)
                               \/ Connect(w) \/ QueryFails(w) \/ Take(w) \/ RefuseReceive(w)
  PROVE  UNCHANGED Contract!vars
<1> USE DEF Goto, server, network, threads
<1>1. CASE \/ Tick \/ (\E s \in Sessions, kind \in Kinds : Completes(s, kind))
           \/ \E w \in Workers : Connect(w) \/ QueryFails(w) \/ RefuseReceive(w)
  <2>1. UNCHANGED <<phase, cancel, pc, cur>>
    BY <1>1 DEF Tick, Completes, Connect, QueryFails, RefuseReceive
  <2>2. QED
    BY <2>1 DEF Contract!vars
<1>2. CASE Insert
  <2>1. /\ pc' = [pc EXCEPT ![Acceptor] = pc'[Acceptor]] /\ cur' = [cur EXCEPT ![Acceptor] = cur'[Acceptor]]
        /\ pc[Acceptor] = "insert" /\ pc'[Acceptor] = "found" /\ cur'[Acceptor] = cur[Acceptor]
        /\ Acceptor \in Threads /\ UNCHANGED <<phase, cancel>>
    BY <1>2, Bases DEF Insert, TypeOK
  <2>2. QED
    BY <2>1, Quiet DEF InCallback, InFound
<1>3. CASE Wake \/ LockShared \/ Visit \/ UnlockShared
  <2>1. /\ pc' = [pc EXCEPT ![Timer] = pc'[Timer]] /\ cur' = [cur EXCEPT ![Timer] = cur'[Timer]]
        /\ pc[Timer] \in {"sleep", "lock", "iterate"} /\ pc'[Timer] \in {"lock", "iterate", "find", "sleep"}
        /\ Timer \in Threads /\ UNCHANGED <<phase, cancel>>
    BY <1>3, Bases DEF Wake, LockShared, Visit, UnlockShared, TypeOK
  <2>2. QED
    BY <2>1, Quiet DEF InFound
<1>4. ASSUME NEW t \in Serving, RecvIO(t)
      PROVE  UNCHANGED Contract!vars
  <2>1. /\ pc' = [pc EXCEPT ![t] = pc'[t]] /\ cur' = [cur EXCEPT ![t] = cur'[t]]
        /\ pc[t] = "recvIO" /\ pc'[t] = "drop" /\ t \in Threads /\ UNCHANGED <<phase, cancel>>
    BY <1>4, Bases DEF RecvIO, TypeOK
  <2>2. QED
    BY <2>1, Quiet DEF InCallback, InFound
<1>5. ASSUME NEW w \in Workers, QueryAnswered(w) \/ RedisUpdate(w)
      PROVE  UNCHANGED Contract!vars
  <2>1. /\ pc' = [pc EXCEPT ![w] = pc'[w]] /\ cur' = [cur EXCEPT ![w] = cur'[w]] /\ cur'[w] = cur[w]
        /\ pc[w] \in {"query", "redis"} /\ pc'[w] \in {"redis", "answer"}
        /\ w \in Threads /\ UNCHANGED <<phase, cancel>>
    BY <1>5, Bases DEF QueryAnswered, RedisUpdate, TypeOK
  <2>2. QED
    BY <2>1, Quiet DEF InCallback, InFound
<1>6. ASSUME NEW w \in Workers, NoMorePackets(w) \/ Take(w)
      PROVE  UNCHANGED Contract!vars
  <2>1. /\ pc' = [pc EXCEPT ![w] = pc'[w]] /\ cur' = [cur EXCEPT ![w] = cur'[w]]
        /\ pc[w] \in {"parse", "idle"} /\ pc'[w] \in {"recvIO", "parse", "drop"}
        /\ w \in Threads /\ UNCHANGED <<phase, cancel>>
    BY <1>6, Bases DEF NoMorePackets, Take, TypeOK
  <2>2. QED
    BY <2>1, Quiet DEF InCallback, InFound
<1>7. QED
  BY <1>1, <1>2, <1>3, <1>4, <1>5, <1>6

\* The accept reports a new session.
LEMMA AcceptConnects ==
  ASSUME TypeOK, NEW s \in Sessions, Counted(s), Accept(s)
  PROVE  Contract!Next
<1>1. /\ pc' = [pc EXCEPT ![Acceptor] = pc'[Acceptor]] /\ cur' = [cur EXCEPT ![Acceptor] = cur'[Acceptor]]
      /\ pc[Acceptor] = "accept" /\ pc'[Acceptor] = "find" /\ cur'[Acceptor] = s
      /\ Acceptor \in Threads /\ Acceptor # Timer /\ cancel' = cancel
      /\ phase[s] = "none" /\ phase' = [phase EXCEPT ![s] = "open"]
  BY Bases DEF Accept, Goto, TypeOK
<1>2. /\ With(Serving, InLoop, s) \in Nat /\ With(Threads, InFound, s) \in Nat
      /\ Pending(s) \in {0, 1} /\ Among({s} \X Kinds, port) \in Nat /\ refs[s] \in Nat
  BY CountTypes
<1>3. refs[s] = 0
  BY <1>1, <1>2 DEF Counted
<1>4. With(Serving, InLoop, s) + With(Threads, InFound, s) + Pending(s) + Among({s} \X Kinds, port) = 0
  BY <1>3 DEF Counted
<1>5. With(Serving, InLoop, s) = 0 /\ With(Threads, InFound, s) = 0
  <2>1. \A l, f, p, q \in Nat : l + f + p + q = 0 => l = 0 /\ f = 0
    OBVIOUS
  <2>2. Pending(s) \in Nat
    BY <1>2
  <2>3. QED
    BY <1>2, <1>4, <2>1, <2>2
<1>6. Inside[s] = {} /\ Holders[s] = {}
  BY <1>5, Nobody
<1>7. /\ Inside' = [Inside EXCEPT ![s] = {Acceptor}]
      /\ Holders' = [Holders EXCEPT ![s] = Holders[s]]
  <2>1. pc'[Acceptor] \in InCallback /\ pc'[Acceptor] \notin InFound
        /\ pc[Acceptor] \notin InCallback \cup InFound
    BY <1>1 DEF InCallback, InFound
  <2>2. /\ Inside' = [Inside EXCEPT ![s] = Inside[s] \cup {Acceptor}]
        /\ Holders' = [Holders EXCEPT ![s] = Holders[s] \ {Acceptor}]
    BY <1>1, <2>1, OneSession
  <2>3. Inside[s] \cup {Acceptor} = {Acceptor} /\ Holders[s] \ {Acceptor} = Holders[s]
    BY <1>6
  <2>4. QED
    BY <2>2, <2>3
<1>8. Holders' = Holders
  BY <1>7 DEF Holders
<1>9. Stage[s] = "none" /\ Stage' = [Stage EXCEPT ![s] = "open"]
  BY <1>1 DEF Stage, TypeOK
<1>10. QED
  BY <1>1, <1>7, <1>8, <1>9, AbstractSteps

\* OnRecv acts on a packet.
LEMMA WorkerDelivers ==
  ASSUME TypeOK, Roles, NEW w \in Workers, NEW s \in Sessions, cur[w] = s, Counted(s),
         Refuse(w) \/ Login(w)
  PROVE  Contract!Next
<1>1. /\ pc' = [pc EXCEPT ![w] = pc'[w]] /\ cur' = [cur EXCEPT ![w] = cur'[w]] /\ cur'[w] = s
      /\ pc[w] = "parse" /\ pc'[w] \in {"find", "query"} /\ UNCHANGED <<phase, cancel>>
      /\ w \in Threads /\ w # Timer
  BY Bases DEF Refuse, Login, Goto, TypeOK, network
<1>2. Inside[s] = {}
  BY <1>1, NobodyInCallback
<1>3. pc[w] \in InLoop /\ pc[w] \notin InFound /\ pc'[w] \in InCallback /\ pc'[w] \notin InFound
  BY <1>1 DEF InLoop, InCallback, InFound
<1>4. phase[s] = "open"
  BY <1>1, <1>3, Referenced
<1>5. /\ Inside' = [Inside EXCEPT ![s] = Inside[s] \cup {w}]
      /\ Holders' = [Holders EXCEPT ![s] = Holders[s] \ {w}]
  BY <1>1, <1>3, OneSession
<1>6. Inside[s] \cup {w} = {w} /\ Holders[s] \ {w} = Holders[s]
  BY <1>2, <1>3 DEF Holders
<1>7. Holders' = Holders /\ Inside' = [Inside EXCEPT ![s] = {w}]
  BY <1>5, <1>6 DEF Holders
<1>8. Stage[s] = "open" /\ Stage' = Stage
  BY <1>1, <1>4 DEF Stage
<1>9. QED
  BY <1>1, <1>2, <1>7, <1>8, AbstractSteps

\* The answer returns from OnRecv.
LEMMA AnswerReturns ==
  ASSUME TypeOK, Roles, NEW w \in Workers, NEW s \in Sessions, cur[w] = s, Answer(w)
  PROVE  Contract!Next
<1>1. /\ pc' = [pc EXCEPT ![w] = pc'[w]] /\ cur' = [cur EXCEPT ![w] = cur'[w]] /\ cur'[w] = s
      /\ pc[w] = "answer" /\ pc'[w] = "parse" /\ UNCHANGED <<phase, cancel>>
      /\ w \in Threads /\ w # Timer
  BY Bases DEF Answer, Goto, TypeOK
<1>2. pc[w] \in InCallback /\ pc'[w] \notin InCallback /\ pc'[w] \notin InFound
  BY <1>1 DEF InCallback, InFound
<1>3. /\ Inside' = [Inside EXCEPT ![s] = Inside[s] \ {w}]
      /\ Holders' = [Holders EXCEPT ![s] = Holders[s] \ {w}]
  BY <1>1, <1>2, OneSession
<1>4. w \in Inside[s]
  BY <1>1, <1>2, PlacesMove
<1>5. Stage' = Stage
  BY <1>1 DEF Stage
<1>6. QED
  BY <1>1, <1>3, <1>4, <1>5, AbstractSteps

\* findSession finds an open session, or leaves the contract alone.
LEMMA FindFinds ==
  ASSUME TypeOK, Roles, NEW t \in Threads, NEW s \in Sessions, cur[t] = s, Counted(s),
         NEW found \in {"insert", "cancel"}, NEW missed \in {"recvIO", "parse", "iterate"},
         Find(t, found, missed), UNCHANGED <<phase, cancel, cur>>
  PROVE  UNCHANGED Contract!vars \/ Contract!Next
<1>1. /\ pc' = [pc EXCEPT ![t] = pc'[t]] /\ cur' = [cur EXCEPT ![t] = cur'[t]] /\ cur'[t] = s
      /\ pc[t] = "find" /\ pc'[t] = (IF phase[s] = "open" THEN found ELSE missed)
  BY DEF Find, TypeOK
<1>2. CASE phase[s] # "open"
  <2>1. t = Timer
    BY <1>1, <1>2, Referenced DEF InLoop
  <2>2. pc[t] \notin InFound /\ pc'[t] \notin InFound
    BY <1>1, <1>2 DEF InFound
  <2>3. QED
    BY <1>1, <2>1, <2>2, Quiet
<1>3. CASE phase[s] = "open"
  <2>1. pc[t] \notin InFound /\ pc'[t] \in InFound /\ pc[t] \in InCallback /\ pc'[t] \in InCallback
    BY <1>1, <1>3 DEF InFound, InCallback
  <2>2. /\ Inside' = [Inside EXCEPT ![s] = IF t # Timer THEN Inside[s] \cup {t} ELSE Inside[s] \ {t}]
        /\ Holders' = [Holders EXCEPT ![s] = Holders[s] \cup {t}]
    BY <1>1, <2>1, OneSession
  <2>3. (t \in Inside[s] <=> t # Timer) /\ t \notin Holders[s]
    BY <1>1, <2>1, PlacesMove
  <2>4. Inside' = Inside
    <3>1. (IF t # Timer THEN Inside[s] \cup {t} ELSE Inside[s] \ {t}) = Inside[s]
      BY <2>3
    <3>2. QED
      BY <2>2, <3>1 DEF Inside
  <2>5. Stage[s] = "open" /\ Stage' = Stage
    BY <1>3 DEF Stage
  <2>6. QED
    BY <2>2, <2>3, <2>4, <2>5, AbstractSteps
<1>4. QED
  BY <1>2, <1>3

\* disconnectReq cancels a session that is open.
LEMMA CancelCancels ==
  ASSUME TypeOK, Roles, NEW t \in Threads, NEW s \in Sessions, cur[t] = s, Counted(s), CancelSession(t)
  PROVE  Contract!Next
<1>1. /\ pc' = [pc EXCEPT ![t] = pc'[t]] /\ cur' = [cur EXCEPT ![t] = cur'[t]] /\ cur'[t] = s
      /\ pc[t] = "cancel" /\ pc'[t] = "found" /\ phase' = phase /\ cancel' = cancel \cup {s}
  BY DEF CancelSession, Goto, TypeOK
<1>2. pc[t] \in InFound /\ pc'[t] \in InFound /\ pc[t] \in InCallback /\ pc'[t] \in InCallback
  BY <1>1 DEF InFound, InCallback
<1>3. phase[s] = "open"
  BY <1>2, Referenced
<1>4. /\ Inside' = [Inside EXCEPT ![s] = IF t # Timer THEN Inside[s] \cup {t} ELSE Inside[s] \ {t}]
      /\ Holders' = [Holders EXCEPT ![s] = Holders[s] \cup {t}]
  BY <1>1, <1>2, OneSession
<1>5. (t \in Inside[s] <=> t # Timer) /\ t \in Holders[s]
  BY <1>1, <1>2, PlacesMove
<1>6. /\ (IF t # Timer THEN Inside[s] \cup {t} ELSE Inside[s] \ {t}) = Inside[s]
      /\ Holders[s] \cup {t} = Holders[s]
  BY <1>5
<1>7. Inside' = Inside
  BY <1>4, <1>6 DEF Inside
<1>8. Holders' = Holders
  BY <1>4, <1>6 DEF Holders
<1>9. Stage[s] = "open" /\ Stage' = Stage
  BY <1>1, <1>3 DEF Stage
<1>10. QED
  BY <1>1, <1>7, <1>8, <1>9, AbstractSteps

\* The reference of findSession goes: the callback returns, or update() gives back,
\* or deletes the session when it was the last one.
LEMMA ReleaseReturns ==
  ASSUME TypeOK, Roles, NEW t \in Threads, NEW s \in Sessions, cur[t] = s, Counted(s), ReleaseFound(t)
  PROVE  Contract!Next
<1>1. /\ pc' = [pc EXCEPT ![t] = pc'[t]] /\ cur' = [cur EXCEPT ![t] = cur'[t]] /\ cur'[t] = s
      /\ pc[t] = "found" /\ pc'[t] \in {"recvIO", "iterate", "parse", "OnDisconnect"} /\ cancel' = cancel
      /\ phase' = IF refs[s] = 1 THEN [phase EXCEPT ![s] = "deleted"] ELSE phase
  BY DEF ReleaseFound, Decrement, TypeOK
<1>2. /\ pc[t] \in InFound /\ pc'[t] \notin InFound /\ pc[t] \in InCallback /\ pc'[t] \notin InCallback
  BY <1>1 DEF InFound, InCallback
<1>3. phase[s] = "open"
  BY <1>2, Referenced
<1>4. /\ Inside' = [Inside EXCEPT ![s] = Inside[s] \ {t}]
      /\ Holders' = [Holders EXCEPT ![s] = Holders[s] \ {t}]
  BY <1>1, <1>2, OneSession
<1>5. (t \in Inside[s] <=> t # Timer) /\ t \in Holders[s]
  BY <1>1, <1>2, PlacesMove
<1>6. t = Timer => Inside' = Inside
  <2>1. t = Timer => Inside[s] \ {t} = Inside[s]
    BY <1>5
  <2>2. QED
    BY <1>4, <2>1 DEF Inside
<1>7. CASE refs[s] # 1
  <2>1. Stage' = Stage
    BY <1>1, <1>7 DEF Stage
  <2>2. CASE t = Timer
    BY <1>1, <1>4, <1>5, <1>6, <2>1, <2>2, AbstractSteps
  <2>3. CASE t # Timer
    BY <1>1, <1>4, <1>5, <2>1, <2>3, AbstractSteps
  <2>4. QED
    BY <2>2, <2>3
<1>8. CASE refs[s] = 1
  <2>1. Inside[s] = {} /\ Holders[s] \subseteq {t} /\ t = Timer
    BY <1>1, <1>8, LastReference
  <2>2. Holders[s] \ {t} = {}
    BY <2>1
  <2>3. Stage[s] = "open" /\ Stage' = [Stage EXCEPT ![s] = "deleted"]
    BY ZenonT(60), <1>1, <1>3, <1>8 DEF Stage, TypeOK
  <2>4. Holders' = [Holders EXCEPT ![s] = {}]
    BY <1>4, <2>2
  <2>5. QED
    BY <1>1, <1>6, <2>1, <2>3, <2>4, AbstractSteps
<1>9. QED
  BY <1>7, <1>8

\* The reference of the loop body goes, and the session with it when it was the last.
LEMMA DropDeletes ==
  ASSUME TypeOK, Roles, NEW t \in Serving, NEW s \in Sessions, cur[t] = s, Counted(s), Drop(t)
  PROVE  UNCHANGED Contract!vars \/ Contract!Next
<1>1. /\ pc' = [pc EXCEPT ![t] = pc'[t]] /\ cur' = [cur EXCEPT ![t] = cur'[t]]
      /\ pc[t] = "drop" /\ pc'[t] \in {"accept", "idle", "OnDisconnect"} /\ cancel' = cancel
      /\ phase' = IF refs[s] = 1 THEN [phase EXCEPT ![s] = "deleted"] ELSE phase
      /\ refs[s] = 1 => cur'[t] = s
      /\ t \in Threads /\ t # Timer
  BY Bases DEF Drop, Decrement, TypeOK
<1>2. /\ pc[t] \notin InFound /\ pc'[t] \notin InFound /\ pc[t] \notin InCallback /\ pc'[t] \notin InCallback
      /\ pc[t] \in InLoop
  BY <1>1 DEF InFound, InCallback, InLoop
<1>3. CASE refs[s] # 1
  BY <1>1, <1>2, <1>3, Quiet
<1>4. CASE refs[s] = 1
  <2>1. Inside[s] = {} /\ Holders[s] \subseteq {t}
    BY <1>1, <1>4, LastReference
  <2>2. /\ Inside' = [Inside EXCEPT ![s] = Inside[s] \ {t}]
        /\ Holders' = [Holders EXCEPT ![s] = Holders[s] \ {t}]
    BY <1>1, <1>2, <1>4, OneSession
  <2>3. Inside[s] \ {t} = Inside[s] /\ Holders[s] \ {t} = {}
    BY <2>1
  <2>4. Inside' = Inside /\ Holders' = [Holders EXCEPT ![s] = {}]
    <3>1. Inside' = Inside
      BY <2>2, <2>3 DEF Inside
    <3>2. Holders' = [Holders EXCEPT ![s] = {}]
      BY <2>2, <2>3
    <3>3. QED
      BY <3>1, <3>2
  <2>5. phase[s] = "open"
    BY <1>1, <1>2, Referenced
  <2>6. Stage[s] = "open" /\ Stage' = [Stage EXCEPT ![s] = "deleted"]
    BY ZenonT(60), <1>1, <1>4, <2>5 DEF Stage, TypeOK
  <2>7. QED
    BY <1>1, <2>1, <2>4, <2>6, AbstractSteps
<1>5. QED
  BY <1>3, <1>4

\* OnDisconnect reports a deleted session.
LEMMA OnDisconnectReports ==
  ASSUME TypeOK, Roles, NEW t \in Threads, NEW s \in Sessions, cur[t] = s, Counted(s), OnDisconnect(t)
  PROVE  Contract!Next
<1>1. /\ pc' = [pc EXCEPT ![t] = pc'[t]] /\ cur' = [cur EXCEPT ![t] = cur'[t]]
      /\ pc[t] = "OnDisconnect" /\ pc'[t] \in {"accept", "idle", "iterate"} /\ cancel' = cancel
      /\ phase' = [phase EXCEPT ![s] = "ended"]
  BY Bases DEF OnDisconnect, Goto, TypeOK
<1>2. phase[s] = "deleted"
  BY OnDisconnectCounted
<1>3. /\ pc[t] \notin InFound /\ pc'[t] \notin InFound /\ pc[t] \notin InCallback /\ pc'[t] \notin InCallback
  BY <1>1 DEF InFound, InCallback
<1>4. ASSUME NEW r \in Sessions
      PROVE  Inside'[r] = Inside[r] /\ Holders'[r] = Holders[r]
  <2>1. /\ Inside'[r] = (Inside[r] \ {t}) \cup {u \in {t} : u # Timer /\ cur'[t] = r /\ pc'[t] \in InCallback}
        /\ Holders'[r] = (Holders[r] \ {t}) \cup {u \in {t} : cur'[t] = r /\ pc'[t] \in InFound}
        /\ t \notin Inside[r] /\ t \notin Holders[r]
    BY <1>1, <1>3, PlacesMove
  <2>2. {u \in {t} : u # Timer /\ cur'[t] = r /\ pc'[t] \in InCallback} = {}
        /\ {u \in {t} : cur'[t] = r /\ pc'[t] \in InFound} = {}
    BY <1>3
  <2>3. Inside'[r] = Inside[r]
    BY <2>1, <2>2
  <2>4. Holders'[r] = Holders[r]
    BY <2>1, <2>2
  <2>5. QED
    BY <2>3, <2>4
<1>5. Inside' = Inside
  BY <1>4 DEF Inside
<1>6. Holders' = Holders
  BY <1>4 DEF Holders
<1>7. Stage[s] = "deleted" /\ Stage' = [Stage EXCEPT ![s] = "reported"]
  BY <1>1, <1>2 DEF Stage, TypeOK
<1>8. QED
  BY <1>1, <1>5, <1>6, <1>7, AbstractSteps

\* A step of the server is a step of the contract, or none.
LEMMA StepImplements ==
  ASSUME TypeOK, Roles, \A s \in Sessions : Counted(s), Next
  PROVE  UNCHANGED Contract!vars \/ Contract!Next
<1> DEFINE Implemented == UNCHANGED Contract!vars \/ Contract!Next
<1>1. CASE \/ Tick \/ (\E s \in Sessions, kind \in Kinds : Completes(s, kind))
           \/ Insert \/ Wake \/ LockShared \/ Visit \/ UnlockShared
           \/ \E t \in Serving : RecvIO(t)
           \/ \E w \in Workers : \/ QueryAnswered(w) \/ RedisUpdate(w) \/ NoMorePackets(w)
                                 \/ Connect(w) \/ QueryFails(w) \/ Take(w) \/ RefuseReceive(w)
  BY <1>1, QuietSteps
<1>2. CASE \E s \in Sessions : Accept(s)
  BY <1>2, AcceptConnects
<1>3. ASSUME NEW w \in Workers, Refuse(w) \/ Login(w)
      PROVE  Implemented
  <2>1. cur[w] \in Sessions
    BY <1>3, Bases DEF Refuse, Login, Goto, Roles, InLoop
  <2>2. QED
    BY <1>3, <2>1, WorkerDelivers
<1>4. ASSUME NEW w \in Workers, Answer(w)
      PROVE  Implemented
  <2>1. cur[w] \in Sessions
    BY <1>4, Bases DEF Answer, Goto, Roles, InLoop
  <2>2. QED
    BY <1>4, <2>1, AnswerReturns
<1>5. ASSUME NEW t \in Threads, NEW found \in {"insert", "cancel"},
             NEW missed \in {"recvIO", "parse", "iterate"}, Find(t, found, missed),
             UNCHANGED <<phase, cancel, cur>>
      PROVE  Implemented
  <2>1. cur[t] \in Sessions
    BY <1>5 DEF Find, Roles, InLoop
  <2>2. QED
    BY <1>5, <2>1, FindFinds
<1>6. CASE NewConnection \/ FindExpired \/ \E w \in Workers : FindOwn(w)
  BY <1>5, <1>6, Bases DEF NewConnection, FindExpired, FindOwn
<1>7. ASSUME NEW t \in Threads, CancelSession(t)
      PROVE  Implemented
  <2>1. cur[t] \in Sessions
    BY <1>7 DEF CancelSession, Goto, Roles, InLoop
  <2>2. QED
    BY <1>7, <2>1, CancelCancels
<1>8. ASSUME NEW t \in Threads, ReleaseFound(t)
      PROVE  Implemented
  <2>1. cur[t] \in Sessions
    BY <1>8 DEF ReleaseFound, Decrement, Roles, InLoop
  <2>2. QED
    BY <1>8, <2>1, ReleaseReturns
<1>9. ASSUME NEW t \in Serving, Drop(t)
      PROVE  Implemented
  <2>1. cur[t] \in Sessions
    BY <1>9, Bases DEF Drop, Decrement, Roles, InLoop
  <2>2. QED
    BY <1>9, <2>1, DropDeletes
<1>10. ASSUME NEW t \in Threads, OnDisconnect(t)
      PROVE  Implemented
  <2>1. cur[t] \in Sessions
    BY <1>10 DEF OnDisconnect, Goto, Roles
  <2>2. QED
    BY <1>10, <2>1, OnDisconnectReports
<1>11. QED
  BY <1>1, <1>2, <1>3, <1>4, <1>6, <1>7, <1>8, <1>9, <1>10, NextCases

\* The initial state is one of the contract's.
LEMMA InitImplements == Init => Contract!Init
<1> SUFFICES ASSUME Init PROVE Contract!Init
  OBVIOUS
<1>1. Stage = [s \in Sessions |-> "none"]
  BY DEF Init, Stage
<1>2. \A t \in Threads : pc[t] \notin InCallback \cup InFound
  BY DEF Init, Base, InCallback, InFound
<1>3. Inside = [s \in Sessions |-> {}] /\ Holders = [s \in Sessions |-> {}]
  BY <1>2, Bases DEF Inside, Holders
<1>4. Stage \in [Sessions -> {"none", "open"}] /\ cancel = {}
  BY <1>1 DEF Init
<1>5. QED
  BY <1>3, <1>4 DEF Contract!Init, Stage, Inside, Holders, InCallback, InFound

\* The login server keeps what network.h:70-99 promises about a session, for any
\* number of sessions and workers: OnNewConnect first, OnRecv one at a time, no
\* deletion under a callback or under update(), and OnDisconnect once, at the end.
THEOREM ImplementsContract == Spec => ImplementsSessionContract
<1>1. LoginInv => TypeOK /\ Roles /\ \A s \in Sessions : Counted(s)
  BY AllCounted DEF LoginInv
<1>2. LoginInv /\ [Next]_vars => [UNCHANGED Contract!vars \/ Contract!Next]_(Contract!vars)
  <2>1. LoginInv /\ Next => UNCHANGED Contract!vars \/ Contract!Next
    BY <1>1, StepImplements
  <2>2. UNCHANGED vars => UNCHANGED Contract!vars
    BY DEF vars, Contract!vars, network, threads
  <2>3. QED
    BY <2>1, <2>2
<1>3. QED
  BY <1>2, InitImplements, Invariance, PTL DEF Spec, Contract!Spec, ImplementsSessionContract
=============================================================================
