----------------------------- MODULE LoginServer -----------------------------
(***************************************************************************)
(* The login server on top of Network: the accept thread reports a new     *)
(* session, the workers run the login in OnRecv and report the end of a    *)
(* session, and the thread of update() disconnects the sessions that are   *)
(* older than timeoutThreshold.  They share connectionMap, which is guarded *)
(* by containorLock, a lock that is not recursive.                         *)
(*                                                                         *)
(* Network is here what its callbacks need: the references of a session,   *)
(* its receive, its cancel flag and its completions.  SessionSlots and     *)
(* SessionIO have the steps in between; what they show (a session without  *)
(* references is deleted once, no operation escapes a cancel) makes the    *)
(* steps here one.  A session is named by its ID, and no ID comes back.    *)
(***************************************************************************)
EXTENDS Integers, Sequences, FiniteSets, Elements

CONSTANTS
    Sessions,    \* the IDs of the sessions accepted in a behaviour
    Acceptor,    \* the accept thread
    Workers,     \* the IOCP workers
    Timer,       \* the thread of update()
    Threshold,   \* timeoutThreshold, in ticks
    MaxTick,     \* bound: where the clock of a behaviour stops
    TickMod      \* 2^64, the width of currentTick and timeOutTick

Threads == {Acceptor, Timer} \cup Workers

ASSUME LoginAssumption ==
    /\ IsFiniteSet(Workers)
    /\ Acceptor # Timer /\ Workers \cap {Acceptor, Timer} = {}
    /\ Threshold \in Nat /\ MaxTick \in Nat
    /\ TickMod \in Nat /\ TickMod > MaxTick /\ TickMod > Threshold

VARIABLES
    tick,     \* GetTickCount64()
    lock,     \* containorLock: "free", or "shared" by the timer thread
    map,      \* connectionMap: of a session its timeOutTick
    refs,     \* session::IOcount
    phase,    \* of a session: "none", "open", "deleted" by deleteSession, "ended"
    cancel,   \* the sessions whose cancelIOFlag is set
    recv,     \* of a session: its receive is "none", "pending", "cancelled" or "refused"
    port,     \* the completion port, <<session, kind>> in order
    login,    \* of a session: "none", "refused", "asked", "stored" in Redis, "posted"
    mysqlConnect, \* per worker: its connection is "null", "open" or "closed"
    pc,       \* per thread: where it is
    cur,      \* per thread: the session at hand, if any
    now,      \* per thread: the tick it read
    todo      \* what the iteration of update() has still to visit

server   == <<map, lock>>
network  == <<refs, phase, cancel, recv, port>>
threads  == <<pc, cur, now, todo>>
content  == <<login, mysqlConnect>>
vars     == <<tick, server, network, content, threads>>

NoSession == "none"
Base(t) == IF t = Acceptor THEN "accept" ELSE IF t = Timer THEN "iterate" ELSE "idle"

\* start() has returned and update() sleeps.
Init ==
    /\ tick = 0 /\ lock = "free" /\ map = [s \in {} |-> 0]
    /\ refs = [s \in Sessions |-> 0]
    /\ phase = [s \in Sessions |-> "none"]
    /\ cancel = {} /\ port = <<>>
    /\ recv = [s \in Sessions |-> "none"]
    /\ login = [s \in Sessions |-> "none"]
    /\ mysqlConnect = [w \in Workers |-> "null"]
    /\ pc = [t \in Threads |-> IF t = Timer THEN "sleep" ELSE Base(t)]
    /\ cur = [t \in Threads |-> NoSession]
    /\ now = [t \in Threads |-> 0]
    /\ todo = {}

Goto(t, from, to) == pc[t] = from /\ pc' = [pc EXCEPT ![t] = to]

Tick ==
    /\ tick < MaxTick
    /\ tick' = tick + 1
    /\ UNCHANGED <<server, network, content, threads>>

-----------------------------------------------------------------------------
(* What every thread does with a session of Network.                       *)

\* (Mutant: findSession hands out the session without counting it.)
FindUncounted(t, found, missed) ==
    /\ pc[t] = "find"
    /\ pc' = [pc EXCEPT ![t] = IF phase[cur[t]] = "open" THEN found ELSE missed]
    /\ UNCHANGED refs

\* findSession: a deleted session is not found, one that is found is counted.
Find(t, found, missed) ==
    LET s == cur[t] IN
    /\ pc[t] = "find"
    /\ IF phase[s] = "open"
       THEN /\ refs' = [refs EXCEPT ![s] = @ + 1]
            /\ pc' = [pc EXCEPT ![t] = found]
       ELSE /\ pc' = [pc EXCEPT ![t] = missed]
            /\ UNCHANGED refs

\* decrementIO; the last reference is deleteSession, which ends in OnDisconnect.
\* A thread that is left with a reference of its own never drops the last one.
Decrement(t, from, to) ==
    LET s == cur[t] IN
    /\ pc[t] = from
    /\ refs' = [refs EXCEPT ![s] = @ - 1]
    /\ phase' = IF refs[s] = 1 THEN [phase EXCEPT ![s] = "deleted"] ELSE phase
    /\ pc' = [pc EXCEPT ![t] = IF refs[s] = 1 THEN "OnDisconnect" ELSE to]

\* (Mutant: the flag is set, but the receive that is outstanding is left alone.)
CancelFlagOnly(t) ==
    /\ Goto(t, "cancel", "found")
    /\ cancel' = cancel \cup {cur[t]}
    /\ UNCHANGED <<tick, server, refs, phase, recv, port, content, cur, now, todo>>

\* disconnectReq under the reference of findSession, and giving it back.
CancelSession(t) ==
    LET s == cur[t] IN
    /\ Goto(t, "cancel", "found")
    /\ cancel' = cancel \cup {s}
    /\ recv' = IF recv[s] = "pending" THEN [recv EXCEPT ![s] = "cancelled"] ELSE recv
    /\ UNCHANGED <<tick, server, refs, phase, port, content, cur, now, todo>>

ReleaseFound(t) ==
    /\ Decrement(t, "found", IF t = Acceptor THEN "recvIO"
                             ELSE IF t = Timer THEN "iterate" ELSE "parse")
    /\ UNCHANGED <<tick, server, cancel, recv, port, content, cur, now, todo>>

\* (Mutant: a receive that a cancel prevents leaves its reference behind.)
RecvIOLeaks(t) ==
    /\ Goto(t, "recvIO", "drop")
    /\ recv' = IF cur[t] \in cancel THEN recv ELSE [recv EXCEPT ![cur[t]] = "pending"]
    /\ refs' = [refs EXCEPT ![cur[t]] = @ + 1]
    /\ UNCHANGED <<tick, server, phase, cancel, port, content, cur, now, todo>>

\* recvIO: not after a cancel.
RecvIO(t) ==
    LET s == cur[t] IN
    /\ Goto(t, "recvIO", "drop")
    /\ IF s \in cancel
       THEN UNCHANGED <<recv, refs>>
       ELSE /\ recv' = [recv EXCEPT ![s] = "pending"]
            /\ refs' = [refs EXCEPT ![s] = @ + 1]
    /\ UNCHANGED <<tick, server, phase, cancel, port, content, cur, now, todo>>

Drop(t) ==
    /\ Decrement(t, "drop", Base(t))
    /\ cur' = IF refs[cur[t]] = 1 THEN cur ELSE [cur EXCEPT ![t] = NoSession]
    /\ UNCHANGED <<tick, server, cancel, recv, port, content, now, todo>>

\* (Mutant: the entry is erased without the lock.)
EraseUnlocked(t) ==
    LET s == cur[t] IN
    /\ Goto(t, "OnDisconnect", Base(t))
    /\ map' = [i \in DOMAIN map \ {s} |-> map[i]]
    /\ phase' = [phase EXCEPT ![s] = "ended"]
    /\ cur' = [cur EXCEPT ![t] = NoSession]
    /\ UNCHANGED <<tick, lock, refs, cancel, recv, port, content, now, todo>>

\* (Mutant: the entry is left to the timeout when the lock is taken.)
EraseIfFree(t) ==
    LET s == cur[t] IN
    /\ Goto(t, "OnDisconnect", Base(t))
    /\ map' = [i \in DOMAIN map \ (IF lock = "free" THEN {s} ELSE {}) |-> map[i]]
    /\ phase' = [phase EXCEPT ![s] = "ended"]
    /\ cur' = [cur EXCEPT ![t] = NoSession]
    /\ UNCHANGED <<tick, lock, refs, cancel, recv, port, content, now, todo>>

\* OnDisconnect: containorLock exclusively, erase, release.  Whoever else wants the
\* lock sees all of it or nothing, so it is one step.
OnDisconnect(t) ==
    LET s == cur[t] IN
    /\ lock = "free"
    /\ Goto(t, "OnDisconnect", Base(t))
    /\ map' = [i \in DOMAIN map \ {s} |-> map[i]]
    /\ phase' = [phase EXCEPT ![s] = "ended"]
    /\ cur' = [cur EXCEPT ![t] = NoSession]
    /\ UNCHANGED <<tick, lock, refs, cancel, recv, port, content, now, todo>>

-----------------------------------------------------------------------------
(* The accept thread.                                                      *)

Accept(s) ==
    /\ phase[s] = "none"
    /\ Goto(Acceptor, "accept", "find")
    /\ phase' = [phase EXCEPT ![s] = "open"]
    /\ refs' = [refs EXCEPT ![s] = 1]
    /\ cur' = [cur EXCEPT ![Acceptor] = s]
    /\ UNCHANGED <<tick, server, cancel, recv, port, content, now, todo>>

\* OnNewConnect: findSession, which cannot miss, and connectionData's time stamp.
NewConnection ==
    /\ Find(Acceptor, "insert", "recvIO")
    /\ now' = [now EXCEPT ![Acceptor] = tick]
    /\ UNCHANGED <<tick, server, phase, cancel, recv, port, content, cur, todo>>

\* ... and the entry, under containorLock exclusively.
Insert ==
    LET s == cur[Acceptor] IN
    /\ lock = "free"
    /\ Goto(Acceptor, "insert", "found")
    /\ map' = [i \in DOMAIN map \cup {s} |-> IF i = s THEN now[Acceptor] ELSE map[i]]
    /\ now' = [now EXCEPT ![Acceptor] = 0]
    /\ UNCHANGED <<tick, lock, network, content, cur, todo>>

-----------------------------------------------------------------------------
(* The workers.                                                            *)

\* A completion: data for OnRecv, the end of the receive, or a posted answer, which
\* goes to sendIO.
Take(w) ==
    /\ pc[w] = "idle" /\ port # <<>>
    /\ port' = Tail(port)
    /\ LET m == Head(port) IN
          /\ cur' = [cur EXCEPT ![w] = m[1]]
          /\ pc' = [pc EXCEPT ![w] = IF m[2] = "data" THEN "parse" ELSE "drop"]
    /\ UNCHANGED <<tick, server, refs, phase, cancel, recv, content, now, todo>>

\* recved refuses the data (recvBuffer would be full): the loop body is left by
\* `continue', without decrementIO, recvIO or OnRecv.  IOcount keeps the reference of
\* that receive, and the session never has another one.
RefuseReceive(w) ==
    /\ pc[w] = "idle" /\ port # <<>>
    /\ Head(port)[2] = "data"
    /\ port' = Tail(port)
    /\ recv' = [recv EXCEPT ![Head(port)[1]] = "refused"]
    /\ UNCHANGED <<tick, server, refs, phase, cancel, content, threads>>

\* OnRecv: a packet with a wrong checksum or a type other than 101.  Bound: one
\* such packet or one login in a behaviour.
Refuse(w) ==
    /\ Goto(w, "parse", "find")
    /\ \A s \in Sessions : login[s] = "none"
    /\ login' = [login EXCEPT ![cur[w]] = "refused"]
    /\ UNCHANGED <<tick, server, network, cur, now, todo, mysqlConnect>>

FindOwn(w) ==
    /\ Find(w, "cancel", "parse")
    /\ UNCHANGED <<tick, server, phase, cancel, recv, port, content, cur, now, todo>>

\* OnRecv: a login, for which the worker asks the database.
Login(w) ==
    /\ Goto(w, "parse", "query")
    /\ \A s \in Sessions : login[s] = "none"
    /\ login' = [login EXCEPT ![cur[w]] = "asked"]
    /\ UNCHANGED <<tick, server, network, cur, now, todo, mysqlConnect>>

\* (Mutant: the connection that was made is not kept.)
ConnectForgotten(w) ==
    /\ pc[w] = "query" /\ mysqlConnect[w] = "null"
    /\ UNCHANGED vars

\* query: the worker's first query connects, and tries again until it succeeds.
Connect(w) ==
    /\ pc[w] = "query" /\ mysqlConnect[w] = "null"
    /\ mysqlConnect' = [mysqlConnect EXCEPT ![w] = "open"]
    /\ UNCHANGED <<tick, server, network, login, threads>>

\* A query that fails closes the connection and keeps the pointer to it: the loop
\* goes on to query the closed connection, which fails again.
QueryFails(w) ==
    /\ pc[w] = "query" /\ mysqlConnect[w] = "open"
    /\ mysqlConnect' = [mysqlConnect EXCEPT ![w] = "closed"]
    /\ UNCHANGED <<tick, server, network, login, threads>>

\* The result is fetched, and not looked at.
QueryAnswered(w) ==
    /\ mysqlConnect[w] = "open"
    /\ Goto(w, "query", "redis")
    /\ UNCHANGED <<tick, server, network, content, cur, now, todo>>

\* redisUpdate.
RedisUpdate(w) ==
    /\ Goto(w, "redis", "answer")
    /\ login' = [login EXCEPT ![cur[w]] = "stored"]
    /\ UNCHANGED <<tick, server, network, cur, now, todo, mysqlConnect>>

\* sendReq of the answer: nothing is done for a session that is not found.
Answer(w) ==
    LET s == cur[w] IN
    /\ Goto(w, "answer", "parse")
    /\ IF phase[s] = "open"
       THEN /\ port' = Append(port, <<s, "answer">>)
            /\ refs' = [refs EXCEPT ![s] = @ + 1]
       ELSE UNCHANGED <<port, refs>>
    /\ login' = [login EXCEPT ![s] = "posted"]
    /\ UNCHANGED <<tick, server, phase, cancel, recv, cur, now, todo, mysqlConnect>>

\* recvedPacket has no more complete packet.
NoMorePackets(w) ==
    /\ Goto(w, "parse", "recvIO")
    /\ UNCHANGED <<tick, server, network, content, cur, now, todo>>

-----------------------------------------------------------------------------
(* update().                                                               *)

\* After Sleep the time is read, before the lock is taken.
Wake ==
    /\ Goto(Timer, "sleep", "lock")
    /\ now' = [now EXCEPT ![Timer] = tick]
    /\ UNCHANGED <<tick, server, network, content, cur, todo>>

LockShared ==
    /\ lock = "free"
    /\ Goto(Timer, "lock", "iterate")
    /\ lock' = "shared"
    /\ todo' = DOMAIN map
    /\ UNCHANGED <<tick, map, network, content, cur, now>>

\* currentTick - timeOutTick > timeoutThreshold, of unsigned numbers.
Expired(s) == (now[Timer] - map[s]) % TickMod > Threshold

\* One entry of connectionMap, in any order.
Visit ==
    /\ pc[Timer] = "iterate"
    /\ \E s \in todo :
          /\ todo' = todo \ {s}
          /\ cur' = [cur EXCEPT ![Timer] = s]
          /\ pc' = [pc EXCEPT ![Timer] = IF Expired(s) THEN "find" ELSE "iterate"]
    /\ UNCHANGED <<tick, server, network, content, now>>

FindExpired ==
    /\ Find(Timer, "cancel", "iterate")
    /\ UNCHANGED <<tick, server, phase, cancel, recv, port, content, cur, now, todo>>

UnlockShared ==
    /\ todo = {}
    /\ Goto(Timer, "iterate", "sleep")
    /\ lock' = "free"
    /\ now' = [now EXCEPT ![Timer] = 0]
    /\ cur' = [cur EXCEPT ![Timer] = NoSession]
    /\ UNCHANGED <<tick, map, network, content, todo>>

-----------------------------------------------------------------------------
(* The kernel and the clients.                                             *)

Completes(s, kind) ==
    /\ recv' = [recv EXCEPT ![s] = "none"]
    /\ port' = Append(port, <<s, kind>>)
    /\ UNCHANGED <<tick, server, refs, phase, cancel, content, threads>>

RecvData(s) == recv[s] \in {"pending", "cancelled"} /\ Completes(s, "data")
PeerLeaves(s) == recv[s] = "pending" /\ Completes(s, "end")
RecvCancelled(s) == recv[s] = "cancelled" /\ Completes(s, "end")

-----------------------------------------------------------------------------
Work(w) ==
    \/ Take(w) \/ RefuseReceive(w)
    \/ Refuse(w) \/ FindOwn(w) \/ CancelSession(w) \/ ReleaseFound(w)
    \/ Login(w) \/ Connect(w) \/ QueryFails(w) \/ QueryAnswered(w)
    \/ RedisUpdate(w) \/ Answer(w) \/ NoMorePackets(w)
    \/ RecvIO(w) \/ Drop(w)

AcceptWork ==
    \/ NewConnection \/ ReleaseFound(Acceptor) \/ RecvIO(Acceptor) \/ Drop(Acceptor)

Update ==
    \/ Wake \/ LockShared \/ Visit \/ FindExpired \/ CancelSession(Timer)
    \/ ReleaseFound(Timer) \/ UnlockShared

LockExclusive == Insert \/ \E t \in Threads : OnDisconnect(t)

Next ==
    \/ Tick
    \/ \E s \in Sessions : Accept(s) \/ RecvData(s) \/ PeerLeaves(s)
    \/ \E s \in Sessions : RecvCancelled(s)
    \/ \E w \in Workers : Work(w)
    \/ AcceptWork \/ Update \/ LockExclusive

Spec == Init /\ [][Next]_vars

\* The clock runs, threads are scheduled, a cancelled receive ends, and the database
\* accepts a connection some time (a query may always fail).  A waiter
\* for containorLock gets it when it is free again and again: SRW locks wake
\* their waiters, and update() sleeps ten seconds between two shared holds.
Fairness ==
    /\ WF_vars(Tick)
    /\ \A w \in Workers : WF_vars(Work(w))
    /\ WF_vars(AcceptWork) /\ WF_vars(Update)
    /\ WF_vars(\E s \in Sessions : RecvCancelled(s))
    /\ SF_vars(LockExclusive)

FairSpec == Spec /\ Fairness

-----------------------------------------------------------------------------
(* Properties.                                                             *)

Kinds == {"data", "end", "answer"}

Pcs == {"accept", "find", "insert", "cancel", "found", "recvIO", "drop", "OnDisconnect",
        "idle", "parse", "query", "redis", "answer", "sleep", "lock", "iterate"}

\* Ranges of the variables; IOcount never goes below zero.
TypeOK ==
    /\ tick \in 0 .. MaxTick /\ lock \in {"free", "shared"}
    /\ DOMAIN map \subseteq Sessions /\ \A s \in DOMAIN map : map[s] \in 0 .. MaxTick
    /\ refs \in [Sessions -> Nat]
    /\ phase \in [Sessions -> {"none", "open", "deleted", "ended"}]
    /\ recv \in [Sessions -> {"none", "pending", "cancelled", "refused"}]
    /\ port \in Seq(Sessions \X Kinds)
    /\ login \in [Sessions -> {"none", "refused", "asked", "stored", "posted"}]
    /\ mysqlConnect \in [Workers -> {"null", "open", "closed"}]
    /\ cancel \subseteq Sessions /\ todo \subseteq Sessions
    /\ cur \in [Threads -> Sessions \cup {NoSession}]
    /\ now \in [Threads -> 0 .. MaxTick] /\ pc \in [Threads -> Pcs]

Registered(s) ==
    /\ phase[s] \in {"open", "deleted"}
    /\ ~(cur[Acceptor] = s /\ pc[Acceptor] \in {"find", "insert"})

\* connectionMap has exactly the sessions that OnNewConnect has registered and
\* OnDisconnect has not: a callback of the one that overtook the other would leave
\* an entry that nothing erases, or a session that no timeout finds.
MapIsExact == DOMAIN map = {s \in Sessions : Registered(s)}

\* Where the accept thread and the workers have the reference of their loop body,
\* and where a thread has that of findSession.
InLoop  == {"find", "insert", "cancel", "found", "parse", "query", "redis", "answer",
            "recvIO", "drop"}
InFound == {"insert", "cancel", "found"}

\* How many threads of T are at one of S, with session s.
With(T, S, s) == Cardinality({t \in T : cur[t] = s /\ pc[t] \in S})

Serving == Threads \ {Timer}

\* The reference of the receive that is outstanding, or that a refused one left
\* behind: nobody has that one any longer.
Pending(s) == IF recv[s] = "none" THEN 0 ELSE 1

\* IOcount is exactly the references of a session, and a session is open as long as
\* one is counted: the callbacks, update() and the answers posted give back what they
\* take, in any order.  The reference of a refused receive (network.cpp:374) is
\* counted here as IOcount counts it, for good, and keeps its session open.
RefsAreExact ==
    \A s \in Sessions :
        /\ refs[s] = With(Serving, InLoop, s) + With(Threads, InFound, s) + Pending(s)
                     + Among({s} \X Kinds, port)
        /\ phase[s] = "open" <=> refs[s] > 0

\* While update() iterates, connectionMap does not change under it.
IterationIsStable == [][pc[Timer] \in {"iterate", "find", "cancel", "found"} => map' = map]_vars

\* What the timer waits for when it holds containorLock already.
TimerStuck == pc[Timer] = "OnDisconnect"

Overdue(s) == s \in DOMAIN map /\ tick - map[s] > Threshold

\* What a worker waits for when its connection to the database was closed.
QueryStuck(w) == pc[w] = "query" /\ mysqlConnect[w] = "closed"

\* A session older than the threshold is disconnected and its entry erased, unless
\* the thread of update() has locked itself out (TimerReturns), a failed query
\* keeps a worker for good, or a receive of the session was refused: no disconnect
\* gives that reference back, and the entry stays (RefuseReceive).
OverdueEnds ==
    \A s \in Sessions :
        Overdue(s) ~> \/ phase[s] = "ended" \/ recv[s] = "refused"
                      \/ TimerStuck \/ \E w \in Workers : QueryStuck(w)

\* A worker that asks the database for a login comes back to the completion port
\* (it connects, stores, answers, and may have to end the session and wait for
\* containorLock on its way), unless its query fails or update() has locked
\* everyone out: mysqlConnector.cpp:23 has no other way to stay in its loop.
WorkerReturns ==
    \A w \in Workers :
        pc[w] = "query" ~> (pc[w] = "idle" \/ QueryStuck(w) \/ TimerStuck)

Contract == INSTANCE SessionContract WITH
    Parties   <- Threads,
    stage     <- [s \in Sessions |-> IF phase[s] = "ended" THEN "reported" ELSE phase[s]],
    inside    <- [s \in Sessions |-> {t \in {Acceptor} \cup Workers :
                    /\ cur[t] = s
                    /\ pc[t] \in {"find", "insert", "cancel", "found", "query", "redis", "answer"}}],
    holders   <- [s \in Sessions |-> {t \in Threads :
                    cur[t] = s /\ pc[t] \in {"insert", "cancel", "found"}}],
    cancelled <- cancel

\* The callbacks of a session, and the threads that find it, keep the order that
\* network.h:70-99 promises: OnNewConnect first, OnRecv one at a time, no deletion
\* under either nor under update(), and OnDisconnect once, at the end.
ImplementsSessionContract == Contract!Spec

\* update() comes back from disconnectReq, which network.h:92 lists among the
\* functions the content may call on its own.
TimerReturns == pc[Timer] = "find" ~> pc[Timer] = "iterate"

\* A session that update() disconnects as timed out is older than the threshold.
NoEarlyTimeout == pc[Timer] = "find" => Overdue(cur[Timer])

-----------------------------------------------------------------------------
(* The inductive invariant.                                                *)

\* Who will start the next receive.
Receiving == InLoop \ {"drop"}

\* Where the thread of update() has containorLock.
InUpdate == {"iterate", "find", "cancel", "found", "OnDisconnect"}

\* Each thread keeps to its code, and has a session wherever it works on one.
Roles ==
    /\ pc[Acceptor] \in {"accept", "find", "insert", "found", "recvIO", "drop", "OnDisconnect"}
    /\ pc[Timer] \in {"sleep", "lock"} \cup InUpdate
    /\ \A w \in Workers : pc[w] \notin {"accept", "insert", "sleep", "lock", "iterate"}
    /\ \A t \in Threads : pc[t] \in InLoop \cup {"OnDisconnect"} => cur[t] \in Sessions

\* One thread reports the end of a deleted session, and nobody that of another.
OneReports ==
    \A s \in Sessions :
        With(Threads, {"OnDisconnect"}, s) = IF phase[s] = "deleted" THEN 1 ELSE 0

\* One receive at a time: outstanding, completed, or with the thread that handles it;
\* and none after one that was refused.
OneReceive ==
    \A s \in Sessions :
        With(Serving, Receiving, s) + Pending(s) + Among({<<s, "data">>}, port) =< 1

LockIsTimers == lock = "shared" <=> pc[Timer] \in InUpdate

LoginInv ==
    /\ TypeOK /\ Roles /\ RefsAreExact /\ OneReports /\ OneReceive /\ LockIsTimers
    /\ MapIsExact
=============================================================================
