---------------------------- MODULE SessionSlots ----------------------------
(***************************************************************************)
(* The life of the entries of Network::sessionArray, shared by the accept  *)
(* thread, the IOCP workers and the content threads without a lock.        *)
(*                                                                         *)
(* An entry (a slot) has one interlocked word, session::IOcount: its low   *)
(* 31 bits count the references to the slot (count below), its top bit says *)
(* that the slot is being, or has been, given back (del below).  Whoever   *)
(* takes the counter to zero tries to give the slot back, and only the CAS *)
(* in deleteSession decides who does.  A slot is found by a session ID     *)
(* that may be stale: findSession takes a reference first and looks at the *)
(* bit and at the ID afterwards.                                           *)
(*                                                                         *)
(* One action is one interlocked operation, one section under              *)
(* indexStackLock or one plain access to a shared field.  What the workers *)
(* do with the packets of a session is left to SessionIO: here a worker    *)
(* takes completions, starts I/O and calls content functions in any order. *)
(***************************************************************************)
EXTENDS Integers, Sequences, FiniteSets

CONSTANTS
    Slots,       \* the indices of sessionArray (0 .. maxSession - 1)
    Acceptor,    \* the accept thread
    Workers,     \* the IOCP worker threads
    Callers,     \* the content threads (the timeout thread of loginServer)
    MaxAccepts,  \* bound: connections accepted in a behaviour
    MaxIO,       \* bound: operations and requests outstanding on a slot
    IdWrap,      \* MAKE_SESSION_ID keeps sessionCount modulo this (2^16)
    NoSlot, NoId

Threads == {Acceptor} \cup Workers \cup Callers

ASSUME ThreadsAssumption ==
    /\ Acceptor \notin Workers \cup Callers
    /\ Workers \cap Callers = {}
    /\ IsFiniteSet(Workers) /\ IsFiniteSet(Callers)
ASSUME SlotsAssumption == IsFiniteSet(Slots) /\ NoSlot \notin Slots
ASSUME BoundsAssumption ==
    MaxAccepts \in Nat /\ MaxIO \in Nat /\ IdWrap \in Nat /\ MaxAccepts =< IdWrap

Ids == (0 .. IdWrap - 1) \X Slots

ASSUME NoIdAssumption == NoId \notin Ids

\* MAKE_SESSION_ID and GET_INDEX.
MakeSessionId(n, s) == <<n % IdWrap, s>>
IndexOf(id) == id[2]

VARIABLES
    indexStack,   \* Network::indexStack
    sessionCount, \* Network::sessionCount
    count,        \* low 31 bits of session::IOcount
    del,          \* top bit of session::IOcount
    ID,           \* session::ID
    sock,         \* the session whose socket is open in session::socket
    io,           \* overlapped operations and posted requests of a slot
    pc,           \* where a thread is in the operation it runs
    at,           \* the slot that operation works on
    want,         \* the session ID that operation was given
    base,         \* the slot whose reference the thread's loop body holds
    announced,    \* IDs handed to OnNewConnect
    ended,        \* IDs handed to OnDisconnect
    leaked        \* slots with a reference that is counted and that nobody has

shared == <<indexStack, sessionCount, count, del, ID, sock, io>>
local  == <<pc, at, want, base>>
vars   == <<indexStack, sessionCount, count, del, ID, sock, io,
            pc, at, want, base, announced, ended, leaked>>

\* The points at which an operation owns a reference of its own to at[t].
OpRef == {"check", "hold", "posting", "release"}
\* The points at which it owns one that the I/O being started will take over.
IoRef == {"posting", "starting"}
\* The points at which deleteSession owns the slot.
Deleting == {"close", "push"}
\* The points at which the accept thread owns a slot it popped.
Initialising == {"setid", "inc", "clear"}
PCs == {"idle", "connect", "find", "zero", "notify"}
         \cup OpRef \cup IoRef \cup Deleting \cup Initialising

\* Every reference to s that a thread owns; the others belong to the I/O.
Refs(s) ==
    {r \in Threads \X {"base", "op", "io"} :
        \/ r[2] = "base" /\ base[r[1]] = s
        \/ r[2] = "op"   /\ at[r[1]] = s /\ pc[r[1]] \in OpRef
        \/ r[2] = "io"   /\ at[r[1]] = s /\ pc[r[1]] \in IoRef}

OnStack(s) == \E i \in 1 .. Len(indexStack) : indexStack[i] = s

NoDuplicates ==
    \A i, j \in 1 .. Len(indexStack) : indexStack[i] = indexStack[j] => i = j

\* start() pushes every index; the session constructor clears IOcount and ID.
Init ==
    /\ indexStack \in [1 .. Cardinality(Slots) -> Slots]
    /\ \A s \in Slots : OnStack(s)
    /\ NoDuplicates
    /\ sessionCount = 0
    /\ count = [s \in Slots |-> 0]
    /\ del = [s \in Slots |-> FALSE]
    /\ ID = [s \in Slots |-> NoId]
    /\ sock = [s \in Slots |-> NoId]
    /\ io = [s \in Slots |-> 0]
    /\ pc = [t \in Threads |-> "idle"]
    /\ at = [t \in Threads |-> NoSlot]
    /\ want = [t \in Threads |-> NoId]
    /\ base = [t \in Threads |-> NoSlot]
    /\ announced = {}
    /\ ended = {}
    /\ leaked = {}

-----------------------------------------------------------------------------
(* The accept thread.                                                      *)

\* Under indexStackLock: take the top index.  With an empty stack the
\* connection is closed and nothing changes.
PopIndex ==
    LET top == indexStack[Len(indexStack)] IN
    /\ pc[Acceptor] = "idle" /\ base[Acceptor] = NoSlot
    /\ sessionCount < MaxAccepts
    /\ indexStack # <<>>
    /\ indexStack' = SubSeq(indexStack, 1, Len(indexStack) - 1)
    /\ pc' = [pc EXCEPT ![Acceptor] = "setid"]
    /\ at' = [at EXCEPT ![Acceptor] = top]
    /\ UNCHANGED <<sessionCount, count, del, ID, sock, io, want, base, announced,
                   ended, leaked>>

\* session::init, the plain stores: the new ID and the accepted socket.
SetID ==
    LET s == at[Acceptor]
        id == MakeSessionId(sessionCount, s) IN
    /\ pc[Acceptor] = "setid"
    /\ sessionCount' = sessionCount + 1
    /\ ID' = [ID EXCEPT ![s] = id]
    /\ sock' = [sock EXCEPT ![s] = id]
    /\ pc' = [pc EXCEPT ![Acceptor] = "inc"]
    /\ UNCHANGED <<indexStack, count, del, io, at, want, base, announced, ended,
                   leaked>>

\* session::init, incrementIO: the reference of the accept thread.
IncInit ==
    LET s == at[Acceptor] IN
    /\ pc[Acceptor] = "inc"
    /\ count' = [count EXCEPT ![s] = @ + 1]
    /\ base' = [base EXCEPT ![Acceptor] = s]
    /\ pc' = [pc EXCEPT ![Acceptor] = "clear"]
    /\ UNCHANGED <<indexStack, sessionCount, del, ID, sock, io, at, want, announced,
                   ended, leaked>>

\* (Mutant: the word is set to one instead, and the references of stale
\* lookups are lost.)
ClearDelByStore ==
    LET s == at[Acceptor] IN
    /\ pc[Acceptor] = "clear"
    /\ del' = [del EXCEPT ![s] = FALSE]
    /\ count' = [count EXCEPT ![s] = 1]
    /\ pc' = [pc EXCEPT ![Acceptor] = "connect"]
    /\ UNCHANGED <<indexStack, sessionCount, ID, sock, io, at, want, base, announced,
                   ended, leaked>>

\* session::init, InterlockedAnd(&IOcount, 0x7fffffff): the slot is live.
ClearDel ==
    LET s == at[Acceptor] IN
    /\ pc[Acceptor] = "clear"
    /\ del' = [del EXCEPT ![s] = FALSE]
    /\ pc' = [pc EXCEPT ![Acceptor] = "connect"]
    /\ UNCHANGED <<indexStack, sessionCount, count, ID, sock, io, at, want, base,
                   announced, ended, leaked>>

\* OnNewConnect(sessionID) makes the ID known and looks its session up.
EnterOnNewConnect ==
    LET s == at[Acceptor] IN
    /\ pc[Acceptor] = "connect"
    /\ announced' = announced \cup {ID[s]}
    /\ want' = [want EXCEPT ![Acceptor] = ID[s]]
    /\ pc' = [pc EXCEPT ![Acceptor] = "find"]
    /\ UNCHANGED <<shared, at, base, ended, leaked>>

-----------------------------------------------------------------------------
(* findSession, and what its callers do with the session it returns.       *)

\* disconnectReq or sendReq called with an ID that OnNewConnect gave out, by a
\* content thread or by a worker inside OnRecv; the session may be long gone.
Call(t) ==
    /\ t \in Callers \cup Workers
    /\ t \in Workers => base[t] # NoSlot
    /\ pc[t] = "idle"
    /\ \E id \in announced :
          /\ want' = [want EXCEPT ![t] = id]
          /\ at' = [at EXCEPT ![t] = IndexOf(id)]
    /\ pc' = [pc EXCEPT ![t] = "find"]
    /\ UNCHANGED <<shared, base, announced, ended, leaked>>

\* (Mutant: the bit is not tested.)
FindIncUntested(t) ==
    /\ pc[t] = "find"
    /\ count' = [count EXCEPT ![at[t]] = @ + 1]
    /\ pc' = [pc EXCEPT ![t] = "check"]
    /\ UNCHANGED <<indexStack, sessionCount, del, ID, sock, io, at, want, base,
                   announced, ended, leaked>>

\* incrementIO, and the test of the bit in the value it returned.
FindInc(t) ==
    LET s == at[t] IN
    /\ pc[t] = "find"
    /\ count' = [count EXCEPT ![s] = @ + 1]
    /\ pc' = [pc EXCEPT ![t] = IF del[s] THEN "release" ELSE "check"]
    /\ UNCHANGED <<indexStack, sessionCount, del, ID, sock, io, at, want, base,
                   announced, ended, leaked>>

\* (Mutant: whatever session the slot carries is returned.)
FindUnchecked(t) ==
    /\ pc[t] = "check"
    /\ pc' = [pc EXCEPT ![t] = "hold"]
    /\ UNCHANGED <<shared, at, want, base, announced, ended, leaked>>

\* The comparison of the slot's ID with the one asked for.
FindCheck(t) ==
    /\ pc[t] = "check"
    /\ pc' = [pc EXCEPT ![t] = IF ID[at[t]] = want[t] THEN "hold" ELSE "release"]
    /\ UNCHANGED <<shared, at, want, base, announced, ended, leaked>>

\* disconnectReq cancels the I/O of the session's socket, OnNewConnect reads
\* its address: both use the slot and leave this module's state alone.
UseSession(t) ==
    /\ pc[t] = "hold"
    /\ pc' = [pc EXCEPT ![t] = "release"]
    /\ UNCHANGED <<shared, at, want, base, announced, ended, leaked>>

\* (Mutant: the request is posted without a reference of its own.)
SendReqNoInc(t) ==
    /\ pc[t] = "hold" /\ t # Acceptor
    /\ io[at[t]] < MaxIO
    /\ pc' = [pc EXCEPT ![t] = "posting"]
    /\ UNCHANGED <<shared, at, want, base, announced, ended, leaked>>

\* sendReq: incrementIO for the request it is about to post ...
SendReqInc(t) ==
    /\ pc[t] = "hold" /\ t # Acceptor
    /\ io[at[t]] < MaxIO
    /\ count' = [count EXCEPT ![at[t]] = @ + 1]
    /\ pc' = [pc EXCEPT ![t] = "posting"]
    /\ UNCHANGED <<indexStack, sessionCount, del, ID, sock, io, at, want, base,
                   announced, ended, leaked>>

\* ... and PostQueuedCompletionStatus.
SendReqPost(t) ==
    /\ pc[t] = "posting"
    /\ io' = [io EXCEPT ![at[t]] = @ + 1]
    /\ pc' = [pc EXCEPT ![t] = "release"]
    /\ UNCHANGED <<indexStack, sessionCount, count, del, ID, sock, at, want, base,
                   announced, ended, leaked>>

\* InterlockedDecrement(&IOcount) == 0 looks at the whole word.
LastReference(s) == count[s] = 1 /\ ~del[s]

\* (Mutant: decrementIO without looking at what it returned.)
ReleaseOnly(t) ==
    /\ pc[t] = "release"
    /\ count' = [count EXCEPT ![at[t]] = @ - 1]
    /\ pc' = [pc EXCEPT ![t] = "idle"]
    /\ UNCHANGED <<indexStack, sessionCount, del, ID, sock, io, at, want, base,
                   announced, ended, leaked>>

\* decrementIO of the operation's own reference.
Release(t) ==
    LET s == at[t] IN
    /\ pc[t] = "release"
    /\ count' = [count EXCEPT ![s] = @ - 1]
    /\ pc' = [pc EXCEPT ![t] = IF LastReference(s) THEN "zero" ELSE "idle"]
    /\ UNCHANGED <<indexStack, sessionCount, del, ID, sock, io, at, want, base,
                   announced, ended, leaked>>

-----------------------------------------------------------------------------
(* The loop bodies: I/O is started and completed under a base reference.   *)

\* GetQueuedCompletionStatus returns: the worker now answers for the
\* reference that the operation or the posted request held.
TakeCompletion(t) ==
    /\ t \in Workers /\ pc[t] = "idle" /\ base[t] = NoSlot
    /\ \E s \in Slots :
          /\ io[s] > 0
          /\ io' = [io EXCEPT ![s] = @ - 1]
          /\ base' = [base EXCEPT ![t] = s]
    /\ UNCHANGED <<indexStack, sessionCount, count, del, ID, sock, pc, at, want,
                   announced, ended, leaked>>

\* recved refuses what was received (recvBuffer would be full): the loop body is
\* left by `continue', without decrementIO.  Nobody answers any longer for the
\* reference of that receive, and IOcount counts it for good.  No receive is
\* started after a refused one: it happens once to a session, and its last.
RefuseReceive(t) ==
    /\ t \in Workers /\ pc[t] = "idle" /\ base[t] = NoSlot
    /\ \E s \in Slots \ leaked :
          /\ io[s] > 0
          /\ io' = [io EXCEPT ![s] = @ - 1]
          /\ leaked' = leaked \cup {s}
    /\ UNCHANGED <<indexStack, sessionCount, count, del, ID, sock, pc, at, want, base,
                   announced, ended>>

\* recvIO or sendIO: incrementIO ...
StartIO(t) ==
    /\ pc[t] = "idle" /\ base[t] # NoSlot
    /\ io[base[t]] < MaxIO
    /\ count' = [count EXCEPT ![base[t]] = @ + 1]
    /\ at' = [at EXCEPT ![t] = base[t]]
    /\ pc' = [pc EXCEPT ![t] = "starting"]
    /\ UNCHANGED <<indexStack, sessionCount, del, ID, sock, io, want, base, announced,
                   ended, leaked>>

\* ... and WSARecv or WSASend, which the operation's completion will follow ...
IOStarted(t) ==
    /\ pc[t] = "starting"
    /\ io' = [io EXCEPT ![at[t]] = @ + 1]
    /\ pc' = [pc EXCEPT ![t] = "idle"]
    /\ UNCHANGED <<indexStack, sessionCount, count, del, ID, sock, at, want, base,
                   announced, ended, leaked>>

\* ... or which fail at once, so that the function drops the reference itself.
IOFailed(t) ==
    /\ pc[t] = "starting"
    /\ pc' = [pc EXCEPT ![t] = "release"]
    /\ UNCHANGED <<shared, at, want, base, announced, ended, leaked>>

\* decrementIO at the end of the loop body of acceptThread and workerThread.
DropBase(t) ==
    LET s == base[t] IN
    /\ pc[t] = "idle" /\ base[t] # NoSlot
    /\ count' = [count EXCEPT ![s] = @ - 1]
    /\ base' = [base EXCEPT ![t] = NoSlot]
    /\ pc' = [pc EXCEPT ![t] = IF LastReference(s) THEN "zero" ELSE "idle"]
    /\ at' = [at EXCEPT ![t] = s]
    /\ UNCHANGED <<indexStack, sessionCount, del, ID, sock, io, want, announced,
                   ended, leaked>>

-----------------------------------------------------------------------------
(* deleteSession.                                                          *)

\* (Mutant: the winner goes by the decrement, not by the exchange.)
DeleteWithoutCAS(t) ==
    LET s == at[t] IN
    /\ pc[t] = "zero"
    /\ del' = [del EXCEPT ![s] = TRUE]
    /\ want' = [want EXCEPT ![t] = ID[s]]
    /\ pc' = [pc EXCEPT ![t] = "close"]
    /\ UNCHANGED <<indexStack, sessionCount, count, ID, sock, io, at, base, announced,
                   ended, leaked>>

\* InterlockedCompareExchange(&IOcount, 0x80000000, 0): only a word that is
\* zero as a whole is taken; the winner reads the ID.
DeleteCAS(t) ==
    LET s == at[t]
        won == count[s] = 0 /\ ~del[s] IN
    /\ pc[t] = "zero"
    /\ del' = [del EXCEPT ![s] = won \/ @]
    /\ want' = [want EXCEPT ![t] = IF won THEN ID[s] ELSE @]
    /\ pc' = [pc EXCEPT ![t] = IF won THEN "close" ELSE "idle"]
    /\ UNCHANGED <<indexStack, sessionCount, count, ID, sock, io, at, base, announced,
                   ended, leaked>>

\* closesocket and bufferClear.
CloseSession(t) ==
    /\ pc[t] = "close"
    /\ sock' = [sock EXCEPT ![at[t]] = NoId]
    /\ pc' = [pc EXCEPT ![t] = "push"]
    /\ UNCHANGED <<indexStack, sessionCount, count, del, ID, io, at, want, base,
                   announced, ended, leaked>>

\* (Mutant: the index is not given back when OnDisconnect will be called.)
PushIndexSkipped(t) ==
    /\ pc[t] = "push"
    /\ pc' = [pc EXCEPT ![t] = "notify"]
    /\ UNCHANGED <<shared, at, want, base, announced, ended, leaked>>

\* Under indexStackLock.
PushIndex(t) ==
    /\ pc[t] = "push"
    /\ indexStack' = Append(indexStack, at[t])
    /\ pc' = [pc EXCEPT ![t] = "notify"]
    /\ UNCHANGED <<sessionCount, count, del, ID, sock, io, at, want, base, announced,
                   ended, leaked>>

\* (Mutant: the ID is read from the session, which may be another one by now.)
NotifyCurrentID(t) ==
    /\ pc[t] = "notify"
    /\ ended' = ended \cup {ID[at[t]]}
    /\ pc' = [pc EXCEPT ![t] = "idle"]
    /\ UNCHANGED <<shared, at, want, base, announced, leaked>>

\* OnDisconnect(targetID).
NotifyDisconnect(t) ==
    /\ pc[t] = "notify"
    /\ ended' = ended \cup {want[t]}
    /\ pc' = [pc EXCEPT ![t] = "idle"]
    /\ UNCHANGED <<shared, at, want, base, announced, leaked>>

-----------------------------------------------------------------------------
Accept == PopIndex \/ SetID \/ IncInit \/ ClearDel \/ EnterOnNewConnect

\* What a thread must go on with once it has begun.
Continue(t) ==
    \/ FindInc(t) \/ FindCheck(t) \/ UseSession(t) \/ SendReqInc(t)
    \/ SendReqPost(t) \/ Release(t)
    \/ IOStarted(t) \/ IOFailed(t)
    \/ DeleteCAS(t) \/ CloseSession(t) \/ PushIndex(t) \/ NotifyDisconnect(t)

Step(t) ==
    \/ Continue(t) \/ Call(t)
    \/ TakeCompletion(t) \/ RefuseReceive(t) \/ StartIO(t) \/ DropBase(t)

Next == Accept \/ \E t \in Threads : Step(t)

Spec == Init /\ [][Next]_vars

\* The system schedules every thread: what one has begun goes on, a loop body
\* comes to its end, an accepted connection is initialised.  Nothing is assumed
\* of new connections, of new calls or of completions.
Fairness ==
    /\ WF_vars(SetID) /\ WF_vars(IncInit) /\ WF_vars(ClearDel)
    /\ WF_vars(EnterOnNewConnect)
    /\ \A t \in Threads : WF_vars(Continue(t)) /\ SF_vars(DropBase(t))

FairSpec == Spec /\ Fairness

-----------------------------------------------------------------------------
(* Properties.                                                             *)

TypeOK ==
    /\ indexStack \in Seq(Slots)
    /\ sessionCount \in 0 .. MaxAccepts
    /\ count \in [Slots -> Nat]
    /\ del \in [Slots -> BOOLEAN]
    /\ ID \in [Slots -> Ids \cup {NoId}]
    /\ sock \in [Slots -> Ids \cup {NoId}]
    /\ io \in [Slots -> Nat]
    /\ pc \in [Threads -> PCs]
    /\ at \in [Threads -> Slots \cup {NoSlot}]
    /\ want \in [Threads -> Ids \cup {NoId}]
    /\ base \in [Threads -> Slots \cup {NoSlot}]
    /\ announced \subseteq Ids
    /\ ended \subseteq Ids
    /\ leaked \subseteq Slots

Owns(t, s) == at[t] = s /\ pc[t] \in Deleting \cup Initialising

\* A slot carries a session from the InterlockedAnd in init to the CAS in
\* deleteSession.  A slot on the stack that was never used has its bit clear.
Live(s) == ~del[s] /\ ~OnStack(s) /\ \A t \in Threads : ~Owns(t, s)

\* t may touch the fields of the session in slot s: it holds a base reference
\* (the accept thread from ClearDel on), a looked-up one, or starts I/O.
Uses(t, s) ==
    \/ base[t] = s /\ pc[t] # "clear"
    \/ at[t] = s /\ pc[t] \in {"hold"} \cup IoRef

Leaked(s) == IF s \in leaked THEN 1 ELSE 0

\* IOcount is exactly the number of references that threads, outstanding
\* operations and posted requests own, and of the one that a refused receive
\* leaves behind (RefuseReceive, network.cpp:374): that is the only path of
\* session.cpp and network.cpp that forgets a decrement, none forgets a second
\* one or an increment.  The counter of a slot with the leaked reference never
\* comes to zero again, and the slot is lost.
CountIsReferences ==
    \A s \in Slots : count[s] = Cardinality(Refs(s)) + io[s] + Leaked(s)

\* A slot on indexStack, a slot being initialised and a slot being deleted are
\* disjoint, each index is on the stack at most once and no two threads own one
\* slot: the accept thread never gets an index that deleteSession still works on.
OwnersAreExclusive ==
    /\ NoDuplicates
    /\ \A t \in Threads, s \in Slots : Owns(t, s) =>
          ~OnStack(s) /\ \A u \in Threads \ {t} : ~Owns(u, s)

\* Whoever uses a slot, and every operation outstanding on it, has a live
\* session under it with its socket open; and whoever got the slot from
\* findSession has the session he asked for, whatever reuse went on meanwhile.
UsersHaveTheirSession ==
    /\ \A s \in Slots :
          io[s] > 0 \/ (\E t \in Threads : Uses(t, s))
             => Live(s) /\ ID[s] # NoId /\ sock[s] = ID[s]
    /\ \A t \in Threads : pc[t] \in {"hold", "posting"} => ID[at[t]] = want[t]

\* A live slot whose counter is zero has a thread about to try the CAS: whoever
\* loses the race in deleteSession, the slot is not forgotten.  (The slot of a
\* refused receive never comes to zero: CountIsReferences.)
NoOrphan ==
    \A s \in Slots : Live(s) /\ count[s] = 0 =>
        \E t \in Threads : pc[t] = "zero" /\ at[t] = s

\* "It is not possible to get here" (loginServer.cpp:48): in OnNewConnect the
\* accept thread always finds the session it has just made.
AcceptorFindsItsSession ==
    pc[Acceptor] \in {"find", "check"} =>
        ~del[at[Acceptor]] /\ ID[at[Acceptor]] = want[Acceptor]

\* OnDisconnect is called for a session that OnNewConnect was called for, and
\* once: with the ID deleteSession saved, for the slot may have a new session.
DisconnectOnce ==
    [][\A t \in Threads :
          NotifyDisconnect(t) => ended' # ended /\ ended' \subseteq announced]_vars

\* A deletion that was begun hands the index back.
DeletionEnds ==
    \A s \in Slots : (\E t \in Threads : at[t] = s /\ pc[t] = "close") ~> OnStack(s)

\* A session without references has its end reported, unless a stale lookup or
\* a late call takes a new reference first.
UnreferencedEnds ==
    \A id \in Ids :
        (id \in announced /\ ID[IndexOf(id)] = id /\ count[IndexOf(id)] = 0)
            ~> (id \in ended \/ count[IndexOf(id)] > 0)

\* The table promised by SlotPool.  A session counts as opened when its bit is
\* cleared, as used by those who may touch its fields and by its operations.
PoolUsers == (Threads \X {"base", "op"}) \cup ({"io"} \X Slots)
PoolUses ==
    {<<<<t, "base">>, ID[base[t]]>> : t \in {u \in Threads : base[u] # NoSlot /\ pc[u] # "clear"}}
    \cup {<<<<t, "op">>, ID[at[t]]>> : t \in {u \in Threads : pc[u] \in IoRef}}
    \cup {<<<<t, "op">>, want[t]>> : t \in {u \in Threads : pc[u] = "hold"}}
    \cup {<<<<"io", s>>, ID[s]>> : s \in {r \in Slots : io[r] > 0}}

Pool == INSTANCE SlotPool WITH
    Users   <- PoolUsers,
    session <- [s \in Slots |-> IF Live(s) THEN ID[s] ELSE NoId],
    uses    <- PoolUses,
    opened  <- announced \cup (IF pc[Acceptor] = "connect" THEN {ID[at[Acceptor]]} ELSE {})

ImplementsSlotPool == Pool!Spec

-----------------------------------------------------------------------------
(* The inductive invariant.                                                *)

Known(s) == \E id \in announced : IndexOf(id) = s

\* Only slots of announced sessions are looked up, used or handed to an I/O;
\* such a slot has its bit set while it is free.  (A slot never used so far has
\* its bit clear on the stack: only the fact that nobody knows an ID for it
\* keeps a lookup from succeeding there.)
KnownSlots ==
    /\ \A t \in Threads : pc[t] \in OpRef \cup IoRef \cup {"find", "zero"} =>
          at[t] \in Slots /\ Known(at[t])
    /\ \A t \in Threads : base[t] # NoSlot /\ pc[t] \notin {"clear", "connect"} =>
          Known(base[t])
    /\ \A s \in Slots : io[s] > 0 => Known(s)
    /\ \A s \in Slots : Known(s) /\ (OnStack(s) \/ \E t \in Threads : Owns(t, s))
          => del[s]

\* Where the accept thread is, and which slot it answers for.
AcceptorState ==
    /\ \A t \in Threads : pc[t] \in Initialising \cup {"connect"} => t = Acceptor
    /\ \A t \in Threads : pc[t] \in Deleting \cup Initialising => at[t] \in Slots
    /\ pc[Acceptor] \in {"setid", "inc"} => base[Acceptor] = NoSlot
    /\ pc[Acceptor] = "setid" => sessionCount < MaxAccepts
    /\ pc[Acceptor] \in {"clear", "connect", "find", "check"} =>
          at[Acceptor] \in Slots /\ base[Acceptor] = at[Acceptor]

\* What a slot that is, or is about to be, live carries.
Carries(s) == ID[s] # NoId /\ sock[s] = ID[s] /\ IndexOf(ID[s]) = s
LiveSlots ==
    /\ \A s \in Slots : Live(s) => Carries(s)
    /\ pc[Acceptor] \in {"inc", "clear"} => Carries(at[Acceptor])
    /\ \A t \in Threads : pc[t] = "check" => Live(at[t])

SlotInv ==
    /\ TypeOK /\ CountIsReferences /\ OwnersAreExclusive /\ UsersHaveTheirSession
    /\ NoOrphan /\ AcceptorFindsItsSession
    /\ KnownSlots /\ AcceptorState /\ LiveSlots

\* deleteSession is past its exchange and OnDisconnect has not returned.
Ending(t) == pc[t] \in Deleting \cup {"notify"}

\* IDs are numbered in the order of the accepted connections; the session of a
\* live slot was announced (or is about to be) and its end was neither reported
\* nor begun; no two threads are ending the same session.
EndsInOrder ==
    /\ ended \subseteq announced
    /\ \A id \in announced : id[1] < sessionCount
    /\ pc[Acceptor] \in {"inc", "clear", "connect"} =>
          ID[at[Acceptor]] \notin announced /\ ID[at[Acceptor]][1] < sessionCount
    /\ \A s \in Slots : Live(s) =>
          /\ ID[s] \notin ended
          /\ ID[s] \in announced \/ (pc[Acceptor] = "connect" /\ at[Acceptor] = s)
    /\ \A t \in Threads : Ending(t) =>
          /\ want[t] \in announced \ ended
          /\ \A s \in Slots : Live(s) => ID[s] # want[t]
          /\ \A u \in Threads \ {t} : Ending(u) => want[u] # want[t]

IInv == SlotInv /\ EndsInOrder
=============================================================================
