# A verification project for loginServer

loginServer is a Windows login server in C++: clients connect over TCP, send one
encrypted login packet (type 101), and get an answer (type 102) after the server
asked MySQL and stored the session key in Redis. Its core is a library of its
own, `lib/IOCP netServer`: a server on I/O completion ports whose sessions are
reference counted and reused without locks. This directory holds TLA+ models of
that core, the TLC runs that check them, and proofs about them checked by TLAPS.

Sources are under `src/loginServer/`; `network.cpp`, `session.cpp` and so on
stand for files of `lib/IOCP netServer/`.

## 1. Inventory

| component | state it keeps | operations | correct when |
|---|---|---|---|
| session table (`network.cpp`, `session.cpp`) | `sessionArray`, `indexStack`, `session::IOcount` (31 bits of references and a delete bit), `session::ID`, `sessionCount` | `acceptThread`, `session::init`, `findSession`, `disconnectReq`, `sendReq`, `decrementIO`, `deleteSession` | a slot has one owner; a stale ID never reaches another session; no slot is lost; an end is reported once |
| session I/O (`session.cpp`, `network.cpp`) | `sendBuffer`, `sendedBuffer`, `recvBuffer`, `sendFlag`, `cancelIOFlag`, two `OVERLAPPED`s | `workerThread`, `sendIO`, `sended`, `collectSendPacket`, `recvIO`, `recved`, `recvedPacket`, `cancelIORegist`, `bufferClear` | one send and one receive at a time; packets sent once, in the order they were collected, and freed once; a cancelled session ends; what is queued is sent |
| login server (`loginServer.cpp`) | `connectionMap` under `containorLock`, a time stamp per session | `OnNewConnect`, `OnDisconnect`, `OnRecv`, `update` | the map has exactly the registered sessions; sessions that are too old, and no others, are disconnected |
| network lifecycle (`network.cpp`) | threads, the port, TPS counters | `start`, `stop`, `~Network`, `networkThread` | not reached but for `start` (section 7) |
| `LockFreeQueue.h` | linked nodes, `_head`, `_tail`, `_size`, a node pool with tagged keys | `push`, `pop`, `Alloc`, `Free` | nothing lost or duplicated; order; the size never promises what is not there |
| `ringBuffer` | `headPtr`, `tailPtr` modulo a power of two | `MoveRear`, `MoveFront`, `push`, `pop`, `front` | it is a byte queue |
| `serializer`, `packet` | a buffer with two cursors, a reference counter | `<<`, `>>`, `moveFront`, `moveRear`, `setHeader`, `encryption`, `decryption` | decryption undoes encryption and detects a changed checksum; cursors stay in the buffer |
| MySQL, Redis connectors | one connection per thread (MySQL), one client (Redis) | `query`; `get`, `set` | an answer or an error, and a new connection after a failure |
| `cpp_redis`, `tacopie`, MySQL headers | - | - | third-party, not modelled |

How they interact. The accept thread pops an index, runs `session::init`, ties the
socket to the port, calls `OnNewConnect` and starts the first receive. Every
outstanding operation and every request posted to the port holds a reference to its
session; the worker that takes the completion inherits it and drops it at the end
of its loop body. `OnRecv` runs on a worker and may call `sendReq`, which posts
the packet to the port, or `disconnectReq`, which sets the cancel flag and cancels
both operations. The timeout thread calls `disconnectReq` with IDs it finds in
`connectionMap`. Whoever drops the last reference runs `deleteSession`, which
closes the socket, frees the packets, hands the index back and calls
`OnDisconnect`.

What is hard: all of this runs on any number of workers at once, with stale IDs,
with slots that are reused at any moment, with operations that complete, fail or
are cancelled when they like, with a peer that stops reading or leaves, and with
one non-recursive lock taken from callbacks. `PROJECT.json` lists the hazards line
by line.

## 2. Plan

Most important first; the marks say what stands.

1. [x] `SessionSlots`: the session table, with the abstract `SlotPool` that it
   implements, and `SessionSlotsProofs`.
2. [x] `SessionIO`: sends, receives and cancels of one session.
3. [x] `LoginServer`: the content on top, with `containorLock`, the timeout and the
   database connection of a worker.
4. [x] `LockFreeQueue`: every access of `push`, `pop`, `Alloc` and `Free` to shared
   memory.
5. [x] `RingBuffer` and `Serializer`, the data structures as operators, and
   `PacketPath`, which composes them with `recvIO`, `recvedPacket` and `OnRecv`.
6. [x] `SessionContract`, what `Network` promises the content about a session:
   `SessionIO` and `LoginServer` both implement it.
7. [x] Proofs: that `SessionSlots` implements `SlotPool`; every safety invariant of
   `SessionIO` and of `LoginServer`; that both implement `SessionContract`.
8. [x] Proofs of the data path: that `RingBuffer` is a byte queue for every size, that
   `decryption` undoes `encryption` for packets of every length, and on top of them
   every safety invariant of `PacketPath`.
9. [x] Proofs about `LockFreeQueue`: that a node has one place and no value is lost.

## 3. The modules

### SessionSlots

The slots of `sessionArray` without their buffers. `count` and `del` are the two
parts of `IOcount`, `ID` and `sock` the fields of `session`, `indexStack` the
free indices, `io` the references of operations and posted requests. A thread has a
program counter and its locals: the slot (`at`) and the ID (`want`) of the operation it
runs, and the slot whose reference its loop body holds (`base`).
One action is one interlocked operation, one section under `indexStackLock`, or one
access to a shared field, so the orders the code leaves open are all there: `init`
is three actions (`SetID`, `IncInit`, `ClearDel`), `findSession` two (`FindInc`,
`FindCheck`), `deleteSession` four (`DeleteCAS`, `CloseSession`, `PushIndex`,
`NotifyDisconnect`). What a worker does between two of these (parsing, buffers) is
left to `SessionIO`; here it starts and ends operations and calls the content in any
order, which includes everything it does there. `RefuseReceive` is the loop body that
ends at `network.cpp:374-375` without `decrementIO` (finding 2): `leaked` is the slots
whose count has, from then on, one reference that nobody answers for.
`CountIsReferences` says that there is no other.

`MAKE_SESSION_ID` keeps 16 bits of the accept counter (`IdWrap`). The model
assumes `MaxAccepts =< IdWrap`: a slot that was accepted 65536 times in between could
get an ID back, and then stale callers would reach the new session. That is a
limit of the code, stated as an assumption.

### SlotPool

What the session table promises, in three variables and without counters, bits or
IDs: a slot is free, live or ending; it is used by parties; it may end only when
nobody uses it, and its end is reported once. `SessionSlots` refines it by
`Pool == INSTANCE SlotPool WITH ...`, checked as the property `ImplementsSlotPool`.

### SessionContract

What `network.h:70-99` offers the content, as an abstract machine: of a session its
stage (none, open, deleted, reported), who is inside one of its callbacks, who holds
it after `findSession`, and who was asked to be disconnected. `OnNewConnect` comes
first; `OnRecv` starts only when no callback of the session runs; only an open
session is found or cancelled; it is deleted by one thread, when no callback runs
and nobody else holds it; then `OnDisconnect` comes, once. It has no counter, no
flag, no port and no lock. `SessionIO` implements it with `IOcount`, `sendFlag` and
the cancel flag under every interleaving of one session, `LoginServer` with
several sessions, the accept thread, `containorLock` and the timeout
(`ImplementsSessionContract` in both, with the mapping beside it). It is what lets
the two be read together: what the one shows about the network is what the other
assumes of it.

### SessionIO

One session from `OnNewConnect` to `deleteSession`. `queue`, `batch` and `fill`
are `sendBuffer`, the whole pointers in `sendedBuffer` and the size of `recvBuffer`; `sendFlag`,
`cancelFlag` and `count` are the members of that meaning. The actions follow the
statements of `workerThread`, `sendIO`, `recvIO` and `disconnectReq` that touch
shared state, one each. A packet is the number of its `sendReq` call.

External parts, modelled from how the code uses them: the port is a FIFO
of completions and posted requests; an operation is `pending` until it
completes, is cancelled by `CancelIoEx` (which finds nothing if it is no longer
outstanding, and may lose against a completion) or ends because the peer left.
`WSASend` and `WSARecv` may also complete or fail at once. Two constants choose
what the environment does: `PeerFills` lets the peer fill `recvBuffer` to the last
byte, `OtherErrors` lets `WSASend` fail with the peer still there. `findSession`
and `deleteSession` are one step each, which `SessionSlots` justifies.
`QueueCap` is the capacity of `sendBuffer` (256 nodes of which one is the dummy):
`Collect` drops a packet that finds it full, as `workerThread` does. `sendBuffer` is a
set: `LockFreeQueue` keeps no order that could be relied on (see below), so `WSASend`
takes what is there in any order, and `dequeued` records which it was. `StreamIntact` is
about that order, not about the order of the `sendReq` calls.

`sendedBuffer` (a ring of 2048 bytes) has room for 255 pointers, exactly as many as
`sendBuffer` has packets, and nobody looks at what `push` returns (`session.cpp:123`).
As long as no `WSASend` failed hard, that is with an error other than the two of a reset,
it is empty when the next send fills it, and all fit (`SendedFits`). After
a hard error it is not, and pointers are cut off or left out: the packets in `lost`, which
the kernel may still send but whose references nobody drops any more (finding 3). The
first that does not fit leaves seven of its eight bytes there; `bufferClear` may happen to
read it whole (`Drop`). `PacketsConserved` counts the lost; `broken` says that a hard error happened,
and `StreamIntact` and `SendedFits` promise nothing from then on.

`WSABUF[100]` is not modelled: with more than 100 packets queued the code writes behind
it. The loop of `sended` runs away if `transfer` does not reach zero exactly; the model
stops there and `SendedReachesZero` says when that is.

The invariants count threads, and messages on the port (`Among`, in the module `Elements`).
The last section of the module is the inductive invariant `IOInv`; `SessionIOProofs`
proves it and then the steps of the contract, with the lemmas of `Counting` (a set of
which one member changes, a sequence at whose ends one element comes or goes).

### LoginServer

`map` is `connectionMap` with its time stamps, `lock` is `containorLock`. A section
under the exclusive lock is one step that needs the lock free; the shared hold of
`update()` spans its iteration. Of the network it keeps what the callbacks
depend on: the references of a session, its receive, its cancel flag, and the
port. A receive may be refused here too (`RefuseReceive`, finding 2): its reference stays,
`RefsAreExact` counts it, the session never ends, and `OverdueEnds` excepts it. The difference of ticks is taken modulo `TickMod` as the unsigned 64-bit
subtraction is. A packet is a login or is refused. The query is the loop of
`mysqlConnector::query` with the worker's thread-local `mysqlConnect`: null at first,
open after `Connect`, closed for good after `QueryFails`, because the pointer is not
reset and nothing but a null pointer connects again. Redis is one step.
`sessionKeyCheckByDatabase` ignores what the query returned and returns true,
although its comment (line 173) says that the key is compared; `QueryAnswered` has
for this reason no outcome. The module ends, too, with its inductive invariant
`LoginInv`; `LoginServerProofs` has all proofs about it.

### LockFreeQueue

`session::sendBuffer`. `head`, `tail`, `size`, `pushs` are `_head`, `_tail`,
`_size` and `pushs`; `topKey` and `pushCount` belong to the node pool; `value`,
`key` and `poolNext` are the fields of the nodes. A key is a pair of a node and its
tag, as `MAKE_KEY` packs them. One action is one access to shared memory, named for
what it reads or exchanges. The one consumer is the holder of `sendFlag` or the
thread in `deleteSession` (`OneSend` of `SessionIO` and the ownership of
`SessionSlots` say that there is one), so `pop` writes `_head` without an
exchange, as the code does. `NodesHaveOnePlace` relates the pool, the queue and
what the threads carry: a push that has filled its node carries that node and
whatever stalled producers have already linked behind it. `NothingLost` relates the
values pushed and popped. Tags are numbers without a width: that a tag comes
round (`pushs` and `pushCount` have 16 bits in a key) while a thread stands still is
outside the model.

The order in which values leave is no property here, because the code does not keep
it: the exchange that links a node (line 47) compares with an untagged null, so a
producer that stalled before it may link its node to one that has meanwhile
been recycled and not yet linked itself, and what that producer or another
pushes later can come out first, even if its push had begun after the other had
returned. TLC finds such a behaviour with four nodes and four pushes, and none with
the three nodes of the run; the whole space of four nodes is too large for a run.
The answers of
one login need no order among themselves, and no text of the repository promises one.

### RingBuffer, Serializer, PacketPath

`RingBuffer` and `Serializer` are the two buffer classes as operators on records
`[buffer, headPtr, tailPtr]`, the pointers being offsets into the buffer.
`& _maxSize` is `% bufferSize`; chars are numbers below `CharSize`, with `^` a
constant operator that must be its own inverse. The five bytes of the header are
three units (size, key, checksum): the code byte is never read, and the two bytes of
the size are only read together. `Put` and `Get` are the typed `<<` and `>>`, whose
overloads differ in width only: `Put` may have to `resize`, whose new tail points into
the freed buffer (`Dangling`), and `Get` reads whether there is something or not.

`PacketPath` is one session's way in and back: `Send` (the peer, encoding with
`setHeader` and `encryption`, since a client has to do what `decryption` undoes; a
packet may be damaged in its last unit), `RecvIO` with
the two `WSABUF`s, `Fill` (the kernel, any number of units), `Recved`, and the parse
loop `Parse` and `ParseEnds` with one serializer of the pool, which keeps its old
contents between packets. `Parse` ends in `OnRecv`: a wrong checksum or another type
asks to disconnect (the loop goes on, and no receive follows), a login is answered
with a second recycled serializer, filled with three `<<`, headed and encrypted. The
strings of the answer are left out, database and Redis are in `LoginServer`. `Init` lets the cleared ring start at any cell, as
`bufferClear` leaves it.

## 4. The runs

| run | module, cfg | what it shows |
|---|---|---|
| `slots_safety` | `MCSessionSlots`, `SlotsSafety` | 1 slot, 2 workers, 1 stale caller, 3 accepts, receives that may be refused. One slot forces reuse, three accepts let an ID be two generations old. Reference count, ownership, lookups, single reports, the refinement of `SlotPool`. |
| `slots_liveness` | `MCSessionSlots`, `SlotsLiveness` | 1 slot with three sessions after one another, 1 worker, 1 caller, two operations at a time, receives that may be refused. Deletions finish; a session whose count is zero ends. |
| `io_safety` | `MCSessionIO`, `IOSafety` | 2 workers, 3 packets, a `sendBuffer` of 2, 3 bytes, all errors on. Count, one send, one receive, packets freed once (also those dropped at a full `sendBuffer`) or lost at a full `sendedBuffer`; unless a `WSASend` failed hard, the order of the stream and the capacity of `sendedBuffer`; the refinement of `SessionContract`. |
| `io_service` | `MCSessionIO`, `IOService` | 2 workers, 1 answer, packets in pieces. A cancelled session, and one whose peer left, is deleted. |
| `io_lost_wakeup` | `MCSessionIO`, `IOLostWakeup` | finding 1, violation of `QueuedIsSent`; needs 3 packets |
| `io_full_buffer` | `MCSessionIO`, `IOFullBuffer` | finding 2, violation of `PeerGoneEnds` |
| `io_send_error` | `MCSessionIO`, `IOSendError` | finding 3, violation of `SendedReachesZero` |
| `login_safety` | `MCLoginServer`, `LoginSafety` | 2 sessions, accept thread, worker, timer, queries that may fail. The map is exact and stable under iteration; `IOcount` is exactly the references, with that of a refused receive; overdue sessions end, unless a receive of theirs was refused (finding 2), and a worker with a login returns, both unless the timer is stuck (finding 4) or the query failed; the refinement of `SessionContract`. |
| `login_self_deadlock` | `MCLoginServer`, `LoginSelfDeadlock` | finding 4, violation of `TimerReturns` |
| `queue` | `MCLockFreeQueue`, `Queue` | 2 producers, the consumer, 3 nodes, 4 pushes: each node is recycled while old addresses of it are about. A node is in one place, no value is lost or comes twice, `pop` does not spin for ever. |
| `packets` | `MCPacketPath`, `Packets` | 2 packets of 3 to 6 units (logins of two lengths, another type, an empty packet, each whole or damaged), a ring of 8 cells starting anywhere, chars of 2 bits, every cut of the stream. The stream stays whole, the payloads come out as they went in and damage is seen, none is held back, all arrive unless a receive is refused or the session closes, and each login gets its own answer. |
| `login_early_timeout` | `MCLoginServer`, `LoginEarlyTimeout` | finding 5, violation of `NoEarlyTimeout` |

Bounds. Two workers are the least that interleave; with the accept thread and a
thread of the content every pair of roles meets. Two packets are enough for a
send to overtake or swallow another, three for the lost wakeup (one that was
queued, one that took it along, one left behind) and to find a `sendBuffer` of two
full. With a batch of two that failed hard and a third packet, `io_safety` reaches a full
`sendedBuffer` too (TLC finds `lost = <<>>` violated there, after 38 steps). In `io_safety` two packets of one byte may arrive in one receive; that a packet
arrives in pieces is in `io_service` and, for every cut, in `packets`.
`login_safety` has one worker, so that a query that failed leaves none; with two the
liveness check takes longer than a run may. `slots_liveness` has one slot for the same
reason: what its properties are about, the last decrement against a stale caller that
counts again, happens on one slot, which three sessions use in turn. One tick
decides between due and not due. Three nodes make the pool of the queue run dry.
A ring of eight holds one packet and part of the next, so that headers and payloads
are split by the end of the buffer at every place. The runs of `SessionIO`,
`LoginServer`, `LockFreeQueue` and `PacketPath` switch the deadlock check off because
their behaviours stop: the session is deleted, the accepts, pushes or packets
are used up. Every property of a passing run has a mutant of a modelled
step that violates it (`PROJECT.json`); the mutants stand beside the definitions
they change.

Fairness. Threads that are runnable run (`WF` of a thread's steps): the code
relies on the scheduler in the same way. A worker returns from
`GetQueuedCompletionStatus` when there is a completion. The kernel ends cancelled
operations and those whose peer is gone. The database accepts a connection some time;
a query may fail as often as it likes. What was sent on a connection
that lives arrives (`PacketPath`). Nothing forces a peer to send, to read or
to leave, and nothing forces the content to call. For `containorLock` a waiter gets
in if the lock is free again and again (`SF`): SRW locks wake their
waiters, and `update()` sleeps ten seconds between two holds.

## 5. Findings

1. Lost wakeup (`session.cpp:98-102`). Worker B holds `sendFlag` and reads size 0;
   worker A queues a packet, finds the flag set and returns; B resets the flag and
   returns. The packet stays until something else is sent to that session, which
   for a login server is usually never: the client waits for its answer until the
   timeout.
2. Leaked reference (`network.cpp:374-375`). A receive that leaves no free byte is
   refused and the loop goes on without `decrementIO`: the session, its socket
   and its slot are lost. `SessionIO` shows it; `SessionSlots` and `LoginServer` have
   the step as well, and their properties say what becomes of the count, the slot and the
   timeout.
3. Send error (`session.cpp:135-143`). `sendFlag` is reset before the cancel flag is
   set, with the failed packets still first in `sendedBuffer`; another worker's
   send completes against them. If they leave too little room, pointers of that
   send are lost without notice (`session.cpp:123`), and the references of their packets
   with them. No text of the repository promises anything of that line, so the run is about
   `sended`.
4. Self-deadlock (`loginServer.cpp:154-162`). `update()` calls `disconnectReq` under
   the shared lock; as the last holder it runs `OnDisconnect`, which wants the lock
   exclusively. Afterwards every connect and disconnect hangs too.
5. Early timeout (`loginServer.cpp:153-156`). The tick is read before the lock is
   taken; a session registered in between makes the difference wrap.

Also seen while reading, without a run: `sessionKeyCheckByDatabase` compares
nothing; `mysqlConnector::query` never reconnects after a failed query (the exception
`QueryStuck` in the properties of `login_safety`); a packet shorter than type and
account is read on in what the serializer held before (the exception in
`AnswersAreTheirs`); the answer sends an array `loginServer.cpp:119` never wrote;
`OnDisconnect` leaks `connectionData`; neither SRW lock is initialised; `serializer::resize` computes
the tail from the head it has just overwritten (`serializer.cpp:19-20`);
`LockFreeQueue` does not keep the order of pushes (section 3); a packet of more
than 254 bytes never fits `recvBuffer`, whose size `session.cpp:51` sets to 256.

## 6. The proofs

| module | proved, for every value of the constants |
|---|---|
| `SessionSlotsProofs` | every safety invariant of `slots_safety`, and that `SessionSlots` implements `SlotPool` |
| `SessionIOProofs` | every safety invariant of `io_safety`, when `SendedReachesZero` holds, and that `SessionIO` implements `SessionContract` |
| `LoginServerProofs` | every safety invariant of `login_safety`, `IterationIsStable`, and that `LoginServer` implements `SessionContract` |
| `RingBufferProofs` | what `front`, `pop`, `MoveRear` and the two pieces of a receive do to what is unread, for every size of the ring |
| `PacketPathProofs` | what the header, the checksum and the cipher do to a packet, and every safety invariant of `packets` |
| `LockFreeQueueProofs` | every safety invariant of `queue`, for any number of producers, nodes and pushes |

`Counting` holds the lemmas about cardinalities and sequences that several of them need,
`DataInduction` those of the last two about sequences of sequences and recursive functions.
Every inductive invariant was checked by TLC before it was proved, on the
configuration of the component's safety run, `LoginInv` with two workers as well.
`QueueInv` begins with an existential quantifier, which TLC cannot evaluate; its parts
were checked with the witnesses that the chains themselves give, up to three pushes.

All proofs of an invariant have the same form: lemmas that say how one step changes a
count; per conjunct of the invariant, a lemma for the steps of a thread and one for the
environment's, with one step per action; then `Init`, `Next` and the temporal step.

### SessionSlots

Proved are `TypeOK`, `CountIsReferences` (with the reference of a refused receive), `OwnersAreExclusive`, `UsersHaveTheirSession`,
`NoOrphan`, `AcceptorFindsItsSession` and `DisconnectOnce`, for all finite sets of
slots and threads and all bounds. Assumptions: the named `ASSUME`s of `SessionSlots`
(thread sets disjoint and finite, slots finite, `MaxAccepts =< IdWrap`).

None of these is inductive by itself; `IInv` is `SlotInv` and
`EndsInOrder`. `SlotInv` is the invariants but the last, with three parts they need:

- `KnownSlots`: only slots of announced sessions are looked up or used, and such a
  slot has its delete bit set while it is free. The first half is what keeps a
  lookup away from a slot that was never used, whose bit is still clear.
- `AcceptorState`: which slot the accept thread answers for between `PopIndex` and the
  end of `OnNewConnect`, where it is neither free nor live but can already be
  found, and that it holds the reference of `init` there.
- `LiveSlots`: what a slot carries while it is live: its ID, its index, and the
  socket of the same session.

`CountIsReferences` is the accounting among them: a count of zero means that nobody
is there, so the winner of `DeleteCAS` is alone; a slot with a leaked reference never
gets there, which only makes the steps below fewer. `EndsInOrder` relates the IDs
announced, live, being ended and reported; it is where `MaxAccepts =< IdWrap` is
used, because two sessions of a slot then have different IDs. From it follows
`DisconnectOnce`.

`ImplementsPool`: a slot is open in `SlotPool` when it is live, ending while
a thread deletes it, and used by whoever holds a reference to it as its current
session. `DeleteCAS`, `NotifyDisconnect` and `ClearDel` are the three steps of
`SlotPool` that matter. All others move users about or are invisible, also the
increments that stale callers make on a slot that is free: `UsersHaveTheirSession` and
`LiveSlots` keep those out of the abstract state.

### SessionIO

Proved are `TypeOK`, `OneSend`, `OneReceive`, `PacketsConserved`, `StreamIntact` and
`SendedFits`, for every finite set of workers, every number of packets and all
capacities with `IOAssumption`, whatever `PeerFills` and `OtherErrors` are; the last two
properties make their own exception, `broken`. Two theorems
have a hypothesis, because without it the code is wrong:

- `EveryReferenceIsOwned` (`RefsAreOwned`) needs `~PeerFills`: a peer that fills
  `recvBuffer` leaves a reference over (finding 2). What holds in any case is
  `NoReferenceIsMissing`: the count is never below the references, so no session is
  deleted under one of them. `FillInv` adds what the peer leaves free.
- `SendedEnds` (`SendedReachesZero`) needs `~OtherErrors`; `io_send_error` is the
  counterexample without it (finding 3).

`IOInv` adds to the invariants:

- `Roles`: who may be where, and that a thread has a completion where it handles one.
- `RefsAreHeld`, the part of `RefsAreOwned` that does not depend on the peer. It is what
  makes the last `Drop` safe: the thread that brings the count to zero is
  alone, so `bufferClear` has every packet that is left.
- `CancelsAreFlagged`: an operation is cancelled only after the flag was set.
- `StreamInOrder`: what was sent, followed by what is being sent, is a prefix of what was
  dequeued, and all of it while another send can still follow. `StreamIntact` alone would
  not survive the next `WSASend`.
- `BatchIsInflight`: nothing is lost, and `sendedBuffer` is empty until its owner fills it
  and holds then exactly what the operation sends. `SendedFits` and `SendedReachesZero`
  come from it.

The last two hold until a `WSASend` failed hard (`broken`); the others always.
`PacketsAreAccounted` is `PacketsConserved` with the packets that were lost then.

Counting does most of the work: `SendTokens`, `RecvTokens` and `References` are sums of
threads, operations and messages, and a handler moves a token from one place to another.

### LoginServer

Proved are `TypeOK`, `MapIsExact`, `RefsAreExact` and `IterationIsStable`, for
every finite set of workers, every set of sessions, every threshold and tick
(`LoginAssumption`). `LoginInv` adds

- `Roles`: which thread runs what, and which session it has while it does;
- per session, `Counted`: the exact references (the one of a refused receive among them,
  which `Pending` counts like that of an outstanding one), that one thread reports the end
  (`OneReports`), and that one party has the receive (`OneReceive`). They are proved
  together, for one session at a time: that the last reference is dropped by a
  thread that is alone there needs the first, that it is the only one to report the
  second;
- `LockIsTimers`: the shared lock is held exactly while the timer is in `update()`.
  `IterationIsStable` follows: who inserts or erases needs the lock free. The one
  exception is the timer itself in `OnDisconnect`, which waits for its own lock
  (finding 4), and does not change the map for this very reason.

### The contract

In both refinements `Inside`, `Holders` and the stage of a session are read off the
program counters, the phase and the cancel flag (the mapping stands in the model).
Every action is shown to be one step of the contract or none; what the steps need is
that nobody else is in a callback when `OnRecv` starts (`OneReceive`), that the
session is open when it is found or cancelled, and that nobody is inside and nobody holds
it when it is deleted (the exact references: who is inside or holds the session is
counted).

### The data path

Proved are `TypeOK`, `StreamInOrder`, `PacketsIntact`, `AnswersAreTheirs` and
`NothingHeldBack`, for every ring and serializer, every finite or infinite set of
payloads that fit them, every width of a char and every key. The assumptions are
`BufferSizeAssumption` and `PacketPathAssumption`: chars have at least two values, `Xor`
stays among them and undoes itself, and a packet leaves a cell of the ring free. A
payload may be empty, and of any length that fits.

The ring comes first. `Unread` is the sequence it stands for, `Behind` the cells
after it. `FrontIs`, `PopIs`, `MoveRearIs` and `FilledIs` say that `front` reads a prefix
of `Unread` and `pop` removes it, that the two `WSABUF`s are the free cells in order, and
that `MoveRear` makes what is there unread. Each is a case for data that wraps and one for
data that does not; nothing above them looks at an index again.

`StreamInv` adds to `StreamInOrder` what makes it inductive: `ReceivesFit` (the posted
buffers are the free pieces of the ring as it is now, and what came fits them, so that
`Fill` cannot write over unread cells) and `StreamTypes`. `Parse` is the difficult step. The
ring, what has arrived and the wire start with the units of the next packet, so its
size field, read with `front` from however many cells are there, is the size that
was sent (`HeaderAtFront`), and what is popped is that packet and nothing else
(`PacketAtFront`, `ParsedIs`).

`ContentInv` is about what was read. `ChainIs` says what each step of `encryption` mixes
in, `Undone` that `decryption`, which finds the same values from the other side, gives back
checksum and payload. For a packet damaged on the way `LastCharShows` says that the sum
changes when its last char does; with an empty payload that char is the checksum itself.
`Understood` puts these together for a packet built and enciphered by anybody: `ParseIntact`
uses it for the peer's packets, and `AnswerReads` for the server's, in a serializer whose
old contents do not matter because the cursors were cleared. `AnswersFollow` (each answer
is to a packet already delivered) makes `AnswersAreTheirs` inductive: the packet now
delivered has no answer yet.

The models have no recursive operators but recursive functions, whose equations are
proved, and induction over lengths is done with sets of numbers: `SetInduction` says that
a set of naturals with zero and all successors is everything, and a lemma about every
prefix of a sequence is the statement that a set of lengths is one.

### LockFreeQueue

Proved are `NodesHaveOnePlace` and `NothingLost`, for every finite set of producers,
every size of the pool and every number of pushes (`QueueAssumption`).

Both speak of what can be reached over links, which no step changes in one place
only. `QueueInv` (in `LockFreeQueueProofs`) therefore names it: there are sets of nodes
`live` and `pooled`, an `owner` and a `place` for each live node, a `depth` and a `tag`
for each pooled one, with which

- `Chains` holds: the consumer and every push with a filled node have a chain of their
  own, each link leads one place further within it, and places are not shared. A
  successful `Link` gives the whole chain of the push to the owner of the node it links
  behind; `InitNode` begins a chain; `PopMoveHead` takes the first node off the queue's;
- `Stack` holds: `topKey` and every `poolNext` carry the tag their node got when it was
  freed, no tag is ahead of `pushCount`. With `PoolReads` this is why `AllocCAS`
  takes the node whose successor it read: an equal tag means it was not freed since;
- `Apart`: what is neither live nor pooled is with one thread alone, between `Alloc` and
  the initialisation or between `pop` and `Free`;
- `Reads`: what a stalled push knows. The node it read may have been recycled; then either
  its tag differs, so that `Swing` and `Help` change nothing, or its key is
  not null, so that `Link` fails, or it is live again - in whatever chain;
- `NoRing`: this last case is the danger. Two pushes could each link their node behind
  the other's, and both chains would be a ring that nobody reaches. They cannot: a push
  comes to wait for another only when that other fills the node it had read, and who fills
  a node waits for nobody yet and reads next a `_tail` that is in the queue (`InitWaits`).
  `Link` keeps this when it joins two chains (`LinkWaits`);
- `Ends`: `_tail` is in the queue and not behind `_head`, which makes the plain write
  of `_head` safe;
- `Accounts`, `SizeIsExact`: each value that was linked is popped, about to be returned,
  or in exactly one linked node; the linked nodes are `_size`, corrected by the pushes not
  yet counted and the pop that has decremented.

`InvPlaces` and `InvLosesNothing` go back from there to the chains as the properties
follow them: `ChainHops` says what the recursive function in `Chain` is, `ChainLists`
that, with an order as `place` gives it, it visits each node of a chain once and then
stops. The pigeonhole principle bounds its hops by the size of the pool.

### Only model-checked

- Everything about liveness (`DeletionEnds`, `UnreferencedEnds`, `CancelEnds`,
  `PeerGoneEnds`, `OverdueEnds`, `WorkerReturns`, `PopReturns`, `EveryPacketArrives`),
  which the proof system cannot treat.
- The order in which `LockFreeQueue` gives values out, which the code does not keep
  (section 3).

## 7. Not modelled

Of the repository's own code:

- `start()` runs once, before everything else; its effect is `Init` of the modules.
  `stop()`, `~Network` and the end of the threads are never reached: `testMain.cpp`
  makes one server and waits for ever. If they are used one day, they need a
  module of their own: the destructor posts the end of the workers with sessions still
  open (`network.cpp:48`).
- `networkThread` and the TPS counters feed a display and nothing reads them back;
  `threadIndexMap` selects a counter.
- `ringBuffer::push` is an append in `SessionIO`, as far as there is room; the bytes of a
  pointer that was cut off are not followed any further than `bufferClear`; `serializer::pop`, `peek`, the
  overloads for strings, the copies of both buffer classes, `redisConnector::get` and
  `disconnect`, and `dbQuery.cpp` are never called.
- The rows of the query's result, which the server does not look at; what Redis
  stores; packets whose header lies about their size; text, logging and monitoring.

Third-party: `cpp_redis`, `tacopie` and the MySQL client headers are about 17 400 of
the 21 100 lines of code in the tree (`mysqld_error.h` alone 5900 lines of constants).
The repository uses them through a few calls, which are steps here. What is
left, the server, the library `IOCP netServer` and the two connectors, is about
3 750 lines; a good part of these are declarations, log lines, printing, and the fifteen
overloads each of `<<` and `>>` for one width after the other.
