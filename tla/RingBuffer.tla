----------------------------- MODULE RingBuffer -----------------------------
(***************************************************************************)
(* ringBuffer: session::recvBuffer and session::sendedBuffer.              *)
(*                                                                         *)
(* A ring is its buffer and two indices, the pointers less `buffer'.  Both *)
(* point at the cell before the one they are named for: the first unit to  *)
(* read is at head(r), the first to write at tail(r), and one cell is never *)
(* used.  & _maxSize is the remainder by bufferSize, a power of two.       *)
(***************************************************************************)
EXTENDS Integers, Sequences

CONSTANT bufferSize

ASSUME BufferSizeAssumption == bufferSize \in Nat \ {0}

Cells == 0 .. bufferSize - 1
_maxSize == bufferSize - 1

AtMost(x, y) == IF x <= y THEN x ELSE y

NewRing == [buffer |-> [i \in Cells |-> 0], headPtr |-> 0, tailPtr |-> 0]

\* The rings over a set of units.
Rings(E) == [buffer : [Cells -> E], headPtr : Cells, tailPtr : Cells]

\* Empty, wherever the ring has got to.
clear(r) == [r EXCEPT !.headPtr = r.tailPtr]

size(r)     == (r.tailPtr - r.headPtr + bufferSize) % bufferSize
freeSize(r) == (_maxSize - (r.tailPtr - r.headPtr + bufferSize)) % bufferSize
head(r)     == (r.headPtr + 1) % bufferSize
tail(r)     == (r.tailPtr + 1) % bufferSize

\* Mutant: from tailPtr instead of tail().
DirectFromTailPtr(r) ==
    IF tail(r) <= r.headPtr THEN r.headPtr - tail(r) ELSE bufferSize - r.tailPtr

DirectEnqueueSize(r) ==
    IF tail(r) <= r.headPtr THEN r.headPtr - tail(r) ELSE bufferSize - tail(r)

DirectDequeueSize(r) ==
    IF head(r) <= tail(r) THEN tail(r) - head(r) ELSE bufferSize - head(r)

\* The cells from `at' on hold data instead.
Copy(buffer, at, data) ==
    [i \in DOMAIN buffer |->
        IF i \in at .. at + Len(data) - 1 THEN data[i - at + 1] ELSE buffer[i]]

Cut(buffer, at, n) == [i \in 1 .. n |-> buffer[at + i - 1]]

\* What front and pop copy out: one piece, or two when the data wraps.
front(r, n) ==
    LET m == AtMost(n, size(r))
        d == DirectDequeueSize(r)
    IN  IF d >= m THEN Cut(r.buffer, head(r), m)
        ELSE Cut(r.buffer, head(r), d) \o Cut(r.buffer, 0, m - d)

\* Mutant: the index runs on behind the buffer.
MoveRearUnwrapped(r, n) == [r EXCEPT !.tailPtr = @ + AtMost(n, freeSize(r))]

MoveRear(r, n) ==
    [r EXCEPT !.tailPtr = (@ + AtMost(n, freeSize(r))) % bufferSize]

MoveFront(r, n) ==
    [r EXCEPT !.headPtr = (@ + AtMost(n, size(r))) % bufferSize]

\* pop is front, and its own copy of what MoveFront does.
pop(r, n) == MoveFront(r, n)

\* What is in the ring, read one by one in the order of its arrival.
Unread(r) == [i \in 1 .. size(r) |-> r.buffer[(r.headPtr + i) % bufferSize]]

\* The n cells behind that, where what is written next will be.
Behind(r, n) == [i \in 1 .. n |-> r.buffer[(r.tailPtr + i) % bufferSize]]
=============================================================================
