----------------------------- MODULE Serializer -----------------------------
(***************************************************************************)
(* serializer: a packet under construction or being read, with its header, *)
(* checksum and cipher.                                                    *)
(*                                                                         *)
(* A serializer is its buffer and two cursors, the pointers less bufferPtr. *)
(* The header is three units: size, randKey and checkSum; `code' is never  *)
(* looked at.  A unit of the payload, the keys and the checksum are chars: *)
(* arithmetic on them is modulo CharSize, and Xor is the exclusive or.     *)
(***************************************************************************)
EXTENDS Integers, Sequences, Functions

CONSTANTS
    Capacity,      \* units of the buffer (1024)
    CharSize,      \* 2^8
    Xor(_, _)      \* ^ on chars

Chars == 0 .. CharSize - 1

\* What the operators below rely on; whoever instantiates the module assumes it.
ConstantsFit ==
    /\ Capacity \in Nat /\ CharSize \in Nat \ {0, 1}
    /\ \A a, b \in Chars : Xor(a, b) \in Chars /\ Xor(Xor(a, b), b) = a

Units == 0 .. Capacity - 1

HeaderSize == 3
SizeAt  == 0
KeyAt   == 1
CheckSumAt == 2

NewSerializer == [buffer |-> [i \in Units |-> 0], headPtr |-> 0, tailPtr |-> 0]

\* The cursors are in order and inside the buffer.
CursorsInBuffer(s) ==
    /\ s = [buffer |-> s.buffer, headPtr |-> s.headPtr, tailPtr |-> s.tailPtr]
    /\ s.tailPtr \in 0 .. Capacity /\ s.headPtr \in 0 .. s.tailPtr

\* The buffer keeps what it held.
clear(s) == [s EXCEPT !.headPtr = 0, !.tailPtr = 0]

Least(x, y)    == IF x <= y THEN x ELSE y
Greatest(x, y) == IF x >= y THEN x ELSE y

moveFront(s, n) ==
    [s EXCEPT !.headPtr = @ + IF n >= 0 THEN Least(n, s.tailPtr - @)
                                        ELSE Greatest(n, -@)]

moveRear(s, n) ==
    [s EXCEPT !.tailPtr = @ + IF n >= 0 THEN Least(n, Capacity - @)
                                        ELSE Greatest(n, s.headPtr - @)]

\* The cells from `at' on hold data instead.
Write(s, at, data) ==
    [s EXCEPT !.buffer = [i \in Units |->
        IF i \in at .. at + Len(data) - 1 THEN data[i - at + 1] ELSE @[i]]]

\* A serializer in use leaves room for the header in front of the payload.
ReserveHeader(s) == moveFront(moveRear(clear(s), HeaderSize), HeaderSize)

push(s, data) == moveRear(Write(s, s.tailPtr, data), Len(data))

\* The unread units move to the start of a larger buffer, but the new tailPtr is
\* computed from the new headPtr: it is where the old one was, in freed memory.
\* Nothing is modelled of what follows.
Dangling == Capacity + 1
resize(s) ==
    [s EXCEPT !.headPtr = 0, !.tailPtr = Dangling,
              !.buffer = [i \in Units |->
                  IF i < s.tailPtr - s.headPtr THEN @[s.headPtr + i] ELSE @[i]]]

\* operator << of one unit.
Put(s, v) == IF s.tailPtr < Capacity THEN push(s, <<v>>) ELSE resize(s)

\* Mutant: the head stays where it was.
GetAndStay(s) == [value |-> s.buffer[s.headPtr], rest |-> s]

\* operator >> of one unit: it reads at headPtr whether there is something unread
\* or not, and moveFront then stops at tailPtr.
Get(s) == [value |-> s.buffer[s.headPtr], rest |-> moveFront(s, 1)]

Size(s) == s.tailPtr - s.headPtr

\* What lies between the cursors: what send posts and OnRecv reads.
Pending(s) == [i \in 1 .. Size(s) |-> s.buffer[s.headPtr + i - 1]]

Payload(s) == s.tailPtr - HeaderSize

Contents(s) == [i \in 1 .. Payload(s) |-> s.buffer[HeaderSize + i - 1]]

\* The sum of units, in chars, unit after unit.
SumOf(units) ==
    LET sum[i \in 0 .. Len(units)] ==
            IF i = 0 THEN 0 ELSE (sum[i - 1] + units[i]) % CharSize
    IN  sum[Len(units)]

PayloadSum(s) == SumOf(Contents(s))

setHeader(s, key) ==
    moveFront(Write(s, 0, <<Payload(s), key, PayloadSum(s)>>), -HeaderSize)

\* The chars the cipher covers: the checksum and the payload the header names.
Input(s) == CheckSumAt .. CheckSumAt + s.buffer[SizeAt]

Target(s) == [i \in 0 .. s.buffer[SizeAt] |-> s.buffer[CheckSumAt + i]]

\* i-th step of the chain, previous being pP or pE.
Mix(previous, key, i) == (previous + key + 1 + i) % CharSize

\* What pP and pE are in every step: each mixes in what the step before left.
Chain(target, key) ==
    LET c[i \in DOMAIN target \cup {-1}] ==
            IF i < 0 THEN 0 ELSE Xor(target[i], Mix(c[i - 1], key, i))
    IN  c

encryption(s, staticKey) ==
    LET pP == Chain(Target(s), s.buffer[KeyAt])
        pE == Chain(pP, staticKey)
    IN  [s EXCEPT !.buffer = [u \in Units |->
            IF u \in Input(s) THEN pE[u - CheckSumAt] ELSE @[u]]]

\* Mutant: the chain continues with what the step has just written.
DecipheredByPlain(s, staticKey) ==
    LET p[i \in -1 .. Capacity] ==
            IF i < 0 THEN 0
            ELSE Xor(s.buffer[CheckSumAt + i], Mix(p[i - 1], staticKey, i))
    IN  [s EXCEPT !.buffer = [u \in Units |->
            IF u \in Input(s)
            THEN Xor(p[u - CheckSumAt], Mix(p[u - CheckSumAt - 1], s.buffer[KeyAt], u - CheckSumAt))
            ELSE @[u]]]

Deciphered(s, staticKey) ==
    LET pE(i) == IF i < 0 THEN 0 ELSE s.buffer[CheckSumAt + i]
        p(i)  == IF i < 0 THEN 0 ELSE Xor(pE(i), Mix(pE(i - 1), staticKey, i))
    IN  [s EXCEPT !.buffer = [u \in Units |->
            IF u \in Input(s)
            THEN Xor(p(u - CheckSumAt), Mix(p(u - CheckSumAt - 1), s.buffer[KeyAt], u - CheckSumAt))
            ELSE @[u]]]

\* The checksum is reduced by the payload; decryption returns whether 0 is left.
decryption(s, staticKey) ==
    LET plain == Deciphered(s, staticKey)
    IN  [plain EXCEPT !.buffer[CheckSumAt] = (@ - PayloadSum(plain)) % CharSize]

ChecksOut(s) == s.buffer[CheckSumAt] = 0
=============================================================================
