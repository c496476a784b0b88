--------------------------- MODULE PacketPathProofs ---------------------------
(***************************************************************************)
(* Proofs about PacketPath: the cursors of the serializers stay in their   *)
(* buffers, and the stream reaches the parse loop unit for unit.           *)
(***************************************************************************)
EXTENDS PacketPath, RingBufferProofs, DataInduction

-----------------------------------------------------------------------------
(* Serializers.                                                            *)

\* What the operators below need to know of the sizes.
LEMMA CapacityFits ==
  /\ Capacity \in Nat /\ HeaderSize = 3 /\ S!HeaderSize = 3 /\ 6 =< Capacity
  /\ CharSize \in Nat /\ CharSize >= 2
<1>1. HeaderSize = 3 /\ S!HeaderSize = 3
  BY DEF HeaderSize, S!HeaderSize
<1>2. Capacity \in Nat /\ HeaderSize + 3 =< Capacity /\ CharSize \in Nat /\ CharSize >= 2
  BY PacketPathAssumption DEF S!ConstantsFit
<1>3. QED
  BY <1>1, <1>2

\* A serializer begins with its cursors in its buffer,
LEMMA NewCursors == S!CursorsInBuffer(S!NewSerializer)
BY CapacityFits DEF S!CursorsInBuffer, S!NewSerializer

\* and moving the head,
LEMMA MoveFrontCursors ==
  ASSUME NEW s, S!CursorsInBuffer(s), NEW n \in Int
  PROVE  /\ S!CursorsInBuffer(S!moveFront(s, n))
         /\ S!moveFront(s, n).tailPtr = s.tailPtr /\ S!moveFront(s, n).buffer = s.buffer
BY CapacityFits DEF S!CursorsInBuffer, S!moveFront, S!Least, S!Greatest

\* or the tail,
LEMMA MoveRearCursors ==
  ASSUME NEW s, S!CursorsInBuffer(s), NEW n \in Int
  PROVE  /\ S!CursorsInBuffer(S!moveRear(s, n))
         /\ S!moveRear(s, n).headPtr = s.headPtr /\ S!moveRear(s, n).buffer = s.buffer
         /\ n >= 0 => S!moveRear(s, n).tailPtr = S!Least(s.tailPtr + n, Capacity)
BY CapacityFits DEF S!CursorsInBuffer, S!moveRear, S!Least, S!Greatest

\* or changing the buffer keeps them there.
LEMMA BufferCursors ==
  ASSUME NEW s, S!CursorsInBuffer(s), NEW b
  PROVE  /\ S!CursorsInBuffer([s EXCEPT !.buffer = b])
         /\ [s EXCEPT !.buffer = b].headPtr = s.headPtr
         /\ [s EXCEPT !.buffer = b].tailPtr = s.tailPtr
         /\ [s EXCEPT !.buffer = b].buffer = b
BY DEF S!CursorsInBuffer

\* So does writing into it.
LEMMA WriteCursors ==
  ASSUME NEW s, S!CursorsInBuffer(s), NEW at, NEW data
  PROVE  /\ S!CursorsInBuffer(S!Write(s, at, data))
         /\ S!Write(s, at, data).headPtr = s.headPtr
         /\ S!Write(s, at, data).tailPtr = s.tailPtr
BY BufferCursors DEF S!Write

\* Write puts the data where it was asked to.
LEMMA Written ==
  ASSUME NEW s, S!CursorsInBuffer(s), NEW at, NEW data, NEW i \in S!Units
  PROVE  S!Write(s, at, data).buffer[i] =
            IF i \in at .. at + Len(data) - 1 THEN data[i - at + 1] ELSE s.buffer[i]
<1> DEFINE b == [u \in S!Units |->
                   IF u \in at .. at + Len(data) - 1 THEN data[u - at + 1] ELSE s.buffer[u]]
<1>1. S!Write(s, at, data) = [s EXCEPT !.buffer = b]
  BY DEF S!Write
<1>2. b[i] = IF i \in at .. at + Len(data) - 1 THEN data[i - at + 1] ELSE s.buffer[i]
  OBVIOUS
<1> HIDE DEF b
<1>3. QED
  BY <1>1, <1>2, BufferCursors

\* A serializer in use has its header reserved,
LEMMA ReserveCursors ==
  ASSUME NEW s, S!CursorsInBuffer(s)
  PROVE  /\ S!CursorsInBuffer(S!ReserveHeader(s))
         /\ S!ReserveHeader(s).headPtr = 3 /\ S!ReserveHeader(s).tailPtr = 3
         /\ S!ReserveHeader(s).buffer = s.buffer
<1> DEFINE c == S!clear(s)  t == S!moveRear(c, 3)
<1>1. S!CursorsInBuffer(c) /\ c.headPtr = 0 /\ c.tailPtr = 0 /\ c.buffer = s.buffer
  <2>1. c = [buffer |-> s.buffer, headPtr |-> 0, tailPtr |-> 0]
    <3>1. PICK b, h, e : s = [buffer |-> b, headPtr |-> h, tailPtr |-> e]
      BY DEF S!CursorsInBuffer
    <3>2. [s EXCEPT !.headPtr = 0, !.tailPtr = 0]
             \in [buffer : {b}, headPtr : {0}, tailPtr : {0}]
      BY <3>1
    <3>3. s.buffer = b
      BY <3>1
    <3>4. c = [s EXCEPT !.headPtr = 0, !.tailPtr = 0]
      BY DEF S!clear
    <3> HIDE DEF c
    <3>5. c \in [buffer : {b}, headPtr : {0}, tailPtr : {0}]
      BY <3>2, <3>4
    <3>6. QED
      BY <3>3, <3>5
  <2> HIDE DEF c
  <2>2. QED
    BY <2>1, CapacityFits DEF S!CursorsInBuffer
<1> HIDE DEF c
<1>2. S!CursorsInBuffer(t) /\ t.headPtr = 0 /\ t.tailPtr = 3 /\ t.buffer = s.buffer
  <2>1. /\ S!CursorsInBuffer(t) /\ t.headPtr = c.headPtr /\ t.buffer = c.buffer
        /\ t.tailPtr = S!Least(c.tailPtr + 3, Capacity)
    BY <1>1, MoveRearCursors
  <2>2. S!Least(0 + 3, Capacity) = 3
    BY CapacityFits DEF S!Least
  <2>3. QED
    BY <1>1, <2>1, <2>2
<1>3. S!moveFront(t, 3).headPtr = 3
  BY <1>2 DEF S!moveFront, S!Least, S!CursorsInBuffer
<1>4. S!ReserveHeader(s) = S!moveFront(t, 3)
  BY CapacityFits DEF S!ReserveHeader, c
<1> HIDE DEF t
<1>5. QED
  BY <1>2, <1>3, <1>4, MoveFrontCursors

\* and while there is room, push writes behind its tail.
LEMMA PushCursors ==
  ASSUME NEW s, S!CursorsInBuffer(s), NEW data, Len(data) \in Nat,
         s.tailPtr + Len(data) =< Capacity
  PROVE  /\ S!CursorsInBuffer(S!push(s, data))
         /\ S!push(s, data).headPtr = s.headPtr
         /\ S!push(s, data).tailPtr = s.tailPtr + Len(data)
         /\ S!push(s, data).buffer = S!Write(s, s.tailPtr, data).buffer
<1> DEFINE w == S!Write(s, s.tailPtr, data)
<1>1. S!CursorsInBuffer(w) /\ w.headPtr = s.headPtr /\ w.tailPtr = s.tailPtr
  BY WriteCursors
<1>2. S!push(s, data) = S!moveRear(w, Len(data))
  BY DEF S!push
<1>3. s.tailPtr \in Nat
  BY DEF S!CursorsInBuffer
<1> HIDE DEF w
<1>4. S!Least(s.tailPtr + Len(data), Capacity) = s.tailPtr + Len(data)
  BY DEF S!Least
<1>5. /\ S!CursorsInBuffer(S!moveRear(w, Len(data)))
      /\ S!moveRear(w, Len(data)).headPtr = w.headPtr
      /\ S!moveRear(w, Len(data)).buffer = w.buffer
      /\ S!moveRear(w, Len(data)).tailPtr = S!Least(w.tailPtr + Len(data), Capacity)
  <2> DEFINE n == Len(data)
  <2>1. n \in Int /\ n >= 0
    OBVIOUS
  <2> HIDE DEF n
  <2>2. QED
    BY <1>1, <2>1, MoveRearCursors DEF n
<1>6. QED
  BY <1>1, <1>2, <1>4, <1>5 DEF w

\* There the data follow what was in the buffer.
LEMMA Pushed ==
  ASSUME NEW s, S!CursorsInBuffer(s), NEW data, Len(data) \in Nat,
         s.tailPtr + Len(data) =< Capacity
  PROVE  /\ \A i \in 1 .. Len(data) : S!push(s, data).buffer[s.tailPtr + i - 1] = data[i]
         /\ \A i \in 0 .. s.tailPtr - 1 : S!push(s, data).buffer[i] = s.buffer[i]
<1> DEFINE n == Len(data)  t == s.tailPtr  b == S!push(s, data).buffer
<1>1. n \in Nat /\ t \in Nat /\ t + n =< Capacity /\ Capacity \in Nat
  BY CapacityFits DEF S!CursorsInBuffer
<1>2. \A j \in S!Units : b[j] = IF j \in t .. t + n - 1 THEN data[j - t + 1] ELSE s.buffer[j]
  <2>1. b = S!Write(s, s.tailPtr, data).buffer
    BY PushCursors
  <2>2. QED
    BY <2>1, Written
<1> HIDE DEF n, t, b
<1>3. ASSUME NEW i \in 1 .. n PROVE b[t + i - 1] = data[i]
  <2>1. t + i - 1 \in S!Units /\ t + i - 1 \in t .. t + n - 1 /\ (t + i - 1) - t + 1 = i
    BY <1>1 DEF S!Units
  <2>2. QED
    BY <1>2, <2>1
<1>4. ASSUME NEW i \in 0 .. t - 1 PROVE b[i] = s.buffer[i]
  <2>1. i \in S!Units /\ i \notin t .. t + n - 1
    BY <1>1 DEF S!Units
  <2>2. QED
    BY <1>2, <2>1
<1>5. QED
  BY <1>3, <1>4 DEF n, t, b

\* operator << of one unit puts it behind the others.
LEMMA PutCursors ==
  ASSUME NEW s, S!CursorsInBuffer(s), NEW v, s.tailPtr < Capacity
  PROVE  /\ S!CursorsInBuffer(S!Put(s, v))
         /\ S!Put(s, v).headPtr = s.headPtr
         /\ S!Put(s, v).tailPtr = s.tailPtr + 1
         /\ S!Put(s, v).buffer[s.tailPtr] = v
         /\ \A i \in 0 .. s.tailPtr - 1 : S!Put(s, v).buffer[i] = s.buffer[i]
<1>1. Len(<<v>>) = 1
  OBVIOUS
<1>2. s.tailPtr + 1 =< Capacity
  BY CapacityFits DEF S!CursorsInBuffer
<1>3. S!Put(s, v) = S!push(s, <<v>>)
  BY DEF S!Put
<1> DEFINE d == <<v>>
<1>4. Len(d) \in Nat /\ s.tailPtr + Len(d) =< Capacity
  BY <1>1, <1>2
<1> HIDE DEF d
<1>5. /\ S!CursorsInBuffer(S!push(s, d))
      /\ S!push(s, d).headPtr = s.headPtr
      /\ S!push(s, d).tailPtr = s.tailPtr + Len(d)
  BY <1>4, PushCursors
<1>6. /\ \A i \in 1 .. Len(d) : S!push(s, d).buffer[s.tailPtr + i - 1] = d[i]
      /\ \A i \in 0 .. s.tailPtr - 1 : S!push(s, d).buffer[i] = s.buffer[i]
  BY <1>4, Pushed
<1>7. S!push(s, d).buffer[s.tailPtr] = v
  <2>1. Len(d) = 1 /\ d[1] = v /\ 1 \in 1 .. 1 /\ s.tailPtr + 1 - 1 = s.tailPtr
    BY <1>1 DEF d, S!CursorsInBuffer
  <2>2. QED
    BY <1>6, <2>1
<1>8. QED
  BY <1>1, <1>3, <1>5, <1>6, <1>7 DEF d

\* Reading a unit leaves the cursors in the buffer.
LEMMA GetCursors ==
  ASSUME NEW s, S!CursorsInBuffer(s)
  PROVE  S!CursorsInBuffer(S!Get(s).rest)
BY MoveFrontCursors DEF S!Get

\* The header is written, and the packet begins with it.
LEMMA SetHeaderCursors ==
  ASSUME NEW s, S!CursorsInBuffer(s), s.headPtr = 3, NEW k
  PROVE  /\ S!CursorsInBuffer(S!setHeader(s, k))
         /\ S!setHeader(s, k).headPtr = 0 /\ S!setHeader(s, k).tailPtr = s.tailPtr
         /\ S!setHeader(s, k).buffer =
               S!Write(s, 0, <<S!Payload(s), k, S!PayloadSum(s)>>).buffer
<1> DEFINE w == S!Write(s, 0, <<S!Payload(s), k, S!PayloadSum(s)>>)
<1>1. S!CursorsInBuffer(w) /\ w.headPtr = 3 /\ w.tailPtr = s.tailPtr
  BY WriteCursors
<1>2. S!setHeader(s, k) = S!moveFront(w, -3)
  BY CapacityFits DEF S!setHeader
<1> HIDE DEF w
<1>3. S!moveFront(w, -3).headPtr = 0
  BY <1>1 DEF S!moveFront, S!Greatest, S!CursorsInBuffer
<1>4. /\ S!CursorsInBuffer(S!moveFront(w, -3))
      /\ S!moveFront(w, -3).tailPtr = w.tailPtr /\ S!moveFront(w, -3).buffer = w.buffer
  BY <1>1, MoveFrontCursors
<1>5. QED
  BY <1>1, <1>2, <1>3, <1>4 DEF w

\* The cipher changes units in the buffer only, and neither size nor key.
LEMMA EncryptionCursors ==
  ASSUME NEW s, S!CursorsInBuffer(s), NEW k
  PROVE  /\ S!CursorsInBuffer(S!encryption(s, k))
         /\ S!encryption(s, k).headPtr = s.headPtr
         /\ S!encryption(s, k).tailPtr = s.tailPtr
         /\ S!encryption(s, k).buffer[0] = s.buffer[0]
<1>1. PICK pE : S!encryption(s, k) = [s EXCEPT !.buffer = [u \in S!Units |->
            IF u \in S!Input(s) THEN pE[u - S!CheckSumAt] ELSE s.buffer[u]]]
  BY DEF S!encryption
<1> DEFINE b == [u \in S!Units |->
            IF u \in S!Input(s) THEN pE[u - S!CheckSumAt] ELSE s.buffer[u]]
<1>2. 0 \in S!Units /\ 0 \notin S!Input(s)
  BY CapacityFits DEF S!Units, S!Input, S!CheckSumAt
<1>3. b[0] = s.buffer[0]
  BY <1>2
<1> HIDE DEF b
<1>4. QED
  BY <1>1, <1>3, BufferCursors DEF b

\* Nor does decryption move a cursor.
LEMMA DecryptionCursors ==
  ASSUME NEW s, S!CursorsInBuffer(s), NEW k
  PROVE  /\ S!CursorsInBuffer(S!decryption(s, k))
         /\ S!decryption(s, k).headPtr = s.headPtr
         /\ S!decryption(s, k).tailPtr = s.tailPtr
<1> DEFINE plain == S!Deciphered(s, k)
<1>1. \E b : plain = [s EXCEPT !.buffer = b]
  BY DEF S!Deciphered
<1>2. S!CursorsInBuffer(plain) /\ plain.headPtr = s.headPtr /\ plain.tailPtr = s.tailPtr
  BY <1>1, BufferCursors
<1>3. \E b : S!decryption(s, k) = [plain EXCEPT !.buffer = b]
  BY DEF S!decryption
<1> HIDE DEF plain
<1>4. QED
  BY SMTT(30), <1>2, <1>3, BufferCursors

-----------------------------------------------------------------------------
(* Chars, the chain and the sum.                                           *)

\* What is reduced to a char is one,
LEMMA Remainder == \A x \in Int : x % CharSize \in S!Chars
BY CapacityFits DEF S!Chars

\* and of two chars the difference, one more and the sums with a third tell them apart.
LEMMA CharArithmetic ==
  ASSUME NEW a \in S!Chars, NEW b \in S!Chars
  PROVE  /\ (a - b) % CharSize = 0 <=> a = b
         /\ (a + 1) % CharSize # a
         /\ \A c \in S!Chars : (c + a) % CharSize = (c + b) % CharSize => a = b
<1>1. /\ CharSize \in Nat /\ CharSize >= 2 /\ a \in 0 .. CharSize - 1 /\ b \in 0 .. CharSize - 1
  BY CapacityFits DEF S!Chars
<1>2. ASSUME NEW x \in 0 .. CharSize - 1 PROVE x % CharSize = x
  BY <1>1
<1>3. ASSUME NEW x \in CharSize .. 2 * CharSize - 1 PROVE x % CharSize = x - CharSize
  BY <1>1
<1>4. ASSUME NEW x \in -CharSize .. -1 PROVE x % CharSize = x + CharSize
  BY <1>1
<1>5. (a - b) % CharSize = 0 <=> a = b
  <2>1. a - b \in 0 .. CharSize - 1 \/ a - b \in -CharSize .. -1
    BY <1>1
  <2>2. QED
    BY <1>1, <1>2, <1>4, <2>1
<1>6. (a + 1) % CharSize # a
  <2>1. a + 1 \in 0 .. CharSize - 1 \/ a + 1 = CharSize
    BY <1>1
  <2>2. QED
    BY <1>1, <1>2, <1>3, <2>1
<1>7. ASSUME NEW c \in S!Chars, (c + a) % CharSize = (c + b) % CharSize PROVE a = b
  <2>1. c \in 0 .. CharSize - 1
    BY DEF S!Chars
  <2>2. ASSUME NEW x \in 0 .. 2 * CharSize - 1
        PROVE  x % CharSize = IF x < CharSize THEN x ELSE x - CharSize
    <3>1. x < CharSize => x \in 0 .. CharSize - 1
      BY <1>1
    <3>2. ~(x < CharSize) => x \in CharSize .. 2 * CharSize - 1
      BY <1>1
    <3>3. QED
      BY <1>2, <1>3, <3>1, <3>2
  <2> DEFINE x == c + a  y == c + b
  <2>3. x \in 0 .. 2 * CharSize - 1 /\ y \in 0 .. 2 * CharSize - 1
    BY <1>1, <2>1
  <2>4. x % CharSize = y % CharSize
    BY <1>7
  <2>5. x = y => a = b
    BY <1>1, <2>1
  <2>6. x - y < CharSize /\ y - x < CharSize /\ x \in Int /\ y \in Int
    BY <1>1, <2>1
  <2> HIDE DEF x, y
  <2>7. /\ x % CharSize = IF x < CharSize THEN x ELSE x - CharSize
        /\ y % CharSize = IF y < CharSize THEN y ELSE y - CharSize
    BY <2>2, <2>3
  <2>8. QED
    BY <1>1, <2>4, <2>5, <2>6, <2>7
<1>8. QED
  BY <1>5, <1>6, <1>7

\* The exclusive or with the same char undoes itself, and mixes nothing up.
LEMMA XorUndoes ==
  ASSUME NEW a \in S!Chars, NEW m \in S!Chars
  PROVE  /\ Xor(a, m) \in S!Chars /\ Xor(Xor(a, m), m) = a
         /\ \A b \in S!Chars : Xor(a, m) = Xor(b, m) => a = b
BY PacketPathAssumption DEF S!ConstantsFit

\* What a step mixes in is a char.
LEMMA MixIsChar ==
  ASSUME NEW c \in S!Chars, NEW k \in S!Chars, NEW i \in Int
  PROVE  S!Mix(c, k, i) \in S!Chars
<1>1. c + k + 1 + i \in Int
  BY CapacityFits DEF S!Chars
<1>2. QED
  BY <1>1, Remainder DEF S!Mix

\* c is the chain over t with key k, up to n.
Chained(c, t, k, n) ==
    c[-1] = 0 /\ \A i \in 0 .. n : c[i] = Xor(t[i], S!Mix(c[i - 1], k, i))

\* What Chain chooses is that chain, of chars.
LEMMA ChainIs ==
  ASSUME NEW n \in Nat, NEW t, DOMAIN t \cup {-1} = -1 .. n,
         \A i \in 0 .. n : t[i] \in S!Chars, NEW k \in S!Chars
  PROVE  /\ DOMAIN S!Chain(t, k) = -1 .. n
         /\ Chained(S!Chain(t, k), t, k, n)
         /\ \A i \in -1 .. n : S!Chain(t, k)[i] \in S!Chars
<1> DEFINE Step(i, x) == Xor(t[i], S!Mix(x, k, i))
           h == [i \in 1 .. n + 1 |-> [x \in S!Chars |-> Step(i - 1, x)]]
           D == DOMAIN t \cup {-1}
           chain == CHOOSE c : c = [i \in D |-> IF i < 0 THEN 0 ELSE Step(i, c[i - 1])]
<1>1. S!Chain(t, k) = chain
  BY DEF S!Chain
<1>2. D = -1 .. n /\ 0 \in S!Chars
  BY CapacityFits DEF S!Chars
<1>3. ASSUME NEW i \in 0 .. n, NEW x \in S!Chars PROVE Step(i, x) \in S!Chars
  <2>1. t[i] \in S!Chars /\ S!Mix(x, k, i) \in S!Chars
    BY MixIsChar
  <2>2. QED
    BY <2>1, XorUndoes
<1> HIDE DEF Step, D
<1>4. h \in [1 .. n + 1 -> [S!Chars -> S!Chars]]
  <2>1. \A i \in 1 .. n + 1 : i - 1 \in 0 .. n
    OBVIOUS
  <2>2. QED
    BY <1>3, <2>1
<1>5. \A i \in 1 .. n + 1 : \A x \in S!Chars : h[i][x] = Step(i - 1, x)
  OBVIOUS
<1> HIDE DEF h
<1>6. PICK f \in [0 .. n + 1 -> S!Chars] : Iterates(f, h, 0, n + 1)
  <2>1. n + 1 \in Nat
    OBVIOUS
  <2>2. QED
    BY <1>2, <1>4, <2>1, Recursion
<1> DEFINE g == [i \in -1 .. n |-> f[i + 1]]
<1>7. g = [i \in -1 .. n |-> IF i < 0 THEN 0 ELSE Step(i, g[i - 1])]
  <2>1. ASSUME NEW i \in -1 .. n PROVE f[i + 1] = IF i < 0 THEN 0 ELSE Step(i, g[i - 1])
    <3>1. CASE i < 0
      <4>1. i + 1 = 0
        BY <3>1
      <4>2. QED
        BY <1>6, <3>1, <4>1 DEF Iterates
    <3>2. CASE ~(i < 0)
      <4>1. i + 1 \in 1 .. n + 1 /\ (i + 1) - 1 = i /\ i \in 0 .. n + 1 /\ i - 1 \in -1 .. n
            /\ (i - 1) + 1 = i
        BY <3>2
      <4>2. g[i - 1] = f[i] /\ f[i] \in S!Chars
        BY <4>1
      <4>3. f[i + 1] = h[i + 1][f[i]]
        BY <1>6, <4>1 DEF Iterates
      <4>4. h[i + 1][f[i]] = Step(i, f[i])
        BY <1>5, <4>1, <4>2
      <4> HIDE DEF g
      <4>5. QED
        BY <3>2, <4>2, <4>3, <4>4
    <3>3. QED
      BY <3>1, <3>2
  <2>2. QED
    BY <2>1
<1> HIDE DEF g
<1>8. chain = [i \in -1 .. n |-> IF i < 0 THEN 0 ELSE Step(i, chain[i - 1])]
  BY <1>2, <1>7
<1> HIDE DEF chain
<1>9. DOMAIN chain = -1 .. n /\ chain[-1] = 0 /\ \A i \in 0 .. n : chain[i] = Step(i, chain[i - 1])
  BY <1>8
<1> DEFINE N == {i \in Nat : i =< n + 1 => chain[i - 1] \in S!Chars}
<1>10. 0 \in N
  <2>1. 0 - 1 = -1
    OBVIOUS
  <2>2. QED
    BY <1>2, <1>9, <2>1
<1>11. ASSUME NEW i \in N PROVE i + 1 \in N
  <2>1. i \in Nat /\ (i =< n + 1 => chain[i - 1] \in S!Chars) /\ (i + 1) - 1 = i
    BY <1>11
  <2>2. SUFFICES ASSUME i + 1 =< n + 1 PROVE chain[i] \in S!Chars
    BY <2>1
  <2> HIDE DEF N
  <2>3. i \in 0 .. n /\ chain[i - 1] \in S!Chars
    BY <2>1, <2>2
  <2>4. QED
    BY <1>3, <1>9, <2>3
<1>12. N = Nat
  <2> HIDE DEF N
  <2>1. QED
    BY <1>10, <1>11, SetInduction DEF N
<1>13. ASSUME NEW i \in -1 .. n PROVE chain[i] \in S!Chars
  <2>1. i + 1 \in Nat /\ (i + 1) - 1 = i /\ i + 1 =< n + 1
    OBVIOUS
  <2>2. i + 1 \in N
    BY <1>12, <2>1
  <2>3. QED
    BY <2>1, <2>2
<1>14. QED
  BY <1>1, <1>9, <1>13 DEF Chained, Step

\* f sums u up, char after char.
Sums(f, u, n) == f[0] = 0 /\ \A i \in 1 .. n : f[i] = (f[i - 1] + u[i]) % CharSize

\* The sum that SumOf chooses, of chars.
LEMMA SumIs ==
  ASSUME NEW u \in Seq(S!Chars)
  PROVE  \E f : Sums(f, u, Len(u)) /\ S!SumOf(u) = f[Len(u)]
                /\ \A i \in 0 .. Len(u) : f[i] \in S!Chars
<1> DEFINE n == Len(u)
           h == [i \in 1 .. n |-> [x \in S!Chars |-> (x + u[i]) % CharSize]]
           sum == CHOOSE f : f = [i \in 0 .. n |->
                     IF i = 0 THEN 0 ELSE (f[i - 1] + u[i]) % CharSize]
<1>1. n \in Nat /\ (\A i \in 1 .. n : u[i] \in S!Chars) /\ 0 \in S!Chars
      /\ \A x \in S!Chars : x \in Int
  BY CapacityFits DEF S!Chars
<1>2. S!SumOf(u) = sum[n]
  BY DEF S!SumOf
<1> HIDE DEF n
<1>3. \A i \in 1 .. n : \A x \in S!Chars : (x + u[i]) % CharSize \in S!Chars
  <2>1. \A i \in 1 .. n : \A x \in S!Chars : x + u[i] \in Int
    BY <1>1
  <2>2. QED
    BY <2>1, Remainder
<1>4. h \in [1 .. n -> [S!Chars -> S!Chars]]
  BY <1>3
<1>5. \A i \in 1 .. n : \A x \in S!Chars : h[i][x] = (x + u[i]) % CharSize
  OBVIOUS
<1> HIDE DEF h
<1>6. PICK f \in [0 .. n -> S!Chars] : Iterates(f, h, 0, n)
  BY <1>1, <1>4, Recursion
<1>7. f = [i \in 0 .. n |-> IF i = 0 THEN 0 ELSE (f[i - 1] + u[i]) % CharSize]
  <2>1. ASSUME NEW i \in 0 .. n, i # 0 PROVE f[i] = (f[i - 1] + u[i]) % CharSize
    <3>1. i \in 1 .. n /\ i - 1 \in 0 .. n
      BY <1>1, <2>1
    <3>2. f[i] = h[i][f[i - 1]] /\ f[i - 1] \in S!Chars
      BY <1>6, <3>1 DEF Iterates
    <3>3. QED
      BY <1>5, <3>1, <3>2
  <2>2. f[0] = 0
    BY <1>6 DEF Iterates
  <2>3. f = [i \in 0 .. n |-> f[i]]
    BY <1>6
  <2>4. QED
    BY <2>1, <2>2, <2>3
<1>8. sum = [i \in 0 .. n |-> IF i = 0 THEN 0 ELSE (sum[i - 1] + u[i]) % CharSize]
  BY <1>7
<1> HIDE DEF sum
<1>9. Sums(sum, u, n)
  BY <1>1, <1>8 DEF Sums
<1> DEFINE N == {i \in Nat : i =< n => sum[i] \in S!Chars}
<1>10. 0 \in N
  BY <1>1, <1>9 DEF Sums
<1>11. ASSUME NEW i \in N PROVE i + 1 \in N
  <2>1. i \in Nat /\ (i =< n => sum[i] \in S!Chars)
    BY <1>11
  <2>2. SUFFICES ASSUME i + 1 =< n PROVE sum[i + 1] \in S!Chars
    BY <2>1
  <2> HIDE DEF N
  <2>3. i + 1 \in 1 .. n /\ sum[i] \in S!Chars /\ (i + 1) - 1 = i
    BY <1>1, <2>1, <2>2
  <2>4. sum[i + 1] = (sum[i] + u[i + 1]) % CharSize
    BY <1>9, <2>3 DEF Sums
  <2>5. QED
    BY <1>3, <2>3, <2>4
<1>12. N = Nat
  <2> HIDE DEF N
  <2>1. QED
    BY <1>10, <1>11, SetInduction DEF N
<1>13. QED
  BY <1>1, <1>2, <1>9, <1>12 DEF n

\* Sequences that differ in the last char only have different sums.
LEMMA LastCharShows ==
  ASSUME NEW u \in Seq(S!Chars), NEW v \in Seq(S!Chars), Len(u) = Len(v), Len(u) # 0,
         \A i \in 1 .. Len(u) - 1 : u[i] = v[i], u[Len(u)] # v[Len(v)]
  PROVE  S!SumOf(u) # S!SumOf(v)
<1>1. PICK f : Sums(f, u, Len(u)) /\ S!SumOf(u) = f[Len(u)]
               /\ \A i \in 0 .. Len(u) : f[i] \in S!Chars
  BY SumIs
<1>2. PICK g : Sums(g, v, Len(v)) /\ S!SumOf(v) = g[Len(v)]
  BY SumIs
<1> DEFINE n == Len(u)
           N == {i \in Nat : i =< n - 1 => f[i] = g[i]}
<1>3. n \in Nat /\ n # 0 /\ n = Len(v) /\ u[n] \in S!Chars /\ v[n] \in S!Chars
  OBVIOUS
<1> HIDE DEF n
<1>4. 0 \in N
  BY <1>1, <1>2 DEF Sums
<1>5. ASSUME NEW i \in N PROVE i + 1 \in N
  <2>1. i \in Nat /\ (i =< n - 1 => f[i] = g[i])
    BY <1>5
  <2>2. SUFFICES ASSUME i + 1 =< n - 1 PROVE f[i + 1] = g[i + 1]
    BY <2>1
  <2> HIDE DEF N
  <2>3. i + 1 \in 1 .. n /\ i + 1 \in 1 .. n - 1 /\ f[i] = g[i] /\ (i + 1) - 1 = i
    BY <1>3, <2>1, <2>2
  <2>4. u[i + 1] = v[i + 1]
    BY <2>3 DEF n
  <2>5. f[i + 1] = (f[i] + u[i + 1]) % CharSize /\ g[i + 1] = (g[i] + v[i + 1]) % CharSize
    BY <1>1, <1>2, <1>3, <2>3 DEF Sums, n
  <2>6. QED
    BY <2>3, <2>4, <2>5
<1>6. N = Nat
  <2> HIDE DEF N
  <2>1. QED
    BY <1>4, <1>5, SetInduction DEF N
<1>7. f[n - 1] = g[n - 1] /\ f[n - 1] \in S!Chars
  <2>1. n - 1 \in Nat /\ n - 1 =< n - 1 /\ n - 1 \in 0 .. n
    BY <1>3
  <2>2. QED
    BY <1>1, <1>6, <2>1 DEF n
<1>8. f[n] = (f[n - 1] + u[n]) % CharSize /\ g[n] = (g[n - 1] + v[n]) % CharSize
  <2>1. n \in 1 .. n
    BY <1>3
  <2>2. QED
    BY <1>1, <1>2, <1>3, <2>1 DEF Sums, n
<1>9. u[n] # v[n]
  BY <1>3 DEF n
<1>10. f[n] # g[n]
  BY <1>3, <1>7, <1>8, <1>9, CharArithmetic
<1>11. QED
  BY <1>1, <1>2, <1>3, <1>10 DEF n

-----------------------------------------------------------------------------
(* A packet and its cipher.                                                *)

\* s holds a packet as setHeader leaves it.
IsPacket(s, payload, key) ==
    /\ S!CursorsInBuffer(s) /\ s.headPtr = 0 /\ s.tailPtr = 3 + Len(payload)
    /\ s.buffer[0] = Len(payload) /\ s.buffer[1] = key /\ s.buffer[2] = S!SumOf(payload)
    /\ \A i \in 1 .. Len(payload) : s.buffer[2 + i] = payload[i]

\* What the serializer holds between header and tail becomes a packet.
LEMMA Built ==
  ASSUME NEW b, S!CursorsInBuffer(b), b.headPtr = 3, NEW payload \in Seq(S!Chars),
         b.tailPtr = 3 + Len(payload),
         \A i \in 1 .. Len(payload) : b.buffer[2 + i] = payload[i], NEW key
  PROVE  IsPacket(S!setHeader(b, key), payload, key)
<1> DEFINE n == Len(payload)  data == <<S!Payload(b), key, S!PayloadSum(b)>>
           s == S!setHeader(b, key)
<1>1. n \in Nat /\ 3 + n =< Capacity /\ b.tailPtr = 3 + n /\ payload = [i \in 1 .. n |-> payload[i]]
  BY CapacityFits DEF S!CursorsInBuffer
<1>2. S!Payload(b) = n
  BY <1>1, CapacityFits DEF S!Payload
<1>3. S!Contents(b) = payload
  <2>1. S!Contents(b) = [i \in 1 .. n |-> b.buffer[3 + i - 1]]
    BY <1>2, CapacityFits DEF S!Contents
  <2>2. \A i \in 1 .. n : b.buffer[3 + i - 1] = payload[i]
    <3>1. \A i \in 1 .. n : 3 + i - 1 = 2 + i
      BY <1>1
    <3>2. QED
      BY <3>1
  <2> HIDE DEF n
  <2>3. QED
    BY <1>1, <2>1, <2>2
<1>4. Len(data) = 3 /\ data[1] = n /\ data[2] = key /\ data[3] = S!SumOf(payload)
  BY <1>2, <1>3 DEF S!PayloadSum
<1>5. /\ S!CursorsInBuffer(s) /\ s.headPtr = 0 /\ s.tailPtr = 3 + n
      /\ s.buffer = S!Write(b, 0, data).buffer
  BY SetHeaderCursors
<1> HIDE DEF data, s
<1>6. \A i \in S!Units : s.buffer[i] = IF i \in 0 .. 0 + Len(data) - 1 THEN data[i - 0 + 1]
                                       ELSE b.buffer[i]
  BY <1>5, Written
<1>7. s.buffer[0] = n /\ s.buffer[1] = key /\ s.buffer[2] = S!SumOf(payload)
  <2>1. 0 \in S!Units /\ 1 \in S!Units /\ 2 \in S!Units
    BY CapacityFits DEF S!Units
  <2>2. s.buffer[0] = data[1] /\ s.buffer[1] = data[2] /\ s.buffer[2] = data[3]
    <3>1. /\ 0 \in 0 .. 0 + 3 - 1 /\ 0 - 0 + 1 = 1 /\ 1 \in 0 .. 0 + 3 - 1 /\ 1 - 0 + 1 = 2
          /\ 2 \in 0 .. 0 + 3 - 1 /\ 2 - 0 + 1 = 3
      OBVIOUS
    <3>2. QED
      BY <1>4, <1>6, <2>1, <3>1
  <2>3. QED
    BY <1>4, <2>2
<1>8. ASSUME NEW i \in 1 .. n PROVE s.buffer[2 + i] = payload[i]
  <2>1. 2 + i \in S!Units /\ 2 + i \notin 0 .. 0 + Len(data) - 1
    BY <1>1, <1>4, CapacityFits DEF S!Units
  <2>2. s.buffer[2 + i] = b.buffer[2 + i]
    BY <1>6, <2>1
  <2>3. QED
    BY <2>2
<1>9. QED
  BY <1>5, <1>7, <1>8 DEF IsPacket, s

\* t is the checksum and the payload,
Targets(t, payload) ==
    t[0] = S!SumOf(payload) /\ \A i \in 1 .. Len(payload) : t[i] = payload[i]

\* and b holds its chain over a chain behind the size and the key.
Chains(t, pP, pE, payload, key, b) ==
    /\ Targets(t, payload)
    /\ Chained(pP, t, key, Len(payload)) /\ Chained(pE, pP, StaticKey, Len(payload))
    /\ \A i \in 0 .. Len(payload) : t[i] \in S!Chars /\ b[2 + i] = pE[i]
    /\ \A i \in -1 .. Len(payload) : pP[i] \in S!Chars /\ pE[i] \in S!Chars
    /\ b[0] = Len(payload) /\ b[1] = key

\* What encryption leaves in a packet's buffer is such chains.
LEMMA Ciphered ==
  ASSUME NEW s, NEW payload \in Seq(S!Chars), NEW key \in S!Chars, IsPacket(s, payload, key)
  PROVE  \E t, pP, pE : Chains(t, pP, pE, payload, key, S!encryption(s, StaticKey).buffer)
<1> DEFINE n == Len(payload)  t == S!Target(s)
           pP == S!Chain(t, key)  pE == S!Chain(pP, StaticKey)
           b == [u \in S!Units |-> IF u \in S!Input(s) THEN pE[u - S!CheckSumAt] ELSE s.buffer[u]]
           e == S!encryption(s, StaticKey)
<1>1. /\ n \in Nat /\ 3 + n =< Capacity /\ S!CursorsInBuffer(s)
      /\ s.buffer[0] = n /\ s.buffer[1] = key /\ s.buffer[2] = S!SumOf(payload)
      /\ \A i \in 1 .. n : s.buffer[2 + i] = payload[i] /\ payload[i] \in S!Chars
  BY CapacityFits DEF IsPacket, S!CursorsInBuffer
<1>2. t = [i \in 0 .. n |-> s.buffer[2 + i]]
  BY <1>1 DEF S!Target, S!SizeAt, S!CheckSumAt
<1>3. e = [s EXCEPT !.buffer = b]
  BY <1>1 DEF S!encryption, S!KeyAt
<1>4. S!Input(s) = 2 .. 2 + n
  BY <1>1 DEF S!Input, S!SizeAt, S!CheckSumAt
<1> HIDE DEF n, t
<1>5. t[0] = S!SumOf(payload) /\ \A i \in 1 .. n : t[i] = payload[i]
  BY <1>1, <1>2
<1>6. \A i \in 0 .. n : t[i] \in S!Chars
  <2>1. S!SumOf(payload) \in S!Chars
    <3>1. PICK f : S!SumOf(payload) = f[Len(payload)]
                   /\ \A i \in 0 .. Len(payload) : f[i] \in S!Chars
      BY SumIs
    <3>2. n \in 0 .. n
      BY <1>1
    <3>3. QED
      BY <3>1, <3>2 DEF n
  <2>2. \A i \in 0 .. n : i = 0 \/ i \in 1 .. n
    BY <1>1
  <2>3. QED
    BY <1>1, <1>5, <2>1, <2>2
<1>7. /\ DOMAIN pP = -1 .. n /\ Chained(pP, t, key, n)
      /\ \A i \in -1 .. n : pP[i] \in S!Chars
  <2>1. DOMAIN t \cup {-1} = -1 .. n
    BY <1>1, <1>2
  <2>2. QED
    BY <1>1, <1>6, <2>1, ChainIs
<1> HIDE DEF pP
<1>8. Chained(pE, pP, StaticKey, n) /\ \A i \in -1 .. n : pE[i] \in S!Chars
  <2>1. DOMAIN pP \cup {-1} = -1 .. n
    BY <1>1, <1>7
  <2>2. StaticKey \in S!Chars
    BY PacketPathAssumption
  <2>3. \A i \in 0 .. n : pP[i] \in S!Chars
    BY <1>1, <1>7
  <2>4. QED
    BY <1>1, <2>1, <2>2, <2>3, ChainIs
<1> HIDE DEF pE
<1>9. b[0] = n /\ b[1] = key /\ \A i \in 0 .. n : b[2 + i] = pE[i]
  <2>1. 0 \in S!Units /\ 1 \in S!Units /\ 0 \notin 2 .. 2 + n /\ 1 \notin 2 .. 2 + n
    BY CapacityFits DEF S!Units
  <2>2. b[0] = n /\ b[1] = key
    BY <1>1, <1>4, <2>1
  <2>3. ASSUME NEW i \in 0 .. n PROVE b[2 + i] = pE[i]
    <3>1. 2 + i \in S!Units /\ 2 + i \in 2 .. 2 + n /\ (2 + i) - S!CheckSumAt = i
      BY <1>1, CapacityFits DEF S!Units, S!CheckSumAt
    <3>2. QED
      BY <1>4, <3>1
  <2>4. QED
    BY <2>2, <2>3
<1> HIDE DEF b
<1>10. e.buffer = b
  BY <1>1, <1>3, BufferCursors
<1> HIDE DEF e
<1>11. Chains(t, pP, pE, payload, key, e.buffer)
  BY <1>5, <1>6, <1>7, <1>8, <1>9, <1>10 DEF Chains, Targets, n
<1>12. QED
  BY <1>11 DEF e

\* From the units of d decryption finds p0 for pP, and the plain units of b.
Finds(p0, d, b, k, n) ==
    /\ p0[-1] = 0
    /\ \A i \in 0 .. n :
          /\ p0[i] = Xor(d.buffer[2 + i], S!Mix(IF i = 0 THEN 0 ELSE d.buffer[1 + i], k, i))
          /\ b[2 + i] = Xor(p0[i], S!Mix(p0[i - 1], d.buffer[1], i))

\* Deciphered writes what it finds, and leaves the cursors.
LEMMA DecipheredIs ==
  ASSUME NEW d, S!CursorsInBuffer(d), NEW k, NEW n \in Nat, 3 + n =< Capacity,
         d.buffer[0] = n
  PROVE  /\ S!CursorsInBuffer(S!Deciphered(d, k))
         /\ S!Deciphered(d, k).headPtr = d.headPtr /\ S!Deciphered(d, k).tailPtr = d.tailPtr
         /\ DOMAIN S!Deciphered(d, k).buffer = S!Units
         /\ \E p0 : Finds(p0, d, S!Deciphered(d, k).buffer, k, n)
<1> DEFINE pE(i) == IF i < 0 THEN 0 ELSE d.buffer[2 + i]
           p1(i) == IF i < 0 THEN 0 ELSE Xor(pE(i), S!Mix(pE(i - 1), k, i))
           b == [u \in S!Units |->
                   IF u \in S!Input(d)
                   THEN Xor(p1(u - 2), S!Mix(p1(u - 2 - 1), d.buffer[1], u - 2))
                   ELSE d.buffer[u]]
           p0 == [i \in -1 .. n |-> p1(i)]
<1>1. S!Deciphered(d, k) = [d EXCEPT !.buffer = b]
  BY DEF S!Deciphered, S!CheckSumAt, S!KeyAt
<1>2. S!Input(d) = 2 .. 2 + n
  BY DEF S!Input, S!SizeAt, S!CheckSumAt
<1>3. ASSUME NEW i \in 0 .. n
      PROVE  p1(i) = Xor(d.buffer[2 + i], S!Mix(IF i = 0 THEN 0 ELSE d.buffer[1 + i], k, i))
  <2>1. ~(i < 0) /\ (i = 0 => i - 1 < 0) /\ (i # 0 => ~(i - 1 < 0)) /\ 2 + (i - 1) = 1 + i
    OBVIOUS
  <2>2. pE(i) = d.buffer[2 + i] /\ pE(i - 1) = IF i = 0 THEN 0 ELSE d.buffer[1 + i]
    BY <2>1
  <2> HIDE DEF pE
  <2>3. p1(i) = Xor(pE(i), S!Mix(pE(i - 1), k, i))
    BY <2>1
  <2>4. QED
    BY <2>2, <2>3
<1>4. p1(-1) = 0
  OBVIOUS
<1> HIDE DEF p1
<1>5. ASSUME NEW i \in 0 .. n PROVE b[2 + i] = Xor(p1(i), S!Mix(p1(i - 1), d.buffer[1], i))
  <2>1. 2 + i \in S!Units /\ 2 + i \in 2 .. 2 + n /\ (2 + i) - 2 = i /\ (2 + i) - 2 - 1 = i - 1
    BY CapacityFits DEF S!Units
  <2>2. QED
    BY <1>2, <2>1
<1>6. DOMAIN b = S!Units
  OBVIOUS
<1> HIDE DEF b
<1>7. \A i \in -1 .. n : p0[i] = p1(i)
  OBVIOUS
<1> HIDE DEF p0
<1>8. p0[-1] = 0 /\ \A i \in 0 .. n : p0[i] = p1(i) /\ p0[i - 1] = p1(i - 1)
  <2>1. -1 \in -1 .. n /\ \A i \in 0 .. n : i \in -1 .. n /\ i - 1 \in -1 .. n
    OBVIOUS
  <2>2. QED
    BY <1>4, <1>7, <2>1
<1>9. /\ S!CursorsInBuffer(S!Deciphered(d, k))
      /\ S!Deciphered(d, k).headPtr = d.headPtr /\ S!Deciphered(d, k).tailPtr = d.tailPtr
      /\ S!Deciphered(d, k).buffer = b
  BY <1>1, BufferCursors
<1>10. Finds(p0, d, b, k, n)
  BY <1>3, <1>5, <1>8 DEF Finds
<1>11. QED
  BY <1>6, <1>9, <1>10

\* b holds the plain units t of a packet up to the last one, which is right as well
\* exactly if same.
Recovered(t, payload, b, same) ==
    /\ Targets(t, payload)
    /\ \A i \in 0 .. Len(payload) - 1 : b[2 + i] = t[i]
    /\ \A i \in 0 .. Len(payload) : t[i] \in S!Chars /\ b[2 + i] \in S!Chars
    /\ (b[2 + Len(payload)] = t[Len(payload)]) = same

\* The receiver of a packet undoes both chains: the last plain unit is right exactly when
\* the last unit that came is.
LEMMA Undone ==
  ASSUME NEW s, NEW payload \in Seq(S!Chars), NEW key \in S!Chars, IsPacket(s, payload, key),
         NEW e, e = S!encryption(s, StaticKey),
         NEW d, S!CursorsInBuffer(d), d.tailPtr = 3 + Len(payload),
         \A i \in 0 .. 1 + Len(payload) : d.buffer[i] = e.buffer[i],
         d.buffer[2 + Len(payload)] \in S!Chars
  PROVE  /\ S!CursorsInBuffer(S!Deciphered(d, StaticKey))
         /\ S!Deciphered(d, StaticKey).headPtr = d.headPtr
         /\ S!Deciphered(d, StaticKey).tailPtr = d.tailPtr
         /\ DOMAIN S!Deciphered(d, StaticKey).buffer = S!Units
         /\ \E t : Recovered(t, payload, S!Deciphered(d, StaticKey).buffer,
                           d.buffer[2 + Len(payload)] = e.buffer[2 + Len(payload)])
<1> DEFINE n == Len(payload)  D == S!Deciphered(d, StaticKey)
<1>1. n \in Nat /\ 3 + n =< Capacity /\ StaticKey \in S!Chars /\ 0 \in S!Chars
  BY SMTT(30), PacketPathAssumption, CapacityFits DEF S!CursorsInBuffer, S!Chars
<1>2. PICK t, pP, pE :
        /\ t[0] = S!SumOf(payload) /\ \A i \in 1 .. n : t[i] = payload[i]
        /\ Chained(pP, t, key, n) /\ Chained(pE, pP, StaticKey, n)
        /\ \A i \in 0 .. n : t[i] \in S!Chars /\ e.buffer[2 + i] = pE[i]
        /\ \A i \in -1 .. n : pP[i] \in S!Chars /\ pE[i] \in S!Chars
        /\ e.buffer[0] = n /\ e.buffer[1] = key
  <2>1. \E t, pP, pE : Chains(t, pP, pE, payload, key, e.buffer)
    BY Ciphered
  <2>2. QED
    BY <2>1 DEF Chains, Targets
<1>3. d.buffer[0] = n /\ d.buffer[1] = key /\ d.buffer[2 + n] \in S!Chars
      /\ \A i \in 0 .. 1 + n : d.buffer[i] = e.buffer[i]
  <2>1. 0 \in 0 .. 1 + n /\ 1 \in 0 .. 1 + n
    BY <1>1
  <2>2. QED
    BY <1>2, <2>1
<1>4. /\ S!CursorsInBuffer(D) /\ D.headPtr = d.headPtr /\ D.tailPtr = d.tailPtr
      /\ DOMAIN D.buffer = S!Units
      /\ \E p0 : Finds(p0, d, D.buffer, StaticKey, n)
  BY <1>1, <1>3, DecipheredIs
<1>5. PICK p0 :
        /\ p0[-1] = 0
        /\ \A i \in 0 .. n :
              /\ p0[i] = Xor(d.buffer[2 + i],
                             S!Mix(IF i = 0 THEN 0 ELSE d.buffer[1 + i], StaticKey, i))
              /\ D.buffer[2 + i] = Xor(p0[i], S!Mix(p0[i - 1], d.buffer[1], i))
  BY <1>4 DEF Finds
<1> HIDE DEF n, D
<1> DEFINE M(i) == S!Mix(pE[i - 1], StaticKey, i)  L(i) == S!Mix(pP[i - 1], key, i)
<1>6. ASSUME NEW i \in 0 .. n
      PROVE  /\ M(i) \in S!Chars /\ L(i) \in S!Chars
             /\ pE[i] = Xor(pP[i], M(i)) /\ pP[i] = Xor(t[i], L(i))
             /\ pE[i] \in S!Chars /\ pP[i] \in S!Chars /\ t[i] \in S!Chars
  <2>1. i - 1 \in -1 .. n /\ i \in -1 .. n /\ i \in Int
    BY <1>1
  <2>2. pE[i - 1] \in S!Chars /\ pP[i - 1] \in S!Chars
    BY <1>2, <2>1
  <2>3. M(i) \in S!Chars /\ L(i) \in S!Chars
    BY <1>1, <2>1, <2>2, MixIsChar
  <2>4. pE[i] = Xor(pP[i], M(i)) /\ pP[i] = Xor(t[i], L(i))
    BY <1>2 DEF Chained
  <2>5. QED
    BY <1>2, <2>1, <2>3, <2>4
<1>7. ASSUME NEW i \in 0 .. n PROVE p0[i] = Xor(d.buffer[2 + i], M(i))
  <2>1. CASE i = 0
    <3>1. i - 1 = -1
      BY <2>1
    <3>2. pE[i - 1] = 0
      BY <1>2, <3>1 DEF Chained
    <3>3. p0[i] = Xor(d.buffer[2 + i], S!Mix(0, StaticKey, i))
      BY <1>5, <2>1
    <3>4. QED
      BY <3>2, <3>3
  <2>2. CASE i # 0
    <3>1. 1 + i \in 0 .. 1 + n /\ 1 + i = 2 + (i - 1) /\ i - 1 \in 0 .. n
      BY <1>1, <2>2
    <3>2. d.buffer[1 + i] = pE[i - 1]
      BY <1>2, <1>3, <3>1
    <3>3. p0[i] = Xor(d.buffer[2 + i], S!Mix(d.buffer[1 + i], StaticKey, i))
      BY <1>5, <2>2
    <3>4. QED
      BY <3>2, <3>3
  <2>3. QED
    BY <2>1, <2>2
<1>8. ASSUME NEW i \in 0 .. n - 1 PROVE p0[i] = pP[i] /\ d.buffer[2 + i] = pE[i]
  <2>1. i \in 0 .. n /\ 2 + i \in 0 .. 1 + n
    BY <1>1
  <2>2. d.buffer[2 + i] = pE[i]
    BY <1>2, <1>3, <2>1
  <2>3. p0[i] = Xor(Xor(pP[i], M(i)), M(i))
    BY <1>6, <1>7, <2>1, <2>2
  <2>4. pP[i] \in S!Chars /\ M(i) \in S!Chars
    BY <1>6, <2>1
  <2> HIDE DEF M
  <2>5. QED
    BY <2>2, <2>3, <2>4, XorUndoes
<1>9. ASSUME NEW i \in 0 .. n PROVE D.buffer[2 + i] = Xor(p0[i], L(i))
  <2>1. p0[i - 1] = pP[i - 1]
    <3>1. CASE i = 0
      <4>1. i - 1 = -1
        BY <3>1
      <4>2. pP[-1] = 0 /\ p0[-1] = 0
        BY <1>2, <1>5 DEF Chained
      <4>3. QED
        BY <4>1, <4>2
    <3>2. CASE i # 0
      <4>1. i - 1 \in 0 .. n - 1
        BY <1>1, <3>2
      <4>2. QED
        BY <1>8, <4>1
    <3>3. QED
      BY <3>1, <3>2
  <2>2. D.buffer[2 + i] = Xor(p0[i], S!Mix(p0[i - 1], d.buffer[1], i))
    BY <1>5
  <2>3. QED
    BY <1>3, <2>1, <2>2
<1> HIDE DEF M, L
<1>10. ASSUME NEW i \in 0 .. n - 1 PROVE D.buffer[2 + i] = t[i]
  <2>1. i \in 0 .. n
    BY <1>1
  <2>2. D.buffer[2 + i] = Xor(Xor(t[i], L(i)), L(i))
    BY <1>6, <1>8, <1>9, <2>1
  <2>3. QED
    BY <1>6, <2>1, <2>2, XorUndoes
<1>11. n \in 0 .. n
  BY <1>1
<1>12. /\ D.buffer[2 + n] \in S!Chars
       /\ D.buffer[2 + n] = t[n] <=> d.buffer[2 + n] = e.buffer[2 + n]
  <2> DEFINE x == d.buffer[2 + n]  y == e.buffer[2 + n]  z == D.buffer[2 + n]
             tn == t[n]  pn == p0[n]  qn == pP[n]  m == M(n)  l == L(n)
  <2>1. /\ x \in S!Chars /\ y \in S!Chars /\ tn \in S!Chars /\ qn \in S!Chars
        /\ m \in S!Chars /\ l \in S!Chars
        /\ y = Xor(qn, m) /\ qn = Xor(tn, l) /\ pn = Xor(x, m) /\ z = Xor(pn, l)
    BY <1>2, <1>3, <1>6, <1>7, <1>9, <1>11
  <2> HIDE DEF x, y, z, tn, pn, qn, m, l
  <2>2. /\ pn \in S!Chars /\ (pn = qn <=> x = y)
    <3>1. Xor(y, m) = qn
      BY <2>1, XorUndoes
    <3>2. QED
      BY <2>1, <3>1, XorUndoes
  <2>3. z \in S!Chars /\ (z = tn <=> pn = qn)
    <3>1. Xor(qn, l) = tn
      BY <2>1, XorUndoes
    <3>2. QED
      BY <2>1, <2>2, <3>1, XorUndoes
  <2>4. QED
    BY <2>2, <2>3 DEF x, y, z, tn
<1>13. ASSUME NEW i \in 0 .. n PROVE D.buffer[2 + i] \in S!Chars
  <2>1. i = n \/ i \in 0 .. n - 1
    BY <1>1
  <2>2. QED
    BY <1>6, <1>10, <1>12, <2>1
<1>14. Recovered(t, payload, D.buffer, d.buffer[2 + n] = e.buffer[2 + n])
  BY <1>2, <1>6, <1>10, <1>12, <1>13 DEF Recovered, Targets, n
<1>15. QED
  BY <1>4, <1>14 DEF n, D

\* A packet that came through checks out and gives its payload; one whose last unit is
\* another char does not check out.
LEMMA Understood ==
  ASSUME NEW s, NEW payload \in Seq(S!Chars), NEW key \in S!Chars, IsPacket(s, payload, key),
         NEW e, e = S!encryption(s, StaticKey),
         NEW d, S!CursorsInBuffer(d), d.tailPtr = 3 + Len(payload),
         \A i \in 0 .. 1 + Len(payload) : d.buffer[i] = e.buffer[i],
         d.buffer[2 + Len(payload)] \in S!Chars
  PROVE  /\ S!ChecksOut(S!decryption(d, StaticKey))
            <=> d.buffer[2 + Len(payload)] = e.buffer[2 + Len(payload)]
         /\ d.buffer[2 + Len(payload)] = e.buffer[2 + Len(payload)] =>
               \A i \in 1 .. Len(payload) : S!decryption(d, StaticKey).buffer[2 + i] = payload[i]
<1> DEFINE n == Len(payload)  D == S!Deciphered(d, StaticKey)  x == S!PayloadSum(D)
           plain == S!decryption(d, StaticKey)
           same == d.buffer[2 + n] = e.buffer[2 + n]
           b == [D.buffer EXCEPT ![2] = (@ - x) % CharSize]
<1>1. n \in Nat /\ 3 + n =< Capacity
  BY CapacityFits DEF S!CursorsInBuffer
<1>2. /\ S!CursorsInBuffer(D) /\ D.tailPtr = 3 + n /\ DOMAIN D.buffer = S!Units
      /\ \E t : Recovered(t, payload, D.buffer, same)
  BY Undone
<1>3. PICK t :
        /\ t[0] = S!SumOf(payload) /\ \A i \in 1 .. n : t[i] = payload[i]
        /\ \A i \in 0 .. n - 1 : D.buffer[2 + i] = t[i]
        /\ \A i \in 0 .. n : t[i] \in S!Chars /\ D.buffer[2 + i] \in S!Chars
        /\ D.buffer[2 + n] = t[n] <=> same
  BY <1>2 DEF Recovered, Targets
<1>4. plain = [D EXCEPT !.buffer = b]
  BY DEF S!decryption, S!CheckSumAt
<1> HIDE DEF n, D, same
<1> DEFINE v == S!Contents(D)
<1>5. v \in Seq(S!Chars) /\ Len(v) = n /\ \A i \in 1 .. n : v[i] = D.buffer[2 + i]
  <2>1. S!Payload(D) = n
    BY <1>1, <1>2, CapacityFits DEF S!Payload
  <2>2. v = [i \in 1 .. n |-> D.buffer[3 + i - 1]]
    BY <2>1, CapacityFits DEF S!Contents
  <2>3. \A i \in 1 .. n : 3 + i - 1 = 2 + i /\ D.buffer[2 + i] \in S!Chars
    <3>1. \A i \in 1 .. n : 3 + i - 1 = 2 + i /\ i \in 0 .. n
      BY <1>1
    <3>2. QED
      BY <1>3, <3>1
  <2> HIDE DEF v
  <2>4. v = [i \in 1 .. n |-> D.buffer[2 + i]]
    BY <2>2, <2>3
  <2>5. QED
    BY <1>1, <2>3, <2>4
<1>6. x = S!SumOf(v)
  BY DEF S!PayloadSum
<1> HIDE DEF x, v
<1>7. x \in S!Chars
  <2>1. PICK f : S!SumOf(v) = f[Len(v)] /\ \A i \in 0 .. Len(v) : f[i] \in S!Chars
    BY <1>5, SumIs
  <2>2. Len(v) \in 0 .. Len(v)
    BY <1>1, <1>5
  <2>3. QED
    BY <1>6, <2>1, <2>2
<1>8. 0 \in 0 .. n /\ 2 + 0 = 2 /\ n \in 0 .. n
  BY <1>1
<1>9. D.buffer[2] \in S!Chars
  BY <1>3, <1>8
<1>10. b[2] = (D.buffer[2] - x) % CharSize
       /\ \A i \in 1 .. n : b[2 + i] = D.buffer[2 + i]
  <2>1. DOMAIN D.buffer = S!Units
    BY <1>2
  <2>2. 2 \in S!Units
    BY <1>1, CapacityFits DEF S!Units
  <2>3. \A i \in 1 .. n : 2 + i # 2 /\ 2 + i \in S!Units
    BY <1>1, CapacityFits DEF S!Units
  <2>4. QED
    BY <2>1, <2>2, <2>3
<1> HIDE DEF b
<1>11. plain.buffer = b
  BY <1>2, <1>4, BufferCursors
<1>12. S!ChecksOut(plain) <=> D.buffer[2] = x
  <2>1. S!ChecksOut(plain) <=> b[2] = 0
    BY <1>11 DEF S!ChecksOut, S!CheckSumAt
  <2>2. QED
    BY <1>7, <1>9, <1>10, <2>1, CharArithmetic
<1>13. ASSUME same
       PROVE  D.buffer[2] = x /\ \A i \in 1 .. n : plain.buffer[2 + i] = payload[i]
  <2>1. \A i \in 0 .. n : i = n \/ i \in 0 .. n - 1
    BY <1>1
  <2>2. \A i \in 0 .. n : D.buffer[2 + i] = t[i]
    BY <1>3, <1>13, <2>1
  <2>3. \A i \in 1 .. n : i \in 0 .. n
    BY <1>1
  <2>4. \A i \in 1 .. n : v[i] = payload[i]
    BY <1>3, <1>5, <2>2, <2>3
  <2>5. v = payload
    BY <1>5, <2>4, SeqEqual DEF n
  <2>6. D.buffer[2] = t[0]
    BY <1>8, <2>2
  <2>7. QED
    BY <1>3, <1>5, <1>6, <1>10, <1>11, <2>4, <2>5, <2>6
<1>14. ASSUME ~same PROVE D.buffer[2] # x
  <2>1. D.buffer[2 + n] # t[n]
    BY <1>3, <1>14
  <2>2. CASE n = 0
    <3>1. v = payload
      BY <1>5, <2>2, SeqEqual DEF n
    <3>2. D.buffer[2] # t[0]
      BY <1>8, <2>1, <2>2
    <3>3. QED
      BY <1>3, <1>6, <3>1, <3>2
  <2>3. CASE n # 0
    <3>1. 0 \in 0 .. n - 1
      BY <1>1, <2>3
    <3>2. D.buffer[2] = S!SumOf(payload)
      BY <1>3, <1>8, <3>1
    <3>3. \A i \in 1 .. n - 1 : i \in 0 .. n - 1 /\ i \in 1 .. n
      BY <1>1
    <3>4. \A i \in 1 .. n - 1 : v[i] = payload[i]
      BY <1>3, <1>5, <3>3
    <3>5. n \in 1 .. n
      BY <1>1, <2>3
    <3>6. v[n] # payload[n]
      BY <1>3, <1>5, <2>1, <3>5
    <3>7. S!SumOf(v) # S!SumOf(payload)
      BY <1>5, <2>3, <3>4, <3>6, LastCharShows DEF n
    <3>8. QED
      BY <1>6, <3>2, <3>7
  <2>4. QED
    BY <2>2, <2>3
<1>15. QED
  BY <1>12, <1>13, <1>14 DEF n, same, plain

-----------------------------------------------------------------------------
(* The stream.                                                             *)

\* The units u on the wire are those of the buffer b, but for the last one if it was
\* damaged: that is another char.
OnWire(u, b, payload, damaged) ==
    /\ \A i \in 0 .. 1 + Len(payload) : u[i + 1] = b[i]
    /\ u[3 + Len(payload)] \in S!Chars
    /\ u[3 + Len(payload)] = b[2 + Len(payload)] <=> ~damaged

\* A packet on the wire has three units more than its payload, begins with the
\* payload's size, and is an encrypted packet, whole or damaged.
LEMMA UnitsAre ==
  ASSUME NEW m \in Message
  PROVE  /\ Len(m.payload) \in Nat /\ m.payload \in Seq(S!Chars) /\ m.key \in S!Chars
         /\ 3 + Len(m.payload) =< Capacity
         /\ \E s : /\ IsPacket(s, m.payload, m.key)
                  /\ OnWire(Units(m), S!encryption(s, StaticKey).buffer, m.payload, m.damaged)
         /\ Units(m) \in Seq(AllUnits) /\ Len(Units(m)) = 3 + Len(m.payload)
         /\ Units(m)[1] = Len(m.payload)
<1> DEFINE payload == m.payload
           a == S!ReserveHeader(S!NewSerializer)
           b == S!push(a, payload)
           built == S!setHeader(b, m.key)
           e == S!encryption(built, StaticKey)
           u == S!Pending(e)
           v == IF m.damaged THEN [u EXCEPT ![Len(u)] = (u[Len(u)] + 1) % CharSize] ELSE u
           n == 3 + Len(payload)
<1>1. Units(m) = v
  BY DEF Units, Encoded
<1>2. /\ payload \in Seq(S!Chars) /\ Len(payload) \in Nat
      /\ 3 + Len(payload) =< Capacity /\ m.key \in S!Chars
  BY PacketPathAssumption, CapacityFits DEF Message
<1> HIDE DEF payload
<1>3. S!CursorsInBuffer(a) /\ a.headPtr = 3 /\ a.tailPtr = 3
  BY NewCursors, ReserveCursors
<1> HIDE DEF a
<1>4. S!CursorsInBuffer(b) /\ b.headPtr = 3 /\ b.tailPtr = n
  BY <1>2, <1>3, PushCursors
<1>5. \A i \in 1 .. Len(payload) : b.buffer[2 + i] = payload[i]
  <2>1. \A i \in 1 .. Len(payload) : b.buffer[a.tailPtr + i - 1] = payload[i]
    BY <1>2, <1>3, Pushed
  <2>2. \A i \in 1 .. Len(payload) : a.tailPtr + i - 1 = 2 + i
    BY <1>2, <1>3
  <2>3. QED
    BY <2>1, <2>2
<1> HIDE DEF b
<1>6. S!CursorsInBuffer(built) /\ built.headPtr = 0 /\ built.tailPtr = n
  BY <1>4, SetHeaderCursors
<1>7. IsPacket(built, payload, m.key) /\ built.buffer[0] = Len(payload)
  <2>1. IsPacket(built, payload, m.key)
    BY <1>2, <1>4, <1>5, Built
  <2>2. QED
    BY <2>1 DEF IsPacket
<1> HIDE DEF built
<1>8. e.headPtr = 0 /\ e.tailPtr = n /\ e.buffer[0] = Len(payload)
  BY <1>6, <1>7, EncryptionCursors
<1>9. e.buffer[2 + Len(payload)] \in S!Chars
  <2>1. PICK t, pP, pE : Chains(t, pP, pE, payload, m.key, e.buffer)
    BY <1>2, <1>7, Ciphered
  <2>2. Len(payload) \in 0 .. Len(payload) /\ Len(payload) \in -1 .. Len(payload)
    BY <1>2
  <2>3. QED
    BY <2>1, <2>2 DEF Chains
<1> HIDE DEF e
<1>10. u = [i \in 1 .. n |-> e.buffer[i - 1]] /\ n \in Nat /\ n >= 3
  BY <1>2, <1>8 DEF S!Pending, S!Size
<1>11. Len(u) = n /\ u[1] = Len(payload) /\ u[n] = e.buffer[2 + Len(payload)]
      /\ \A i \in 0 .. 1 + Len(payload) : u[i + 1] = e.buffer[i]
  <2>1. Len(u) = n /\ u[1] = Len(payload)
    BY <1>8, <1>10
  <2>2. n \in 1 .. n /\ n - 1 = 2 + Len(payload)
    BY <1>2
  <2>3. \A i \in 0 .. 1 + Len(payload) : i + 1 \in 1 .. n /\ (i + 1) - 1 = i
    BY <1>2
  <2> HIDE DEF n
  <2>4. QED
    BY <1>10, <2>1, <2>2, <2>3
<1> HIDE DEF u
<1>12. OnWire(v, e.buffer, payload, m.damaged)
  <2> DEFINE x == u[n]  y == (x + 1) % CharSize
  <2>1. x \in S!Chars /\ y \in S!Chars /\ y # x
    <3>1. x \in S!Chars /\ x + 1 \in Int
      BY <1>9, <1>11, CapacityFits DEF S!Chars
    <3> HIDE DEF x
    <3>2. QED
      BY <3>1, Remainder, CharArithmetic
  <2>2. CASE m.damaged
    <3>1. v = [u EXCEPT ![n] = y] /\ DOMAIN u = 1 .. n
      BY <1>10, <1>11, <2>2
    <3>2. n \in 1 .. n /\ \A i \in 0 .. 1 + Len(payload) : i + 1 \in 1 .. n /\ i + 1 # n
      BY <1>2
    <3> HIDE DEF x, y, v, n, u
    <3>3. v[n] = y /\ \A i \in 0 .. 1 + Len(payload) : v[i + 1] = u[i + 1]
      BY <3>1, <3>2
    <3>4. n = 3 + Len(payload)
      BY DEF n
    <3>5. v[3 + Len(payload)] = y /\ e.buffer[2 + Len(payload)] = x
      BY <1>11, <3>3, <3>4 DEF x
    <3>6. QED
      BY <1>11, <2>1, <2>2, <3>3, <3>5 DEF OnWire
  <2>3. CASE ~m.damaged
    <3>1. v = u
      BY <2>3
    <3>2. u[3 + Len(payload)] = x /\ e.buffer[2 + Len(payload)] = x
      BY <1>11
    <3> HIDE DEF x, y, v, n, u
    <3>3. QED
      BY <1>11, <2>1, <2>3, <3>1, <3>2 DEF OnWire
  <2>4. QED
    BY <2>2, <2>3
<1>13. v = [i \in 1 .. n |-> v[i]] /\ v[1] = Len(payload)
  <2> DEFINE w == [u EXCEPT ![Len(u)] = (u[Len(u)] + 1) % CharSize]
  <2>1. DOMAIN u = 1 .. n /\ 1 \in 1 .. n /\ Len(u) # 1 /\ u = [i \in 1 .. n |-> u[i]]
    BY <1>10, <1>11
  <2>2. w = [i \in 1 .. n |-> w[i]] /\ w[1] = u[1]
    BY <2>1
  <2> HIDE DEF w
  <2>3. v = w \/ v = u
    BY DEF w
  <2> HIDE DEF v
  <2>4. QED
    BY <1>11, <2>1, <2>2, <2>3
<1> HIDE DEF v, n
<1>14. ASSUME NEW i \in 1 .. n PROVE v[i] \in AllUnits
  <2>1. DOMAIN v = 1 .. n
    BY <1>13
  <2>2. v[i] \in Range(v)
    BY <2>1 DEF Range
  <2>3. QED
    BY <1>1, <2>2 DEF AllUnits
<1>15. v \in Seq(AllUnits) /\ Len(v) = n
  BY <1>10, <1>13, <1>14
<1>16. \E s : /\ IsPacket(s, payload, m.key)
              /\ OnWire(v, S!encryption(s, StaticKey).buffer, payload, m.damaged)
  BY <1>7, <1>12 DEF e
<1>17. QED
  BY <1>1, <1>2, <1>13, <1>15, <1>16 DEF n, payload

\* Two ways to cut a sequence: the first n elements and the others,
LEMMA CutAt ==
  ASSUME NEW E, NEW w \in Seq(E), NEW n \in 0 .. Len(w)
  PROVE  /\ SubSeq(w, 1, n) \in Seq(E) /\ SubSeq(w, n + 1, Len(w)) \in Seq(E)
         /\ SubSeq(w, 1, n) \o SubSeq(w, n + 1, Len(w)) = w
<1> DEFINE u == SubSeq(w, 1, n)  v == SubSeq(w, n + 1, Len(w))
<1>1. Len(w) \in Nat /\ n \in Nat /\ n =< Len(w) /\ \A i \in 1 .. Len(w) : w[i] \in E
  OBVIOUS
<1>2. u = [i \in 1 .. n |-> w[i]] /\ v = [i \in 1 .. Len(w) - n |-> w[n + i]]
  BY <1>1
<1> HIDE DEF u, v
<1>3. u \in Seq(E) /\ v \in Seq(E) /\ Len(u) = n /\ Len(v) = Len(w) - n
  BY <1>1, <1>2
<1>4. u \o v \in Seq(E) /\ Len(u \o v) = Len(u) + Len(v)
      /\ \A i \in 1 .. Len(u) + Len(v) : (u \o v)[i] = IF i =< Len(u) THEN u[i] ELSE v[i - Len(u)]
  BY <1>3, ConcatProperties
<1>5. ASSUME NEW i \in 1 .. Len(w) PROVE (u \o v)[i] = w[i]
  BY <1>1, <1>2, <1>3, <1>4
<1>6. Len(u \o v) = Len(w)
  BY <1>1, <1>3, <1>4
<1>7. u \o v = w
  BY <1>4, <1>5, <1>6, SeqEqual
<1>8. QED
  BY <1>3, <1>7 DEF u, v

\* and the same sequence put together twice, less what begins both.
LEMMA CutFirst ==
  ASSUME NEW E, NEW a \in Seq(E), NEW b \in Seq(E), NEW u \in Seq(E), NEW v \in Seq(E),
         a \o b = u \o v, 1 =< Len(u), Len(u) =< Len(a)
  PROVE  a[1] = u[1] /\ SubSeq(a, Len(u) + 1, Len(a)) \o b = v
<1> DEFINE c == SubSeq(a, Len(u) + 1, Len(a))
<1>1. Len(a) \in Nat /\ Len(b) \in Nat /\ Len(u) \in Nat /\ Len(v) \in Nat
      /\ \A i \in 1 .. Len(a) : a[i] \in E
  OBVIOUS
<1>2. c = [i \in 1 .. Len(a) - Len(u) |-> a[Len(u) + i]]
  BY <1>1
<1> HIDE DEF c
<1>3. c \in Seq(E) /\ Len(c) = Len(a) - Len(u)
  BY <1>1, <1>2
<1>4. /\ Len(a \o b) = Len(a) + Len(b)
      /\ \A i \in 1 .. Len(a) + Len(b) : (a \o b)[i] = IF i =< Len(a) THEN a[i] ELSE b[i - Len(a)]
  BY ConcatProperties
<1>5. /\ Len(u \o v) = Len(u) + Len(v)
      /\ \A i \in 1 .. Len(u) + Len(v) : (u \o v)[i] = IF i =< Len(u) THEN u[i] ELSE v[i - Len(u)]
  BY ConcatProperties
<1>6. /\ c \o b \in Seq(E) /\ Len(c \o b) = Len(c) + Len(b)
      /\ \A i \in 1 .. Len(c) + Len(b) : (c \o b)[i] = IF i =< Len(c) THEN c[i] ELSE b[i - Len(c)]
  BY <1>3, ConcatProperties
<1>7. Len(c \o b) = Len(v)
  BY <1>1, <1>3, <1>4, <1>5, <1>6
<1>8. ASSUME NEW i \in 1 .. Len(v) PROVE (c \o b)[i] = v[i]
  <2>1. (u \o v)[Len(u) + i] = v[i]
    <3>1. Len(u) + i \in 1 .. Len(u) + Len(v) /\ ~(Len(u) + i =< Len(u)) /\ (Len(u) + i) - Len(u) = i
      BY <1>1
    <3>2. QED
      BY <1>5, <3>1
  <2>2. (c \o b)[i] = (a \o b)[Len(u) + i]
    <3>1. CASE i =< Len(c)
      <4>1. /\ i \in 1 .. Len(c) + Len(b) /\ i \in 1 .. Len(a) - Len(u)
            /\ Len(u) + i \in 1 .. Len(a) + Len(b) /\ Len(u) + i =< Len(a)
        BY <1>1, <1>3, <3>1
      <4>2. QED
        BY <1>2, <1>4, <1>6, <3>1, <4>1
    <3>2. CASE ~(i =< Len(c))
      <4>1. /\ i \in 1 .. Len(c) + Len(b) /\ i - Len(c) = (Len(u) + i) - Len(a)
            /\ Len(u) + i \in 1 .. Len(a) + Len(b) /\ ~(Len(u) + i =< Len(a))
        BY <1>1, <1>3, <1>6, <1>7, <3>2
      <4>2. QED
        BY <1>4, <1>6, <3>2, <4>1
    <3>3. QED
      BY <3>1, <3>2
  <2>3. QED
    BY <2>1, <2>2
<1>9. a[1] = u[1]
  <2>1. 1 \in 1 .. Len(a) + Len(b) /\ 1 =< Len(a) /\ 1 \in 1 .. Len(u) + Len(v)
    BY <1>1
  <2>2. QED
    BY <1>4, <1>5, <2>1
<1>10. QED
  BY <1>6, <1>7, <1>8, <1>9, SeqEqual DEF c

\* Nothing lies in the first 0 cells behind a ring.
LEMMA BehindNone == \A r : Behind(r, 0) = <<>>
BY DEF Behind

\* The packets under way, and what the stream is made of.
LEMMA UndeliveredIs ==
  ASSUME StreamTypes
  PROVE  /\ Undelivered \in Seq(Seq(AllUnits))
         /\ Len(Undelivered) = Len(sent) - Len(delivered)
         /\ Len(sent) \in Nat /\ Len(delivered) \in Nat
         /\ \A i \in 1 .. Len(Undelivered) :
               /\ sent[Len(delivered) + i] \in Message
               /\ Undelivered[i] = Units(sent[Len(delivered) + i])
<1>1. sent \in Seq(Message) /\ Len(sent) \in Nat /\ Len(delivered) \in Nat /\ Len(delivered) =< Len(sent)
  BY DEF StreamTypes
<1>2. Undelivered = [i \in 1 .. Len(sent) - Len(delivered) |-> Units(sent[Len(delivered) + i])]
  BY DEF Undelivered
<1>3. ASSUME NEW i \in 1 .. Len(sent) - Len(delivered)
      PROVE  sent[Len(delivered) + i] \in Message
  <2>1. Len(delivered) + i \in 1 .. Len(sent)
    BY <1>1
  <2>2. QED
    BY <1>1, <2>1
<1>4. ASSUME NEW i \in 1 .. Len(sent) - Len(delivered)
      PROVE  Undelivered[i] \in Seq(AllUnits)
  BY <1>2, <1>3, UnitsAre
<1> HIDE DEF Undelivered
<1>5. Undelivered \in Seq(Seq(AllUnits)) /\ Len(Undelivered) = Len(sent) - Len(delivered)
  BY <1>1, <1>2, <1>4
<1>6. QED
  BY <1>1, <1>2, <1>3, <1>5

-----------------------------------------------------------------------------
(* The steps.                                                              *)

\* Where no receive has completed, the ring and the wire are the stream.
LEMMA NothingArrived ==
  ASSUME StreamInv, pc \notin {"completed", "refused"}
  PROVE  /\ Arrived = <<>>
         /\ Unread(recvBuffer) \in Seq(AllUnits)
         /\ Unread(recvBuffer) \o wire = FlattenSeq(Undelivered)
<1>1. Arrived = <<>>
  BY BehindNone DEF Arrived
<1>2. Unread(recvBuffer) \in Seq(AllUnits)
  BY UnreadIs DEF StreamInv, StreamTypes
<1>3. (Unread(recvBuffer) \o <<>>) \o wire = FlattenSeq(Undelivered)
  BY <1>1 DEF StreamInv, StreamInOrder
<1>4. Unread(recvBuffer) \o <<>> = Unread(recvBuffer)
  BY <1>2, ConcatEmptySeq
<1>5. QED
  BY <1>1, <1>2, <1>3, <1>4

\* A packet is sent: it goes to the end of the wire and of the packets under way.
LEMMA SendInv ==
  ASSUME StreamInv, Send
  PROVE  StreamInv'
<1>1. UNCHANGED <<receiver, content>>
  BY DEF Send
<1>2. PICK m \in Message : sent' = Append(sent, m) /\ wire' = wire \o Units(m)
  BY DEF Send
<1>3. /\ recvBuffer' = recvBuffer /\ pc' = pc /\ bufs' = bufs /\ transfer' = transfer /\ p' = p
      /\ response' = response /\ delivered' = delivered /\ closing' = closing
  BY <1>1 DEF receiver, content
<1> DEFINE um == Units(m)
<1>4. um \in Seq(AllUnits)
  BY UnitsAre
<1>5. /\ recvBuffer \in Rings(AllUnits) /\ wire \in Seq(AllUnits)
      /\ sent \in Seq(Message) /\ Len(sent) \in Nat /\ Len(delivered) \in Nat
      /\ Len(delivered) =< Len(sent)
  BY DEF StreamInv, StreamTypes
<1>6. /\ sent' \in Seq(Message) /\ Len(sent') = Len(sent) + 1
      /\ sent'[Len(sent) + 1] = m /\ \A i \in 1 .. Len(sent) : sent'[i] = sent[i]
  BY <1>2, <1>5, AppendProperties
<1> HIDE DEF um
<1>7. StreamTypes'
  <2>1. wire' \in Seq(AllUnits)
    BY <1>2, <1>4, <1>5, ConcatProperties DEF um
  <2>2. Len(delivered') =< Len(sent')
    BY <1>3, <1>5, <1>6
  <2>3. QED
    BY <1>3, <1>6, <2>1, <2>2 DEF StreamInv, StreamTypes
<1>8. ReceivesFit'
  BY <1>3 DEF StreamInv, ReceivesFit
<1>9. S!CursorsInBuffer(p') /\ S!CursorsInBuffer(response')
  BY <1>3 DEF StreamInv
<1>10. StreamInOrder'
  <2>1. /\ Undelivered \in Seq(Seq(AllUnits))
        /\ Len(Undelivered) = Len(sent) - Len(delivered)
        /\ \A i \in 1 .. Len(Undelivered) : Undelivered[i] = Units(sent[Len(delivered) + i])
    BY UndeliveredIs DEF StreamInv
  <2>2. Undelivered' = [i \in 1 .. Len(sent') - Len(delivered) |-> Units(sent'[Len(delivered) + i])]
    BY <1>3 DEF Undelivered
  <2>3. Undelivered' = Append(Undelivered, um)
    <3> DEFINE u == Undelivered  v == Append(u, um)  n == Len(sent) - Len(delivered)
    <3>1. v \in Seq(Seq(AllUnits)) /\ Len(v) = n + 1 /\ v[n + 1] = um
          /\ \A i \in 1 .. n : v[i] = u[i]
      BY <1>4, <2>1, AppendProperties
    <3>2. Undelivered' = [i \in 1 .. n + 1 |-> Units(sent'[Len(delivered) + i])]
      BY <1>5, <1>6, <2>2
    <3>3. ASSUME NEW i \in 1 .. n + 1 PROVE Units(sent'[Len(delivered) + i]) = v[i]
      <4>1. CASE i = n + 1
        <5>1. Len(delivered) + i = Len(sent) + 1
          BY <1>5, <4>1
        <5>2. QED
          BY <1>6, <3>1, <4>1, <5>1 DEF um
      <4>2. CASE i # n + 1
        <5>1. i \in 1 .. n /\ Len(delivered) + i \in 1 .. Len(sent)
          BY <1>5, <4>2
        <5>2. QED
          BY <1>6, <2>1, <3>1, <5>1
      <4>3. QED
        BY <4>1, <4>2
    <3> HIDE DEF v, n
    <3>4. v = [i \in 1 .. n + 1 |-> v[i]]
      BY <3>1
    <3>5. QED
      BY <3>2, <3>3, <3>4 DEF v
  <2> DEFINE a == Unread(recvBuffer) \o Arrived
  <2>4. /\ a \o wire = FlattenSeq(Undelivered)
    BY DEF StreamInv, StreamInOrder
  <2>5. a \in Seq(AllUnits)
    <3>1. Unread(recvBuffer) \in Seq(AllUnits)
      BY <1>5, UnreadIs
    <3>2. Arrived \in Seq(AllUnits)
      <4> DEFINE k == IF pc \in {"completed", "refused"} THEN transfer ELSE 0
      <4>1. k \in 0 .. freeSize(recvBuffer)
        <5>1. freeSize(recvBuffer) \in Nat
          BY <1>5, Sizes, BufferSizeAssumption
        <5>2. QED
          BY <5>1 DEF StreamInv, ReceivesFit, _maxSize
      <4>2. Arrived = Behind(recvBuffer, k)
        BY DEF Arrived
      <4> HIDE DEF k
      <4>3. QED
        BY <1>5, <4>1, <4>2, BehindIs
    <3>3. QED
      BY <3>1, <3>2, ConcatProperties
  <2>6. FlattenSeq(Append(Undelivered, um)) = FlattenSeq(Undelivered) \o um
    BY <1>4, <2>1, FlattenLast
  <2>7. Unread(recvBuffer)' \o Arrived' = a
    BY <1>3 DEF Arrived
  <2> HIDE DEF a
  <2>8. a \o (wire \o um) = (a \o wire) \o um
    <3>1. a \in Seq(AllUnits) /\ wire \in Seq(AllUnits) /\ um \in Seq(AllUnits)
      BY <1>4, <1>5, <2>5
    <3>2. QED
      BY <3>1, ConcatAssociative
  <2>9. QED
    BY <1>2, <2>3, <2>4, <2>6, <2>7, <2>8 DEF StreamInOrder, um
<1>11. QED
  BY <1>7, <1>8, <1>9, <1>10 DEF StreamInv

\* A receive is posted on the free pieces of the ring.
LEMMA RecvIOInv ==
  ASSUME StreamInv, RecvIO
  PROVE  StreamInv'
<1>1. /\ pc = "recvIO" /\ pc' = "posted"
      /\ recvBuffer' = recvBuffer /\ transfer' = transfer /\ p' = p /\ response' = response
      /\ wire' = wire /\ sent' = sent /\ delivered' = delivered /\ closing' = closing
  BY DEF RecvIO, content
<1>2. StreamTypes'
  BY <1>1 DEF StreamInv, StreamTypes
<1>3. ReceivesFit'
  <2>1. /\ bufs'[1].buf = tail(recvBuffer) /\ bufs'[1].len = DirectEnqueueSize(recvBuffer)
        /\ bufs'[2].buf = 0
        /\ bufs'[2].len = freeSize(recvBuffer) - DirectEnqueueSize(recvBuffer)
    BY DEF RecvIO
  <2>2. QED
    BY <1>1, <2>1 DEF StreamInv, ReceivesFit
<1>4. S!CursorsInBuffer(p') /\ S!CursorsInBuffer(response')
  BY <1>1 DEF StreamInv
<1>5. StreamInOrder'
  <2>1. Arrived' = <<>> /\ Arrived = <<>>
    BY <1>1, BehindNone DEF Arrived
  <2>2. Undelivered' = Undelivered
    BY <1>1 DEF Undelivered
  <2>3. QED
    BY <1>1, <2>1, <2>2 DEF StreamInv, StreamInOrder
<1>6. QED
  BY <1>2, <1>3, <1>4, <1>5 DEF StreamInv

\* The kernel moves the front of the wire into the ring's free cells.
LEMMA FillInv ==
  ASSUME StreamInv, Fill
  PROVE  StreamInv'
<1>1. /\ pc = "posted" /\ pc' = "completed"
      /\ p' = p /\ response' = response
      /\ sent' = sent /\ delivered' = delivered /\ closing' = closing
  BY DEF Fill, content
<1> DEFINE Free == bufs[1].len + bufs[2].len
<1>2. PICK n \in 1 .. AtMost(Len(wire), Free) :
        /\ recvBuffer' = [recvBuffer EXCEPT !.buffer =
                 Copy(Copy(@, bufs[1].buf, SubSeq(wire, 1, AtMost(n, bufs[1].len))),
                      bufs[2].buf, SubSeq(wire, AtMost(n, bufs[1].len) + 1, n))]
        /\ wire' = SubSeq(wire, n + 1, Len(wire))
        /\ transfer' = n
  BY DEF Fill
<1>3. /\ recvBuffer \in Rings(AllUnits) /\ wire \in Seq(AllUnits) /\ Len(wire) \in Nat
      /\ bufs[1].buf = tail(recvBuffer) /\ bufs[1].len = DirectEnqueueSize(recvBuffer)
      /\ bufs[2].buf = 0 /\ bufs[2].len = freeSize(recvBuffer) - bufs[1].len
  BY <1>1 DEF StreamInv, StreamTypes, ReceivesFit
<1>4. /\ n \in 1 .. freeSize(recvBuffer) /\ n =< Len(wire)
      /\ freeSize(recvBuffer) \in Nat /\ freeSize(recvBuffer) =< _maxSize /\ _maxSize \in Nat
  <2>1. freeSize(recvBuffer) \in Nat /\ freeSize(recvBuffer) =< _maxSize /\ _maxSize \in Nat
    BY <1>3, Sizes, BufferSizeAssumption DEF _maxSize
  <2>2. DirectEnqueueSize(recvBuffer) \in Int
    <3>1. tail(recvBuffer) = IF recvBuffer.tailPtr = bufferSize - 1 THEN 0 ELSE recvBuffer.tailPtr + 1
      BY <1>3, Sizes
    <3>2. recvBuffer.headPtr \in Int /\ recvBuffer.tailPtr \in Int /\ bufferSize \in Int
      BY <1>3, BufferSizeAssumption DEF Rings, Cells
    <3>3. QED
      BY SMTT(30), <3>1, <3>2 DEF DirectEnqueueSize
  <2>3. Free = freeSize(recvBuffer)
    BY <1>3, <2>1, <2>2
  <2>4. n \in 1 .. AtMost(Len(wire), freeSize(recvBuffer))
    BY <2>3
  <2>5. QED
    BY <1>3, <2>1, <2>4 DEF AtMost
<1>5. recvBuffer' = Filled(recvBuffer, wire, n)
  BY <1>2, <1>3 DEF Filled
<1>6. n \in 0 .. freeSize(recvBuffer) /\ n \in Nat
  BY <1>4
<1>7. /\ recvBuffer' \in Rings(AllUnits)
      /\ recvBuffer'.headPtr = recvBuffer.headPtr /\ recvBuffer'.tailPtr = recvBuffer.tailPtr
      /\ Unread(recvBuffer') = Unread(recvBuffer)
      /\ Behind(recvBuffer', n) = SubSeq(wire, 1, n)
  BY <1>3, <1>4, <1>5, <1>6, FilledIs
<1>8. /\ SubSeq(wire, 1, n) \in Seq(AllUnits) /\ wire' \in Seq(AllUnits)
      /\ SubSeq(wire, 1, n) \o wire' = wire
  <2>1. n \in 0 .. Len(wire)
    BY <1>3, <1>4
  <2>2. QED
    BY <1>2, <1>3, <2>1, CutAt
<1>9. StreamTypes'
  BY <1>1, <1>7, <1>8 DEF StreamInv, StreamTypes
<1>10. ReceivesFit'
  <2>1. freeSize(recvBuffer') = freeSize(recvBuffer)
    BY <1>7 DEF freeSize
  <2>2. transfer' = n /\ n \in 0 .. _maxSize /\ n =< freeSize(recvBuffer)
    BY <1>2, <1>4
  <2>3. QED
    BY <1>1, <2>1, <2>2 DEF ReceivesFit
<1>11. S!CursorsInBuffer(p') /\ S!CursorsInBuffer(response')
  BY <1>1 DEF StreamInv
<1>12. StreamInOrder'
  <2>1. Arrived' = SubSeq(wire, 1, n)
    BY <1>1, <1>2, <1>7 DEF Arrived
  <2>2. Undelivered' = Undelivered
    BY <1>1 DEF Undelivered
  <2>3. Unread(recvBuffer) \in Seq(AllUnits) /\ Unread(recvBuffer) \o wire = FlattenSeq(Undelivered)
    BY <1>1, NothingArrived
  <2> DEFINE a == Unread(recvBuffer)  b == SubSeq(wire, 1, n)  c == wire'
  <2>4. a \in Seq(AllUnits) /\ b \in Seq(AllUnits) /\ c \in Seq(AllUnits)
    BY <1>8, <2>3
  <2> HIDE DEF a, b, c, Free
  <2>5. (a \o b) \o c = a \o (b \o c)
    BY SMTT(30), <2>4, ConcatAssociative
  <2>6. QED
    BY <1>7, <1>8, <2>1, <2>2, <2>3, <2>5 DEF StreamInOrder, a, b, c
<1>13. QED
  BY <1>9, <1>10, <1>11, <1>12 DEF StreamInv

\* What has arrived is taken over into the ring, or refused.
LEMMA RecvedInv ==
  ASSUME StreamInv, Recved
  PROVE  StreamInv'
<1>1. /\ pc = "completed" /\ transfer' = transfer /\ p' = p /\ response' = response
      /\ wire' = wire /\ sent' = sent /\ delivered' = delivered /\ closing' = closing
  BY DEF Recved, content
<1>2. recvBuffer \in Rings(AllUnits) /\ transfer \in 0 .. freeSize(recvBuffer)
  BY <1>1 DEF StreamInv, StreamTypes, ReceivesFit
<1>3. S!CursorsInBuffer(p') /\ S!CursorsInBuffer(response')
  BY <1>1 DEF StreamInv
<1>4. Undelivered' = Undelivered
  BY <1>1 DEF Undelivered
<1>5. Arrived = Behind(recvBuffer, transfer)
  BY <1>1 DEF Arrived
<1>6. CASE pc' = "refused" /\ recvBuffer' = recvBuffer
  <2>1. Arrived' = Arrived
    BY <1>1, <1>5, <1>6 DEF Arrived
  <2>2. QED
    BY <1>1, <1>3, <1>4, <1>6, <2>1 DEF StreamInv, StreamTypes, ReceivesFit, StreamInOrder
<1>7. CASE pc' = "parse" /\ recvBuffer' = MoveRear(recvBuffer, transfer)
  <2>1. /\ recvBuffer' \in Rings(AllUnits)
        /\ Unread(recvBuffer') = Unread(recvBuffer) \o Behind(recvBuffer, transfer)
    BY <1>2, <1>7, MoveRearIs
  <2>2. StreamTypes'
    BY <1>1, <1>7, <2>1 DEF StreamInv, StreamTypes
  <2>3. ReceivesFit'
    BY <1>1, <1>7 DEF StreamInv, ReceivesFit
  <2>4. Arrived' = <<>>
    BY <1>7, BehindNone DEF Arrived
  <2>5. Unread(recvBuffer') \o <<>> = Unread(recvBuffer')
    <3>1. Unread(recvBuffer') \in Seq(AllUnits)
      BY <2>1, UnreadIs
    <3>2. QED
      BY <3>1, ConcatEmptySeq
  <2>6. StreamInOrder'
    BY <1>1, <1>4, <1>5, <2>1, <2>4, <2>5 DEF StreamInv, StreamInOrder
  <2>7. QED
    BY <1>3, <2>2, <2>3, <2>6 DEF StreamInv
<1>8. QED
  BY <1>6, <1>7 DEF Recved

\* The loop ends and the serializer is made ready for the next packet.
LEMMA ParseEndsInv ==
  ASSUME StreamInv, ParseEnds
  PROVE  StreamInv'
<1>1. /\ pc = "parse" /\ pc' \in {"closed", "recvIO"} /\ p' = S!ReserveHeader(p)
      /\ recvBuffer' = recvBuffer /\ transfer' = transfer /\ response' = response
      /\ wire' = wire /\ sent' = sent /\ delivered' = delivered /\ closing' = closing
  BY DEF ParseEnds, content
<1>2. S!CursorsInBuffer(p') /\ S!CursorsInBuffer(response')
  BY <1>1, ReserveCursors DEF StreamInv
<1>3. Arrived' = Arrived
  BY <1>1, BehindNone DEF Arrived
<1>4. Undelivered' = Undelivered
  BY <1>1 DEF Undelivered
<1>5. StreamTypes' /\ ReceivesFit'
  BY <1>1 DEF StreamInv, StreamTypes, ReceivesFit
<1>6. StreamInOrder'
  BY <1>1, <1>3, <1>4 DEF StreamInv, StreamInOrder
<1>7. QED
  BY <1>2, <1>5, <1>6 DEF StreamInv

\* v is what follows the first of the packets under way.
Follows(v) ==
    \A t \in Seq(Seq(AllUnits)) :
        Len(Undelivered) = Len(t) + 1 /\ (\A i \in 1 .. Len(t) : t[i] = Undelivered[i + 1])
        => v = FlattenSeq(t)

\* Where nothing is under way, nothing is in the ring.
LEMMA NothingUnread ==
  ASSUME StreamInv, pc \notin {"completed", "refused"}, Undelivered = <<>>
  PROVE  size(recvBuffer) = 0
<1> DEFINE u == Unread(recvBuffer)
<1>1. /\ u \in Seq(AllUnits) /\ Len(u) = size(recvBuffer) /\ size(recvBuffer) \in Nat
      /\ wire \in Seq(AllUnits) /\ Len(wire) \in Nat
  <2>1. recvBuffer \in Rings(AllUnits) /\ wire \in Seq(AllUnits)
    BY DEF StreamInv, StreamTypes
  <2>2. QED
    BY <2>1, UnreadIs, Sizes
<1>2. u \o wire = FlattenSeq(Undelivered)
  BY NothingArrived
<1>3. FlattenSeq(Undelivered) = <<>>
  BY DEF FlattenSeq
<1> HIDE DEF u
<1>4. Len(u \o wire) = Len(u) + Len(wire)
  BY <1>1, ConcatProperties
<1>5. Len(u \o wire) = 0
  BY <1>2, <1>3
<1>6. QED
  BY <1>1, <1>4, <1>5

\* The header at the front of the ring is that of the next packet that was sent.
LEMMA HeaderAtFront ==
  ASSUME StreamInv, pc = "parse", size(recvBuffer) >= 3
  PROVE  LET m == sent[Len(delivered) + 1]
         IN  /\ Len(delivered) < Len(sent) /\ m \in Message
             /\ HeaderNames = Len(m.payload) /\ HeaderNames \in Nat
             /\ \E v \in Seq(AllUnits) :
                   Unread(recvBuffer) \o wire = Units(m) \o v /\ Follows(v)
<1> DEFINE m == sent[Len(delivered) + 1]  um == Units(m)  u == Unread(recvBuffer)
<1>1. /\ recvBuffer \in Rings(AllUnits) /\ wire \in Seq(AllUnits)
      /\ Len(sent) \in Nat /\ Len(delivered) \in Nat /\ Len(delivered) =< Len(sent)
  BY UndeliveredIs DEF StreamInv, StreamTypes
<1>2. /\ u \in Seq(AllUnits) /\ Len(u) = size(recvBuffer) /\ size(recvBuffer) \in Nat
  BY <1>1, UnreadIs, Sizes
<1>3. u \o wire = FlattenSeq(Undelivered)
  BY NothingArrived
<1>4. size(recvBuffer) >= 3
  OBVIOUS
<1>5. /\ Undelivered \in Seq(Seq(AllUnits))
      /\ Len(Undelivered) = Len(sent) - Len(delivered)
      /\ \A i \in 1 .. Len(Undelivered) :
            /\ sent[Len(delivered) + i] \in Message
            /\ Undelivered[i] = Units(sent[Len(delivered) + i])
  BY UndeliveredIs DEF StreamInv
<1>6. Undelivered # <<>>
  BY <1>4, NothingUnread
<1>7. /\ Len(delivered) < Len(sent) /\ m \in Message /\ Undelivered[1] = um
  <2>1. Len(Undelivered) # 0
    BY <1>5, <1>6, EmptySeq
  <2>2. 1 \in 1 .. Len(Undelivered)
    BY <1>1, <1>5, <2>1
  <2>3. QED
    BY <1>1, <1>5, <2>2
<1> HIDE DEF u
<1>8. /\ Len(m.payload) \in Nat /\ um \in Seq(AllUnits) /\ Len(um) = 3 + Len(m.payload)
      /\ um[1] = Len(m.payload)
  BY <1>7, UnitsAre
<1> HIDE DEF m, um
<1>9. PICK v \in Seq(AllUnits) : u \o wire = um \o v /\ Follows(v)
  <2> DEFINE k == Len(Undelivered) - 1  rest == [i \in 1 .. k |-> Undelivered[i + 1]]
  <2>1. k \in Nat /\ Len(Undelivered) = k + 1
    BY <1>1, <1>5, <1>7
  <2>2. \A i \in 1 .. k : Undelivered[i + 1] \in Seq(AllUnits)
    BY <1>5, <2>1
  <2>3. rest \in Seq(Seq(AllUnits)) /\ Len(rest) = k
    BY <2>1, <2>2
  <2>4. \A i \in 1 .. Len(rest) : rest[i] = Undelivered[i + 1]
    BY <2>3
  <2>5. /\ FlattenSeq(rest) \in Seq(AllUnits)
        /\ FlattenSeq(Undelivered) = Undelivered[1] \o FlattenSeq(rest)
    <3> HIDE DEF k, rest
    <3>1. Len(Undelivered) = Len(rest) + 1
      BY <2>1, <2>3
    <3>2. QED
      BY <1>5, <1>6, <2>3, <2>4, <3>1, FlattenFirst
  <2>6. ASSUME NEW t \in Seq(Seq(AllUnits)), Len(Undelivered) = Len(t) + 1,
               \A i \in 1 .. Len(t) : t[i] = Undelivered[i + 1]
        PROVE  t = rest
    <3>1. Len(t) \in Nat /\ t = [i \in 1 .. Len(t) |-> t[i]]
      OBVIOUS
    <3>2. Len(t) = k
      BY <2>1, <2>6, <3>1
    <3>3. QED
      BY <2>6, <3>1, <3>2
  <2> HIDE DEF rest, k
  <2>7. Follows(FlattenSeq(rest))
    BY <2>6 DEF Follows
  <2>8. QED
    BY <1>3, <1>7, <2>5, <2>7
<1>10. HeaderNames = u[1]
  <2>1. 3 \in 0 .. size(recvBuffer)
    BY <1>2, <1>4
  <2>2. front(recvBuffer, 3) = SubSeq(u, 1, 3)
    BY <1>1, <2>1, FrontIs DEF u
  <2>3. SubSeq(u, 1, 3)[1] = u[1]
    BY <1>2, <1>4
  <2>4. HeaderNames = front(recvBuffer, 3)[1]
    BY CapacityFits DEF HeaderNames, S!SizeAt
  <2>5. QED
    BY <2>2, <2>3, <2>4
<1>11. u[1] = um[1]
  <2>1. 1 =< Len(u) /\ 1 =< Len(um) /\ Len(u) \in Nat /\ Len(um) \in Nat /\ Len(wire) \in Nat
        /\ Len(v) \in Nat
    BY <1>1, <1>2, <1>4, <1>8, <1>9
  <2>2. (u \o wire)[1] = u[1]
    BY <1>1, <1>2, <2>1, ConcatProperties
  <2>3. (um \o v)[1] = um[1]
    BY <1>8, <1>9, <2>1, ConcatProperties
  <2>4. QED
    BY <1>9, <2>2, <2>3
<1>12. QED
  BY <1>7, <1>8, <1>9, <1>10, <1>11 DEF m, um, u

\* When the loop finds a packet complete, it is the next one that was sent, whole: the
\* header at the front of the ring is its header.
LEMMA PacketAtFront ==
  ASSUME StreamInv, pc = "parse", PacketReady
  PROVE  LET m == sent[Len(delivered) + 1]
             n == HeaderSize + HeaderNames
         IN  /\ Len(delivered) < Len(sent) /\ m \in Message
             /\ HeaderNames = Len(m.payload) /\ HeaderNames \in Nat
             /\ n = Len(Units(m)) /\ n \in 0 .. size(recvBuffer)
             /\ SubSeq(Unread(recvBuffer), 1, n) = Units(m)
             /\ Follows(SubSeq(Unread(recvBuffer), n + 1, size(recvBuffer)) \o wire)
<1> DEFINE m == sent[Len(delivered) + 1]  um == Units(m)  u == Unread(recvBuffer)
           n == HeaderSize + HeaderNames
<1>1. /\ recvBuffer \in Rings(AllUnits) /\ wire \in Seq(AllUnits)
  BY DEF StreamInv, StreamTypes
<1>2. /\ u \in Seq(AllUnits) /\ Len(u) = size(recvBuffer) /\ size(recvBuffer) \in Nat
  BY <1>1, UnreadIs, Sizes
<1>3. size(recvBuffer) >= 3
  BY CapacityFits DEF PacketReady
<1>4. /\ Len(delivered) < Len(sent) /\ m \in Message
      /\ HeaderNames = Len(m.payload) /\ HeaderNames \in Nat
      /\ \E v \in Seq(AllUnits) : u \o wire = um \o v /\ Follows(v)
  BY <1>3, HeaderAtFront
<1> HIDE DEF u
<1>5. /\ um \in Seq(AllUnits) /\ Len(um) = 3 + Len(m.payload)
  BY <1>4, UnitsAre
<1> HIDE DEF m, um
<1>6. PICK v \in Seq(AllUnits) : u \o wire = um \o v /\ Follows(v)
  BY <1>4
<1>7. n = Len(um) /\ n \in 0 .. size(recvBuffer)
  <2>2. n = Len(um)
    BY <1>4, <1>5, CapacityFits
  <2>3. size(recvBuffer) >= n
    BY DEF PacketReady
  <2>4. QED
    BY <1>2, <1>4, <1>5, <2>2, <2>3
<1> HIDE DEF n
<1>8. SubSeq(u, n + 1, size(recvBuffer)) \o wire = v
  <2>1. 1 =< Len(um) /\ Len(um) =< Len(u)
    BY <1>2, <1>5, <1>7
  <2>2. /\ u \in Seq(AllUnits) /\ wire \in Seq(AllUnits) /\ um \in Seq(AllUnits)
        /\ v \in Seq(AllUnits) /\ u \o wire = um \o v
    BY <1>1, <1>2, <1>5, <1>6
  <2>3. SubSeq(u, Len(um) + 1, Len(u)) \o wire = v
    BY ZenonT(30), <2>1, <2>2, CutFirst
  <2>4. QED
    BY <1>2, <1>7, <2>3
<1>9. SubSeq(u, 1, n) = um
  <2>1. SubSeq(u, 1, n) = [i \in 1 .. n |-> u[i]]
    BY <1>2, <1>7
  <2>2. um = [i \in 1 .. n |-> um[i]]
    BY <1>5, <1>7
  <2>3. ASSUME NEW i \in 1 .. n PROVE u[i] = um[i]
    <3>1. /\ Len(u) \in Nat /\ Len(um) \in Nat /\ Len(wire) \in Nat /\ Len(v) \in Nat
          /\ i =< Len(u) /\ i =< Len(um) /\ i \in Nat /\ i >= 1
      BY <1>1, <1>2, <1>5, <1>6, <1>7
    <3>2. (u \o wire)[i] = u[i]
      BY <1>1, <1>2, <3>1, ConcatProperties
    <3>3. (um \o v)[i] = um[i]
      BY <1>5, <1>6, <3>1, ConcatProperties
    <3>4. QED
      BY <1>6, <3>2, <3>3
  <2>4. QED
    BY <2>1, <2>2, <2>3
<1>10. QED
  BY <1>4, <1>6, <1>7, <1>8, <1>9 DEF m, um, u, n

\* The packet the loop takes out of the ring is in its serializer, from the start on.
LEMMA ExtractedIs ==
  ASSUME S!CursorsInBuffer(p), HeaderNames \in Nat, HeaderSize + HeaderNames =< Capacity
  PROVE  /\ S!CursorsInBuffer(Extracted)
         /\ Extracted.headPtr = 0 /\ Extracted.tailPtr = HeaderSize + HeaderNames
         /\ Extracted.buffer =
               S!Write(S!ReserveHeader(p), 0, front(recvBuffer, HeaderSize + HeaderNames)).buffer
<1> DEFINE n == HeaderNames  a == S!ReserveHeader(p)
           data == front(recvBuffer, HeaderSize + HeaderNames)
           b == S!Write(a, 0, data)  c == S!moveRear(b, n)
<1>1. n \in Nat /\ 3 + n =< Capacity /\ n \in Int /\ n >= 0
  BY CapacityFits
<1>2. Extracted = S!moveFront(c, -3)
  BY CapacityFits DEF Extracted
<1> HIDE DEF n, data
<1>3. S!CursorsInBuffer(a) /\ a.headPtr = 3 /\ a.tailPtr = 3
  BY ReserveCursors
<1> HIDE DEF a
<1>4. S!CursorsInBuffer(b) /\ b.headPtr = 3 /\ b.tailPtr = 3
  BY <1>3, WriteCursors
<1> HIDE DEF b
<1>5. /\ S!CursorsInBuffer(c) /\ c.headPtr = 3 /\ c.buffer = b.buffer
      /\ c.tailPtr = S!Least(3 + n, Capacity)
  BY <1>1, <1>4, MoveRearCursors
<1>6. c.tailPtr = 3 + n
  BY <1>1, <1>5, CapacityFits DEF S!Least
<1> HIDE DEF c
<1>7. S!moveFront(c, -3).headPtr = 0
  BY <1>5 DEF S!moveFront, S!Greatest, S!CursorsInBuffer
<1>8. /\ S!CursorsInBuffer(S!moveFront(c, -3))
      /\ S!moveFront(c, -3).tailPtr = c.tailPtr /\ S!moveFront(c, -3).buffer = c.buffer
  BY <1>5, MoveFrontCursors
<1>9. 3 + n = HeaderSize + HeaderNames
  BY CapacityFits DEF n
<1>10. QED
  BY <1>2, <1>5, <1>6, <1>7, <1>8, <1>9 DEF a, b, data

-----------------------------------------------------------------------------
(* What is read.                                                           *)

\* A serializer that holds the units of a packet decrypts it: the checksum tells
\* whether it came through, and then the payload is there.
LEMMA Received ==
  ASSUME NEW m \in Message, NEW d, S!CursorsInBuffer(d), d.tailPtr = 3 + Len(m.payload),
         \A i \in 1 .. 3 + Len(m.payload) : d.buffer[i - 1] = Units(m)[i]
  PROVE  /\ S!ChecksOut(S!decryption(d, StaticKey)) <=> ~m.damaged
         /\ ~m.damaged => \A i \in 1 .. Len(m.payload) :
                             S!decryption(d, StaticKey).buffer[2 + i] = m.payload[i]
<1> DEFINE payload == m.payload  n == Len(payload)
<1>1. n \in Nat /\ payload \in Seq(S!Chars) /\ m.key \in S!Chars
  BY UnitsAre
<1>2. PICK s : /\ IsPacket(s, payload, m.key)
               /\ OnWire(Units(m), S!encryption(s, StaticKey).buffer, payload, m.damaged)
  BY UnitsAre
<1> DEFINE e == S!encryption(s, StaticKey)  k == m.key
<1>3. \A i \in 0 .. 2 + n : d.buffer[i] = Units(m)[i + 1]
  <2>1. \A i \in 0 .. 2 + n : i + 1 \in 1 .. 3 + n /\ (i + 1) - 1 = i
    BY <1>1
  <2>2. QED
    BY <2>1
<1>4. /\ \A i \in 0 .. 1 + n : d.buffer[i] = e.buffer[i]
      /\ d.buffer[2 + n] \in S!Chars
      /\ d.buffer[2 + n] = e.buffer[2 + n] <=> ~m.damaged
  <2>1. \A i \in 0 .. 1 + n : i \in 0 .. 2 + n
    BY <1>1
  <2>2. 2 + n \in 0 .. 2 + n /\ (2 + n) + 1 = 3 + n
    BY <1>1
  <2>3. d.buffer[2 + n] = Units(m)[3 + n]
    BY <1>3, <2>2
  <2> HIDE DEF e
  <2>4. QED
    BY <1>2, <1>3, <2>1, <2>3 DEF OnWire, e
<1> HIDE DEF payload, e, k
<1>5. /\ payload \in Seq(S!Chars) /\ k \in S!Chars /\ IsPacket(s, payload, k)
      /\ d.tailPtr = 3 + Len(payload)
  BY <1>1, <1>2 DEF k, payload
<1>6. e = S!encryption(s, StaticKey)
  BY DEF e
<1>7. /\ S!ChecksOut(S!decryption(d, StaticKey)) <=> d.buffer[2 + n] = e.buffer[2 + n]
      /\ d.buffer[2 + n] = e.buffer[2 + n] =>
            \A i \in 1 .. n : S!decryption(d, StaticKey).buffer[2 + i] = payload[i]
  BY <1>4, <1>5, <1>6, Understood
<1>8. QED
  BY <1>4, <1>7 DEF payload

\* A sequence of the cells from 3 on.
LEMMA PendingIs ==
  ASSUME NEW s, NEW payload \in Seq(S!Chars), s.headPtr = 3, s.tailPtr = 3 + Len(payload),
         \A i \in 1 .. Len(payload) : s.buffer[2 + i] = payload[i]
  PROVE  S!Pending(s) = payload
<1> DEFINE n == Len(payload)
<1>1. n \in Nat /\ payload = [i \in 1 .. n |-> payload[i]]
  OBVIOUS
<1> HIDE DEF n
<1>2. S!Pending(s) = [i \in 1 .. n |-> s.buffer[3 + i - 1]]
  BY <1>1 DEF S!Pending, S!Size, n
<1>3. \A i \in 1 .. n : s.buffer[3 + i - 1] = payload[i]
  <2>1. \A i \in 1 .. n : 3 + i - 1 = 2 + i
    BY <1>1
  <2>2. QED
    BY <2>1 DEF n
<1>4. QED
  BY <1>1, <1>2, <1>3

\* What one turn of the loop reads from the ring: the next packet that was sent.
LEMMA ParsedIs ==
  ASSUME StreamInv, pc = "parse", PacketReady
  PROVE  LET m == sent[Len(delivered) + 1]
             plain == S!decryption(S!moveFront(Extracted, S!CheckSumAt), StaticKey)
             payload == S!moveFront(plain, 1)
         IN  /\ Len(delivered) < Len(sent) /\ m \in Message
             /\ S!CursorsInBuffer(plain) /\ S!CursorsInBuffer(payload)
             /\ payload.headPtr = 3 /\ payload.tailPtr = 3 + Len(m.payload)
             /\ S!ChecksOut(plain) <=> ~m.damaged
             /\ ~m.damaged =>
                   /\ \A i \in 1 .. Len(m.payload) : payload.buffer[2 + i] = m.payload[i]
                   /\ S!Pending(payload) = m.payload
<1> DEFINE m == sent[Len(delivered) + 1]
           d == S!moveFront(Extracted, 2)
           plain == S!decryption(d, StaticKey)
           payload == S!moveFront(plain, 1)
           k == HeaderSize + HeaderNames
           units == front(recvBuffer, k)
           n == Len(m.payload)
<1>1. /\ Len(delivered) < Len(sent) /\ m \in Message /\ HeaderNames = n
      /\ k = Len(Units(m)) /\ k \in 0 .. size(recvBuffer)
      /\ SubSeq(Unread(recvBuffer), 1, k) = Units(m)
  BY PacketAtFront
<1>2. /\ n \in Nat /\ 3 + n =< Capacity /\ m.payload \in Seq(S!Chars) /\ k = 3 + n
      /\ Len(Units(m)) = 3 + n
  BY <1>1, UnitsAre, CapacityFits
<1>3. units = Units(m)
  <2>1. recvBuffer \in Rings(AllUnits)
    BY DEF StreamInv, StreamTypes
  <2> HIDE DEF k
  <2>2. QED
    BY <1>1, <2>1, FrontIs
<1>4. /\ S!CursorsInBuffer(Extracted) /\ Extracted.headPtr = 0 /\ Extracted.tailPtr = 3 + n
      /\ Extracted.buffer = S!Write(S!ReserveHeader(p), 0, units).buffer
  <2>1. S!CursorsInBuffer(p)
    BY DEF StreamInv
  <2>2. HeaderNames \in Nat /\ HeaderSize + HeaderNames =< Capacity
    BY <1>1, <1>2
  <2>3. QED
    BY <1>2, <2>1, <2>2, ExtractedIs
<1> HIDE DEF m, n, k
<1>5. \A i \in 1 .. 3 + n : Extracted.buffer[i - 1] = Units(m)[i]
  <2>1. S!CursorsInBuffer(S!ReserveHeader(p))
    BY ReserveCursors DEF StreamInv
  <2>2. \A i \in S!Units : S!Write(S!ReserveHeader(p), 0, units).buffer[i] =
                              IF i \in 0 .. 0 + Len(units) - 1 THEN units[i - 0 + 1]
                              ELSE S!ReserveHeader(p).buffer[i]
    BY <2>1, Written
  <2> HIDE DEF units
  <2>3. ASSUME NEW i \in 1 .. 3 + n PROVE Extracted.buffer[i - 1] = Units(m)[i]
    <3>1. i - 1 \in S!Units /\ i - 1 \in 0 .. 0 + (3 + n) - 1 /\ (i - 1) - 0 + 1 = i
      BY <1>2, CapacityFits DEF S!Units
    <3>2. QED
      BY <1>2, <1>3, <1>4, <2>2, <3>1
  <2>4. QED
    BY <2>3
<1>6. /\ S!CursorsInBuffer(d) /\ d.headPtr = 2 /\ d.tailPtr = 3 + n /\ d.buffer = Extracted.buffer
  <2>1. S!moveFront(Extracted, 2).headPtr = 2
    BY <1>2, <1>4 DEF S!moveFront, S!Least, S!CursorsInBuffer
  <2>2. QED
    BY <1>4, <2>1, MoveFrontCursors
<1> HIDE DEF d
<1>7. S!CursorsInBuffer(plain) /\ plain.headPtr = 2 /\ plain.tailPtr = 3 + n
  BY <1>6, DecryptionCursors
<1>8. /\ S!ChecksOut(plain) <=> ~m.damaged
      /\ ~m.damaged => \A i \in 1 .. n : plain.buffer[2 + i] = m.payload[i]
  BY <1>1, <1>5, <1>6, Received DEF n
<1> HIDE DEF plain
<1>9. /\ S!CursorsInBuffer(payload) /\ payload.headPtr = 3 /\ payload.tailPtr = 3 + n
      /\ payload.buffer = plain.buffer
  <2>1. S!moveFront(plain, 1).headPtr = 3
    BY <1>2, <1>7 DEF S!moveFront, S!Least, S!CursorsInBuffer
  <2>2. QED
    BY <1>7, <2>1, MoveFrontCursors
<1> HIDE DEF payload
<1>10. ASSUME ~m.damaged
       PROVE  /\ \A i \in 1 .. n : payload.buffer[2 + i] = m.payload[i]
              /\ S!Pending(payload) = m.payload
  <2>1. \A i \in 1 .. n : payload.buffer[2 + i] = m.payload[i]
    BY <1>8, <1>9, <1>10
  <2>2. QED
    BY <1>2, <1>9, <2>1, PendingIs DEF n
<1>11. S!CheckSumAt = 2
  BY DEF S!CheckSumAt
<1>12. QED
  BY <1>1, <1>7, <1>8, <1>9, <1>10, <1>11 DEF m, n, d, plain, payload

\* The answer is built in its serializer: three units behind the header always fit.
LEMMA AnswerCursors ==
  ASSUME NEW account, S!CursorsInBuffer(response), Answer(account)
  PROVE  S!CursorsInBuffer(response')
<1> DEFINE a == S!ReserveHeader(response)  type == S!Put(a, AnswerType)
           b == S!Put(type, account)  body == S!Put(b, 1)
<1>1. PICK key \in RandKeys : response' = S!encryption(S!setHeader(body, key), StaticKey)
  BY DEF Answer
<1>2. S!CursorsInBuffer(a) /\ a.headPtr = 3 /\ a.tailPtr = 3
  BY ReserveCursors
<1> HIDE DEF a
<1>3. S!CursorsInBuffer(type) /\ type.headPtr = 3 /\ type.tailPtr = 4
  <2>1. a.tailPtr < Capacity /\ a.tailPtr + 1 = 4
    BY <1>2, CapacityFits
  <2>2. QED
    BY <1>2, <2>1, PutCursors
<1> HIDE DEF type
<1>4. S!CursorsInBuffer(b) /\ b.headPtr = 3 /\ b.tailPtr = 5
  <2>1. type.tailPtr < Capacity /\ type.tailPtr + 1 = 5
    BY <1>3, CapacityFits
  <2>2. QED
    BY <1>3, <2>1, PutCursors
<1> HIDE DEF b
<1>5. S!CursorsInBuffer(body) /\ body.headPtr = 3
  <2>1. b.tailPtr < Capacity
    BY <1>4, CapacityFits
  <2>2. QED
    BY <1>4, <2>1, PutCursors
<1> HIDE DEF body
<1>6. S!CursorsInBuffer(S!setHeader(body, key))
  BY <1>5, SetHeaderCursors
<1>7. QED
  BY <1>1, <1>6, EncryptionCursors

\* An answer to the packet under way is added, and the client reads it: the type, the
\* account and the result.
LEMMA AnswerReads ==
  ASSUME NEW account, S!CursorsInBuffer(response), Answer(account)
  PROVE  \E units : /\ answers' = Append(answers, [units |-> units, to |-> Len(delivered) + 1])
                    /\ account \in S!Chars => Reads(units, <<AnswerType, account, 1>>)
<1> DEFINE a == S!ReserveHeader(response)  type == S!Put(a, AnswerType)
           b == S!Put(type, account)  body == S!Put(b, 1)
<1>1. PICK key \in RandKeys :
         LET r == S!encryption(S!setHeader(body, key), StaticKey)
         IN  answers' = Append(answers, [units |-> S!Pending(r), to |-> Len(delivered) + 1])
  BY DEF Answer
<1> DEFINE packet == S!setHeader(body, key)
           r == S!encryption(packet, StaticKey)
           units == S!Pending(r)
<1>2. SUFFICES ASSUME account \in S!Chars
               PROVE  Reads(units, <<AnswerType, account, 1>>)
  BY <1>1
<1> DEFINE payload == <<AnswerType, account, 1>>
<1>3. /\ payload \in Seq(S!Chars) /\ Len(payload) = 3
      /\ payload[1] = AnswerType /\ payload[2] = account /\ payload[3] = 1
      /\ key \in S!Chars
  <2>1. AnswerType \in S!Chars /\ 1 \in S!Chars /\ key \in S!Chars
    BY PacketPathAssumption, CapacityFits DEF S!Chars
  <2>2. QED
    BY <1>2, <2>1
<1>4. S!CursorsInBuffer(a) /\ a.headPtr = 3 /\ a.tailPtr = 3
  BY ReserveCursors
<1> HIDE DEF a
<1>5. S!CursorsInBuffer(type) /\ type.headPtr = 3 /\ type.tailPtr = 4
      /\ type.buffer[3] = AnswerType
  <2>1. a.tailPtr < Capacity /\ a.tailPtr + 1 = 4
    BY <1>4, CapacityFits
  <2>2. QED
    BY <1>4, <2>1, PutCursors
<1> HIDE DEF type
<1>6. S!CursorsInBuffer(b) /\ b.headPtr = 3 /\ b.tailPtr = 5
      /\ b.buffer[3] = AnswerType /\ b.buffer[4] = account
  <2>1. type.tailPtr < Capacity /\ type.tailPtr + 1 = 5 /\ 3 \in 0 .. type.tailPtr - 1
    BY <1>5, CapacityFits
  <2>2. QED
    BY <1>5, <2>1, PutCursors
<1> HIDE DEF b
<1>7. S!CursorsInBuffer(body) /\ body.headPtr = 3 /\ body.tailPtr = 6
      /\ body.buffer[3] = AnswerType /\ body.buffer[4] = account /\ body.buffer[5] = 1
  <2>1. /\ b.tailPtr < Capacity /\ b.tailPtr + 1 = 6
        /\ 3 \in 0 .. b.tailPtr - 1 /\ 4 \in 0 .. b.tailPtr - 1
    BY <1>6, CapacityFits
  <2>2. QED
    BY <1>6, <2>1, PutCursors
<1> HIDE DEF body, payload
<1>8. \A i \in 1 .. Len(payload) : body.buffer[2 + i] = payload[i]
  <2>1. ASSUME NEW i \in 1 .. 3 PROVE body.buffer[2 + i] = payload[i]
    <3>1. i = 1 \/ i = 2 \/ i = 3
      OBVIOUS
    <3>2. CASE i = 1
      <4>1. 2 + i = 3
        BY <3>2
      <4>2. QED
        BY <1>3, <1>7, <3>2, <4>1
    <3>3. CASE i = 2
      <4>1. 2 + i = 4
        BY <3>3
      <4>2. QED
        BY <1>3, <1>7, <3>3, <4>1
    <3>4. CASE i = 3
      <4>1. 2 + i = 5
        BY <3>4
      <4>2. QED
        BY <1>3, <1>7, <3>4, <4>1
    <3>5. QED
      BY <3>1, <3>2, <3>3, <3>4
  <2>2. QED
    BY <1>3, <2>1
<1>9. IsPacket(packet, payload, key)
  <2>1. body.tailPtr = 3 + Len(payload)
    BY <1>3, <1>7
  <2>2. QED
    BY <1>3, <1>7, <1>8, <2>1, Built
<1> HIDE DEF packet
<1>10. /\ S!CursorsInBuffer(r) /\ r.headPtr = 0 /\ r.tailPtr = 6
       /\ r.buffer[5] \in S!Chars
  <2>1. S!CursorsInBuffer(packet) /\ packet.headPtr = 0 /\ packet.tailPtr = 6
    BY <1>3, <1>9 DEF IsPacket
  <2>2. PICK t, pP, pE : Chains(t, pP, pE, payload, key, r.buffer)
    BY <1>3, <1>9, Ciphered
  <2>3. 3 \in 0 .. 3 /\ 3 \in -1 .. 3 /\ 2 + 3 = 5
    OBVIOUS
  <2>4. r.buffer[5] \in S!Chars
    BY <1>3, <2>2, <2>3 DEF Chains
  <2>5. QED
    BY <2>1, <2>4, EncryptionCursors
<1>11. r = S!encryption(packet, StaticKey)
  OBVIOUS
<1> HIDE DEF r
<1>12. units = [i \in 1 .. 6 |-> r.buffer[i - 1]] /\ Len(units) = 6
       /\ \A i \in 1 .. 6 : units[i] = r.buffer[i - 1]
  <2>1. units = [i \in 1 .. 6 |-> r.buffer[0 + i - 1]]
    BY <1>10 DEF S!Pending, S!Size
  <2>2. \A i \in 1 .. 6 : 0 + i - 1 = i - 1
    OBVIOUS
  <2> HIDE DEF units
  <2>3. units = [i \in 1 .. 6 |-> r.buffer[i - 1]]
    BY <2>1, <2>2
  <2>4. QED
    BY <2>3
<1> HIDE DEF units
<1> DEFINE d == S!push(S!NewSerializer, units)  plain == S!decryption(d, StaticKey)
<1>13. /\ S!CursorsInBuffer(d) /\ d.headPtr = 0 /\ d.tailPtr = 6
       /\ \A i \in 0 .. 5 : d.buffer[i] = r.buffer[i]
  <2> DEFINE s == S!NewSerializer
  <2>1. S!CursorsInBuffer(s) /\ s.headPtr = 0 /\ s.tailPtr = 0
    BY NewCursors DEF S!NewSerializer
  <2> HIDE DEF s
  <2>2. Len(units) \in Nat /\ s.tailPtr + Len(units) =< Capacity
    BY <1>12, <2>1, CapacityFits
  <2>3. /\ S!CursorsInBuffer(S!push(s, units)) /\ S!push(s, units).headPtr = 0
        /\ S!push(s, units).tailPtr = 6
    <3>1. /\ S!CursorsInBuffer(S!push(s, units)) /\ S!push(s, units).headPtr = s.headPtr
          /\ S!push(s, units).tailPtr = s.tailPtr + Len(units)
      BY <2>1, <2>2, PushCursors
    <3>2. QED
      BY <1>12, <2>1, <3>1
  <2>4. \A i \in 1 .. 6 : S!push(s, units).buffer[0 + i - 1] = units[i]
    <3>1. \A i \in 1 .. Len(units) : S!push(s, units).buffer[s.tailPtr + i - 1] = units[i]
      BY <2>1, <2>2, Pushed
    <3>2. QED
      BY <1>12, <2>1, <3>1
  <2>5. \A i \in 0 .. 5 : i + 1 \in 1 .. 6 /\ 0 + (i + 1) - 1 = i /\ (i + 1) - 1 = i
    OBVIOUS
  <2>6. \A i \in 0 .. 5 : S!push(s, units).buffer[i] = r.buffer[i]
    BY <1>12, <2>4, <2>5
  <2>7. QED
    BY <2>3, <2>6 DEF s
<1> HIDE DEF d
<1>14. /\ S!ChecksOut(plain)
       /\ \A i \in 1 .. Len(payload) : plain.buffer[2 + i] = payload[i]
  <2>1. /\ d.tailPtr = 3 + Len(payload) /\ 1 + Len(payload) = 4 /\ 2 + Len(payload) = 5
    BY <1>3, <1>13
  <2>2. \A i \in 0 .. 4 : i \in 0 .. 5
    OBVIOUS
  <2>3. 5 \in 0 .. 5
    OBVIOUS
  <2>4. \A i \in 0 .. 1 + Len(payload) : d.buffer[i] = r.buffer[i]
    BY <1>13, <2>1, <2>2
  <2>5. d.buffer[2 + Len(payload)] = r.buffer[2 + Len(payload)]
        /\ d.buffer[2 + Len(payload)] \in S!Chars
    BY <1>10, <1>13, <2>1, <2>3
  <2>6. /\ S!ChecksOut(S!decryption(d, StaticKey))
           <=> d.buffer[2 + Len(payload)] = r.buffer[2 + Len(payload)]
        /\ d.buffer[2 + Len(payload)] = r.buffer[2 + Len(payload)] =>
              \A i \in 1 .. Len(payload) : S!decryption(d, StaticKey).buffer[2 + i] = payload[i]
    <3>1. /\ payload \in Seq(S!Chars) /\ key \in S!Chars /\ IsPacket(packet, payload, key)
          /\ S!CursorsInBuffer(d) /\ d.tailPtr = 3 + Len(payload)
          /\ d.buffer[2 + Len(payload)] \in S!Chars
      BY <1>3, <1>9, <1>13, <2>1, <2>5
    <3> HIDE DEF plain
    <3>2. QED
      BY <1>11, <2>4, <3>1, Understood
  <2>7. QED
    BY <2>5, <2>6
<1>15. /\ S!CursorsInBuffer(plain) /\ plain.headPtr = 0 /\ plain.tailPtr = 6
  BY <1>13, DecryptionCursors
<1> HIDE DEF plain
<1> DEFINE body2 == S!moveFront(plain, 3)
<1>16. body2.headPtr = 3 /\ body2.tailPtr = 6 /\ body2.buffer = plain.buffer
  <2>1. S!moveFront(plain, 3).headPtr = 3
    BY <1>15 DEF S!moveFront, S!Least, S!CursorsInBuffer
  <2>2. QED
    BY SMTT(30), <1>15, <2>1, MoveFrontCursors
<1> HIDE DEF body2
<1>17. S!Pending(body2) = payload
  <2>1. \A i \in 1 .. Len(payload) : body2.buffer[2 + i] = payload[i]
    BY <1>14, <1>16
  <2>2. payload \in Seq(S!Chars) /\ body2.headPtr = 3 /\ body2.tailPtr = 3 + Len(payload)
    BY <1>3, <1>16
  <2>3. QED
    BY <2>1, <2>2, PendingIs
<1>18. QED
  BY <1>14, <1>17, CapacityFits DEF Reads, d, plain, body2, payload

\* The account OnRecv reads from a payload of two units or more, and the type from one.
LEMMA PayloadReads ==
  ASSUME NEW s, S!CursorsInBuffer(s), s.headPtr = 3, NEW payload \in Seq(S!Chars),
         s.tailPtr = 3 + Len(payload),
         \A i \in 1 .. Len(payload) : s.buffer[2 + i] = payload[i]
  PROVE  /\ Len(payload) >= 1 => S!Get(s).value = payload[1]
         /\ Len(payload) >= 2 => S!Get(S!Get(s).rest).value = payload[2]
<1>1. Len(payload) \in Nat
  OBVIOUS
<1>2. S!Get(s).value = s.buffer[3] /\ S!Get(s).rest = S!moveFront(s, 1)
  BY DEF S!Get
<1>3. ASSUME Len(payload) >= 1 PROVE S!Get(s).value = payload[1]
  <2>1. 1 \in 1 .. Len(payload) /\ 2 + 1 = 3
    BY <1>1, <1>3
  <2>2. QED
    BY <1>2, <2>1
<1>4. ASSUME Len(payload) >= 2 PROVE S!Get(S!Get(s).rest).value = payload[2]
  <2>1. S!moveFront(s, 1).headPtr = 4
    BY <1>1, <1>4 DEF S!moveFront, S!Least, S!CursorsInBuffer
  <2>2. S!moveFront(s, 1).buffer = s.buffer
    BY MoveFrontCursors
  <2> DEFINE r == S!moveFront(s, 1)
  <2> HIDE DEF r
  <2>3. S!Get(r).value = r.buffer[r.headPtr]
    BY DEF S!Get
  <2>4. 2 \in 1 .. Len(payload) /\ 2 + 2 = 4
    BY <1>1, <1>4
  <2>5. QED
    BY <1>2, <2>1, <2>2, <2>3, <2>4 DEF r
<1>5. QED
  BY <1>3, <1>4

\* A sequence with one more element is a sequence of what it holds.
LEMMA AppendRange ==
  ASSUME NEW d, d \in Seq(Range(d)), NEW x
  PROVE  /\ Append(d, x) \in Seq(Range(Append(d, x))) /\ Len(Append(d, x)) = Len(d) + 1
         /\ Len(d) \in Nat /\ DOMAIN d = 1 .. Len(d) /\ DOMAIN Append(d, x) = 1 .. Len(d) + 1
         /\ Append(d, x)[Len(d) + 1] = x /\ \A i \in 1 .. Len(d) : Append(d, x)[i] = d[i]
<1> DEFINE E == Range(d) \cup {x}  e == Append(d, x)
<1>1. d \in Seq(E)
  <2>1. Len(d) \in Nat /\ d = [i \in 1 .. Len(d) |-> d[i]] /\ \A i \in 1 .. Len(d) : d[i] \in Range(d)
    OBVIOUS
  <2>2. QED
    BY <2>1
<1>2. /\ e \in Seq(E) /\ Len(e) = Len(d) + 1 /\ Len(d) \in Nat /\ DOMAIN d = 1 .. Len(d)
      /\ e[Len(d) + 1] = x /\ \A i \in 1 .. Len(d) : e[i] = d[i]
  <2> HIDE DEF E
  <2>1. x \in E
    BY DEF E
  <2>2. QED
    BY <1>1, <2>1, AppendProperties
<1> HIDE DEF e, E
<1>3. Len(e) \in Nat /\ e = [i \in 1 .. Len(e) |-> e[i]] /\ DOMAIN e = 1 .. Len(e)
  BY <1>2
<1>4. \A i \in 1 .. Len(e) : e[i] \in Range(e)
  BY <1>3 DEF Range
<1>5. e \in Seq(Range(e))
  BY <1>3, <1>4
<1>6. QED
  BY <1>2, <1>3, <1>5 DEF e

\* One turn of the loop: the packet leaves the ring, and the others follow.
LEMMA ParseInv ==
  ASSUME StreamInv, Parse
  PROVE  StreamInv'
<1> DEFINE n == HeaderSize + HeaderNames
           packet == Extracted
           plain == S!decryption(S!moveFront(packet, S!CheckSumAt), StaticKey)
           payload == S!moveFront(plain, 1)
           got == [good |-> S!ChecksOut(plain), payload |-> S!Pending(payload)]
<1>1. /\ pc = "parse" /\ PacketReady /\ pc' = pc
      /\ recvBuffer' = pop(recvBuffer, n) /\ delivered' = Append(delivered, got)
      /\ bufs' = bufs /\ transfer' = transfer /\ wire' = wire /\ sent' = sent
      /\ IF S!ChecksOut(plain) THEN OnRecv(payload)
         ELSE closing' = TRUE /\ p' = plain /\ UNCHANGED <<response, answers>>
  BY DEF Parse
<1> DEFINE m == sent[Len(delivered) + 1]
<1>2. /\ Len(delivered) < Len(sent) /\ m \in Message
      /\ HeaderNames = Len(m.payload) /\ HeaderNames \in Nat /\ n \in 0 .. size(recvBuffer)
      /\ Follows(SubSeq(Unread(recvBuffer), n + 1, size(recvBuffer)) \o wire)
  BY <1>1, PacketAtFront
<1> HIDE DEF n, packet, plain, payload, got, m
<1>3. /\ recvBuffer \in Rings(AllUnits) /\ wire \in Seq(AllUnits)
      /\ Len(sent) \in Nat /\ Len(delivered) \in Nat
      /\ S!CursorsInBuffer(p) /\ S!CursorsInBuffer(response)
  BY UndeliveredIs DEF StreamInv, StreamTypes
<1>4. /\ recvBuffer' \in Rings(AllUnits)
      /\ Unread(recvBuffer') = SubSeq(Unread(recvBuffer), n + 1, size(recvBuffer))
  BY <1>1, <1>2, <1>3, PopIs
<1>5. delivered' \in Seq(Range(delivered')) /\ Len(delivered') = Len(delivered) + 1
  BY <1>1, AppendRange DEF StreamInv, StreamTypes
<1>6. S!CursorsInBuffer(plain) /\ S!CursorsInBuffer(payload)
  <2>1. HeaderSize + HeaderNames =< Capacity
    <3>1. m.payload \in Payloads
      BY <1>2 DEF Message
    <3>2. QED
      BY <1>2, <3>1, PacketPathAssumption
  <2>2. S!CursorsInBuffer(packet)
    BY <1>2, <1>3, <2>1, ExtractedIs DEF packet
  <2>3. S!CursorsInBuffer(S!moveFront(packet, 2))
    BY <2>2, MoveFrontCursors
  <2>4. S!CursorsInBuffer(plain)
    BY <2>3, DecryptionCursors DEF plain, S!CheckSumAt
  <2>5. QED
    BY <2>4, MoveFrontCursors DEF payload
<1>7. S!CursorsInBuffer(p') /\ S!CursorsInBuffer(response') /\ closing' \in BOOLEAN
  <2>0. closing \in BOOLEAN
    BY DEF StreamInv, StreamTypes
  <2>1. CASE ~S!ChecksOut(plain)
    BY <1>1, <1>3, <1>6, <2>1
  <2>2. CASE S!ChecksOut(plain)
    <3> DEFINE type == S!Get(payload)  accountNo == S!Get(type.rest)
    <3>1. S!CursorsInBuffer(type.rest)
      BY <1>6, GetCursors
    <3>2. S!CursorsInBuffer(accountNo.rest)
      BY <3>1, GetCursors
    <3>3. IF type.value = LoginType
          THEN Answer(accountNo.value) /\ p' = accountNo.rest /\ UNCHANGED closing
          ELSE closing' = TRUE /\ p' = type.rest /\ UNCHANGED <<response, answers>>
      BY <1>1, <2>2 DEF OnRecv
    <3> HIDE DEF type, accountNo
    <3>4. QED
      BY <1>3, <2>0, <3>1, <3>2, <3>3, AnswerCursors
  <2>3. QED
    BY <2>1, <2>2
<1>8. StreamTypes'
  <2>1. Len(delivered') =< Len(sent')
    BY <1>1, <1>2, <1>3, <1>5
  <2>2. QED
    BY <1>1, <1>4, <1>5, <1>7, <2>1 DEF StreamInv, StreamTypes
<1>9. ReceivesFit'
  BY <1>1 DEF StreamInv, ReceivesFit
<1>10. StreamInOrder'
  <2>1. /\ Undelivered \in Seq(Seq(AllUnits))
        /\ Len(Undelivered) = Len(sent) - Len(delivered)
        /\ \A i \in 1 .. Len(Undelivered) : Undelivered[i] = Units(sent[Len(delivered) + i])
    BY UndeliveredIs DEF StreamInv
  <2> DEFINE k == Len(sent) - Len(delivered) - 1  rest == Undelivered'
  <2>2. k \in Nat /\ Len(Undelivered) = k + 1
    BY <1>2, <1>3, <2>1
  <2>3. rest = [i \in 1 .. k |-> Units(sent[Len(delivered) + 1 + i])]
    <3>1. Len(sent') - Len(delivered') = k
      BY <1>1, <1>3, <1>5
    <3>2. rest = [i \in 1 .. Len(sent') - Len(delivered') |-> Units(sent'[Len(delivered') + i])]
      BY DEF Undelivered
    <3>3. QED
      BY <1>1, <1>5, <3>1, <3>2
  <2>4. ASSUME NEW i \in 1 .. k PROVE rest[i] = Undelivered[i + 1]
    <3>1. i + 1 \in 1 .. Len(Undelivered) /\ Len(delivered) + (i + 1) = Len(delivered) + 1 + i
      BY <1>3, <2>2
    <3>2. rest[i] = Units(sent[Len(delivered) + 1 + i])
      BY <2>3
    <3>3. Undelivered[i + 1] = Units(sent[Len(delivered) + (i + 1)])
      BY <2>1, <3>1
    <3>4. QED
      BY <3>1, <3>2, <3>3
  <2>5. rest = [i \in 1 .. k |-> rest[i]]
    BY <2>3
  <2> HIDE DEF rest, k
  <2>6. \A i \in 1 .. k : Undelivered[i + 1] \in Seq(AllUnits)
    BY <2>1, <2>2
  <2>7. rest \in Seq(Seq(AllUnits)) /\ Len(rest) = k
    BY <2>2, <2>4, <2>5, <2>6
  <2>8. Unread(recvBuffer') \o wire' = FlattenSeq(rest)
    BY <1>1, <1>2, <1>4, <2>2, <2>4, <2>7 DEF Follows
  <2>9. Arrived' = <<>>
    BY <1>1, BehindNone DEF Arrived
  <2>10. Unread(recvBuffer') \o <<>> = Unread(recvBuffer')
    <3>1. Unread(recvBuffer') \in Seq(AllUnits)
      BY <1>4, UnreadIs
    <3>2. QED
      BY <3>1, ConcatEmptySeq
  <2>11. QED
    BY <2>8, <2>9, <2>10 DEF StreamInOrder, rest
<1>11. QED
  BY <1>7, <1>8, <1>9, <1>10 DEF StreamInv

-----------------------------------------------------------------------------
(* What is read, step by step.                                             *)

\* One turn of the loop gives OnRecv the packet that was sent.
LEMMA ParseIntact ==
  ASSUME ContentInv, Parse
  PROVE  PacketsIntact'
<1> DEFINE m == sent[Len(delivered) + 1]
           plain == S!decryption(S!moveFront(Extracted, S!CheckSumAt), StaticKey)
           payload == S!moveFront(plain, 1)
           got == [good |-> S!ChecksOut(plain), payload |-> S!Pending(payload)]
<1>1. /\ pc = "parse" /\ PacketReady /\ sent' = sent /\ delivered' = Append(delivered, got)
  BY DEF Parse
<1>2. /\ Len(delivered) < Len(sent) /\ m \in Message
      /\ S!ChecksOut(plain) <=> ~m.damaged
      /\ ~m.damaged => S!Pending(payload) = m.payload
  BY <1>1, ParsedIs DEF ContentInv
<1>3. got.good = ~m.damaged /\ (got.good => got.payload = m.payload)
  <2>1. got.good = S!ChecksOut(plain) /\ got.payload = S!Pending(payload)
    OBVIOUS
  <2>2. m.damaged \in BOOLEAN
    BY <1>2 DEF Message
  <2>3. S!ChecksOut(plain) = ~m.damaged
    BY <1>2, <2>2 DEF S!ChecksOut
  <2> HIDE DEF got
  <2>4. QED
    BY <1>2, <2>1, <2>3
<1> HIDE DEF got, plain, payload
<1>4. /\ delivered \in Seq(Range(delivered)) /\ Len(sent) \in Nat
  BY UndeliveredIs DEF ContentInv, StreamInv, StreamTypes
<1>5. /\ Len(delivered') = Len(delivered) + 1 /\ Len(delivered) \in Nat
      /\ DOMAIN delivered = 1 .. Len(delivered) /\ DOMAIN delivered' = 1 .. Len(delivered) + 1
      /\ delivered'[Len(delivered) + 1] = got
      /\ \A i \in 1 .. Len(delivered) : delivered'[i] = delivered[i]
  BY <1>1, <1>4, AppendRange
<1>6. Len(delivered') =< Len(sent')
  BY <1>1, <1>2, <1>4, <1>5
<1>7. ASSUME NEW i \in DOMAIN delivered'
      PROVE  /\ delivered'[i].good = ~sent'[i].damaged
             /\ delivered'[i].good => delivered'[i].payload = sent'[i].payload
  <2>1. CASE i = Len(delivered) + 1
    BY <1>1, <1>3, <1>5, <2>1
  <2>2. CASE i # Len(delivered) + 1
    <3>1. i \in 1 .. Len(delivered)
      BY <1>5, <2>2
    <3>2. QED
      BY <1>1, <1>5, <3>1 DEF ContentInv, PacketsIntact
  <2>3. QED
    BY <2>1, <2>2
<1>8. QED
  BY <1>6, <1>7 DEF PacketsIntact

\* What it adds to the answers: nothing, or one to this packet, which a login that came
\* through reads.
LEMMA ParseAnswers ==
  ASSUME ContentInv, Parse
  PROVE  LET plain == S!decryption(S!moveFront(Extracted, S!CheckSumAt), StaticKey)
             got == S!Pending(S!moveFront(plain, 1))
         IN  /\ delivered' = Append(delivered, [good |-> S!ChecksOut(plain), payload |-> got])
             /\ \/ /\ answers' = answers
                   /\ ~(S!ChecksOut(plain) /\ Len(got) >= 1 /\ got[1] = LoginType)
                \/ \E units :
                      /\ answers' = Append(answers, [units |-> units, to |-> Len(delivered) + 1])
                      /\ S!ChecksOut(plain) /\ (Len(got) >= 1 => got[1] = LoginType)
                      /\ Len(got) >= 2 => Reads(units, <<AnswerType, got[2], 1>>)
<1> DEFINE m == sent[Len(delivered) + 1]
           plain == S!decryption(S!moveFront(Extracted, S!CheckSumAt), StaticKey)
           payload == S!moveFront(plain, 1)
           got == S!Pending(payload)
           type == S!Get(payload)  accountNo == S!Get(type.rest)
<1>1. /\ pc = "parse" /\ PacketReady
      /\ delivered' = Append(delivered, [good |-> S!ChecksOut(plain), payload |-> got])
      /\ IF S!ChecksOut(plain) THEN OnRecv(payload)
         ELSE closing' = TRUE /\ p' = plain /\ UNCHANGED <<response, answers>>
  BY DEF Parse
<1>2. CASE ~S!ChecksOut(plain)
  BY <1>1, <1>2
<1>3. CASE S!ChecksOut(plain)
  <2>1. /\ m \in Message /\ S!CursorsInBuffer(payload)
        /\ payload.headPtr = 3 /\ payload.tailPtr = 3 + Len(m.payload)
        /\ \A i \in 1 .. Len(m.payload) : payload.buffer[2 + i] = m.payload[i]
        /\ got = m.payload
    BY <1>1, <1>3, ParsedIs DEF ContentInv
  <2>2. m.payload \in Seq(S!Chars) /\ Len(m.payload) \in Nat
    BY <2>1, UnitsAre
  <2>3. OnRecv(payload)
    BY <1>1, <1>3
  <2> HIDE DEF payload, got, m
  <2>4. IF type.value = LoginType
        THEN Answer(accountNo.value) /\ p' = accountNo.rest /\ UNCHANGED closing
        ELSE closing' = TRUE /\ p' = type.rest /\ UNCHANGED <<response, answers>>
    BY <2>3 DEF OnRecv
  <2>5. /\ Len(got) >= 1 => type.value = got[1]
        /\ Len(got) >= 2 => accountNo.value = got[2]
    BY <2>1, <2>2, PayloadReads
  <2> HIDE DEF type, accountNo, plain
  <2>6. CASE type.value = LoginType
    <3>1. Answer(accountNo.value) /\ S!CursorsInBuffer(response)
      BY <2>4, <2>6 DEF ContentInv, StreamInv
    <3>2. PICK units :
             /\ answers' = Append(answers, [units |-> units, to |-> Len(delivered) + 1])
             /\ accountNo.value \in S!Chars => Reads(units, <<AnswerType, accountNo.value, 1>>)
      BY <3>1, AnswerReads
    <3>3. ASSUME Len(got) >= 2 PROVE Reads(units, <<AnswerType, got[2], 1>>)
      <4>1. accountNo.value = got[2]
        BY <2>5, <3>3
      <4>2. got[2] \in S!Chars
        BY <2>1, <2>2, <3>3
      <4>3. QED
        BY <3>2, <4>1, <4>2
    <3>4. Len(got) >= 1 => got[1] = LoginType
      BY <2>5, <2>6
    <3>5. QED
      BY <1>1, <1>3, <3>2, <3>3, <3>4 DEF got, payload, plain
  <2>7. CASE type.value # LoginType
    <3>1. answers' = answers
      BY <2>4, <2>7
    <3>2. ~(Len(got) >= 1 /\ got[1] = LoginType)
      BY <2>5, <2>7
    <3>3. QED
      BY <1>1, <3>1, <3>2 DEF got, payload, plain
  <2>8. QED
    BY <2>6, <2>7
<1>4. QED
  BY <1>2, <1>3

\* So every answer stays with its packet, and this one has its own.
LEMMA ParseAnswered ==
  ASSUME ContentInv, Parse
  PROVE  AnswersFollow' /\ AnswersAreTheirs'
<1> DEFINE plain == S!decryption(S!moveFront(Extracted, S!CheckSumAt), StaticKey)
           good == S!ChecksOut(plain)
           got == S!Pending(S!moveFront(plain, 1))
<1>1. PICK new : new = Len(delivered) + 1
  OBVIOUS
<1>2. /\ delivered' = Append(delivered, [good |-> good, payload |-> got])
      /\ \/ answers' = answers /\ ~(good /\ Len(got) >= 1 /\ got[1] = LoginType)
         \/ \E units :
               /\ answers' = Append(answers, [units |-> units, to |-> new])
               /\ good /\ (Len(got) >= 1 => got[1] = LoginType)
               /\ Len(got) >= 2 => Reads(units, <<AnswerType, got[2], 1>>)
  BY <1>1, ParseAnswers
<1> HIDE DEF plain, good, got
<1>3. /\ delivered \in Seq(Range(delivered))
      /\ answers \in Seq(Range(answers))
      /\ \A n \in DOMAIN answers : answers[n].to \in 1 .. Len(delivered)
  BY DEF ContentInv, StreamInv, StreamTypes, AnswersFollow
<1>4. /\ Len(delivered') = new /\ Len(delivered) \in Nat
      /\ DOMAIN delivered = 1 .. Len(delivered) /\ DOMAIN delivered' = 1 .. new
      /\ delivered'[new] = [good |-> good, payload |-> got]
      /\ \A i \in 1 .. Len(delivered) : delivered'[i] = delivered[i]
  BY <1>1, <1>2, <1>3, AppendRange
<1>5. \A n \in DOMAIN answers : answers[n].to # new /\ answers[n].to \in 1 .. new
  BY <1>1, <1>3, <1>4
<1> DEFINE Holds(i) == LET a == delivered'[i].payload
                       IN  IF delivered'[i].good /\ Len(a) >= 1 /\ a[1] = LoginType
                           THEN Len(a) >= 2 =>
                                   \E n \in DOMAIN answers' :
                                       /\ AnswersTo(i)' = {n}
                                       /\ Reads(answers'[n].units, <<AnswerType, a[2], 1>>)
                           ELSE (~delivered'[i].good \/ Len(a) >= 1) => AnswersTo(i)' = {}
<1>6. SUFFICES AnswersFollow' /\ \A i \in DOMAIN delivered' : Holds(i)
  BY DEF AnswersAreTheirs
<1>7. ASSUME NEW i \in 1 .. Len(delivered),
             AnswersTo(i)' = AnswersTo(i), DOMAIN answers \subseteq DOMAIN answers',
             \A n \in DOMAIN answers : answers'[n] = answers[n]
      PROVE  Holds(i)
  <2>1. delivered'[i] = delivered[i] /\ i \in DOMAIN delivered
    BY <1>4
  <2>2. LET a == delivered[i].payload
        IN  IF delivered[i].good /\ Len(a) >= 1 /\ a[1] = LoginType
            THEN Len(a) >= 2 =>
                    \E n \in DOMAIN answers :
                        /\ AnswersTo(i) = {n}
                        /\ Reads(answers[n].units, <<AnswerType, a[2], 1>>)
            ELSE (~delivered[i].good \/ Len(a) >= 1) => AnswersTo(i) = {}
    BY <2>1 DEF ContentInv, AnswersAreTheirs
  <2>3. QED
    BY <1>7, <2>1, <2>2
<1>8. CASE answers' = answers /\ ~(good /\ Len(got) >= 1 /\ got[1] = LoginType)
  <2>1. AnswersFollow'
    BY <1>3, <1>4, <1>5, <1>8 DEF AnswersFollow
  <2>2. \A i : AnswersTo(i)' = AnswersTo(i)
    BY <1>8 DEF AnswersTo
  <2>3. \A i \in 1 .. Len(delivered) : Holds(i)
    <3> HIDE DEF Holds
    <3>1. QED
      BY <1>7, <1>8, <2>2
  <2>4. AnswersTo(new)' = {}
    <3>1. AnswersTo(new) = {}
      BY <1>5 DEF AnswersTo
    <3>2. QED
      BY <2>2, <3>1
  <2>5. Holds(new)
    BY <1>4, <1>8, <2>4
  <2> HIDE DEF Holds
  <2>6. \A i \in DOMAIN delivered' : i = new \/ i \in 1 .. Len(delivered)
    BY <1>1, <1>4
  <2>7. QED
    BY <2>1, <2>3, <2>5, <2>6
<1>9. ASSUME NEW units, answers' = Append(answers, [units |-> units, to |-> new]),
             good, Len(got) >= 1 => got[1] = LoginType,
             Len(got) >= 2 => Reads(units, <<AnswerType, got[2], 1>>)
      PROVE  AnswersFollow' /\ \A i \in DOMAIN delivered' : Holds(i)
  <2> DEFINE k == Len(answers) + 1
  <2>1. /\ answers' \in Seq(Range(answers')) /\ Len(answers) \in Nat
        /\ DOMAIN answers = 1 .. Len(answers) /\ DOMAIN answers' = 1 .. k
        /\ answers'[k] = [units |-> units, to |-> new]
        /\ \A n \in 1 .. Len(answers) : answers'[n] = answers[n]
    BY <1>3, <1>9, AppendRange
  <2>2. \A n \in DOMAIN answers' : n = k \/ (n \in DOMAIN answers /\ n # k)
    BY <2>1
  <2>3. k \in DOMAIN answers' /\ DOMAIN answers \subseteq DOMAIN answers'
        /\ \A n \in DOMAIN answers : answers'[n] = answers[n] /\ n # k
    BY <2>1
  <2>4. answers'[k].to = new /\ answers'[k].units = units
    BY <2>1
  <2> HIDE DEF k, Holds
  <2>5. AnswersFollow'
    <3>1. \A n \in DOMAIN answers' : answers'[n].to \in 1 .. new
      <4>1. new \in 1 .. new
        BY <1>1, <1>4
      <4>2. QED
        BY <1>5, <2>2, <2>3, <2>4, <4>1
    <3>2. QED
      BY <1>4, <2>1, <3>1 DEF AnswersFollow
  <2>6. ASSUME NEW i \in 1 .. Len(delivered) PROVE AnswersTo(i)' = AnswersTo(i)
    <3>1. i # new
      BY <1>1, <1>4
    <3>2. QED
      BY <2>2, <2>3, <2>4, <3>1 DEF AnswersTo
  <2>7. \A i \in 1 .. Len(delivered) : Holds(i)
    BY <1>7, <2>3, <2>6
  <2>8. AnswersTo(new)' = {k}
    BY <1>5, <2>2, <2>3, <2>4 DEF AnswersTo
  <2>9. Holds(new)
    <3>1. delivered'[new].good = good /\ delivered'[new].payload = got
      BY <1>4
    <3>2. Len(got) >= 2 => Reads(answers'[k].units, <<AnswerType, got[2], 1>>)
      BY <1>9, <2>4
    <3>3. QED
      BY <1>9, <2>3, <2>8, <3>1, <3>2 DEF Holds
  <2>10. \A i \in DOMAIN delivered' : i = new \/ i \in 1 .. Len(delivered)
    BY <1>1, <1>4
  <2>11. QED
    BY <2>5, <2>7, <2>9, <2>10
<1> HIDE DEF Holds
<1>10. QED
  BY <1>2, <1>8, <1>9

\* Init: the cleared ring is empty wherever it starts, and so is everything else.
LEMMA InitInv == Init => StreamInv
<1> SUFFICES ASSUME Init PROVE StreamInv
  OBVIOUS
<1>1. PICK i \in Cells : recvBuffer = clear([NewRing EXCEPT !.tailPtr = i])
  BY DEF Init
<1>2. recvBuffer = [buffer |-> [j \in Cells |-> 0], headPtr |-> i, tailPtr |-> i]
  <2>1. [NewRing EXCEPT !.tailPtr = i] \in [buffer : {[j \in Cells |-> 0]}, headPtr : {0}, tailPtr : {i}]
    BY DEF NewRing
  <2> DEFINE r == [NewRing EXCEPT !.tailPtr = i]
  <2> HIDE DEF r
  <2>2. [r EXCEPT !.headPtr = r.tailPtr] \in [buffer : {[j \in Cells |-> 0]}, headPtr : {i}, tailPtr : {i}]
    BY <2>1 DEF r
  <2>3. recvBuffer = [r EXCEPT !.headPtr = r.tailPtr]
    BY <1>1 DEF clear, r
  <2>4. QED
    BY <2>2, <2>3
<1>3. recvBuffer \in Rings(AllUnits)
  BY <1>2 DEF Rings, AllUnits
<1>4. /\ p = S!NewSerializer /\ response = S!NewSerializer /\ wire = <<>> /\ transfer = 0
      /\ pc = "recvIO" /\ sent = <<>> /\ delivered = <<>> /\ closing = FALSE
  BY DEF Init
<1>5. StreamTypes
  <2>1. Len(delivered) =< Len(sent)
    BY <1>4
  <2>2. \A E : <<>> \in Seq(E)
    OBVIOUS
  <2>3. wire \in Seq(AllUnits) /\ sent \in Seq(Message) /\ delivered \in Seq(Range(delivered))
    BY <1>4, <2>2
  <2>4. QED
    BY <1>3, <1>4, <2>1, <2>3 DEF StreamTypes
<1>6. ReceivesFit
  BY <1>4, BufferSizeAssumption DEF ReceivesFit, _maxSize
<1>7. S!CursorsInBuffer(p) /\ S!CursorsInBuffer(response)
  BY <1>4, NewCursors
<1>8. StreamInOrder
  <2>1. size(recvBuffer) = 0
    <3>1. recvBuffer.headPtr = i /\ recvBuffer.tailPtr = i /\ i \in Int
      BY <1>2, BufferSizeAssumption DEF Cells
    <3>2. size(recvBuffer) = IF recvBuffer.headPtr =< recvBuffer.tailPtr
                             THEN recvBuffer.tailPtr - recvBuffer.headPtr
                             ELSE recvBuffer.tailPtr - recvBuffer.headPtr + bufferSize
      BY <1>3, Sizes
    <3>3. QED
      BY <3>1, <3>2
  <2>2. Unread(recvBuffer) = <<>>
    BY <2>1 DEF Unread
  <2>3. Arrived = <<>>
    BY <1>4, BehindNone DEF Arrived
  <2>4. Undelivered = <<>>
    BY <1>4 DEF Undelivered
  <2>5. FlattenSeq(Undelivered) = <<>>
    BY <2>4 DEF FlattenSeq
  <2>6. <<>> \o <<>> \o <<>> = <<>>
    OBVIOUS
  <2>7. QED
    BY <1>4, <2>2, <2>3, <2>5, <2>6 DEF StreamInOrder
<1>9. QED
  BY <1>5, <1>6, <1>7, <1>8 DEF StreamInv

\* Every step keeps the stream's invariant,
LEMMA NextInv == StreamInv /\ [Next]_vars => StreamInv'
<1> SUFFICES ASSUME StreamInv, [Next]_vars PROVE StreamInv'
  OBVIOUS
<1>1. CASE UNCHANGED vars
  BY <1>1 DEF vars, receiver, content, StreamInv, StreamTypes, ReceivesFit, StreamInOrder,
              Arrived, Undelivered
<1>2. CASE Send
  BY <1>2, SendInv
<1>3. CASE RecvIO
  BY <1>3, RecvIOInv
<1>4. CASE Fill
  BY <1>4, FillInv
<1>5. CASE Recved
  BY <1>5, RecvedInv
<1>6. CASE Parse
  BY <1>6, ParseInv
<1>7. CASE ParseEnds
  BY <1>7, ParseEndsInv
<1>8. QED
  BY <1>1, <1>2, <1>3, <1>4, <1>5, <1>6, <1>7 DEF Next, Receive

\* Where the loop ends, the next packet is not complete; where none is under way, the
\* one sent next finds the ring empty.
LEMMA HeldBackStep ==
  ASSUME ContentInv, [Next]_vars
  PROVE  NothingHeldBack'
<1> SUFFICES ASSUME pc' \in {"recvIO", "posted", "closed"}, Len(delivered') < Len(sent')
             PROVE  size(recvBuffer') < Len(Units(sent'[Len(delivered') + 1]))
  BY DEF NothingHeldBack
<1>1. StreamInv /\ NothingHeldBack
  BY DEF ContentInv
<1>2. /\ sent \in Seq(Message) /\ Len(sent) \in Nat /\ Len(delivered) \in Nat
      /\ Len(delivered) =< Len(sent) /\ recvBuffer \in Rings(AllUnits)
  BY <1>1, UndeliveredIs DEF StreamInv, StreamTypes
<1>3. size(recvBuffer) \in Nat
  BY <1>2, Sizes
<1>4. ASSUME /\ recvBuffer' = recvBuffer /\ sent' = sent /\ delivered' = delivered
             /\ pc \in {"recvIO", "posted", "closed"}
      PROVE  size(recvBuffer') < Len(Units(sent'[Len(delivered') + 1]))
  BY <1>1, <1>4 DEF NothingHeldBack
<1>5. CASE UNCHANGED vars
  BY <1>4, <1>5 DEF vars, receiver, content
<1>6. CASE Send
  <2>1. /\ recvBuffer' = recvBuffer /\ delivered' = delivered /\ pc' = pc
    BY <1>6 DEF Send, receiver, content
  <2>2. PICK m \in Message : sent' = Append(sent, m)
    BY <1>6 DEF Send
  <2>3. /\ Len(sent') = Len(sent) + 1 /\ sent'[Len(sent) + 1] = m
        /\ \A i \in 1 .. Len(sent) : sent'[i] = sent[i]
    BY <1>2, <2>2, AppendProperties
  <2>4. CASE Len(delivered) < Len(sent)
    <3>1. Len(delivered) + 1 \in 1 .. Len(sent)
      BY <1>2, <2>4
    <3>2. sent'[Len(delivered') + 1] = sent[Len(delivered) + 1]
      BY <2>1, <2>3, <3>1
    <3>3. QED
      BY <1>1, <2>1, <2>4, <3>2 DEF NothingHeldBack
  <2>5. CASE ~(Len(delivered) < Len(sent))
    <3>1. Len(delivered) = Len(sent) /\ sent'[Len(delivered') + 1] = m
      BY <1>2, <2>1, <2>3, <2>5
    <3>2. Undelivered = <<>>
      <4>1. 1 .. Len(sent) - Len(delivered) = {}
        BY <1>2, <3>1
      <4>2. Undelivered = [i \in {} |-> Units(sent[Len(delivered) + i])]
        BY <4>1 DEF Undelivered
      <4>3. QED
        BY <4>2
    <3>3. pc \notin {"completed", "refused"}
      BY <2>1
    <3>4. size(recvBuffer) = 0
      BY <1>1, <3>2, <3>3, NothingUnread
    <3>5. Len(Units(m)) = 3 + Len(m.payload) /\ Len(m.payload) \in Nat
      BY UnitsAre
    <3>6. QED
      BY <2>1, <3>1, <3>4, <3>5
  <2>6. QED
    BY <2>4, <2>5
<1>7. CASE RecvIO
  BY <1>4, <1>7 DEF RecvIO, content
<1>8. CASE Fill
  BY <1>8 DEF Fill
<1>9. CASE Recved
  BY <1>9 DEF Recved
<1>10. CASE Parse
  BY <1>10 DEF Parse
<1>11. CASE ParseEnds
  <2>1. /\ pc = "parse" /\ ~PacketReady
        /\ recvBuffer' = recvBuffer /\ sent' = sent /\ delivered' = delivered
    BY <1>11 DEF ParseEnds, content
  <2> DEFINE m == sent[Len(delivered) + 1]
  <2>2. m \in Message
    <3>1. Len(delivered) + 1 \in 1 .. Len(sent)
      BY <1>2, <2>1
    <3>2. QED
      BY <1>2, <3>1
  <2>3. Len(Units(m)) = 3 + Len(m.payload) /\ Len(m.payload) \in Nat
    BY <2>2, UnitsAre
  <2>4. size(recvBuffer) >= 3 => HeaderNames = Len(m.payload)
    BY <1>1, <2>1, HeaderAtFront
  <2>5. ~(size(recvBuffer) >= 3 /\ size(recvBuffer) >= 3 + HeaderNames)
    BY <2>1, CapacityFits DEF PacketReady
  <2> HIDE DEF m
  <2>6. size(recvBuffer) < Len(Units(m))
    BY <1>3, <2>3, <2>4, <2>5
  <2>7. QED
    BY <2>1, <2>6 DEF m
<1>12. QED
  BY <1>5, <1>6, <1>7, <1>8, <1>9, <1>10, <1>11 DEF Next, Receive

\* At first nothing is sent, read or answered.
LEMMA InitContent == Init => ContentInv
<1> SUFFICES ASSUME Init PROVE ContentInv
  OBVIOUS
<1>1. StreamInv
  BY InitInv
<1>2. sent = <<>> /\ delivered = <<>> /\ answers = <<>>
  BY DEF Init
<1>3. DOMAIN delivered = {} /\ DOMAIN answers = {} /\ Len(delivered) = 0 /\ Len(sent) = 0
      /\ answers \in Seq(Range(answers))
  <2>1. \A E : <<>> \in Seq(E)
    OBVIOUS
  <2>2. QED
    BY <1>2, <2>1
<1>4. PacketsIntact /\ NothingHeldBack /\ AnswersFollow /\ AnswersAreTheirs
  BY <1>3 DEF PacketsIntact, NothingHeldBack, AnswersFollow, AnswersAreTheirs
<1>5. QED
  BY <1>1, <1>4 DEF ContentInv

\* Only the loop reads; every other step leaves what was read and answered.
LEMMA NextContent == ContentInv /\ [Next]_vars => ContentInv'
<1> SUFFICES ASSUME ContentInv, [Next]_vars PROVE ContentInv'
  OBVIOUS
<1>1. StreamInv' /\ NothingHeldBack'
  BY NextInv, HeldBackStep DEF ContentInv
<1>2. CASE Parse
  BY <1>1, <1>2, ParseIntact, ParseAnswered DEF ContentInv
<1>3. CASE delivered' = delivered /\ answers' = answers
           /\ (sent' = sent \/ \E m \in Message : sent' = Append(sent, m))
  <2>1. AnswersFollow'
    BY <1>3 DEF ContentInv, AnswersFollow
  <2>2. AnswersAreTheirs'
    <3>1. \A i : AnswersTo(i)' = AnswersTo(i)
      BY <1>3 DEF AnswersTo
    <3>2. QED
      BY <1>3, <3>1 DEF ContentInv, AnswersAreTheirs
  <2>3. PacketsIntact'
    <3>1. /\ sent \in Seq(Message) /\ Len(sent) \in Nat /\ Len(delivered) \in Nat
          /\ Len(delivered) =< Len(sent) /\ DOMAIN delivered = 1 .. Len(delivered)
      <4>1. delivered \in Seq(Range(delivered))
        BY DEF ContentInv, StreamInv, StreamTypes
      <4>2. QED
        BY <4>1, UndeliveredIs DEF ContentInv, StreamInv, StreamTypes
    <3>2. /\ Len(sent) =< Len(sent') /\ Len(sent') \in Nat
          /\ \A i \in 1 .. Len(sent) : sent'[i] = sent[i]
      <4>1. CASE sent' = sent
        BY <3>1, <4>1
      <4>2. CASE \E m \in Message : sent' = Append(sent, m)
        <5>1. PICK m \in Message : sent' = Append(sent, m)
          BY <4>2
        <5>2. Len(sent') = Len(sent) + 1 /\ \A i \in 1 .. Len(sent) : sent'[i] = sent[i]
          BY <3>1, <5>1, AppendProperties
        <5>3. QED
          BY <3>1, <5>2
      <4>3. QED
        BY <1>3, <4>1, <4>2
    <3>3. \A i \in DOMAIN delivered : sent'[i] = sent[i]
      BY <3>1, <3>2
    <3>4. QED
      BY <1>3, <3>1, <3>2, <3>3 DEF ContentInv, PacketsIntact
  <2>4. QED
    BY <1>1, <2>1, <2>2, <2>3 DEF ContentInv
<1>4. CASE UNCHANGED vars
  BY <1>3, <1>4 DEF vars, content
<1>5. CASE Send
  <2>1. delivered' = delivered /\ answers' = answers /\ \E m \in Message : sent' = Append(sent, m)
    BY <1>5 DEF Send, content
  <2>2. QED
    BY <1>3, <2>1
<1>6. CASE RecvIO \/ Fill \/ Recved \/ ParseEnds
  <2>1. delivered' = delivered /\ answers' = answers /\ sent' = sent
    BY <1>6 DEF RecvIO, Fill, Recved, ParseEnds, content
  <2>2. QED
    BY <1>3, <2>1
<1>7. QED
  BY <1>2, <1>4, <1>5, <1>6 DEF Next, Receive

\* so it holds: the ring, what has arrived and the wire are the packets under way.
THEOREM StreamInvHolds == Spec => []StreamInv
BY InitInv, NextInv, PTL DEF Spec

\* The stream reaches the loop unit for unit, in order, for every size of the ring,
\* wherever it wraps and however the kernel cuts the stream (session.cpp recvIO and recved,
\* ringBuffer.cpp, network.cpp recvedPacket).
THEOREM StreamStaysInOrder == Spec => []StreamInOrder
<1>1. StreamInv => StreamInOrder
  BY DEF StreamInv
<1>2. QED
  BY <1>1, StreamInvHolds, PTL

\* The indices stay in the ring, and the cursors of both serializers in their buffers
\* (serializer.cpp, ringBuffer.cpp): no packet of the size it names is cut short.
THEOREM TypeCorrect == Spec => []TypeOK
<1>1. StreamInv => TypeOK
  <2> SUFFICES ASSUME StreamInv PROVE TypeOK
    OBVIOUS
  <2>1. /\ recvBuffer.headPtr \in Cells /\ recvBuffer.tailPtr \in Cells
        /\ DOMAIN recvBuffer.buffer = Cells
    BY DEF StreamInv, StreamTypes, Rings
  <2>2. transfer \in 0 .. bufferSize
    BY BufferSizeAssumption DEF StreamInv, ReceivesFit, _maxSize
  <2>3. QED
    BY <2>1, <2>2 DEF StreamInv, StreamTypes, S!CursorsInBuffer, TypeOK
<1>2. QED
  BY <1>1, StreamInvHolds, PTL

\* What is read from the stream is inductive with it.
THEOREM ContentHolds == Spec => []ContentInv
BY InitContent, NextContent, PTL DEF Spec

\* OnRecv gets the packets that were sent, in order, and the checksum tells a damaged one
\* (serializer.h setHeader, encryption and decryption, session.cpp recvedPacket), for every
\* width of a char, every exclusive or that undoes itself and every key.
THEOREM PacketsStayIntact == Spec => []PacketsIntact
<1>1. ContentInv => PacketsIntact
  BY DEF ContentInv
<1>2. QED
  BY <1>1, ContentHolds, PTL

\* A login that came through gets the answer that is its own, and nothing else gets one
\* (loginServer.cpp OnRecv): the client decrypts it as OnRecv would.
THEOREM AnswersStayTheirs == Spec => []AnswersAreTheirs
<1>1. ContentInv => AnswersAreTheirs
  BY DEF ContentInv
<1>2. QED
  BY <1>1, ContentHolds, PTL

\* The loop that ends leaves no complete packet in the ring (network.cpp workerThread,
\* session.cpp recvedPacket).
THEOREM NothingStaysBehind == Spec => []NothingHeldBack
<1>1. ContentInv => NothingHeldBack
  BY DEF ContentInv
<1>2. QED
  BY <1>1, ContentHolds, PTL
=============================================================================
