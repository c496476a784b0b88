--------------------------- MODULE RingBufferProofs ---------------------------
(***************************************************************************)
(* A ring is a queue, for every size and wherever it wraps: what recvIO's  *)
(* two buffers take in, MoveRear appends, front shows and pop takes away.  *)
(***************************************************************************)
EXTENDS RingBuffer, SequenceTheorems, TLAPS

\* A position at most one turn behind the buffer's end.
Wrapped(i) == IF i < bufferSize THEN i ELSE i - bufferSize

\* The remainder, one turn around the ring in either direction.
LEMMA Wrap ==
  ASSUME NEW x \in Int
  PROVE  /\ x \in 0 .. bufferSize - 1 => x % bufferSize = x
         /\ x \in bufferSize .. 2 * bufferSize - 1 => x % bufferSize = x - bufferSize
         /\ x \in -bufferSize .. -1 => x % bufferSize = x + bufferSize
<1>1. bufferSize \in Nat \ {0}
  BY BufferSizeAssumption
<1>2. x \in 0 .. bufferSize - 1 => x % bufferSize = x
  BY <1>1
<1>3. x \in bufferSize .. 2 * bufferSize - 1 => x % bufferSize = x - bufferSize
  BY <1>1
<1>4. x \in -bufferSize .. -1 => x % bufferSize = x + bufferSize
  BY <1>1
<1>5. QED
  BY <1>2, <1>3, <1>4

\* The sizes of a ring, without the remainder: what is read and what is free fill all
\* but one cell, and the two indices are size(r) apart.
LEMMA Sizes ==
  ASSUME NEW E, NEW r \in Rings(E)
  PROVE  /\ size(r) = IF r.headPtr =< r.tailPtr THEN r.tailPtr - r.headPtr
                      ELSE r.tailPtr - r.headPtr + bufferSize
         /\ size(r) \in 0 .. bufferSize - 1
         /\ freeSize(r) = bufferSize - 1 - size(r)
         /\ head(r) = IF r.headPtr = bufferSize - 1 THEN 0 ELSE r.headPtr + 1
         /\ tail(r) = IF r.tailPtr = bufferSize - 1 THEN 0 ELSE r.tailPtr + 1
<1> DEFINE h == r.headPtr  t == r.tailPtr
<1>1. bufferSize \in Nat \ {0} /\ h \in 0 .. bufferSize - 1 /\ t \in 0 .. bufferSize - 1
  BY BufferSizeAssumption DEF Rings, Cells
<1>2. size(r) = (t - h + bufferSize) % bufferSize
  BY DEF size
<1>3. freeSize(r) = (bufferSize - 1 - (t - h + bufferSize)) % bufferSize
  BY DEF freeSize, _maxSize
<1>4. head(r) = (h + 1) % bufferSize /\ tail(r) = (t + 1) % bufferSize
  BY DEF head, tail
<1> HIDE DEF h, t
<1>5. size(r) = IF h =< t THEN t - h ELSE t - h + bufferSize
  BY <1>1, <1>2, Wrap
<1>6. freeSize(r) = bufferSize - 1 - size(r)
  BY <1>1, <1>3, <1>5, Wrap
<1>7. /\ head(r) = IF h = bufferSize - 1 THEN 0 ELSE h + 1
      /\ tail(r) = IF t = bufferSize - 1 THEN 0 ELSE t + 1
  BY <1>1, <1>4, Wrap
<1>8. size(r) \in 0 .. bufferSize - 1
  BY <1>1, <1>5
<1>9. QED
  BY <1>5, <1>6, <1>7, <1>8 DEF h, t

\* What is in the ring is a sequence of units, the i-th in the i-th cell behind headPtr.
LEMMA UnreadIs ==
  ASSUME NEW E, NEW r \in Rings(E)
  PROVE  /\ Unread(r) \in Seq(E) /\ Len(Unread(r)) = size(r)
         /\ \A i \in 1 .. size(r) :
               Unread(r)[i] = r.buffer[Wrapped(r.headPtr + i)]
<1>1. size(r) \in Nat /\ size(r) < bufferSize /\ bufferSize \in Nat /\ r.headPtr \in 0 .. bufferSize - 1
  <2>1. size(r) \in 0 .. bufferSize - 1
    BY Sizes
  <2>2. bufferSize \in Nat /\ r.headPtr \in 0 .. bufferSize - 1
    BY BufferSizeAssumption DEF Rings, Cells
  <2>3. QED
    BY <2>1, <2>2
<1>2. \A i \in 1 .. size(r) : (r.headPtr + i) % bufferSize = Wrapped(r.headPtr + i)
  BY <1>1, Wrap DEF Wrapped
<1>3. \A i \in 1 .. size(r) : (r.headPtr + i) % bufferSize \in Cells
  BY <1>1, <1>2 DEF Cells, Wrapped
<1>4. Unread(r) \in [1 .. size(r) -> E]
  BY <1>3 DEF Unread, Rings
<1>5. Unread(r) \in Seq(E) /\ Len(Unread(r)) = size(r)
  BY <1>1, <1>4
<1>6. QED
  BY <1>2, <1>5 DEF Unread

\* Two rings that agree on what is between their equal indices hold the same.
LEMMA UnreadSame ==
  ASSUME NEW E, NEW r \in Rings(E), NEW q \in Rings(E),
         q.headPtr = r.headPtr, q.tailPtr = r.tailPtr,
         \A i \in 1 .. size(r) :
            q.buffer[Wrapped(r.headPtr + i)] = r.buffer[Wrapped(r.headPtr + i)]
  PROVE  Unread(q) = Unread(r)
<1>1. size(q) = size(r)
  BY DEF size
<1>2. /\ Unread(r) \in Seq(E) /\ Len(Unread(r)) = size(r)
      /\ Unread(q) \in Seq(E) /\ Len(Unread(q)) = size(r)
  BY <1>1, UnreadIs
<1>3. \A i \in 1 .. size(r) : Unread(q)[i] = Unread(r)[i]
  <2>1. \A i \in 1 .. size(r) : Unread(r)[i] = r.buffer[Wrapped(r.headPtr + i)]
    BY UnreadIs
  <2>2. \A i \in 1 .. size(r) : Unread(q)[i] = q.buffer[Wrapped(r.headPtr + i)]
    BY <1>1, UnreadIs
  <2>3. QED
    BY <2>1, <2>2
<1>4. QED
  BY <1>2, <1>3, SeqEqual

\* front copies the oldest units, in one piece or two.
LEMMA FrontIs ==
  ASSUME NEW E, NEW r \in Rings(E), NEW n \in 0 .. size(r)
  PROVE  front(r, n) = SubSeq(Unread(r), 1, n)
<1> DEFINE h == r.headPtr  t == r.tailPtr  d == DirectDequeueSize(r)
<1>1. /\ bufferSize \in Nat \ {0} /\ h \in 0 .. bufferSize - 1 /\ t \in 0 .. bufferSize - 1
      /\ DOMAIN r.buffer = 0 .. bufferSize - 1
  BY BufferSizeAssumption DEF Rings, Cells
<1>2. /\ size(r) = IF h =< t THEN t - h ELSE t - h + bufferSize
      /\ size(r) \in 0 .. bufferSize - 1
      /\ head(r) = IF h = bufferSize - 1 THEN 0 ELSE h + 1
      /\ tail(r) = IF t = bufferSize - 1 THEN 0 ELSE t + 1
  BY Sizes
<1>3. d = IF head(r) =< tail(r) THEN tail(r) - head(r) ELSE bufferSize - head(r)
  BY DEF DirectDequeueSize
<1>4. /\ Unread(r) \in Seq(E) /\ Len(Unread(r)) = size(r)
      /\ \A i \in 1 .. size(r) : Unread(r)[i] = r.buffer[Wrapped(h + i)]
  BY UnreadIs
<1>5. AtMost(n, size(r)) = n
  BY <1>2 DEF AtMost
<1>6. front(r, n) = IF d >= n THEN Cut(r.buffer, head(r), n)
                    ELSE Cut(r.buffer, head(r), d) \o Cut(r.buffer, 0, n - d)
  BY <1>5 DEF front
<1>7. SubSeq(Unread(r), 1, n) = [i \in 1 .. n |-> Unread(r)[i]]
  BY <1>2, <1>4
<1> HIDE DEF h, t, d
<1>8. /\ d \in 0 .. bufferSize
      /\ \A i \in 1 .. size(r) : i =< d => Wrapped(h + i) = head(r) + i - 1
      /\ \A i \in 1 .. size(r) : i > d => Wrapped(h + i) = i - d - 1
  <2>1. d = IF h = bufferSize - 1 \/ (h =< t /\ t # bufferSize - 1) THEN size(r)
            ELSE bufferSize - 1 - h
    <3>1. CASE h = bufferSize - 1
      BY <1>1, <1>2, <1>3, <3>1
    <3>2. CASE h # bufferSize - 1
      BY <1>1, <1>2, <1>3, <3>2
    <3>3. QED
      BY <3>1, <3>2
  <2>2. d \in 0 .. bufferSize
    BY <1>1, <1>2, <2>1
  <2>3. ASSUME NEW i \in 1 .. size(r)
        PROVE  IF i =< d THEN Wrapped(h + i) = head(r) + i - 1 ELSE Wrapped(h + i) = i - d - 1
    <3>1. CASE h = bufferSize - 1
      BY <1>1, <1>2, <2>1, <3>1 DEF Wrapped
    <3>2. CASE h # bufferSize - 1
      BY <1>1, <1>2, <2>1, <3>2 DEF Wrapped
    <3>3. QED
      BY <3>1, <3>2
  <2>4. QED
    BY <1>2, <2>2, <2>3
<1>9. CASE d >= n
  <2>1. \A i \in 1 .. n : Unread(r)[i] = r.buffer[head(r) + i - 1]
    BY <1>2, <1>4, <1>8, <1>9
  <2>2. QED
    BY <1>6, <1>7, <1>9, <2>1 DEF Cut
<1>10. CASE d < n
  <2> DEFINE u == Cut(r.buffer, head(r), d)  v == Cut(r.buffer, 0, n - d)
  <2>1. n \in Nat /\ d \in Nat /\ n - d \in Nat
    BY <1>2, <1>8, <1>10
  <2>2. /\ \A i \in 1 .. d : Unread(r)[i] = r.buffer[head(r) + i - 1]
        /\ \A i \in 1 .. n - d : Unread(r)[d + i] = r.buffer[i - 1]
    <3>1. ASSUME NEW i \in 1 .. d PROVE Unread(r)[i] = r.buffer[head(r) + i - 1]
      <4>1. i \in 1 .. size(r) /\ i =< d
        BY <1>2, <1>10, <2>1
      <4>2. QED
        BY <1>4, <1>8, <4>1
    <3>2. ASSUME NEW i \in 1 .. n - d PROVE Unread(r)[d + i] = r.buffer[i - 1]
      <4>1. d + i \in 1 .. size(r) /\ d + i > d /\ (d + i) - d - 1 = i - 1
        BY <1>2, <1>10, <2>1
      <4>2. QED
        BY <1>4, <1>8, <4>1
    <3>3. QED
      BY <3>1, <3>2
  <2>3. /\ u = [i \in 1 .. d |-> Unread(r)[i]] /\ v = [i \in 1 .. n - d |-> Unread(r)[d + i]]
    BY <2>1, <2>2 DEF Cut
  <2> HIDE DEF u, v
  <2>4. \A i \in 1 .. size(r) : Unread(r)[i] \in E
    BY <1>2, <1>4
  <2>5. u \in Seq(E) /\ v \in Seq(E) /\ Len(u) = d /\ Len(v) = n - d
    BY <1>2, <2>1, <2>3, <2>4
  <2>6. u \o v = [i \in 1 .. n |-> Unread(r)[i]]
    BY <2>1, <2>3, <2>5
  <2>7. front(r, n) = u \o v
    BY <1>6, <1>8, <1>10 DEF u, v
  <2>8. QED
    BY <1>7, <2>6, <2>7
<1>11. QED
  BY <1>2, <1>8, <1>9, <1>10

\* The cells behind a ring's units are a sequence too.
LEMMA BehindIs ==
  ASSUME NEW E, NEW r \in Rings(E), NEW n \in 0 .. freeSize(r)
  PROVE  /\ Behind(r, n) \in Seq(E) /\ Len(Behind(r, n)) = n
         /\ \A i \in 1 .. n : Behind(r, n)[i] = r.buffer[Wrapped(r.tailPtr + i)]
<1>1. n \in Nat /\ n < bufferSize /\ bufferSize \in Nat /\ r.tailPtr \in 0 .. bufferSize - 1
  <2>1. size(r) \in 0 .. bufferSize - 1 /\ freeSize(r) = bufferSize - 1 - size(r)
    BY Sizes
  <2>2. bufferSize \in Nat /\ r.tailPtr \in 0 .. bufferSize - 1
    BY BufferSizeAssumption DEF Rings, Cells
  <2>3. QED
    BY <2>1, <2>2
<1>2. \A i \in 1 .. n : (r.tailPtr + i) % bufferSize = Wrapped(r.tailPtr + i)
  BY <1>1, Wrap DEF Wrapped
<1>3. \A i \in 1 .. n : (r.tailPtr + i) % bufferSize \in Cells
  BY <1>1, <1>2 DEF Cells, Wrapped
<1>4. Behind(r, n) \in [1 .. n -> E]
  BY <1>3 DEF Behind, Rings
<1>5. Behind(r, n) \in Seq(E) /\ Len(Behind(r, n)) = n
  BY <1>1, <1>4
<1>6. QED
  BY <1>2, <1>5 DEF Behind

\* pop takes the oldest units away and leaves the others.
LEMMA PopIs ==
  ASSUME NEW E, NEW r \in Rings(E), NEW n \in 0 .. size(r)
  PROVE  /\ pop(r, n) \in Rings(E)
         /\ Unread(pop(r, n)) = SubSeq(Unread(r), n + 1, size(r))
<1> DEFINE h == r.headPtr  t == r.tailPtr  q == pop(r, n)
<1>1. /\ bufferSize \in Nat \ {0} /\ h \in 0 .. bufferSize - 1 /\ t \in 0 .. bufferSize - 1
  BY BufferSizeAssumption DEF Rings, Cells
<1>2. /\ size(r) = IF h =< t THEN t - h ELSE t - h + bufferSize
      /\ size(r) \in 0 .. bufferSize - 1
  BY Sizes
<1>3. q = [r EXCEPT !.headPtr = (h + n) % bufferSize]
  BY <1>2 DEF pop, MoveFront, AtMost
<1>4. (h + n) % bufferSize = Wrapped(h + n) /\ Wrapped(h + n) \in Cells
  <2> HIDE DEF h
  <2>1. QED
    BY <1>1, <1>2, Wrap DEF Wrapped, Cells
<1>5. /\ q \in Rings(E) /\ q.buffer = r.buffer
      /\ q.headPtr = Wrapped(h + n) /\ q.tailPtr = t
  BY <1>3, <1>4 DEF Rings
<1> HIDE DEF q
<1>6. size(q) = IF q.headPtr =< q.tailPtr THEN q.tailPtr - q.headPtr
                ELSE q.tailPtr - q.headPtr + bufferSize
  BY <1>5, Sizes
<1>7. /\ Unread(r) \in Seq(E) /\ Len(Unread(r)) = size(r)
      /\ \A i \in 1 .. size(r) : Unread(r)[i] = r.buffer[Wrapped(h + i)]
  BY UnreadIs
<1>8. /\ Unread(q) \in Seq(E) /\ Len(Unread(q)) = size(q)
      /\ \A i \in 1 .. size(q) : Unread(q)[i] = r.buffer[Wrapped(q.headPtr + i)]
  BY <1>5, UnreadIs
<1> HIDE DEF h, t
<1>9. size(q) = size(r) - n
  BY <1>1, <1>2, <1>5, <1>6 DEF Wrapped
<1>10. \A i \in 1 .. size(q) : Wrapped(q.headPtr + i) = Wrapped(h + (n + i))
  BY <1>1, <1>2, <1>5, <1>9 DEF Wrapped
<1>11. ASSUME NEW i \in 1 .. size(q) PROVE Unread(q)[i] = Unread(r)[n + i]
  <2>1. n + i \in 1 .. size(r)
    BY <1>2, <1>9
  <2>2. QED
    BY <1>7, <1>8, <1>10, <2>1
<1>12. SubSeq(Unread(r), n + 1, size(r)) \in Seq(E)
       /\ Len(SubSeq(Unread(r), n + 1, size(r))) = size(q)
       /\ \A i \in 1 .. size(q) : SubSeq(Unread(r), n + 1, size(r))[i] = Unread(r)[n + i]
  BY <1>2, <1>7, <1>9, SubSeqProperties
<1>13. QED
  BY <1>5, <1>8, <1>11, <1>12, SeqEqual DEF q

\* MoveRear appends the units that were written behind the others.
LEMMA MoveRearIs ==
  ASSUME NEW E, NEW r \in Rings(E), NEW n \in 0 .. freeSize(r)
  PROVE  /\ MoveRear(r, n) \in Rings(E)
         /\ Unread(MoveRear(r, n)) = Unread(r) \o Behind(r, n)
<1> DEFINE h == r.headPtr  t == r.tailPtr  q == MoveRear(r, n)
<1>1. /\ bufferSize \in Nat \ {0} /\ h \in 0 .. bufferSize - 1 /\ t \in 0 .. bufferSize - 1
  BY BufferSizeAssumption DEF Rings, Cells
<1>2. /\ size(r) = IF h =< t THEN t - h ELSE t - h + bufferSize
      /\ size(r) \in 0 .. bufferSize - 1
      /\ freeSize(r) = bufferSize - 1 - size(r)
  BY Sizes
<1>3. q = [r EXCEPT !.tailPtr = (t + n) % bufferSize]
  BY <1>2 DEF MoveRear, AtMost
<1>4. (t + n) % bufferSize = Wrapped(t + n) /\ Wrapped(t + n) \in Cells
  <2> HIDE DEF t
  <2>1. n \in 0 .. bufferSize - 1
    BY <1>1, <1>2
  <2>2. QED
    BY <1>1, <2>1, Wrap DEF Wrapped, Cells
<1>5. /\ q \in Rings(E) /\ q.buffer = r.buffer
      /\ q.headPtr = h /\ q.tailPtr = Wrapped(t + n)
  BY <1>3, <1>4 DEF Rings
<1> HIDE DEF q
<1>6. size(q) = IF q.headPtr =< q.tailPtr THEN q.tailPtr - q.headPtr
                ELSE q.tailPtr - q.headPtr + bufferSize
  BY <1>5, Sizes
<1>7. /\ Unread(r) \in Seq(E) /\ Len(Unread(r)) = size(r)
      /\ \A i \in 1 .. size(r) : Unread(r)[i] = r.buffer[Wrapped(h + i)]
  BY UnreadIs
<1>8. /\ Unread(q) \in Seq(E) /\ Len(Unread(q)) = size(q)
      /\ \A i \in 1 .. size(q) : Unread(q)[i] = r.buffer[Wrapped(h + i)]
  BY <1>5, UnreadIs
<1>9. /\ Behind(r, n) \in Seq(E) /\ Len(Behind(r, n)) = n
      /\ \A i \in 1 .. n : Behind(r, n)[i] = r.buffer[Wrapped(t + i)]
  BY BehindIs
<1> HIDE DEF h, t
<1>10. size(q) = size(r) + n
  BY <1>1, <1>2, <1>5, <1>6 DEF Wrapped
<1>11. \A i \in 1 .. n : Wrapped(h + (size(r) + i)) = Wrapped(t + i)
  BY <1>1, <1>2 DEF Wrapped
<1>12. ASSUME NEW i \in 1 .. size(q)
       PROVE  Unread(q)[i] = IF i =< size(r) THEN Unread(r)[i] ELSE Behind(r, n)[i - size(r)]
  <2>1. CASE i =< size(r)
    <3>1. i \in 1 .. size(r)
      BY <1>2, <2>1
    <3>2. QED
      BY <1>7, <1>8, <2>1, <3>1
  <2>2. CASE i > size(r)
    <3>1. i - size(r) \in 1 .. n /\ size(r) + (i - size(r)) = i /\ ~(i =< size(r))
      BY <1>2, <1>10, <2>2
    <3>2. QED
      BY <1>8, <1>9, <1>11, <3>1
  <2>3. QED
    BY <1>2, <2>1, <2>2
<1>13. Unread(r) \o Behind(r, n) \in Seq(E) /\ Len(Unread(r) \o Behind(r, n)) = size(q)
       /\ \A i \in 1 .. size(q) : (Unread(r) \o Behind(r, n))[i] =
              IF i =< size(r) THEN Unread(r)[i] ELSE Behind(r, n)[i - size(r)]
  <2> DEFINE u == Unread(r)  v == Behind(r, n)
  <2>1. u \in Seq(E) /\ v \in Seq(E) /\ Len(u) = size(r) /\ Len(v) = n
    BY <1>7, <1>9
  <2> HIDE DEF u, v
  <2>2. u \o v \in Seq(E) /\ Len(u \o v) = size(r) + n
        /\ \A i \in 1 .. size(r) + n :
              (u \o v)[i] = IF i =< size(r) THEN u[i] ELSE v[i - size(r)]
    <3>1. /\ u \o v \in Seq(E) /\ Len(u \o v) = Len(u) + Len(v)
          /\ \A i \in 1 .. Len(u) + Len(v) :
                (u \o v)[i] = IF i =< Len(u) THEN u[i] ELSE v[i - Len(u)]
      BY <2>1, ConcatProperties
    <3>2. QED
      BY <2>1, <3>1, Zenon
  <2>3. QED
    BY <1>10, <2>2 DEF u, v
<1>14. QED
  BY <1>5, <1>8, <1>12, <1>13, SeqEqual DEF q

\* What the kernel writes into the two buffers of recvIO lies behind the ring's units,
\* which it leaves alone.
Filled(r, w, n) ==
    LET m == AtMost(n, DirectEnqueueSize(r))
    IN  [r EXCEPT !.buffer =
            Copy(Copy(@, tail(r), SubSeq(w, 1, m)), 0, SubSeq(w, m + 1, n))]

LEMMA FilledIs ==
  ASSUME NEW E, NEW r \in Rings(E), NEW w \in Seq(E),
         NEW n \in 0 .. freeSize(r), n =< Len(w)
  PROVE  /\ Filled(r, w, n) \in Rings(E)
         /\ Filled(r, w, n).headPtr = r.headPtr /\ Filled(r, w, n).tailPtr = r.tailPtr
         /\ Unread(Filled(r, w, n)) = Unread(r)
         /\ Behind(Filled(r, w, n), n) = SubSeq(w, 1, n)
<1> DEFINE h == r.headPtr  t == r.tailPtr  d == DirectEnqueueSize(r)  m == AtMost(n, d)
           q == Filled(r, w, n)  u == SubSeq(w, 1, m)  v == SubSeq(w, m + 1, n)
           first == Copy(r.buffer, tail(r), u)  second == Copy(first, 0, v)
<1>1. /\ bufferSize \in Nat \ {0} /\ h \in 0 .. bufferSize - 1 /\ t \in 0 .. bufferSize - 1
      /\ r.buffer \in [Cells -> E] /\ Cells = 0 .. bufferSize - 1
  BY BufferSizeAssumption DEF Rings, Cells
<1>2. /\ size(r) = IF h =< t THEN t - h ELSE t - h + bufferSize
      /\ size(r) \in 0 .. bufferSize - 1
      /\ freeSize(r) = bufferSize - 1 - size(r)
      /\ tail(r) = IF t = bufferSize - 1 THEN 0 ELSE t + 1
  BY Sizes
<1>3. d = IF tail(r) =< h THEN h - tail(r) ELSE bufferSize - tail(r)
  BY DEF DirectEnqueueSize
<1>4. q = [r EXCEPT !.buffer = second]
  BY DEF Filled
<1>5. Len(w) \in Nat /\ \A i \in 1 .. Len(w) : w[i] \in E
  OBVIOUS
<1> HIDE DEF h, t, d, q, u, v, first, second
<1>6. d = IF tail(r) =< h THEN freeSize(r) ELSE bufferSize - tail(r)
  <2>1. CASE t = bufferSize - 1
    BY <1>1, <1>2, <1>3, <2>1
  <2>2. CASE t # bufferSize - 1
    BY <1>1, <1>2, <1>3, <2>2
  <2>3. QED
    BY <2>1, <2>2
<1>7. /\ d \in 0 .. bufferSize /\ tail(r) \in 0 .. bufferSize - 1 /\ tail(r) + d =< bufferSize
      /\ n \in 0 .. bufferSize - 1 /\ m \in 0 .. n /\ m =< d /\ (m < n => m = d)
      /\ (m < n => n - d =< h)
  <2>1. d \in 0 .. bufferSize /\ tail(r) \in 0 .. bufferSize - 1 /\ tail(r) + d =< bufferSize
    <3>1. tail(r) \in 0 .. bufferSize - 1
      <4>1. CASE t = bufferSize - 1
        BY <1>1, <1>2, <4>1
      <4>2. CASE t # bufferSize - 1
        BY <1>1, <1>2, <4>2
      <4>3. QED
        BY <4>1, <4>2
    <3>2. CASE tail(r) =< h
      BY <1>1, <1>3, <3>1, <3>2
    <3>3. CASE ~(tail(r) =< h)
      BY <1>1, <1>3, <3>1, <3>3
    <3>4. QED
      BY <3>2, <3>3, <3>1
  <2>2. n \in 0 .. bufferSize - 1
    BY <1>1, <1>2
  <2>3. m \in 0 .. n /\ m =< d /\ (m < n => m = d)
    BY <2>1, <2>2 DEF AtMost
  <2>4. n > d => n - d =< h
    BY <1>1, <1>2, <1>6, <2>2
  <2>5. QED
    BY <2>1, <2>2, <2>3, <2>4
<1>8. /\ Len(u) = m /\ \A i \in 1 .. m : u[i] = w[i]
      /\ Len(v) = n - m /\ \A i \in 1 .. n - m : v[i] = w[m + i]
  <2> HIDE DEF m
  <2>1. u = [i \in 1 .. m |-> w[i]] /\ m \in 0 .. Len(w)
    BY <1>5, <1>7 DEF u
  <2>2. v = [i \in 1 .. n - m |-> w[m + i]] /\ n - m \in Nat
    BY <1>5, <1>7 DEF v
  <2>3. QED
    BY <1>5, <1>7, <2>1, <2>2
<1> HIDE DEF m
<1>9. \A c \in Cells :
        second[c] = IF c < n - m THEN w[m + c + 1]
                    ELSE IF tail(r) =< c /\ c < tail(r) + m THEN w[c - tail(r) + 1]
                    ELSE r.buffer[c]
  <2>1. ASSUME NEW c \in Cells
        PROVE  first[c] = IF tail(r) =< c /\ c < tail(r) + m THEN w[c - tail(r) + 1]
                          ELSE r.buffer[c]
    <3>1. first[c] = IF c \in tail(r) .. tail(r) + m - 1 THEN u[c - tail(r) + 1]
                     ELSE r.buffer[c]
      BY <1>1, <1>8 DEF first, Copy
    <3>2. c \in Int /\ tail(r) \in Int /\ m \in Int
      BY <1>1, <1>7
    <3>3. CASE tail(r) =< c /\ c < tail(r) + m
      <4>1. c \in tail(r) .. tail(r) + m - 1 /\ c - tail(r) + 1 \in 1 .. m
        BY <3>2, <3>3
      <4>2. QED
        BY <1>8, <3>1, <3>3, <4>1
    <3>4. CASE ~(tail(r) =< c /\ c < tail(r) + m)
      <4>1. c \notin tail(r) .. tail(r) + m - 1
        BY <3>2, <3>4
      <4>2. QED
        BY <3>1, <3>4, <4>1
    <3>5. QED
      BY <3>3, <3>4
  <2>2. DOMAIN first = Cells
    BY <1>1 DEF first, Copy
  <2>3. ASSUME NEW c \in Cells
        PROVE  second[c] = IF c < n - m THEN w[m + c + 1] ELSE first[c]
    BY <1>1, <1>7, <1>8, <2>2 DEF second, Copy
  <2>4. QED
    BY <2>1, <2>3
<1>10. second \in [Cells -> E]
  <2>1. DOMAIN second = Cells /\ second = [c \in Cells |-> second[c]]
    BY <1>1 DEF first, second, Copy
  <2>2. ASSUME NEW c \in Cells PROVE second[c] \in E
    <3>1. CASE c < n - m
      <4>1. m + c + 1 \in 1 .. Len(w)
        BY <1>1, <1>5, <1>7, <3>1
      <4>2. QED
        BY <1>5, <1>9, <3>1, <4>1
    <3>2. CASE ~(c < n - m) /\ tail(r) =< c /\ c < tail(r) + m
      <4>1. c - tail(r) + 1 \in 1 .. Len(w)
        BY <1>1, <1>5, <1>7, <3>2
      <4>2. QED
        BY <1>5, <1>9, <3>2, <4>1
    <3>3. CASE ~(c < n - m) /\ ~(tail(r) =< c /\ c < tail(r) + m)
      BY <1>1, <1>9, <3>3
    <3>4. QED
      BY <3>1, <3>2, <3>3
  <2>3. QED
    BY <2>1, <2>2
<1>11. q \in Rings(E) /\ q.buffer = second /\ q.headPtr = h /\ q.tailPtr = t
  BY <1>4, <1>10 DEF Rings, h, t
<1>12. Unread(q) = Unread(r)
  <2>1. ASSUME NEW i \in 1 .. size(r) PROVE second[Wrapped(h + i)] = r.buffer[Wrapped(h + i)]
    <3>1. Wrapped(h + i) \in Cells
      BY <1>1, <1>2 DEF Wrapped
    <3>2. ~(Wrapped(h + i) < n - m)
      BY <1>1, <1>2, <1>6, <1>7 DEF Wrapped
    <3>3. ~(tail(r) =< Wrapped(h + i) /\ Wrapped(h + i) < tail(r) + m)
      <4>1. CASE t = bufferSize - 1
        BY <1>1, <1>2, <1>3, <1>7, <4>1 DEF Wrapped
      <4>2. CASE t # bufferSize - 1
        BY <1>1, <1>2, <1>3, <1>7, <4>2 DEF Wrapped
      <4>3. QED
        BY <4>1, <4>2
    <3>4. QED
      BY <1>9, <3>1, <3>2, <3>3
  <2>2. QED
    BY <1>11, <2>1, UnreadSame DEF h, t
<1>13. Behind(q, n) = SubSeq(w, 1, n)
  <2>1. ASSUME NEW i \in 1 .. n PROVE second[Wrapped(t + i)] = w[i]
    <3>1. CASE i =< m
      <4>1. /\ Wrapped(t + i) \in Cells /\ ~(Wrapped(t + i) < n - m)
            /\ tail(r) =< Wrapped(t + i) /\ Wrapped(t + i) < tail(r) + m
            /\ Wrapped(t + i) - tail(r) + 1 = i
        <5>1. CASE t = bufferSize - 1
          BY <1>1, <1>2, <1>3, <1>7, <3>1, <5>1 DEF Wrapped
        <5>2. CASE t # bufferSize - 1
          BY <1>1, <1>2, <1>3, <1>7, <3>1, <5>2 DEF Wrapped
        <5>3. QED
          BY <5>1, <5>2
      <4>2. QED
        BY <1>9, <4>1
    <3>2. CASE i > m
      <4>1. m < n /\ m = d
        BY <1>7, <3>2
      <4>2. tail(r) > h /\ tail(r) = t + 1 /\ d = bufferSize - tail(r)
        BY <1>1, <1>2, <1>6, <1>7, <4>1
      <4>3. /\ Wrapped(t + i) \in Cells /\ Wrapped(t + i) < n - m
            /\ m + Wrapped(t + i) + 1 = i
        BY <1>1, <1>7, <3>2, <4>1, <4>2 DEF Wrapped
      <4>4. QED
        BY <1>9, <4>3
    <3>3. QED
      BY <1>7, <3>1, <3>2
  <2>2. freeSize(q) = freeSize(r)
    BY <1>11 DEF freeSize, h, t
  <2>3. \A i \in 1 .. n : Behind(q, n)[i] = w[i]
    BY <1>11, <2>1, <2>2, BehindIs
  <2>4. Behind(q, n) \in Seq(E) /\ Len(Behind(q, n)) = n
    BY <1>11, <2>2, BehindIs
  <2>5. SubSeq(w, 1, n) = [i \in 1 .. n |-> w[i]]
    BY <1>5, <1>7
  <2>6. Behind(q, n) = [i \in 1 .. n |-> Behind(q, n)[i]]
    BY <2>4
  <2>7. QED
    BY <2>3, <2>5, <2>6
<1>14. QED
  BY <1>11, <1>12, <1>13 DEF q, h, t
=============================================================================
