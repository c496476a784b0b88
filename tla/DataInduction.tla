---------------------------- MODULE DataInduction ----------------------------
(***************************************************************************)
(* Induction for facts about data: over the natural numbers by sets, and   *)
(* what FlattenSeq, a recursion over a sequence, yields.                   *)
(***************************************************************************)
EXTENDS Integers, SequencesExt, SequenceTheorems, WellFoundedInduction, TLAPS

\* A set of natural numbers that has 0, and with each number the next, has all.
LEMMA SetInduction ==
  ASSUME NEW S \in SUBSET Nat, 0 \in S, \A n \in S : n + 1 \in S
  PROVE  S = Nat
<1>1. SUFFICES ASSUME Nat \ S # {} PROVE FALSE
  OBVIOUS
<1>2. PICK m \in Nat \ S : \A k \in Nat \ S : ~(k < m)
  <2>1. \E x \in Nat \ S : \A y \in Nat \ S : ~(<<y, x>> \in OpToRel(<, Nat))
    BY <1>1, NatLessThanWellFounded, WFMin DEF OpToRel
  <2>2. QED
    BY <2>1 DEF OpToRel
<1>3. m - 1 \in Nat /\ m - 1 < m
  BY <1>2
<1>4. QED
  BY <1>2, <1>3

\* Concatenation is associative, with names for what it puts together.
LEMMA Associates ==
  ASSUME NEW E, NEW a \in Seq(E), NEW b \in Seq(E), NEW c \in Seq(E),
         NEW x, NEW y, x = a \o b, y = b \o c
  PROVE  x \o c = a \o y
BY SMTT(30), ConcatAssociative

\* Up to n, f[i] is the first i sequences of s, one after the other.
Flattens(f, s, n) ==
    \A i \in 1 .. n : f[i] = IF i = 1 THEN s[i] ELSE f[i - 1] \o s[i]

\* What the lemmas ask of sequences given by functions, up to n.
Agree(s, t, n)   == \A i \in 1 .. n : s[i] = t[i]
AllSeqs(t, E, n) == \A i \in 1 .. n : t[i] \in Seq(E)
Appends(f, t, n) == \A i \in 1 .. n : f[i + 1] = f[i] \o t[i]

Prefixed(f, g, n) == \A i \in 1 .. n : f[i + 1] = f[1] \o g[i]

\* What is flattened up to n is so up to less,
LEMMA FlattensLess ==
  ASSUME NEW n \in Nat, NEW m \in Nat, m =< n, NEW f, NEW s, Flattens(f, s, n)
  PROVE  Flattens(f, s, m)
BY DEF Flattens

\* such a function exists,
LEMMA FlattenExists ==
  ASSUME NEW E, NEW s \in Seq(Seq(E))
  PROVE  \E f \in [1 .. Len(s) -> Seq(E)] : Flattens(f, s, Len(s))
<1> DEFINE Step(f, i) == f[i] = IF i = 1 THEN s[i] ELSE f[i - 1] \o s[i]
           Found(n) == \E f \in [1 .. n -> Seq(E)] : \A i \in 1 .. n : Step(f, i)
           S == {n \in Nat : n =< Len(s) => Found(n)}
<1>0. Len(s) \in Nat /\ \A i \in 1 .. Len(s) : s[i] \in Seq(E)
  OBVIOUS
<1>1. 0 \in S
  <2>1. [i \in 1 .. 0 |-> <<>>] \in [1 .. 0 -> Seq(E)] /\ 1 .. 0 = {}
    OBVIOUS
  <2>2. Found(0)
    BY <2>1
  <2>3. QED
    BY <2>2
<1>2. ASSUME NEW n \in S PROVE n + 1 \in S
  <2>0. n \in Nat /\ (n =< Len(s) => Found(n))
    BY <1>2
  <2>1. SUFFICES ASSUME n + 1 =< Len(s) PROVE Found(n + 1)
    <3> HIDE DEF Found
    <3>1. QED
      BY <2>0
  <2>2. PICK f \in [1 .. n -> Seq(E)] : \A i \in 1 .. n : Step(f, i)
    <3>1. Found(n)
      <4> HIDE DEF Found, S
      <4>1. QED
        BY <2>0, <2>1, <1>0
    <3> HIDE DEF Step, S
    <3>2. QED
      BY <3>1
  <2> DEFINE last == IF n = 0 THEN s[n + 1] ELSE f[n] \o s[n + 1]
             g == [i \in 1 .. n + 1 |-> IF i = n + 1 THEN last ELSE f[i]]
  <2>3. last \in Seq(E)
    <3>1. s[n + 1] \in Seq(E) /\ (n # 0 => f[n] \in Seq(E))
      BY <1>0, <2>1
    <3>2. QED
      BY <3>1, ConcatProperties
  <2>4. g \in [1 .. n + 1 -> Seq(E)]
    BY <2>3
  <2>5. ASSUME NEW i \in 1 .. n + 1 PROVE Step(g, i)
    <3>1. CASE i = n + 1
      BY <3>1
    <3>2. CASE i # n + 1
      <4>1. i \in 1 .. n /\ g[i] = f[i] /\ (i # 1 => g[i - 1] = f[i - 1])
        BY <3>2
      <4>2. Step(f, i)
        BY <4>1, <2>2
      <4> HIDE DEF g
      <4>3. QED
        BY <4>1, <4>2
    <3>3. QED
      BY <3>1, <3>2
  <2> HIDE DEF g, Step
  <2>6. QED
    BY <2>4, <2>5
<1>3. S = Nat
  <2> HIDE DEF S
  <2>1. QED
    BY <1>1, <1>2, SetInduction DEF S
<1>4. Found(Len(s))
  <2> HIDE DEF Found
  <2>1. QED
    BY <1>0, <1>3
<1> HIDE DEF Step
<1>5. QED
  BY <1>4 DEF Flattens, Step

\* is determined by the sequences it puts together,
LEMMA FlattenUnique ==
  ASSUME NEW m \in Nat, NEW s, NEW t, Agree(s, t, m),
         NEW f, NEW g, Flattens(f, s, m), Flattens(g, t, m)
  PROVE  Agree(f, g, m)
<1> DEFINE S == {n \in Nat : n \in 1 .. m => f[n] = g[n]}
<1>1. 0 \in S
  OBVIOUS
<1>2. ASSUME NEW n \in S PROVE n + 1 \in S
  <2>1. SUFFICES ASSUME n + 1 \in 1 .. m PROVE f[n + 1] = g[n + 1]
    BY <1>2
  <2>2. /\ s[n + 1] = t[n + 1]
        /\ (n + 1) - 1 = n /\ (n + 1 = 1 \/ f[n] = g[n])
    BY <1>2, <2>1 DEF Agree
  <2> HIDE DEF S
  <2>3. QED
    BY <2>1, <2>2 DEF Flattens
<1>3. S = Nat
  <2> HIDE DEF S
  <2>1. QED
    BY <1>1, <1>2, SetInduction DEF S
<1>4. QED
  BY <1>3 DEF Agree

\* and is the one FlattenSeq chooses.
LEMMA FlattenIs ==
  ASSUME NEW E, NEW s \in Seq(Seq(E)), s # <<>>
  PROVE  \E f \in [1 .. Len(s) -> Seq(E)] : Flattens(f, s, Len(s)) /\ FlattenSeq(s) = f[Len(s)]
<1>1. Len(s) \in Nat \ {0}
  BY EmptySeq
<1>2. PICK f \in [1 .. Len(s) -> Seq(E)] : Flattens(f, s, Len(s))
  BY FlattenExists
<1>3. f = [i \in 1 .. Len(s) |-> IF i = 1 THEN s[i] ELSE f[i - 1] \o s[i]]
  BY <1>2 DEF Flattens
<1> DEFINE flatten == CHOOSE g : g = [i \in 1 .. Len(s) |-> IF i = 1 THEN s[i] ELSE g[i - 1] \o s[i]]
<1>4. flatten = [i \in 1 .. Len(s) |-> IF i = 1 THEN s[i] ELSE flatten[i - 1] \o s[i]]
  BY <1>3
<1>5. FlattenSeq(s) = flatten[Len(s)]
  BY <1>1 DEF FlattenSeq
<1> HIDE DEF flatten
<1>6. Flattens(flatten, s, Len(s))
  BY <1>4 DEF Flattens
<1>7. flatten[Len(s)] = f[Len(s)]
  <2>1. Agree(flatten, f, Len(s))
    <3>1. Len(s) \in Nat /\ Agree(s, s, Len(s))
      BY <1>1 DEF Agree
    <3>2. QED
      BY <1>2, <1>6, <3>1, FlattenUnique
  <2>2. QED
    BY <1>1, <2>1 DEF Agree
<1>8. QED
  BY <1>2, <1>5, <1>7

\* So FlattenSeq of a longer sequence has the last sequence at its end,
LEMMA FlattenLast ==
  ASSUME NEW E, NEW s \in Seq(Seq(E)), NEW x \in Seq(E)
  PROVE  /\ FlattenSeq(s) \in Seq(E)
         /\ FlattenSeq(Append(s, x)) = FlattenSeq(s) \o x
<1> DEFINE t == Append(s, x)
<1>0. /\ t \in Seq(Seq(E)) /\ Len(t) = Len(s) + 1 /\ Len(s) \in Nat
      /\ t[Len(s) + 1] = x /\ \A i \in 1 .. Len(s) : t[i] = s[i]
  BY AppendProperties, LenProperties
<1>1. /\ t \in Seq(Seq(E)) /\ t # <<>> /\ Len(t) = Len(s) + 1 /\ Len(s) \in Nat
      /\ t[Len(s) + 1] = x /\ \A i \in 1 .. Len(s) : t[i] = s[i]
  <2> HIDE DEF t
  <2>1. t # <<>>
    BY <1>0
  <2>2. QED
    BY <1>0, <2>1
<1> HIDE DEF t
<1>2. PICK g \in [1 .. Len(t) -> Seq(E)] : Flattens(g, t, Len(t)) /\ FlattenSeq(t) = g[Len(t)]
  BY <1>1, FlattenIs
<1>3. CASE s = <<>>
  <2>1. FlattenSeq(s) = <<>> /\ Len(s) = 0
    BY <1>3 DEF FlattenSeq
  <2>2. FlattenSeq(t) = x
    BY <1>1, <1>2, <2>1 DEF Flattens
  <2>3. QED
    BY <2>1, <2>2, ConcatEmptySeq, EmptySeq DEF t
<1>4. CASE s # <<>>
  <2>1. PICK f \in [1 .. Len(s) -> Seq(E)] : Flattens(f, s, Len(s)) /\ FlattenSeq(s) = f[Len(s)]
    BY <1>4, FlattenIs
  <2>2. Len(s) \in 1 .. Len(s)
    BY <1>1, <1>4, EmptySeq
  <2>3. f[Len(s)] = g[Len(s)]
    <3>1. Agree(f, g, Len(s))
      <4>1. Len(s) \in Nat /\ Agree(s, t, Len(s))
        BY <1>1 DEF Agree
      <4>2. Len(t) \in Nat /\ Len(s) =< Len(t)
        BY <1>1
      <4>3. Flattens(g, t, Len(s))
        BY <1>2, <4>1, <4>2, FlattensLess
      <4>4. QED
        BY <2>1, <4>1, <4>3, FlattenUnique
    <3>2. QED
      BY <2>2, <3>1 DEF Agree
  <2>4. g[Len(t)] = g[Len(s)] \o x
    <3>1. /\ Len(t) \in 1 .. Len(t) /\ Len(t) # 1 /\ Len(t) - 1 = Len(s) /\ t[Len(t)] = x
      BY <1>1, <2>2
    <3>2. QED
      BY <1>2, <3>1 DEF Flattens
  <2>5. QED
    BY <1>2, <2>1, <2>2, <2>3, <2>4 DEF t
<1>5. QED
  BY <1>3, <1>4

\* What is put together behind a is a and what is put together behind nothing.
LEMMA FlattenShift ==
  ASSUME NEW E, NEW m \in Nat, NEW t, NEW f, NEW g, f[1] \in Seq(E),
         AllSeqs(t, E, m), AllSeqs(g, E, m),
         Appends(f, t, m), Flattens(g, t, m)
  PROVE  Prefixed(f, g, m)
<1> DEFINE a == f[1]
           Joined(n) == f[n + 1] = a \o g[n]
           S == {n \in Nat : n \in 1 .. m => Joined(n)}
<1>1. 0 \in S
  OBVIOUS
<1>2. ASSUME NEW n \in S PROVE n + 1 \in S
  <2> HIDE DEF Joined
  <2>1. n \in Nat /\ (n \in 1 .. m => Joined(n))
    BY <1>2
  <2>2. SUFFICES ASSUME n + 1 \in 1 .. m PROVE Joined(n + 1)
    BY <2>1
  <2> HIDE DEF S
  <2>3. f[(n + 1) + 1] = f[n + 1] \o t[n + 1] /\ t[n + 1] \in Seq(E)
    BY <2>2 DEF Appends, AllSeqs
  <2>4. g[n + 1] = IF n + 1 = 1 THEN t[n + 1] ELSE g[(n + 1) - 1] \o t[n + 1]
    BY <2>2 DEF Flattens
  <2>5. CASE n = 0
    <3>1. n + 1 = 1
      BY <2>5
    <3>2. QED
      BY <2>3, <2>4, <3>1 DEF Joined
  <2>6. CASE n # 0
    <3>1. n \in 1 .. m /\ n + 1 # 1 /\ (n + 1) - 1 = n
      BY <2>1, <2>2, <2>6
    <3>2. f[n + 1] = a \o g[n] /\ g[n] \in Seq(E)
      BY <2>1, <3>1 DEF Joined, AllSeqs
    <3>3. g[n + 1] = g[n] \o t[n + 1]
      BY <2>4, <3>1
    <3> DEFINE b == g[n]  c == t[n + 1]  x == f[n + 1]  y == g[n + 1]
    <3>4. a \in Seq(E) /\ b \in Seq(E) /\ c \in Seq(E) /\ x = a \o b /\ y = b \o c
      BY <2>3, <3>2, <3>3
    <3>5. x \o c = a \o y
      <4> HIDE DEF a, b, c, x, y
      <4>1. QED
        BY <3>4, Associates
    <3>6. QED
      BY <2>3, <3>5 DEF Joined
  <2>7. QED
    BY <2>5, <2>6
<1>3. S = Nat
  <2> HIDE DEF S
  <2>1. QED
    BY <1>1, <1>2, SetInduction DEF S
<1>4. ASSUME NEW i \in 1 .. m PROVE f[i + 1] = a \o g[i]
  <2> HIDE DEF Joined
  <2>1. Joined(i)
    BY <1>3
  <2>2. QED
    BY <2>1 DEF Joined
<1>5. QED
  BY <1>4 DEF Prefixed

\* and the first one at its beginning.
LEMMA FlattenFirst ==
  ASSUME NEW E, NEW s \in Seq(Seq(E)), s # <<>>,
         NEW t \in Seq(Seq(E)), Len(s) = Len(t) + 1, \A i \in 1 .. Len(t) : t[i] = s[i + 1]
  PROVE  s[1] \in Seq(E) /\ FlattenSeq(t) \in Seq(E) /\ FlattenSeq(s) = s[1] \o FlattenSeq(t)
<1>1. /\ Len(t) \in Nat /\ s[1] \in Seq(E)
      /\ \A i \in 1 .. Len(t) : s[i + 1] = t[i] /\ t[i] \in Seq(E)
  OBVIOUS
<1>2. PICK f \in [1 .. Len(s) -> Seq(E)] : Flattens(f, s, Len(s)) /\ FlattenSeq(s) = f[Len(s)]
  BY FlattenIs
<1>3. f[1] = s[1]
  BY <1>1, <1>2 DEF Flattens
<1>4. CASE t = <<>>
  <2>1. FlattenSeq(t) = <<>> /\ Len(t) = 0
    BY <1>4 DEF FlattenSeq
  <2>2. QED
    BY <1>1, <1>2, <1>3, <2>1, ConcatEmptySeq, EmptySeq
<1>5. CASE t # <<>>
  <2>1. PICK g \in [1 .. Len(t) -> Seq(E)] : Flattens(g, t, Len(t)) /\ FlattenSeq(t) = g[Len(t)]
    BY <1>5, FlattenIs
  <2>2. Len(t) \in 1 .. Len(t)
    BY <1>1, <1>5, EmptySeq
  <2>3. ASSUME NEW i \in 1 .. Len(t) PROVE f[i + 1] = f[i] \o t[i]
    <3>1. i + 1 \in 1 .. Len(s) /\ i + 1 # 1 /\ (i + 1) - 1 = i /\ s[i + 1] = t[i]
      BY <1>1
    <3>2. QED
      BY <1>2, <3>1 DEF Flattens
  <2>4. \A i \in 1 .. Len(t) : f[i + 1] = s[1] \o g[i]
    <3>1. AllSeqs(t, E, Len(t)) /\ AllSeqs(g, E, Len(t))
      BY <1>1 DEF AllSeqs
    <3>2. Appends(f, t, Len(t))
      BY <2>3 DEF Appends
    <3>3. Len(t) \in Nat /\ f[1] \in Seq(E)
      BY <1>1, <1>3
    <3>4. Prefixed(f, g, Len(t))
      BY <2>1, <3>1, <3>2, <3>3, FlattenShift
    <3>5. QED
      BY <1>3, <3>4 DEF Prefixed
  <2>5. QED
    BY <1>1, <1>2, <2>1, <2>2, <2>4
<1>6. QED
  BY <1>4, <1>5

\* Up to n, each value of f is what h makes of the one before, e at first.
Iterates(f, h, e, n) == f[0] = e /\ \A i \in 1 .. n : f[i] = h[i][f[i - 1]]

\* There is such a function, with values where h has its values.
LEMMA Recursion ==
  ASSUME NEW E, NEW e \in E, NEW N \in Nat, NEW h \in [1 .. N -> [E -> E]]
  PROVE  \E f \in [0 .. N -> E] : Iterates(f, h, e, N)
<1> DEFINE Found(n) == \E f \in [0 .. n -> E] : Iterates(f, h, e, n)
           S == {n \in Nat : n =< N => Found(n)}
<1>1. 0 \in S
  <2>1. [i \in 0 .. 0 |-> e] \in [0 .. 0 -> E]
    OBVIOUS
  <2>2. Iterates([i \in 0 .. 0 |-> e], h, e, 0)
    BY DEF Iterates
  <2>3. QED
    BY <2>1, <2>2
<1>2. ASSUME NEW n \in S PROVE n + 1 \in S
  <2> HIDE DEF Found
  <2>1. n \in Nat /\ (n =< N => Found(n))
    BY <1>2
  <2>2. SUFFICES ASSUME n + 1 =< N PROVE Found(n + 1)
    BY <2>1
  <2> HIDE DEF S
  <2>3. Found(n)
    BY <2>1, <2>2
  <2>4. PICK f \in [0 .. n -> E] : Iterates(f, h, e, n)
    BY <2>3 DEF Found
  <2> DEFINE next == h[n + 1][f[n]]
             g == [i \in 0 .. n + 1 |-> IF i = n + 1 THEN next ELSE f[i]]
  <2>5. next \in E
    <3>1. h[n + 1] \in [E -> E] /\ f[n] \in E
      BY <2>1, <2>2, <2>4
    <3>2. QED
      BY <3>1
  <2>6. g \in [0 .. n + 1 -> E]
    <3>1. \A i \in 0 .. n + 1 : i # n + 1 => i \in 0 .. n
      BY <2>1
    <3> HIDE DEF next
    <3>2. QED
      BY <2>4, <2>5, <3>1
  <2>7. g[0] = e
    BY <2>1, <2>4 DEF Iterates
  <2>8. ASSUME NEW i \in 1 .. n + 1 PROVE g[i] = h[i][g[i - 1]]
    <3>1. CASE i = n + 1
      <4>1. g[i] = next /\ g[i - 1] = f[n]
        BY <2>1, <3>1
      <4> HIDE DEF g
      <4>2. QED
        BY <3>1, <4>1
    <3>2. CASE i # n + 1
      <4>1. g[i] = f[i] /\ g[i - 1] = f[i - 1] /\ i \in 1 .. n
        BY <2>1, <3>2
      <4> HIDE DEF g
      <4>2. QED
        BY <2>4, <4>1 DEF Iterates
    <3>3. QED
      BY <3>1, <3>2
  <2> HIDE DEF g
  <2>9. Iterates(g, h, e, n + 1)
    BY <2>7, <2>8 DEF Iterates
  <2>10. QED
    BY <2>6, <2>9 DEF Found
<1>3. S = Nat
  <2> HIDE DEF S
  <2>1. QED
    BY <1>1, <1>2, SetInduction DEF S
<1>4. QED
  BY <1>3
=============================================================================
