------------------------------ MODULE Counting ------------------------------
(***************************************************************************)
(* Lemmas about counting: a set that gains or loses an element, and how    *)
(* many elements of a sequence are of a kind when it grows, shrinks or is  *)
(* split.  The invariants of the counters (IOcount, sendFlag's parties, the *)
(* references of packets) rest on them.                                    *)
(***************************************************************************)
EXTENDS Elements, Integers, FiniteSetTheorems, SequenceTheorems, TLAPS

-----------------------------------------------------------------------------
(* Sets that differ in one element.                                        *)

\* A set and its cardinality when one element comes or goes.
LEMMA OneChanges ==
  ASSUME NEW S, IsFiniteSet(S), NEW T, NEW x, S \ {x} = T \ {x}
  PROVE  /\ IsFiniteSet(T)
         /\ Cardinality(S) \in Nat /\ Cardinality(T) \in Nat
         /\ Cardinality(T) = Cardinality(S) + (IF x \in T THEN 1 ELSE 0)
                                            - (IF x \in S THEN 1 ELSE 0)
         /\ x \in S => Cardinality(S) > 0
<1> DEFINE R == S \ {x}
<1>1. IsFiniteSet(R) /\ Cardinality(R) \in Nat
  BY FS_Subset, FS_CardinalityType
<1>2. /\ x \in S => S = R \cup {x}
      /\ x \notin S => S = R
      /\ x \in T => T = R \cup {x}
      /\ x \notin T => T = R
  OBVIOUS
<1>3. x \notin R
  OBVIOUS
<1>4. HIDE DEF R
<1>5. /\ IsFiniteSet(R \cup {x})
      /\ Cardinality(R \cup {x}) = Cardinality(R) + 1
  BY <1>1, <1>3, FS_AddElement
<1>6. Cardinality(S) = Cardinality(R) + (IF x \in S THEN 1 ELSE 0)
  <2>1. CASE x \in S
    BY <1>1, <1>2, <1>5, <2>1
  <2>2. CASE x \notin S
    BY <1>1, <1>2, <2>2
  <2>3. QED
    BY <2>1, <2>2
<1>7. IsFiniteSet(T) /\ Cardinality(T) = Cardinality(R) + (IF x \in T THEN 1 ELSE 0)
  <2>1. CASE x \in T
    BY <1>1, <1>2, <1>5, <2>1
  <2>2. CASE x \notin T
    BY <1>1, <1>2, <2>2
  <2>3. QED
    BY <2>1, <2>2
<1>8. QED
  BY <1>1, <1>6, <1>7

-----------------------------------------------------------------------------
(* Elements of a sequence.                                                 *)

\* What Among counts is a natural number, and positive when there is something.
LEMMA AmongType ==
  ASSUME NEW E, NEW M, NEW s \in Seq(E)
  PROVE  /\ IsFiniteSet({i \in DOMAIN s : s[i] \in M})
         /\ Among(M, s) \in Nat
         /\ Among(M, s) > 0 <=> \E i \in DOMAIN s : s[i] \in M
<1> DEFINE A == {i \in DOMAIN s : s[i] \in M}
<1>1. IsFiniteSet(A)
  BY FS_Interval, FS_Subset, LenProperties
<1>2. Cardinality(A) \in Nat /\ (Cardinality(A) = 0 <=> A = {})
  BY <1>1, FS_CardinalityType, FS_EmptySet
<1>3. QED
  BY <1>1, <1>2 DEF Among

\* There is nothing in an empty sequence.
LEMMA AmongEmpty == \A M : Among(M, <<>>) = 0
<1>1. \A M : {i \in DOMAIN <<>> : <<>>[i] \in M} = {}
  OBVIOUS
<1>2. QED
  BY <1>1, FS_EmptySet DEF Among

\* One more element.
LEMMA AmongAppend ==
  ASSUME NEW E, NEW M, NEW s \in Seq(E), NEW e \in E
  PROVE  Among(M, Append(s, e)) = Among(M, s) + (IF e \in M THEN 1 ELSE 0)
<1> DEFINE A == {i \in DOMAIN s : s[i] \in M}
           B == {i \in DOMAIN Append(s, e) : Append(s, e)[i] \in M}
           k == Len(s) + 1
<1>1. IsFiniteSet(A)
  BY AmongType
<1>2. A \ {k} = B \ {k} /\ k \notin A /\ (k \in B <=> e \in M)
  BY AppendProperties, LenProperties
<1>3. Among(M, s) = Cardinality(A) /\ Among(M, Append(s, e)) = Cardinality(B)
  BY DEF Among
<1>4. HIDE DEF A, B, k
<1>5. /\ Cardinality(B) = Cardinality(A) + (IF k \in B THEN 1 ELSE 0) - (IF k \in A THEN 1 ELSE 0)
      /\ Cardinality(A) \in Nat
  BY <1>1, <1>2, OneChanges
<1>6. QED
  BY <1>2, <1>3, <1>5

\* A sequence of one element.
LEMMA AmongOne ==
  ASSUME NEW E, NEW M, NEW e \in E
  PROVE  Among(M, <<e>>) = IF e \in M THEN 1 ELSE 0
<1> DEFINE z == <<>>
<1>1. <<e>> = Append(z, e) /\ z \in Seq(E)
  OBVIOUS
<1>2. Among(M, z) = 0
  BY AmongEmpty
<1>3. HIDE DEF z
<1>4. Among(M, Append(z, e)) = Among(M, z) + (IF e \in M THEN 1 ELSE 0)
  BY <1>1, AmongAppend
<1>5. Among(M, Append(z, e)) = IF e \in M THEN 1 ELSE 0
  BY <1>2, <1>4
<1>6. Among(M, <<e>>) = Among(M, Append(z, e))
  BY <1>1, Zenon
<1>7. QED
  BY <1>5, <1>6

\* Two sequences in a row.
LEMMA AmongConcat ==
  ASSUME NEW E, NEW M, NEW s \in Seq(E), NEW t \in Seq(E)
  PROVE  Among(M, s \o t) = Among(M, s) + Among(M, t)
<1> DEFINE A == {i \in DOMAIN s : s[i] \in M}
           B == {i \in DOMAIN t : t[i] \in M}
           C == {i \in DOMAIN (s \o t) : (s \o t)[i] \in M}
           D == C \ A
           f == [i \in B |-> i + Len(s)]
<1>1. /\ DOMAIN s = 1 .. Len(s) /\ DOMAIN t = 1 .. Len(t) /\ Len(s) \in Nat /\ Len(t) \in Nat
      /\ DOMAIN (s \o t) = 1 .. Len(s) + Len(t)
      /\ \A i \in 1 .. Len(s) + Len(t) :
            (s \o t)[i] = IF i =< Len(s) THEN s[i] ELSE t[i - Len(s)]
  BY ConcatProperties, LenProperties
<1>2. A \subseteq C /\ D = {i \in C : i > Len(s)}
  BY <1>1
<1>3. \A i \in B : i \in Nat /\ i + Len(s) \in D
  BY <1>1, <1>2
<1>4. \A j \in D : j - Len(s) \in B /\ j \in Nat
  BY <1>1, <1>2
<1>5. f \in Bijection(B, D)
  <2>1. f \in [B -> D]
    BY <1>3
  <2>2. \A i, j \in B : f[i] = f[j] => i = j
    BY <1>1, <1>3
  <2>3. \A j \in D : f[j - Len(s)] = j
    BY <1>1, <1>4
  <2>4. QED
    BY <1>4, <2>1, <2>2, <2>3 DEF Bijection, Injection, Surjection, IsInjective
<1>6. IsFiniteSet(A) /\ IsFiniteSet(B)
  BY AmongType
<1>7. A \cap D = {} /\ C = A \cup D
  BY <1>2
<1>8. Among(M, s) = Cardinality(A) /\ Among(M, t) = Cardinality(B) /\ Among(M, s \o t) = Cardinality(C)
  BY DEF Among
<1>9. HIDE DEF A, B, C, D, f
<1>10. IsFiniteSet(D) /\ Cardinality(D) = Cardinality(B)
  BY <1>5, <1>6, FS_Bijection DEF ExistsBijection
<1>11. Cardinality(C) = Cardinality(A) + Cardinality(D) - Cardinality(A \cap D)
  BY <1>6, <1>7, <1>10, FS_Union
<1>12. Cardinality(C) = Cardinality(A) + Cardinality(D)
  <2>1. Cardinality(A \cap D) = 0
    BY <1>7, FS_EmptySet
  <2>2. Cardinality(A) \in Nat /\ Cardinality(D) \in Nat
    BY <1>6, <1>10, FS_CardinalityType
  <2>3. QED
    BY <1>11, <2>1, <2>2
<1>13. QED
  BY <1>8, <1>10, <1>12

\* The first element goes.
LEMMA AmongTail ==
  ASSUME NEW E, NEW M, NEW s \in Seq(E), s # <<>>
  PROVE  Among(M, Tail(s)) = Among(M, s) - (IF Head(s) \in M THEN 1 ELSE 0)
<1>1. /\ Head(s) \in E /\ Tail(s) \in Seq(E)
      /\ s = <<Head(s)>> \o Tail(s)
  <2>1. Head(s) \in E /\ Tail(s) \in Seq(E) /\ Len(Tail(s)) = Len(s) - 1
        /\ \A i \in 1 .. Len(Tail(s)) : Tail(s)[i] = s[i + 1]
    BY HeadTailProperties
  <2>2. Len(s) \in Nat /\ Head(s) = s[1] /\ <<Head(s)>> \in Seq(E)
    BY <2>1, LenProperties
  <2>3. <<Head(s)>> \o Tail(s) \in Seq(E) /\ Len(<<Head(s)>> \o Tail(s)) = Len(s)
        /\ \A i \in 1 .. Len(s) : (<<Head(s)>> \o Tail(s))[i] = s[i]
    BY <2>1, <2>2
  <2>4. QED
    BY <2>1, <2>3, SeqEqual
<1>2. Among(M, <<Head(s)>>) = IF Head(s) \in M THEN 1 ELSE 0
  BY <1>1, AmongOne
<1>3. Among(M, s) = Among(M, <<Head(s)>>) + Among(M, Tail(s))
  <2>1. <<Head(s)>> \in Seq(E)
    BY <1>1
  <2>2. QED
    BY <1>1, <2>1, AmongConcat
<1>4. Among(M, Tail(s)) \in Nat
  BY <1>1, AmongType
<1>5. QED
  BY <1>2, <1>3, <1>4

\* A sequence is its first k elements and the others.
LEMMA Split ==
  ASSUME NEW E, NEW s \in Seq(E), NEW k \in 0 .. Len(s)
  PROVE  /\ SubSeq(s, 1, k) \in Seq(E) /\ SubSeq(s, k + 1, Len(s)) \in Seq(E)
         /\ s = SubSeq(s, 1, k) \o SubSeq(s, k + 1, Len(s))
         /\ Len(SubSeq(s, 1, k)) = k /\ Len(SubSeq(s, k + 1, Len(s))) = Len(s) - k
<1>1. Len(s) \in Nat /\ \A i \in 1 .. Len(s) : s[i] \in E
  BY LenProperties
<1>2. SubSeq(s, 1, Len(s)) = s
  BY SubSeqFull
<1>3. SubSeq(s, 1, k) \o SubSeq(s, k + 1, Len(s)) = SubSeq(s, 1, Len(s))
  <2>1. 1 \in 1 .. Len(s) + 1 /\ k \in 1 - 1 .. Len(s) /\ Len(s) \in k .. Len(s)
    BY <1>1
  <2>2. QED
    BY <2>1, ConcatAdjacentSubSeq
<1>4. SubSeq(s, 1, k) \in Seq(E) /\ Len(SubSeq(s, 1, k)) = k
  BY <1>1, SubSeqProperties, Z3
<1>5. SubSeq(s, k + 1, Len(s)) \in Seq(E) /\ Len(SubSeq(s, k + 1, Len(s))) = Len(s) - k
  BY <1>1, SubSeqProperties, Z3
<1>6. QED
  BY <1>2, <1>3, <1>4, <1>5

\* The elements of a sequence are those of its two parts.
LEMMA AmongSplit ==
  ASSUME NEW E, NEW M, NEW s \in Seq(E), NEW k \in 0 .. Len(s)
  PROVE  Among(M, s) = Among(M, SubSeq(s, 1, k)) + Among(M, SubSeq(s, k + 1, Len(s)))
<1> DEFINE a == SubSeq(s, 1, k)
           b == SubSeq(s, k + 1, Len(s))
<1>1. a \in Seq(E) /\ b \in Seq(E) /\ s = a \o b
  BY Split
<1>2. HIDE DEF a, b
<1>3. Among(M, a \o b) = Among(M, a) + Among(M, b)
  BY <1>1, AmongConcat
<1>4. QED
  BY <1>1, <1>3 DEF a, b
=============================================================================
