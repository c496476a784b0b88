------------------------- MODULE SessionSlotsProofs -------------------------
(***************************************************************************)
(* The safety of the session table for any number of slots, workers and    *)
(* content threads: IInv of SessionSlots is inductive, and it implies the  *)
(* properties that TLC checks on the small instances.  The last part shows *)
(* that the table implements SlotPool.                                     *)
(***************************************************************************)
EXTENDS SessionSlots, FiniteSetTheorems, SequenceTheorems, TLAPS
-----------------------------------------------------------------------------
(* Counting the references of a slot.                                      *)

\* The references of a slot are finitely many, as the threads are.
LEMMA RefsFinite ==
  ASSUME NEW s \in Slots
  PROVE  IsFiniteSet(Refs(s)) /\ Cardinality(Refs(s)) \in Nat
<1> DEFINE Kinds == {"base", "op", "io"}
<1>1. IsFiniteSet(Threads)
  BY ThreadsAssumption, FS_Union, FS_Singleton DEF Threads
<1>2. IsFiniteSet(Kinds)
  <2>1. Kinds = {"base"} \cup {"op"} \cup {"io"}
    OBVIOUS
  <2>2. HIDE DEF Kinds
  <2>3. QED
    BY <2>1, FS_Union, FS_Singleton
<1>3. Refs(s) \subseteq Threads \X Kinds
  BY DEF Refs
<1>4. HIDE DEF Kinds
<1>5. IsFiniteSet(Refs(s))
  BY <1>1, <1>2, <1>3, FS_Product, FS_Subset
<1>6. QED
  BY <1>5, FS_CardinalityType

\* A set and its cardinality when an element comes or goes: the arithmetic of
\* incrementIO and decrementIO.
LEMMA CardinalityChange ==
  ASSUME NEW S, IsFiniteSet(S), Cardinality(S) \in Nat, NEW r
  PROVE  /\ r \notin S => Cardinality(S \cup {r}) = Cardinality(S) + 1
         /\ r \in S => Cardinality(S \ {r}) = Cardinality(S) - 1
         /\ r \in S => Cardinality(S) > 0
<1>1. r \notin S => Cardinality(S \cup {r}) = Cardinality(S) + 1
  BY FS_AddElement
<1>2. r \in S => Cardinality(S \ {r}) = Cardinality(S) - 1
  BY FS_RemoveElement
<1>3. r \in S => Cardinality(S) > 0
  BY FS_EmptySet
<1>4. QED
  BY <1>1, <1>2, <1>3

\* The reference of a refused receive, before a step and after it.
LEMMA LeakedCounts ==
  ASSUME NEW s
  PROVE  /\ Leaked(s) \in Nat
         /\ leaked' = leaked => Leaked(s)' = Leaked(s)
         /\ s \notin leaked /\ leaked' = leaked \cup {s} => Leaked(s)' = Leaked(s) + 1
         /\ \A r : r # s /\ leaked' = leaked \cup {r} => Leaked(s)' = Leaked(s)
BY DEF Leaked

\* Taking a reference and counting it keeps the count exact.
LEMMA CountTaken ==
  ASSUME TypeOK, CountIsReferences, NEW s \in Slots, NEW r, r \notin Refs(s),
         \A x \in Slots : Refs(x)' = IF x = s THEN Refs(x) \cup {r} ELSE Refs(x),
         count' = [count EXCEPT ![s] = @ + 1], io' = io, leaked' = leaked
  PROVE  CountIsReferences'
<1>1. SUFFICES ASSUME NEW x \in Slots
               PROVE  count'[x] = Cardinality(Refs(x)') + io[x] + Leaked(x)
  BY LeakedCounts DEF CountIsReferences
<1>2. /\ count[x] = Cardinality(Refs(x)) + io[x] + Leaked(x)
      /\ count[x] \in Nat /\ io[x] \in Nat /\ Leaked(x) \in Nat
  BY LeakedCounts DEF CountIsReferences, TypeOK
<1>3. CASE x = s
  <2>1. Refs(x)' = Refs(x) \cup {r} /\ r \notin Refs(x)
    BY <1>3
  <2>2. Cardinality(Refs(x)') = Cardinality(Refs(x)) + 1
    BY <2>1, RefsFinite, CardinalityChange
  <2>3. count'[x] = count[x] + 1
    BY <1>3 DEF TypeOK
  <2>4. QED
    BY <2>2, <2>3, <1>2, RefsFinite
<1>4. CASE x # s
  BY <1>2, <1>4 DEF TypeOK
<1>5. QED
  BY <1>3, <1>4

\* Giving a counted reference back keeps the count exact, and non-negative.
LEMMA CountDropped ==
  ASSUME TypeOK, CountIsReferences, NEW s \in Slots, NEW r, r \in Refs(s),
         \A x \in Slots : Refs(x)' = IF x = s THEN Refs(x) \ {r} ELSE Refs(x),
         count' = [count EXCEPT ![s] = @ - 1], io' = io, leaked' = leaked
  PROVE  CountIsReferences' /\ count[s] > 0
<1>1. \A x \in Slots :
         /\ count[x] = Cardinality(Refs(x)) + io[x] + Leaked(x)
         /\ count[x] \in Nat /\ io[x] \in Nat /\ Leaked(x) \in Nat
  BY LeakedCounts DEF CountIsReferences, TypeOK
<1>2. count[s] > 0
  <2>1. Cardinality(Refs(s)) \in Nat /\ Cardinality(Refs(s)) > 0
    BY RefsFinite, CardinalityChange
  <2>2. QED
    BY <2>1, <1>1
<1>3. ASSUME NEW x \in Slots
      PROVE  count'[x] = Cardinality(Refs(x)') + io[x] + Leaked(x)
  <2>1. CASE x = s
    <3>1. Refs(x)' = Refs(x) \ {r} /\ r \in Refs(x)
      BY <2>1
    <3>2. Cardinality(Refs(x)') = Cardinality(Refs(x)) - 1
      BY <3>1, RefsFinite, CardinalityChange
    <3>3. count'[x] = count[x] - 1
      BY <2>1 DEF TypeOK
    <3>4. QED
      BY <3>2, <3>3, <1>1, RefsFinite
  <2>2. CASE x # s
    BY <1>1, <2>2 DEF TypeOK
  <2>3. QED
    BY <2>1, <2>2
<1>4. QED
  BY <1>2, <1>3, LeakedCounts DEF CountIsReferences

\* A counted reference that becomes that of an outstanding operation.
LEMMA CountHandedToIO ==
  ASSUME TypeOK, CountIsReferences, NEW s \in Slots, NEW r, r \in Refs(s),
         \A x \in Slots : Refs(x)' = IF x = s THEN Refs(x) \ {r} ELSE Refs(x),
         io' = [io EXCEPT ![s] = @ + 1], count' = count, leaked' = leaked
  PROVE  CountIsReferences'
<1>1. SUFFICES ASSUME NEW x \in Slots
               PROVE  count[x] = Cardinality(Refs(x)') + io'[x] + Leaked(x)
  BY LeakedCounts DEF CountIsReferences
<1>2. /\ count[x] = Cardinality(Refs(x)) + io[x] + Leaked(x)
      /\ count[x] \in Nat /\ io[x] \in Nat /\ Leaked(x) \in Nat
  BY LeakedCounts DEF CountIsReferences, TypeOK
<1>3. CASE x = s
  <2>1. Refs(x)' = Refs(x) \ {r} /\ r \in Refs(x)
    BY <1>3
  <2>2. Cardinality(Refs(x)') = Cardinality(Refs(x)) - 1
    BY <2>1, RefsFinite, CardinalityChange
  <2>3. io'[x] = io[x] + 1
    BY <1>3 DEF TypeOK
  <2>4. QED
    BY <2>2, <2>3, <1>2, RefsFinite
<1>4. CASE x # s
  BY <1>2, <1>4 DEF TypeOK
<1>5. QED
  BY <1>3, <1>4

\* The reference of an operation that becomes the worker's.
LEMMA CountTakenFromIO ==
  ASSUME TypeOK, CountIsReferences, NEW s \in Slots, NEW r, r \notin Refs(s),
         \A x \in Slots : Refs(x)' = IF x = s THEN Refs(x) \cup {r} ELSE Refs(x),
         io' = [io EXCEPT ![s] = @ - 1], count' = count, leaked' = leaked
  PROVE  CountIsReferences'
<1>1. SUFFICES ASSUME NEW x \in Slots
               PROVE  count[x] = Cardinality(Refs(x)') + io'[x] + Leaked(x)
  BY LeakedCounts DEF CountIsReferences
<1>2. /\ count[x] = Cardinality(Refs(x)) + io[x] + Leaked(x)
      /\ count[x] \in Nat /\ io[x] \in Nat /\ Leaked(x) \in Nat
  BY LeakedCounts DEF CountIsReferences, TypeOK
<1>3. CASE x = s
  <2>1. Refs(x)' = Refs(x) \cup {r} /\ r \notin Refs(x)
    BY <1>3
  <2>2. Cardinality(Refs(x)') = Cardinality(Refs(x)) + 1
    BY <2>1, RefsFinite, CardinalityChange
  <2>3. io'[x] = io[x] - 1
    BY <1>3 DEF TypeOK
  <2>4. QED
    BY <2>2, <2>3, <1>2, RefsFinite
<1>4. CASE x # s
  BY <1>2, <1>4 DEF TypeOK
<1>5. QED
  BY <1>3, <1>4

\* Steps that neither take nor drop a reference.
LEMMA CountUntouched ==
  ASSUME CountIsReferences, \A x \in Slots : Refs(x)' = Refs(x),
         count' = count, io' = io, leaked' = leaked
  PROVE  CountIsReferences'
BY LeakedCounts DEF CountIsReferences

\* The reference of an operation that nobody answers for any longer.
LEMMA CountLeaked ==
  ASSUME TypeOK, CountIsReferences, NEW s \in Slots, s \notin leaked, io[s] > 0,
         \A x \in Slots : Refs(x)' = Refs(x), count' = count,
         io' = [io EXCEPT ![s] = @ - 1], leaked' = leaked \cup {s}
  PROVE  CountIsReferences'
<1>1. SUFFICES ASSUME NEW x \in Slots
               PROVE  count[x] = Cardinality(Refs(x)) + io'[x] + Leaked(x)'
  BY DEF CountIsReferences
<1>2. /\ count[x] = Cardinality(Refs(x)) + io[x] + Leaked(x)
      /\ count[x] \in Nat /\ io[x] \in Nat /\ Leaked(x) \in Nat
  BY LeakedCounts DEF CountIsReferences, TypeOK
<1>3. CASE x = s
  <2>1. io'[x] = io[x] - 1 /\ Leaked(x)' = Leaked(x) + 1
    BY <1>3, LeakedCounts DEF TypeOK
  <2>2. QED
    BY <2>1, <1>2, RefsFinite
<1>4. CASE x # s
  <2>1. io'[x] = io[x] /\ Leaked(x)' = Leaked(x)
    BY <1>4, LeakedCounts DEF TypeOK
  <2>2. QED
    BY <2>1, <1>2, RefsFinite
<1>5. QED
  BY <1>3, <1>4

-----------------------------------------------------------------------------
(* Who owns a slot, and which slots are live.                              *)

\* A step that keeps the owners and the stack may change a slot's life only by
\* its bit.
LEMMA SameOwners ==
  ASSUME indexStack' = indexStack,
         \A u \in Threads, x \in Slots : Owns(u, x)' <=> Owns(u, x)
  PROVE  /\ \A x \in Slots : OnStack(x)' <=> OnStack(x)
         /\ OwnersAreExclusive => OwnersAreExclusive'
         /\ del' = del => \A x \in Slots : Live(x)' <=> Live(x)
<1>1. \A x \in Slots : OnStack(x)' <=> OnStack(x)
  BY DEF OnStack
<1>2. NoDuplicates' <=> NoDuplicates
  BY DEF NoDuplicates
<1>3. OwnersAreExclusive => OwnersAreExclusive'
  BY <1>1, <1>2 DEF OwnersAreExclusive
<1>4. del' = del => \A x \in Slots : Live(x)' <=> Live(x)
  BY <1>1 DEF Live
<1>5. QED
  BY <1>1, <1>3, <1>4

\* A known slot whose bit is clear is live: what the test in findSession and the
\* exchange in deleteSession rely on.
LEMMA KnownAndClear ==
  ASSUME KnownSlots, NEW s \in Slots, Known(s), ~del[s]
  PROVE  Live(s)
BY DEF KnownSlots, Live

\* Who uses a slot owns a counted reference to it.
LEMMA UsesAreCounted ==
  ASSUME TypeOK, CountIsReferences, NEW s \in Slots,
         io[s] > 0 \/ \E t \in Threads : Uses(t, s)
  PROVE  count[s] > 0
<1>1. /\ count[s] = Cardinality(Refs(s)) + io[s] + Leaked(s)
      /\ io[s] \in Nat /\ Leaked(s) \in Nat
  BY LeakedCounts DEF CountIsReferences, TypeOK
<1>2. CASE io[s] > 0
  BY <1>1, <1>2, RefsFinite
<1>3. CASE \E t \in Threads : Uses(t, s)
  <2>1. PICK t \in Threads : Uses(t, s)
    BY <1>3
  <2>2. \/ <<t, "base">> \in Refs(s)
        \/ <<t, "op">> \in Refs(s)
        \/ <<t, "io">> \in Refs(s)
    BY <2>1 DEF Uses, Refs, OpRef, IoRef
  <2>3. Cardinality(Refs(s)) > 0
    BY <2>2, RefsFinite, CardinalityChange
  <2>4. QED
    BY <2>3, <1>1, RefsFinite
<1>4. QED
  BY <1>2, <1>3

-----------------------------------------------------------------------------
(* One lemma per action: it keeps SlotInv.                                    *)

\* findSession takes its reference before it knows whether the slot is live.
LEMMA FindIncKeeps ==
  ASSUME SlotInv, NEW t \in Threads, FindInc(t)
  PROVE  SlotInv' /\ \A x \in Slots : Live(x)' => Live(x)
<1> DEFINE s == at[t]
<1> USE DEF FindInc
<1>1. s \in Slots /\ Known(s)
  BY DEF SlotInv, KnownSlots
<1>2. TypeOK'
  BY <1>1 DEF SlotInv, TypeOK, PCs, OpRef
<1>3. CountIsReferences'
  <2>1. \A x \in Slots : Refs(x)' = IF x = s THEN Refs(x) \cup {<<t, "op">>} ELSE Refs(x)
    BY DEF SlotInv, TypeOK, Refs, OpRef, IoRef
  <2>2. <<t, "op">> \notin Refs(s)
    BY DEF Refs, OpRef
  <2>3. QED
    BY <1>1, <2>1, <2>2, CountTaken DEF SlotInv
<1>4. /\ \A x \in Slots, u \in Threads : Owns(u, x)' <=> Owns(u, x)
      /\ \A x \in Slots : OnStack(x)' <=> OnStack(x)
      /\ \A x \in Slots : Live(x)' <=> Live(x)
      /\ OwnersAreExclusive'
  <2>1. \A x \in Slots, u \in Threads : Owns(u, x)' <=> Owns(u, x)
    BY DEF Owns, Deleting, Initialising, SlotInv, TypeOK
  <2>2. QED
    BY <2>1, SameOwners DEF SlotInv
<1>5. UsersHaveTheirSession'
  BY <1>4 DEF SlotInv, TypeOK, UsersHaveTheirSession, Uses, IoRef
<1>6. NoOrphan'
  BY <1>4, <1>1 DEF SlotInv, TypeOK, NoOrphan
<1>7. AcceptorFindsItsSession'
  BY <1>1 DEF SlotInv, TypeOK, AcceptorFindsItsSession
<1>8. KnownSlots'
  BY ZenonT(60), <1>1, <1>4 DEF SlotInv, TypeOK, KnownSlots, Known, OpRef, IoRef
<1>9. AcceptorState'
  BY <1>1 DEF SlotInv, TypeOK, AcceptorState, Initialising, Deleting
<1>10. LiveSlots'
  <2>1. ~del[s] => Live(s)
    BY <1>1, KnownAndClear DEF SlotInv
  <2>2. \A u \in Threads : pc'[u] = "check" => at'[u] \in Slots /\ Live(at'[u])
    BY <2>1, <1>1 DEF SlotInv, TypeOK, LiveSlots, KnownSlots, OpRef
  <2>3. QED
    BY <2>2, <1>4 DEF SlotInv, TypeOK, LiveSlots, Carries
<1>11. QED
  BY <1>2, <1>3, <1>4, <1>5, <1>6, <1>7, <1>8, <1>9, <1>10 DEF SlotInv

\* The comparison of the IDs: equality makes a looked-up session of a live slot.
LEMMA FindCheckKeeps ==
  ASSUME SlotInv, NEW t \in Threads, FindCheck(t)
  PROVE  SlotInv' /\ \A x \in Slots : Live(x)' => Live(x)
<1> DEFINE s == at[t]
<1> USE DEF FindCheck, shared
<1>1. s \in Slots /\ Known(s) /\ Live(s)
  BY DEF SlotInv, KnownSlots, OpRef, LiveSlots
<1>2. TypeOK'
  BY DEF SlotInv, TypeOK, PCs, OpRef
<1>3. CountIsReferences'
  <2>1. \A x \in Slots : Refs(x)' = Refs(x)
    BY DEF SlotInv, TypeOK, Refs, OpRef, IoRef
  <2>2. QED
    BY <2>1, CountUntouched DEF SlotInv
<1>4. /\ \A x \in Slots, u \in Threads : Owns(u, x)' <=> Owns(u, x)
      /\ \A x \in Slots : OnStack(x)' <=> OnStack(x)
      /\ \A x \in Slots : Live(x)' <=> Live(x)
      /\ OwnersAreExclusive'
  <2>1. \A x \in Slots, u \in Threads : Owns(u, x)' <=> Owns(u, x)
    BY DEF Owns, Deleting, Initialising, SlotInv, TypeOK
  <2>2. QED
    BY <2>1, SameOwners DEF SlotInv
<1>5. UsersHaveTheirSession'
  <2>1. \A x \in Slots : io[x] > 0 \/ (\E u \in Threads : Uses(u, x))' =>
           Live(x) /\ ID[x] # NoId /\ sock[x] = ID[x]
    BY <1>1 DEF SlotInv, TypeOK, UsersHaveTheirSession, Uses, IoRef, LiveSlots, Carries
  <2>2. QED
    BY <2>1, <1>4 DEF SlotInv, TypeOK, UsersHaveTheirSession
<1>6. NoOrphan'
  BY <1>4 DEF SlotInv, TypeOK, NoOrphan
<1>7. AcceptorFindsItsSession'
  BY DEF SlotInv, TypeOK, AcceptorFindsItsSession
<1>8. KnownSlots'
  BY <1>1, <1>4 DEF SlotInv, TypeOK, KnownSlots, Known, OpRef, IoRef
<1>9. AcceptorState'
  BY <1>1 DEF SlotInv, TypeOK, AcceptorState, Initialising, Deleting
<1>10. LiveSlots'
  <2>1. \A u \in Threads : pc'[u] = "check" => at'[u] \in Slots /\ Live(at'[u])
    BY DEF SlotInv, TypeOK, LiveSlots, KnownSlots, OpRef
  <2>2. QED
    BY <2>1, <1>4 DEF SlotInv, TypeOK, LiveSlots, Carries
<1>11. QED
  BY <1>2, <1>3, <1>4, <1>5, <1>6, <1>7, <1>8, <1>9, <1>10 DEF SlotInv

\* A looked-up session is used under its reference.
LEMMA UseSessionKeeps ==
  ASSUME SlotInv, NEW t \in Threads, UseSession(t)
  PROVE  SlotInv' /\ \A x \in Slots : Live(x)' => Live(x)
<1> DEFINE s == at[t]
<1> USE DEF UseSession, shared
<1>1. s \in Slots /\ Known(s)
  BY DEF SlotInv, KnownSlots, OpRef
<1>2. TypeOK'
  BY DEF SlotInv, TypeOK, PCs, OpRef
<1>3. CountIsReferences'
  <2>1. \A x \in Slots : Refs(x)' = Refs(x)
    BY DEF SlotInv, TypeOK, Refs, OpRef, IoRef
  <2>2. QED
    BY <2>1, CountUntouched DEF SlotInv
<1>4. /\ \A x \in Slots, u \in Threads : Owns(u, x)' <=> Owns(u, x)
      /\ \A x \in Slots : OnStack(x)' <=> OnStack(x)
      /\ \A x \in Slots : Live(x)' <=> Live(x)
      /\ OwnersAreExclusive'
  <2>1. \A x \in Slots, u \in Threads : Owns(u, x)' <=> Owns(u, x)
    BY DEF Owns, Deleting, Initialising, SlotInv, TypeOK
  <2>2. QED
    BY <2>1, SameOwners DEF SlotInv
<1>5. UsersHaveTheirSession'
  BY <1>4 DEF SlotInv, TypeOK, UsersHaveTheirSession, Uses, IoRef
<1>6. NoOrphan'
  BY <1>4 DEF SlotInv, TypeOK, NoOrphan
<1>7. AcceptorFindsItsSession'
  BY DEF SlotInv, TypeOK, AcceptorFindsItsSession
<1>8. KnownSlots'
  BY ZenonT(60), <1>1, <1>4 DEF SlotInv, TypeOK, KnownSlots, Known, OpRef, IoRef
<1>9. AcceptorState'
  BY <1>1 DEF SlotInv, TypeOK, AcceptorState, Initialising, Deleting
<1>10. LiveSlots'
  <2>1. \A u \in Threads : pc'[u] = "check" => at'[u] \in Slots /\ Live(at'[u])
    BY DEF SlotInv, TypeOK, LiveSlots, KnownSlots, OpRef
  <2>2. QED
    BY <2>1, <1>4 DEF SlotInv, TypeOK, LiveSlots, Carries
<1>11. QED
  BY <1>2, <1>3, <1>4, <1>5, <1>6, <1>7, <1>8, <1>9, <1>10 DEF SlotInv

\* sendReq takes the posted request's reference while it holds its own.
LEMMA SendReqIncKeeps ==
  ASSUME SlotInv, NEW t \in Threads, SendReqInc(t)
  PROVE  SlotInv' /\ \A x \in Slots : Live(x)' => Live(x)
<1> DEFINE s == at[t]
<1> USE DEF SendReqInc
<1>1. s \in Slots /\ Known(s)
  BY DEF SlotInv, KnownSlots, OpRef
<1>2. TypeOK'
  BY <1>1 DEF SlotInv, TypeOK, PCs, OpRef
<1>3. CountIsReferences'
  <2>1. \A x \in Slots : Refs(x)' = IF x = s THEN Refs(x) \cup {<<t, "io">>} ELSE Refs(x)
    BY DEF SlotInv, TypeOK, Refs, OpRef, IoRef
  <2>2. <<t, "io">> \notin Refs(s)
    BY DEF Refs, IoRef
  <2>3. QED
    BY <1>1, <2>1, <2>2, CountTaken DEF SlotInv
<1>4. /\ \A x \in Slots, u \in Threads : Owns(u, x)' <=> Owns(u, x)
      /\ \A x \in Slots : OnStack(x)' <=> OnStack(x)
      /\ \A x \in Slots : Live(x)' <=> Live(x)
      /\ OwnersAreExclusive'
  <2>1. \A x \in Slots, u \in Threads : Owns(u, x)' <=> Owns(u, x)
    BY DEF Owns, Deleting, Initialising, SlotInv, TypeOK
  <2>2. QED
    BY <2>1, SameOwners DEF SlotInv
<1>5. UsersHaveTheirSession'
  BY <1>4 DEF SlotInv, TypeOK, UsersHaveTheirSession, Uses, IoRef
<1>6. NoOrphan'
  BY <1>4, <1>1 DEF SlotInv, TypeOK, NoOrphan
<1>7. AcceptorFindsItsSession'
  BY <1>1 DEF SlotInv, TypeOK, AcceptorFindsItsSession
<1>8. KnownSlots'
  BY ZenonT(60), <1>1, <1>4 DEF SlotInv, TypeOK, KnownSlots, Known, OpRef, IoRef
<1>9. AcceptorState'
  BY <1>1 DEF SlotInv, TypeOK, AcceptorState, Initialising, Deleting
<1>10. LiveSlots'
  <2>1. \A u \in Threads : pc'[u] = "check" => at'[u] \in Slots /\ Live(at'[u])
    BY DEF SlotInv, TypeOK, LiveSlots, KnownSlots, OpRef
  <2>2. QED
    BY <2>1, <1>4 DEF SlotInv, TypeOK, LiveSlots, Carries
<1>11. QED
  BY <1>2, <1>3, <1>4, <1>5, <1>6, <1>7, <1>8, <1>9, <1>10 DEF SlotInv

\* The posted request takes the reference over.
LEMMA SendReqPostKeeps ==
  ASSUME SlotInv, NEW t \in Threads, SendReqPost(t)
  PROVE  SlotInv' /\ \A x \in Slots : Live(x)' => Live(x)
<1> DEFINE s == at[t]
<1> USE DEF SendReqPost
<1>1. s \in Slots /\ Known(s)
  BY DEF SlotInv, KnownSlots, OpRef
<1>2. TypeOK'
  BY <1>1 DEF SlotInv, TypeOK, PCs, OpRef
<1>3. CountIsReferences'
  <2>1. \A x \in Slots : Refs(x)' = IF x = s THEN Refs(x) \ {<<t, "io">>} ELSE Refs(x)
    BY DEF SlotInv, TypeOK, Refs, OpRef, IoRef
  <2>2. <<t, "io">> \in Refs(s)
    BY DEF Refs, IoRef
  <2>3. QED
    BY <1>1, <2>1, <2>2, CountHandedToIO DEF SlotInv
<1>4. /\ \A x \in Slots, u \in Threads : Owns(u, x)' <=> Owns(u, x)
      /\ \A x \in Slots : OnStack(x)' <=> OnStack(x)
      /\ \A x \in Slots : Live(x)' <=> Live(x)
      /\ OwnersAreExclusive'
  <2>1. \A x \in Slots, u \in Threads : Owns(u, x)' <=> Owns(u, x)
    BY DEF Owns, Deleting, Initialising, SlotInv, TypeOK
  <2>2. QED
    BY <2>1, SameOwners DEF SlotInv
<1>5. UsersHaveTheirSession'
  <2>1. \A x \in Slots : io'[x] > 0 \/ (\E u \in Threads : Uses(u, x))' =>
           io[x] > 0 \/ (\E u \in Threads : Uses(u, x))
    BY <1>1 DEF SlotInv, TypeOK, Uses, IoRef
  <2>2. QED
    BY <2>1, <1>4 DEF SlotInv, TypeOK, UsersHaveTheirSession
<1>6. NoOrphan'
  BY <1>4 DEF SlotInv, TypeOK, NoOrphan
<1>7. AcceptorFindsItsSession'
  BY DEF SlotInv, TypeOK, AcceptorFindsItsSession
<1>8. KnownSlots'
  BY ZenonT(60), <1>1, <1>4 DEF SlotInv, TypeOK, KnownSlots, Known, OpRef, IoRef
<1>9. AcceptorState'
  BY <1>1 DEF SlotInv, TypeOK, AcceptorState, Initialising, Deleting
<1>10. LiveSlots'
  <2>1. \A u \in Threads : pc'[u] = "check" => at'[u] \in Slots /\ Live(at'[u])
    BY DEF SlotInv, TypeOK, LiveSlots, KnownSlots, OpRef
  <2>2. QED
    BY <2>1, <1>4 DEF SlotInv, TypeOK, LiveSlots, Carries
<1>11. QED
  BY <1>2, <1>3, <1>4, <1>5, <1>6, <1>7, <1>8, <1>9, <1>10 DEF SlotInv

\* An operation drops its reference: whoever drops the last one goes on to
\* deleteSession.
LEMMA ReleaseKeeps ==
  ASSUME SlotInv, NEW t \in Threads, Release(t)
  PROVE  SlotInv' /\ \A x \in Slots : Live(x)' => Live(x)
<1> DEFINE s == at[t]
<1> USE DEF Release, LastReference
<1>1. s \in Slots /\ Known(s)
  BY DEF SlotInv, KnownSlots, OpRef
<1>2. CountIsReferences' /\ count[s] > 0
  <2>1. \A x \in Slots : Refs(x)' = IF x = s THEN Refs(x) \ {<<t, "op">>} ELSE Refs(x)
    BY DEF SlotInv, TypeOK, Refs, OpRef, IoRef
  <2>2. <<t, "op">> \in Refs(s)
    BY DEF Refs, OpRef
  <2>3. QED
    BY <1>1, <2>1, <2>2, CountDropped DEF SlotInv
<1>3. TypeOK'
  BY <1>1, <1>2 DEF SlotInv, TypeOK, PCs
<1>4. /\ \A x \in Slots, u \in Threads : Owns(u, x)' <=> Owns(u, x)
      /\ \A x \in Slots : OnStack(x)' <=> OnStack(x)
      /\ \A x \in Slots : Live(x)' <=> Live(x)
      /\ OwnersAreExclusive'
  <2>1. \A x \in Slots, u \in Threads : Owns(u, x)' <=> Owns(u, x)
    BY DEF Owns, Deleting, Initialising, SlotInv, TypeOK
  <2>2. QED
    BY <2>1, SameOwners DEF SlotInv
<1>5. UsersHaveTheirSession'
  BY <1>4 DEF SlotInv, TypeOK, UsersHaveTheirSession, Uses, IoRef
<1>6. NoOrphan'
  <2>1. SUFFICES ASSUME NEW x \in Slots, Live(x), count'[x] = 0
                 PROVE  \E u \in Threads : pc'[u] = "zero" /\ at'[u] = x
    BY <1>4 DEF NoOrphan
  <2>2. CASE x = s
    <3>1. count[s] = 1 /\ ~del[s]
      BY <2>1, <2>2, <1>1, <1>2 DEF SlotInv, TypeOK, Live
    <3>2. QED
      BY <3>1, <2>2 DEF SlotInv, TypeOK
  <2>3. CASE x # s
    BY <2>1, <2>3 DEF SlotInv, TypeOK, NoOrphan
  <2>4. QED
    BY <2>2, <2>3
<1>7. AcceptorFindsItsSession'
  BY DEF SlotInv, TypeOK, AcceptorFindsItsSession
<1>8. KnownSlots'
  BY ZenonT(60), <1>1, <1>4 DEF SlotInv, TypeOK, KnownSlots, Known, OpRef, IoRef
<1>9. AcceptorState'
  BY <1>1 DEF SlotInv, TypeOK, AcceptorState, Initialising, Deleting
<1>10. LiveSlots'
  <2>1. \A u \in Threads : pc'[u] = "check" => at'[u] \in Slots /\ Live(at'[u])
    BY DEF SlotInv, TypeOK, LiveSlots, KnownSlots, OpRef
  <2>2. QED
    BY <2>1, <1>4 DEF SlotInv, TypeOK, LiveSlots, Carries
<1>11. QED
  BY <1>2, <1>3, <1>4, <1>5, <1>6, <1>7, <1>8, <1>9, <1>10 DEF SlotInv

\* A function that failed to start its I/O drops the reference it took for it.
LEMMA IOFailedKeeps ==
  ASSUME SlotInv, NEW t \in Threads, IOFailed(t)
  PROVE  SlotInv' /\ \A x \in Slots : Live(x)' => Live(x)
<1> DEFINE s == at[t]
<1> USE DEF IOFailed, shared
<1>1. s \in Slots /\ Known(s)
  BY DEF SlotInv, KnownSlots, IoRef
<1>2. TypeOK'
  BY DEF SlotInv, TypeOK, PCs, OpRef
<1>3. CountIsReferences'
  <2>1. \A x \in Slots : Refs(x)' =
           IF x = s THEN (Refs(x) \ {<<t, "io">>}) \cup {<<t, "op">>} ELSE Refs(x)
    BY DEF SlotInv, TypeOK, Refs, OpRef, IoRef
  <2>2. <<t, "io">> \in Refs(s) /\ <<t, "op">> \notin Refs(s)
    BY DEF Refs, IoRef, OpRef
  <2>3. Cardinality((Refs(s) \ {<<t, "io">>}) \cup {<<t, "op">>}) = Cardinality(Refs(s))
    <3>1. IsFiniteSet(Refs(s)) /\ Cardinality(Refs(s)) \in Nat
      BY <1>1, RefsFinite
    <3>2. /\ IsFiniteSet(Refs(s) \ {<<t, "io">>})
          /\ Cardinality(Refs(s) \ {<<t, "io">>}) = Cardinality(Refs(s)) - 1
      BY <3>1, <2>2, FS_RemoveElement
    <3>3. <<t, "op">> \notin Refs(s) \ {<<t, "io">>}
      BY <2>2
    <3>4. Cardinality((Refs(s) \ {<<t, "io">>}) \cup {<<t, "op">>})
             = Cardinality(Refs(s) \ {<<t, "io">>}) + 1
      BY <3>2, <3>3, FS_AddElement
    <3>5. QED
      BY <3>1, <3>2, <3>4
  <2>4. \A x \in Slots : Cardinality(Refs(x)') = Cardinality(Refs(x))
    BY <2>1, <2>3
  <2>5. QED
    BY <2>4, LeakedCounts DEF SlotInv, CountIsReferences, shared
<1>4. /\ \A x \in Slots, u \in Threads : Owns(u, x)' <=> Owns(u, x)
      /\ \A x \in Slots : OnStack(x)' <=> OnStack(x)
      /\ \A x \in Slots : Live(x)' <=> Live(x)
      /\ OwnersAreExclusive'
  <2>1. \A x \in Slots, u \in Threads : Owns(u, x)' <=> Owns(u, x)
    BY DEF Owns, Deleting, Initialising, SlotInv, TypeOK
  <2>2. QED
    BY <2>1, SameOwners DEF SlotInv
<1>5. UsersHaveTheirSession'
  BY <1>4 DEF SlotInv, TypeOK, UsersHaveTheirSession, Uses, IoRef
<1>6. NoOrphan'
  BY <1>4, <1>1 DEF SlotInv, TypeOK, NoOrphan
<1>7. AcceptorFindsItsSession'
  BY DEF SlotInv, TypeOK, AcceptorFindsItsSession
<1>8. KnownSlots'
  BY ZenonT(60), <1>1, <1>4 DEF SlotInv, TypeOK, KnownSlots, Known, OpRef, IoRef
<1>9. AcceptorState'
  BY <1>1 DEF SlotInv, TypeOK, AcceptorState, Initialising, Deleting
<1>10. LiveSlots'
  <2>1. \A u \in Threads : pc'[u] = "check" => at'[u] \in Slots /\ Live(at'[u])
    BY DEF SlotInv, TypeOK, LiveSlots, KnownSlots, OpRef
  <2>2. QED
    BY <2>1, <1>4 DEF SlotInv, TypeOK, LiveSlots, Carries
<1>11. QED
  BY <1>2, <1>3, <1>4, <1>5, <1>6, <1>7, <1>8, <1>9, <1>10 DEF SlotInv

\* A content function is called with any ID that was announced.
LEMMA CallKeeps ==
  ASSUME SlotInv, NEW t \in Threads, Call(t)
  PROVE  SlotInv' /\ \A x \in Slots : Live(x)' => Live(x)
<1> USE DEF Call, shared
<1>1. /\ \E id \in announced :
           /\ want' = [want EXCEPT ![t] = id]
           /\ at' = [at EXCEPT ![t] = IndexOf(id)]
      /\ at'[t] \in Slots /\ Known(at'[t])
      /\ \A u \in Threads \ {t} : at'[u] = at[u] /\ want'[u] = want[u] /\ pc'[u] = pc[u]
      /\ pc[t] = "idle" /\ pc'[t] = "find" /\ t # Acceptor
  BY ThreadsAssumption DEF SlotInv, TypeOK, Known, IndexOf, Ids
<1>2. TypeOK'
  BY SMTT(30), <1>1 DEF SlotInv, TypeOK, PCs, IndexOf, Ids
<1>3. CountIsReferences'
  <2>1. \A x \in Slots : Refs(x)' = Refs(x)
    BY <1>1 DEF Refs, OpRef, IoRef
  <2>2. QED
    BY <2>1, CountUntouched DEF SlotInv
<1>4. /\ \A x \in Slots, u \in Threads : Owns(u, x)' <=> Owns(u, x)
      /\ \A x \in Slots : OnStack(x)' <=> OnStack(x)
      /\ \A x \in Slots : Live(x)' <=> Live(x)
      /\ OwnersAreExclusive'
  <2>1. \A x \in Slots, u \in Threads : Owns(u, x)' <=> Owns(u, x)
    BY <1>1 DEF Owns, Deleting, Initialising, SlotInv, TypeOK
  <2>2. QED
    BY <2>1, SameOwners DEF SlotInv
<1>5. UsersHaveTheirSession'
  BY <1>1, <1>4 DEF SlotInv, TypeOK, UsersHaveTheirSession, Uses, IoRef
<1>6. NoOrphan'
  BY <1>4, <1>1 DEF SlotInv, TypeOK, NoOrphan
<1>7. AcceptorFindsItsSession'
  BY <1>1 DEF SlotInv, TypeOK, AcceptorFindsItsSession, Threads
<1>8. KnownSlots'
  <2>1. \A x \in Slots : Known(x)' <=> Known(x)
    BY DEF Known
  <2>2. \A u \in Threads : pc'[u] \in OpRef \cup IoRef \cup {"find", "zero"} =>
           at'[u] \in Slots /\ Known(at'[u])
    BY <1>1 DEF SlotInv, TypeOK, KnownSlots, OpRef, IoRef
  <2>3. \A u \in Threads : base'[u] # NoSlot /\ pc'[u] \notin {"clear", "connect"} =>
           base'[u] \in Slots /\ Known(base'[u])
    BY <1>1 DEF SlotInv, TypeOK, KnownSlots
  <2>4. \A x \in Slots : io'[x] > 0 => Known(x)
    BY <1>1 DEF SlotInv, TypeOK, KnownSlots
  <2>5. \A x \in Slots : Known(x) /\ (OnStack(x) \/ \E u \in Threads : Owns(u, x))' => del'[x]
    BY <1>4 DEF SlotInv, KnownSlots
  <2>6. QED
    BY <2>1, <2>2, <2>3, <2>4, <2>5 DEF KnownSlots, OpRef, IoRef
<1>9. AcceptorState'
  BY <1>1 DEF SlotInv, TypeOK, AcceptorState, Initialising, Deleting, Threads
<1>10. LiveSlots'
  <2>1. \A u \in Threads : pc'[u] = "check" => at'[u] \in Slots /\ Live(at'[u])
    BY <1>1 DEF SlotInv, TypeOK, LiveSlots, KnownSlots, OpRef
  <2>2. QED
    BY <2>1, <1>1, <1>4 DEF SlotInv, TypeOK, LiveSlots, Carries, Threads
<1>11. QED
  BY <1>2, <1>3, <1>4, <1>5, <1>6, <1>7, <1>8, <1>9, <1>10 DEF SlotInv

\* A worker takes a completion over together with its reference.
LEMMA TakeCompletionKeeps ==
  ASSUME SlotInv, NEW t \in Threads, TakeCompletion(t)
  PROVE  SlotInv' /\ \A x \in Slots : Live(x)' => Live(x)
<1> USE DEF TakeCompletion
<1>0. PICK s \in Slots : /\ io[s] > 0
                        /\ io' = [io EXCEPT ![s] = @ - 1]
                        /\ base' = [base EXCEPT ![t] = s]
  OBVIOUS
<1>1. Known(s) /\ t # Acceptor /\ pc[t] = "idle" /\ base[t] = NoSlot /\ base'[t] = s
  BY <1>0, ThreadsAssumption DEF SlotInv, TypeOK, KnownSlots
<1>2. TypeOK'
  BY <1>0 DEF SlotInv, TypeOK
<1>3. CountIsReferences'
  <2>1. \A x \in Slots : Refs(x)' = IF x = s THEN Refs(x) \cup {<<t, "base">>} ELSE Refs(x)
    BY <1>0, SlotsAssumption DEF SlotInv, TypeOK, Refs, OpRef, IoRef
  <2>2. <<t, "base">> \notin Refs(s)
    BY SlotsAssumption DEF Refs
  <2>3. QED
    BY <1>0, <2>1, <2>2, CountTakenFromIO DEF SlotInv
<1>4. /\ \A x \in Slots, u \in Threads : Owns(u, x)' <=> Owns(u, x)
      /\ \A x \in Slots : OnStack(x)' <=> OnStack(x)
      /\ \A x \in Slots : Live(x)' <=> Live(x)
      /\ OwnersAreExclusive'
  <2>1. \A x \in Slots, u \in Threads : Owns(u, x)' <=> Owns(u, x)
    BY DEF Owns, Deleting, Initialising, SlotInv, TypeOK
  <2>2. QED
    BY <2>1, SameOwners DEF SlotInv
<1>5. UsersHaveTheirSession'
  <2>1. \A x \in Slots : io'[x] > 0 \/ (\E u \in Threads : Uses(u, x))' =>
           io[x] > 0 \/ (\E u \in Threads : Uses(u, x))
    BY <1>0 DEF SlotInv, TypeOK, Uses, IoRef
  <2>2. QED
    BY <2>1, <1>4 DEF SlotInv, TypeOK, UsersHaveTheirSession
<1>6. NoOrphan'
  BY <1>4, <1>1 DEF SlotInv, TypeOK, NoOrphan
<1>7. AcceptorFindsItsSession'
  BY DEF SlotInv, TypeOK, AcceptorFindsItsSession
<1>8. KnownSlots'
  <2>1. \A x \in Slots : Known(x)' <=> Known(x)
    BY DEF Known
  <2>2. \A u \in Threads : pc'[u] \in OpRef \cup IoRef \cup {"find", "zero"} =>
           at'[u] \in Slots /\ Known(at'[u])
    BY <1>0, <1>1 DEF SlotInv, TypeOK, KnownSlots, OpRef, IoRef
  <2>3. \A u \in Threads : base'[u] # NoSlot /\ pc'[u] \notin {"clear", "connect"} =>
           base'[u] \in Slots /\ Known(base'[u])
    BY <1>0, <1>1 DEF SlotInv, TypeOK, KnownSlots
  <2>4. \A x \in Slots : io'[x] > 0 => Known(x)
    BY <1>0, <1>1 DEF SlotInv, TypeOK, KnownSlots
  <2>5. \A x \in Slots : Known(x) /\ (OnStack(x) \/ \E u \in Threads : Owns(u, x))' => del'[x]
    BY <1>4 DEF SlotInv, KnownSlots
  <2>6. QED
    BY <2>1, <2>2, <2>3, <2>4, <2>5 DEF KnownSlots, OpRef, IoRef
<1>9. AcceptorState'
  BY <1>0, <1>1 DEF SlotInv, TypeOK, AcceptorState, Initialising, Deleting, Threads
<1>10. LiveSlots'
  <2>1. \A u \in Threads : pc'[u] = "check" => at'[u] \in Slots /\ Live(at'[u])
    BY DEF SlotInv, TypeOK, LiveSlots, KnownSlots, OpRef
  <2>2. QED
    BY <2>1, <1>4 DEF SlotInv, TypeOK, LiveSlots, Carries
<1>11. QED
  BY <1>2, <1>3, <1>4, <1>5, <1>6, <1>7, <1>8, <1>9, <1>10 DEF SlotInv

\* A refused receive: its reference stays counted, and nobody has it.
LEMMA RefuseReceiveKeeps ==
  ASSUME SlotInv, NEW t \in Threads, RefuseReceive(t)
  PROVE  SlotInv' /\ \A x \in Slots : Live(x)' => Live(x)
<1> USE DEF RefuseReceive
<1>0. PICK s \in Slots : /\ s \notin leaked /\ io[s] > 0
                        /\ io' = [io EXCEPT ![s] = @ - 1]
                        /\ leaked' = leaked \cup {s}
  OBVIOUS
<1>1. \A x \in Slots : io'[x] \in Nat /\ (io'[x] > 0 => io[x] > 0)
  BY <1>0 DEF SlotInv, TypeOK
<1>2. TypeOK'
  BY <1>0, <1>1 DEF SlotInv, TypeOK
<1>3. CountIsReferences'
  <2>1. \A x \in Slots : Refs(x)' = Refs(x)
    BY DEF Refs
  <2>2. QED
    BY <1>0, <2>1, CountLeaked DEF SlotInv
<1>4. /\ \A x \in Slots, u \in Threads : Owns(u, x)' <=> Owns(u, x)
      /\ \A x \in Slots : Live(x)' <=> Live(x)
      /\ OwnersAreExclusive'
  <2>1. \A x \in Slots, u \in Threads : Owns(u, x)' <=> Owns(u, x)
    BY DEF Owns
  <2>2. QED
    BY <2>1, SameOwners DEF SlotInv
<1>5. UsersHaveTheirSession'
  BY <1>1, <1>4 DEF SlotInv, UsersHaveTheirSession, Uses
<1>6. NoOrphan' /\ AcceptorFindsItsSession'
  BY <1>4 DEF SlotInv, NoOrphan, AcceptorFindsItsSession
<1>7. KnownSlots'
  BY <1>1, <1>4 DEF SlotInv, KnownSlots, Known, OnStack
<1>8. AcceptorState' /\ LiveSlots'
  BY <1>4 DEF SlotInv, TypeOK, AcceptorState, LiveSlots, Carries, KnownSlots, OpRef
<1>9. QED
  BY <1>2, <1>3, <1>4, <1>5, <1>6, <1>7, <1>8 DEF SlotInv

\* recvIO and sendIO take a reference for the operation they start.
LEMMA StartIOKeeps ==
  ASSUME SlotInv, NEW t \in Threads, StartIO(t)
  PROVE  SlotInv' /\ \A x \in Slots : Live(x)' => Live(x)
<1> DEFINE s == base[t]
<1> USE DEF StartIO
<1>1. s \in Slots /\ Known(s) /\ at'[t] = s
  BY DEF SlotInv, TypeOK, KnownSlots
<1>2. TypeOK'
  BY <1>1 DEF SlotInv, TypeOK, PCs, IoRef
<1>3. CountIsReferences'
  <2>1. \A x \in Slots : Refs(x)' = IF x = s THEN Refs(x) \cup {<<t, "io">>} ELSE Refs(x)
    BY <1>1 DEF SlotInv, TypeOK, Refs, OpRef, IoRef
  <2>2. <<t, "io">> \notin Refs(s)
    BY DEF Refs, IoRef
  <2>3. QED
    BY <1>1, <2>1, <2>2, CountTaken DEF SlotInv
<1>4. /\ \A x \in Slots, u \in Threads : Owns(u, x)' <=> Owns(u, x)
      /\ \A x \in Slots : OnStack(x)' <=> OnStack(x)
      /\ \A x \in Slots : Live(x)' <=> Live(x)
      /\ OwnersAreExclusive'
  <2>1. \A x \in Slots, u \in Threads : Owns(u, x)' <=> Owns(u, x)
    BY DEF Owns, Deleting, Initialising, SlotInv, TypeOK
  <2>2. QED
    BY <2>1, SameOwners DEF SlotInv
<1>5. UsersHaveTheirSession'
  <2>1. \A x \in Slots : (\E u \in Threads : Uses(u, x))' => \E u \in Threads : Uses(u, x)
    BY <1>1 DEF SlotInv, TypeOK, Uses, IoRef
  <2>2. QED
    BY <2>1, <1>4 DEF SlotInv, TypeOK, UsersHaveTheirSession
<1>6. NoOrphan'
  BY <1>4, <1>1 DEF SlotInv, TypeOK, NoOrphan
<1>7. AcceptorFindsItsSession'
  BY DEF SlotInv, TypeOK, AcceptorFindsItsSession
<1>8. KnownSlots'
  BY <1>1, <1>4 DEF SlotInv, TypeOK, KnownSlots, Known, OpRef, IoRef
<1>9. AcceptorState'
  BY <1>1 DEF SlotInv, TypeOK, AcceptorState, Initialising, Deleting
<1>10. LiveSlots'
  <2>1. \A u \in Threads : pc'[u] = "check" => at'[u] \in Slots /\ Live(at'[u])
    BY DEF SlotInv, TypeOK, LiveSlots, KnownSlots, OpRef
  <2>2. QED
    BY <2>1, <1>4 DEF SlotInv, TypeOK, LiveSlots, Carries
<1>11. QED
  BY <1>2, <1>3, <1>4, <1>5, <1>6, <1>7, <1>8, <1>9, <1>10 DEF SlotInv

\* The operation that was started takes the reference over.
LEMMA IOStartedKeeps ==
  ASSUME SlotInv, NEW t \in Threads, IOStarted(t)
  PROVE  SlotInv' /\ \A x \in Slots : Live(x)' => Live(x)
<1> DEFINE s == at[t]
<1> USE DEF IOStarted
<1>1. s \in Slots /\ Known(s)
  BY DEF SlotInv, KnownSlots, IoRef
<1>2. TypeOK'
  BY <1>1 DEF SlotInv, TypeOK, PCs
<1>3. CountIsReferences'
  <2>1. \A x \in Slots : Refs(x)' = IF x = s THEN Refs(x) \ {<<t, "io">>} ELSE Refs(x)
    BY DEF SlotInv, TypeOK, Refs, OpRef, IoRef
  <2>2. <<t, "io">> \in Refs(s)
    BY DEF Refs, IoRef
  <2>3. QED
    BY <1>1, <2>1, <2>2, CountHandedToIO DEF SlotInv
<1>4. /\ \A x \in Slots, u \in Threads : Owns(u, x)' <=> Owns(u, x)
      /\ \A x \in Slots : OnStack(x)' <=> OnStack(x)
      /\ \A x \in Slots : Live(x)' <=> Live(x)
      /\ OwnersAreExclusive'
  <2>1. \A x \in Slots, u \in Threads : Owns(u, x)' <=> Owns(u, x)
    BY DEF Owns, Deleting, Initialising, SlotInv, TypeOK
  <2>2. QED
    BY <2>1, SameOwners DEF SlotInv
<1>5. UsersHaveTheirSession'
  <2>1. \A x \in Slots : io'[x] > 0 \/ (\E u \in Threads : Uses(u, x))' =>
           io[x] > 0 \/ (\E u \in Threads : Uses(u, x))
    BY <1>1 DEF SlotInv, TypeOK, Uses, IoRef
  <2>2. QED
    BY <2>1, <1>4 DEF SlotInv, TypeOK, UsersHaveTheirSession
<1>6. NoOrphan'
  BY <1>4, <1>1 DEF SlotInv, TypeOK, NoOrphan
<1>7. AcceptorFindsItsSession'
  BY DEF SlotInv, TypeOK, AcceptorFindsItsSession
<1>8. KnownSlots'
  BY ZenonT(60), <1>1, <1>4 DEF SlotInv, TypeOK, KnownSlots, Known, OpRef, IoRef
<1>9. AcceptorState'
  BY <1>1 DEF SlotInv, TypeOK, AcceptorState, Initialising, Deleting
<1>10. LiveSlots'
  <2>1. \A u \in Threads : pc'[u] = "check" => at'[u] \in Slots /\ Live(at'[u])
    BY DEF SlotInv, TypeOK, LiveSlots, KnownSlots, OpRef
  <2>2. QED
    BY <2>1, <1>4 DEF SlotInv, TypeOK, LiveSlots, Carries
<1>11. QED
  BY <1>2, <1>3, <1>4, <1>5, <1>6, <1>7, <1>8, <1>9, <1>10 DEF SlotInv

\* A loop body drops its reference: like Release.
LEMMA DropBaseKeeps ==
  ASSUME SlotInv, NEW t \in Threads, DropBase(t)
  PROVE  SlotInv' /\ \A x \in Slots : Live(x)' => Live(x)
<1> DEFINE s == base[t]
<1> USE DEF DropBase, LastReference
<1>1. s \in Slots /\ Known(s) /\ at'[t] = s /\ base'[t] = NoSlot
  BY DEF SlotInv, TypeOK, KnownSlots
<1>2. CountIsReferences' /\ count[s] > 0
  <2>1. \A x \in Slots : Refs(x)' = IF x = s THEN Refs(x) \ {<<t, "base">>} ELSE Refs(x)
    BY <1>1, SlotsAssumption DEF SlotInv, TypeOK, Refs, OpRef, IoRef
  <2>2. <<t, "base">> \in Refs(s)
    BY DEF Refs
  <2>3. QED
    BY <1>1, <2>1, <2>2, CountDropped DEF SlotInv
<1>3. TypeOK'
  BY <1>1, <1>2 DEF SlotInv, TypeOK, PCs
<1>4. /\ \A x \in Slots, u \in Threads : Owns(u, x)' <=> Owns(u, x)
      /\ \A x \in Slots : OnStack(x)' <=> OnStack(x)
      /\ \A x \in Slots : Live(x)' <=> Live(x)
      /\ OwnersAreExclusive'
  <2>1. \A x \in Slots, u \in Threads : Owns(u, x)' <=> Owns(u, x)
    BY DEF Owns, Deleting, Initialising, SlotInv, TypeOK
  <2>2. QED
    BY <2>1, SameOwners DEF SlotInv
<1>5. UsersHaveTheirSession'
  <2>1. \A x \in Slots : (\E u \in Threads : Uses(u, x))' => \E u \in Threads : Uses(u, x)
    BY <1>1, SlotsAssumption DEF SlotInv, TypeOK, Uses, IoRef
  <2>2. QED
    BY <2>1, <1>4 DEF SlotInv, TypeOK, UsersHaveTheirSession
<1>6. NoOrphan'
  <2>1. SUFFICES ASSUME NEW x \in Slots, Live(x), count'[x] = 0
                 PROVE  \E u \in Threads : pc'[u] = "zero" /\ at'[u] = x
    BY <1>4 DEF NoOrphan
  <2>2. CASE x = s
    <3>1. count[s] = 1 /\ ~del[s]
      BY <2>1, <2>2, <1>1, <1>2 DEF SlotInv, TypeOK, Live
    <3>2. QED
      BY <3>1, <2>2, <1>1 DEF SlotInv, TypeOK
  <2>3. CASE x # s
    BY <2>1, <2>3 DEF SlotInv, TypeOK, NoOrphan
  <2>4. QED
    BY <2>2, <2>3
<1>7. AcceptorFindsItsSession'
  BY DEF SlotInv, TypeOK, AcceptorFindsItsSession
<1>8. KnownSlots'
  BY <1>1, <1>4 DEF SlotInv, TypeOK, KnownSlots, Known, OpRef, IoRef
<1>9. AcceptorState'
  BY <1>1 DEF SlotInv, TypeOK, AcceptorState, Initialising, Deleting
<1>10. LiveSlots'
  <2>1. \A u \in Threads : pc'[u] = "check" => at'[u] \in Slots /\ Live(at'[u])
    BY DEF SlotInv, TypeOK, LiveSlots, KnownSlots, OpRef
  <2>2. QED
    BY <2>1, <1>4 DEF SlotInv, TypeOK, LiveSlots, Carries
<1>11. QED
  BY <1>2, <1>3, <1>4, <1>5, <1>6, <1>7, <1>8, <1>9, <1>10 DEF SlotInv

\* deleteSession, the exchange: the winner takes over a live slot that nobody
\* refers to; every other thread leaves the slot alone.
LEMMA DeleteCASKeeps ==
  ASSUME SlotInv, NEW t \in Threads, DeleteCAS(t)
  PROVE  SlotInv' /\ \A x \in Slots : Live(x)' => Live(x)
<1> DEFINE s == at[t]
           won == count[s] = 0 /\ ~del[s]
<1> USE DEF DeleteCAS
<1>1. s \in Slots /\ Known(s) /\ pc[t] = "zero"
  BY DEF SlotInv, KnownSlots
<1>2. TypeOK'
  BY <1>1 DEF SlotInv, TypeOK, PCs, Deleting
<1>3. CountIsReferences'
  <2>1. \A x \in Slots : Refs(x)' = Refs(x)
    BY DEF SlotInv, TypeOK, Refs, OpRef, IoRef
  <2>2. QED
    BY <2>1, CountUntouched DEF SlotInv
<1>4. won => /\ Live(s) /\ del'[s] /\ ~Live(s)'
             /\ io[s] = 0 /\ \A u \in Threads : ~Uses(u, s)
             /\ pc'[t] = "close"
  <2>1. won => Live(s)
    BY <1>1, KnownAndClear DEF SlotInv
  <2>2. won => io[s] = 0 /\ \A u \in Threads : ~Uses(u, s)
    <3>1. (io[s] > 0 \/ \E u \in Threads : Uses(u, s)) => count[s] > 0
      BY <1>1, UsesAreCounted DEF SlotInv
    <3>2. count[s] \in Nat /\ io[s] \in Nat
      BY <1>1 DEF SlotInv, TypeOK
    <3>3. QED
      BY <3>1, <3>2
  <2>3. QED
    BY <1>1, <2>1, <2>2 DEF SlotInv, TypeOK, Live
<1>5. /\ \A x \in Slots, u \in Threads : Owns(u, x)' <=> Owns(u, x) \/ (won /\ u = t /\ x = s)
      /\ \A x \in Slots : OnStack(x)' <=> OnStack(x)
      /\ \A x \in Slots : Live(x)' <=> Live(x) /\ ~(won /\ x = s)
  <2>1. \A x \in Slots, u \in Threads : Owns(u, x)' <=> Owns(u, x) \/ (won /\ u = t /\ x = s)
    BY DEF Owns, Deleting, Initialising, SlotInv, TypeOK
  <2>2. \A x \in Slots : OnStack(x)' <=> OnStack(x)
    BY DEF OnStack
  <2>3. \A x \in Slots : Live(x)' <=> Live(x) /\ ~(won /\ x = s)
    BY <1>1, <1>4, <2>1, <2>2 DEF Live, SlotInv, TypeOK
  <2>4. QED
    BY <2>1, <2>2, <2>3
<1>6. OwnersAreExclusive'
  <2>1. NoDuplicates'
    BY DEF SlotInv, OwnersAreExclusive, NoDuplicates
  <2>2. won => ~OnStack(s) /\ \A u \in Threads : ~Owns(u, s)
    BY <1>4 DEF Live
  <2>3. ~Owns(t, s)
    BY <1>1 DEF Owns, Deleting, Initialising
  <2>4. QED
    BY <1>5, <2>1, <2>2, <2>3 DEF SlotInv, OwnersAreExclusive
<1>7. UsersHaveTheirSession'
  <2>1. \A u \in Threads, x \in Slots : Uses(u, x)' => Uses(u, x)
    BY DEF Uses, IoRef, SlotInv, TypeOK
  <2>2. \A x \in Slots : io'[x] > 0 \/ (\E u \in Threads : Uses(u, x))' =>
           Live(x)' /\ ID[x] # NoId /\ sock[x] = ID[x]
    BY <2>1, <1>4, <1>5 DEF SlotInv, TypeOK, UsersHaveTheirSession
  <2>3. \A u \in Threads : pc'[u] \in {"hold", "posting"} => ID[at[u]] = want'[u]
    BY <1>1 DEF SlotInv, TypeOK, UsersHaveTheirSession
  <2>4. QED
    BY <2>2, <2>3 DEF UsersHaveTheirSession
<1>8. NoOrphan'
  <2>1. SUFFICES ASSUME NEW x \in Slots, Live(x)', count[x] = 0
                 PROVE  \E u \in Threads : pc'[u] = "zero" /\ at[u] = x
    BY DEF NoOrphan
  <2>2. x # s
    BY <2>1, <1>5 DEF Live
  <2>3. PICK u \in Threads : pc[u] = "zero" /\ at[u] = x
    BY <2>1, <1>5 DEF SlotInv, NoOrphan
  <2>4. QED
    BY <2>2, <2>3 DEF SlotInv, TypeOK
<1>9. AcceptorFindsItsSession'
  <2>1. pc[Acceptor] \in {"find", "check"} => Uses(Acceptor, at[Acceptor])
    BY DEF SlotInv, AcceptorState, Uses
  <2>2. pc[Acceptor] \in {"find", "check"} => ~(won /\ at[Acceptor] = s)
    BY <2>1, <1>4 DEF Threads
  <2>3. QED
    BY <1>1, <2>2 DEF SlotInv, TypeOK, AcceptorFindsItsSession, AcceptorState
<1>10. KnownSlots'
  <2>1. \A x \in Slots : Known(x)' <=> Known(x)
    BY DEF Known
  <2>2. \A x \in Slots : Known(x) /\ (OnStack(x) \/ \E u \in Threads : Owns(u, x))' => del'[x]
    BY <1>1, <1>4, <1>5 DEF SlotInv, TypeOK, KnownSlots
  <2>3. QED
    BY <1>1, <2>1, <2>2 DEF SlotInv, TypeOK, KnownSlots, OpRef, IoRef
<1>11. AcceptorState'
  BY <1>1 DEF SlotInv, TypeOK, AcceptorState, Initialising, Deleting
<1>12. LiveSlots'
  <2>1. \A u \in Threads : pc'[u] = "check" => at[u] \in Slots /\ Live(at[u])'
    <3>1. SUFFICES ASSUME NEW u \in Threads, pc'[u] = "check"
                   PROVE  at[u] \in Slots /\ Live(at[u])'
      OBVIOUS
    <3>2. pc[u] = "check" /\ at[u] \in Slots /\ Live(at[u])
      BY <3>1 DEF SlotInv, TypeOK, LiveSlots, KnownSlots, OpRef
    <3>3. ~(won /\ at[u] = s)
      <4>1. <<u, "op">> \in Refs(at[u])
        BY <3>2 DEF Refs, OpRef
      <4>2. Cardinality(Refs(at[u])) > 0
        BY <3>2, <4>1, RefsFinite, CardinalityChange
      <4>3. /\ count[at[u]] = Cardinality(Refs(at[u])) + io[at[u]] + Leaked(at[u])
            /\ io[at[u]] \in Nat /\ Leaked(at[u]) \in Nat
        BY <3>2, LeakedCounts DEF SlotInv, TypeOK, CountIsReferences
      <4>4. QED
        BY <4>2, <4>3, <3>2, RefsFinite
    <3>4. QED
      BY <3>2, <3>3, <1>5
  <2>2. \A x \in Slots : Live(x)' => Carries(x)'
    BY <1>5 DEF SlotInv, LiveSlots, Carries
  <2>3. pc'[Acceptor] \in {"inc", "clear"} => Carries(at[Acceptor])'
    BY <1>1 DEF SlotInv, TypeOK, LiveSlots, Carries
  <2>4. QED
    BY <2>1, <2>2, <2>3 DEF LiveSlots
<1>13. QED
  BY <1>5, <1>2, <1>3, <1>6, <1>7, <1>8, <1>9, <1>10, <1>11, <1>12 DEF SlotInv

\* closesocket works on a slot that deleteSession owns.
LEMMA CloseSessionKeeps ==
  ASSUME SlotInv, NEW t \in Threads, CloseSession(t)
  PROVE  SlotInv' /\ \A x \in Slots : Live(x)' => Live(x)
<1> DEFINE s == at[t]
<1> USE DEF CloseSession
<1>1. s \in Slots /\ Owns(t, s)
  BY DEF SlotInv, AcceptorState, Deleting, Owns
<1>2. TypeOK'
  BY DEF SlotInv, TypeOK, PCs, Deleting
<1>3. CountIsReferences'
  <2>1. \A x \in Slots : Refs(x)' = Refs(x)
    BY DEF SlotInv, TypeOK, Refs, OpRef, IoRef
  <2>2. QED
    BY <2>1, CountUntouched DEF SlotInv
<1>4. /\ \A x \in Slots, u \in Threads : Owns(u, x)' <=> Owns(u, x)
      /\ \A x \in Slots : OnStack(x)' <=> OnStack(x)
      /\ \A x \in Slots : Live(x)' <=> Live(x)
      /\ OwnersAreExclusive'
  <2>1. \A x \in Slots, u \in Threads : Owns(u, x)' <=> Owns(u, x)
    BY DEF Owns, Deleting, Initialising, SlotInv, TypeOK
  <2>2. QED
    BY <2>1, SameOwners DEF SlotInv
<1>5. ~Live(s) /\ \A x \in Slots : x # s => sock'[x] = sock[x]
  BY <1>1 DEF Live, SlotInv, TypeOK
<1>6. UsersHaveTheirSession'
  BY <1>4, <1>5 DEF SlotInv, TypeOK, UsersHaveTheirSession, Uses, IoRef
<1>7. NoOrphan'
  BY <1>4 DEF SlotInv, TypeOK, NoOrphan
<1>8. AcceptorFindsItsSession'
  BY DEF SlotInv, TypeOK, AcceptorFindsItsSession
<1>9. KnownSlots'
  BY <1>4 DEF SlotInv, TypeOK, KnownSlots, Known, OpRef, IoRef
<1>10. AcceptorState'
  BY <1>1 DEF SlotInv, TypeOK, AcceptorState, Initialising, Deleting
<1>11. LiveSlots'
  <2>1. \A u \in Threads : pc'[u] = "check" => at'[u] \in Slots /\ Live(at'[u])
    BY DEF SlotInv, TypeOK, LiveSlots, KnownSlots, OpRef
  <2>2. \A x \in Slots : Live(x)' => Carries(x)'
    BY <1>4, <1>5 DEF SlotInv, LiveSlots, Carries
  <2>3. pc'[Acceptor] \in {"inc", "clear"} => Carries(at[Acceptor])'
    <3>1. pc'[Acceptor] \in {"inc", "clear"} =>
             /\ pc[Acceptor] = pc'[Acceptor] /\ at[Acceptor] \in Slots
             /\ Owns(Acceptor, at[Acceptor]) /\ Acceptor # t
      BY DEF SlotInv, TypeOK, AcceptorState, Initialising, Owns, Threads
    <3>2. pc'[Acceptor] \in {"inc", "clear"} => at[Acceptor] # s
      BY <1>1, <3>1 DEF SlotInv, OwnersAreExclusive, Threads
    <3>3. QED
      BY <3>1, <3>2, <1>5 DEF SlotInv, LiveSlots, Carries
  <2>4. QED
    BY <2>1, <2>2, <2>3, <1>4 DEF LiveSlots
<1>12. QED
  BY <1>2, <1>3, <1>4, <1>6, <1>7, <1>8, <1>9, <1>10, <1>11 DEF SlotInv

\* Giving the index back ends the ownership: the slot is on the stack, once.
LEMMA PushIndexKeeps ==
  ASSUME SlotInv, NEW t \in Threads, PushIndex(t)
  PROVE  SlotInv' /\ \A x \in Slots : Live(x)' => Live(x)
<1> DEFINE s == at[t]
<1> USE DEF PushIndex
<1>1. s \in Slots /\ Owns(t, s) /\ ~OnStack(s) /\ indexStack \in Seq(Slots)
  <2>1. s \in Slots /\ Owns(t, s)
    BY DEF SlotInv, AcceptorState, Deleting, Owns
  <2>2. QED
    BY <2>1 DEF SlotInv, TypeOK, OwnersAreExclusive
<1>2. TypeOK'
  BY <1>1 DEF SlotInv, TypeOK, PCs
<1>3. CountIsReferences'
  <2>1. \A x \in Slots : Refs(x)' = Refs(x)
    BY DEF SlotInv, TypeOK, Refs, OpRef, IoRef
  <2>2. QED
    BY <2>1, CountUntouched DEF SlotInv
<1>4. /\ \A x \in Slots : OnStack(x)' <=> OnStack(x) \/ x = s
      /\ NoDuplicates'
  <2>1. /\ Len(indexStack) \in Nat
        /\ Len(indexStack') = Len(indexStack) + 1
        /\ \A i \in 1 .. Len(indexStack) : indexStack'[i] = indexStack[i]
        /\ indexStack'[Len(indexStack) + 1] = s
    BY <1>1
  <2>2. \A x \in Slots : OnStack(x)' <=> OnStack(x) \/ x = s
    BY <2>1 DEF OnStack
  <2>3. NoDuplicates'
    BY <1>1, <2>1 DEF SlotInv, OwnersAreExclusive, NoDuplicates, OnStack
  <2>4. QED
    BY <2>2, <2>3
<1>5. /\ \A x \in Slots, u \in Threads : Owns(u, x)' <=> Owns(u, x) /\ u # t
      /\ \A x \in Slots : Live(x)' <=> Live(x)
  <2>1. \A x \in Slots, u \in Threads : Owns(u, x)' <=> Owns(u, x) /\ u # t
    BY DEF Owns, Deleting, Initialising, SlotInv, TypeOK
  <2>2. \A x \in Slots : x # s => ~Owns(t, x)
    BY DEF Owns
  <2>3. QED
    BY <2>1, <2>2, <1>1, <1>4 DEF Live
<1>6. OwnersAreExclusive'
  <2>1. \A u \in Threads \ {t} : ~Owns(u, s)
    BY <1>1 DEF SlotInv, OwnersAreExclusive
  <2>2. QED
    BY <2>1, <1>4, <1>5 DEF SlotInv, OwnersAreExclusive
<1>7. UsersHaveTheirSession'
  BY <1>5 DEF SlotInv, TypeOK, UsersHaveTheirSession, Uses, IoRef
<1>8. NoOrphan'
  BY <1>5 DEF SlotInv, TypeOK, NoOrphan
<1>9. AcceptorFindsItsSession'
  BY DEF SlotInv, TypeOK, AcceptorFindsItsSession
<1>10. KnownSlots'
  <2>1. \A x \in Slots : Known(x)' <=> Known(x)
    BY DEF Known
  <2>2. Known(s) => del[s]
    BY <1>1 DEF SlotInv, KnownSlots
  <2>3. QED
    BY <2>1, <2>2, <1>1, <1>4, <1>5 DEF SlotInv, TypeOK, KnownSlots, OpRef, IoRef
<1>11. AcceptorState'
  BY DEF SlotInv, TypeOK, AcceptorState, Initialising, Deleting
<1>12. LiveSlots'
  <2>1. \A u \in Threads : pc'[u] = "check" => at'[u] \in Slots /\ Live(at'[u])
    BY DEF SlotInv, TypeOK, LiveSlots, KnownSlots, OpRef
  <2>2. QED
    BY <2>1, <1>5 DEF SlotInv, TypeOK, LiveSlots, Carries
<1>13. QED
  BY <1>5, <1>2, <1>3, <1>6, <1>7, <1>8, <1>9, <1>10, <1>11, <1>12 DEF SlotInv

\* OnDisconnect runs when the slot is somebody else's already.
LEMMA NotifyDisconnectKeeps ==
  ASSUME SlotInv, NEW t \in Threads, NotifyDisconnect(t), want[t] \in Ids
  PROVE  SlotInv' /\ \A x \in Slots : Live(x)' => Live(x)
<1> USE DEF NotifyDisconnect, shared
<1>1. pc[t] = "notify" /\ pc'[t] = "idle"
  BY DEF SlotInv, TypeOK
<1>2. TypeOK'
  BY DEF SlotInv, TypeOK, PCs
<1>3. CountIsReferences'
  <2>1. \A x \in Slots : Refs(x)' = Refs(x)
    BY DEF SlotInv, TypeOK, Refs, OpRef, IoRef
  <2>2. QED
    BY <2>1, CountUntouched DEF SlotInv
<1>4. /\ \A x \in Slots, u \in Threads : Owns(u, x)' <=> Owns(u, x)
      /\ \A x \in Slots : OnStack(x)' <=> OnStack(x)
      /\ \A x \in Slots : Live(x)' <=> Live(x)
      /\ OwnersAreExclusive'
  <2>1. \A x \in Slots, u \in Threads : Owns(u, x)' <=> Owns(u, x)
    BY DEF Owns, Deleting, Initialising, SlotInv, TypeOK
  <2>2. QED
    BY <2>1, SameOwners DEF SlotInv
<1>5. UsersHaveTheirSession'
  BY <1>4 DEF SlotInv, TypeOK, UsersHaveTheirSession, Uses, IoRef
<1>6. NoOrphan'
  BY <1>4 DEF SlotInv, TypeOK, NoOrphan
<1>7. AcceptorFindsItsSession'
  BY DEF SlotInv, TypeOK, AcceptorFindsItsSession
<1>8. KnownSlots'
  BY <1>1, <1>4 DEF SlotInv, TypeOK, KnownSlots, Known, OpRef, IoRef
<1>9. AcceptorState'
  BY <1>1 DEF SlotInv, TypeOK, AcceptorState, Initialising, Deleting
<1>10. LiveSlots'
  <2>1. \A u \in Threads : pc'[u] = "check" => at'[u] \in Slots /\ Live(at'[u])
    BY DEF SlotInv, TypeOK, LiveSlots, KnownSlots, OpRef
  <2>2. QED
    BY <2>1, <1>4 DEF SlotInv, TypeOK, LiveSlots, Carries
<1>11. QED
  BY <1>2, <1>3, <1>4, <1>5, <1>6, <1>7, <1>8, <1>9, <1>10 DEF SlotInv

\* The accept thread takes the top of the stack: the slot has no other owner.
LEMMA PopIndexKeeps ==
  ASSUME SlotInv, PopIndex
  PROVE  SlotInv' /\ \A x \in Slots : Live(x)' => Live(x)
<1> DEFINE s == indexStack[Len(indexStack)]
<1> USE DEF PopIndex
<1>1. /\ Len(indexStack) \in Nat /\ Len(indexStack) > 0
      /\ s \in Slots /\ OnStack(s)
      /\ Len(indexStack') = Len(indexStack) - 1 /\ indexStack' \in Seq(Slots)
      /\ \A i \in 1 .. Len(indexStack) - 1 : indexStack'[i] = indexStack[i]
  <2>1. indexStack \in Seq(Slots) /\ indexStack # <<>>
    BY DEF SlotInv, TypeOK
  <2>2. Len(indexStack) \in Nat /\ Len(indexStack) > 0
    BY <2>1, EmptySeq, LenProperties
  <2>3. s \in Slots /\ OnStack(s)
    BY <2>1, <2>2, ElementOfSeq DEF OnStack
  <2>4. /\ indexStack' \in Seq(Slots)
        /\ Len(indexStack') = Len(indexStack) - 1
        /\ \A i \in 1 .. Len(indexStack) - 1 : indexStack'[i] = indexStack[i]
    <3> DEFINE n == Len(indexStack) - 1
    <3>1. n \in Int /\ n >= 0 /\ n < Len(indexStack)
      BY <2>2
    <3>2. \A i \in 1 .. n : indexStack[i] \in Slots
      BY <2>1, <3>1, ElementOfSeq
    <3>3. indexStack' = SubSeq(indexStack, 1, n)
      OBVIOUS
    <3>4. HIDE DEF n
    <3>5. /\ SubSeq(indexStack, 1, n) \in Seq(Slots)
          /\ Len(SubSeq(indexStack, 1, n)) = n
          /\ \A i \in 1 .. n : SubSeq(indexStack, 1, n)[i] = indexStack[i]
      BY <3>1, <3>2, SubSeqProperties, Z3
    <3>6. QED
      BY <3>3, <3>5 DEF n
  <2>5. QED
    BY <2>2, <2>3, <2>4
<1>2. Acceptor \in Threads /\ at'[Acceptor] = s /\ pc'[Acceptor] = "setid"
  BY DEF SlotInv, TypeOK, Threads
<1>3. TypeOK'
  BY <1>1, <1>2 DEF SlotInv, TypeOK, PCs, Initialising
<1>4. CountIsReferences'
  <2>1. \A x \in Slots : Refs(x)' = Refs(x)
    BY DEF SlotInv, TypeOK, Refs, OpRef, IoRef
  <2>2. QED
    BY <2>1, CountUntouched DEF SlotInv
<1>5. /\ NoDuplicates'
      /\ \A x \in Slots : OnStack(x)' <=> OnStack(x) /\ x # s
  <2>1. \A i, j \in 1 .. Len(indexStack) : indexStack[i] = indexStack[j] => i = j
    BY DEF SlotInv, OwnersAreExclusive, NoDuplicates
  <2>2. NoDuplicates'
    BY <2>1, <1>1 DEF NoDuplicates
  <2>3. ASSUME NEW x \in Slots
        PROVE  OnStack(x)' <=> OnStack(x) /\ x # s
    <3>1. OnStack(x)' => OnStack(x) /\ x # s
      <4>1. SUFFICES ASSUME NEW i \in 1 .. Len(indexStack) - 1, indexStack[i] = x
                     PROVE  OnStack(x) /\ x # s
        BY <1>1 DEF OnStack
      <4>2. i \in 1 .. Len(indexStack) /\ Len(indexStack) \in 1 .. Len(indexStack) /\ i # Len(indexStack)
        BY <1>1
      <4>3. x # s
        BY <2>1, <4>1, <4>2
      <4>4. QED
        BY <4>1, <4>2, <4>3 DEF OnStack
    <3>2. OnStack(x) /\ x # s => OnStack(x)'
      BY <1>1 DEF OnStack
    <3>3. QED
      BY <3>1, <3>2
  <2>4. QED
    BY <2>2, <2>3
<1>6. \A u \in Threads : ~Owns(u, s)
  BY <1>1 DEF SlotInv, OwnersAreExclusive
<1>7. /\ \A x \in Slots, u \in Threads :
           Owns(u, x)' <=> Owns(u, x) \/ (u = Acceptor /\ x = s)
      /\ \A x \in Slots : Live(x)' <=> Live(x)
  <2>1. \A x \in Slots, u \in Threads :
           Owns(u, x)' <=> Owns(u, x) \/ (u = Acceptor /\ x = s)
    BY <1>2 DEF Owns, Deleting, Initialising, SlotInv, TypeOK
  <2>2. QED
    BY <2>1, <1>1, <1>2, <1>5 DEF Live
<1>8. OwnersAreExclusive'
  <2>1. \A x \in Slots : ~Owns(Acceptor, x)
    BY DEF Owns, Deleting, Initialising
  <2>2. QED
    BY <2>1, <1>5, <1>6, <1>7 DEF SlotInv, OwnersAreExclusive
<1>9. UsersHaveTheirSession'
  <2>1. \A x \in Slots, u \in Threads : Uses(u, x)' => Uses(u, x)
    BY <1>2 DEF SlotInv, TypeOK, Uses, IoRef
  <2>2. \A u \in Threads : pc'[u] \in {"hold", "posting"} => ID[at'[u]] = want[u]
    BY <1>2 DEF SlotInv, TypeOK, UsersHaveTheirSession
  <2>3. QED
    BY <2>1, <2>2, <1>7 DEF SlotInv, UsersHaveTheirSession
<1>10. NoOrphan'
  BY <1>7 DEF SlotInv, TypeOK, NoOrphan
<1>11. AcceptorFindsItsSession'
  BY <1>2 DEF AcceptorFindsItsSession
<1>12. KnownSlots'
  <2>1. \A x \in Slots : Known(x)' <=> Known(x)
    BY DEF Known
  <2>2. \A x \in Slots : Known(x) /\ (OnStack(x) \/ \E u \in Threads : Owns(u, x))' => del[x]
    BY <1>1, <1>5, <1>7 DEF SlotInv, KnownSlots
  <2>3. QED
    BY <2>1, <2>2, <1>2 DEF SlotInv, TypeOK, KnownSlots, OpRef, IoRef
<1>13. AcceptorState'
  BY <1>1, <1>2 DEF SlotInv, TypeOK, AcceptorState, Initialising, Deleting
<1>14. LiveSlots'
  <2>1. \A u \in Threads : pc'[u] = "check" => at'[u] \in Slots /\ Live(at'[u])
    BY <1>2 DEF SlotInv, TypeOK, LiveSlots, KnownSlots, OpRef
  <2>2. QED
    BY <2>1, <1>2, <1>7 DEF SlotInv, TypeOK, LiveSlots, Carries
<1>15. QED
  BY <1>7, <1>3, <1>4, <1>8, <1>9, <1>10, <1>11, <1>12, <1>13, <1>14 DEF SlotInv

\* The new ID is stored in a slot that only the accept thread owns.
LEMMA SetIDKeeps ==
  ASSUME SlotInv, SetID
  PROVE  SlotInv' /\ \A x \in Slots : Live(x)' => Live(x)
<1> DEFINE s == at[Acceptor]
           id == MakeSessionId(sessionCount, s)
<1> USE DEF SetID
<1>1. /\ Acceptor \in Threads /\ s \in Slots /\ Owns(Acceptor, s)
      /\ base[Acceptor] = NoSlot
  BY DEF SlotInv, AcceptorState, Initialising, Owns, Threads
<1>2. sessionCount < MaxAccepts /\ id = <<sessionCount, s>> /\ id \in Ids /\ id # NoId
  <2>1. sessionCount < MaxAccepts
    BY DEF SlotInv, AcceptorState, Initialising
  <2>2. sessionCount \in Nat /\ sessionCount % IdWrap = sessionCount /\ sessionCount < IdWrap
    <3>1. sessionCount \in Nat /\ IdWrap \in Nat /\ sessionCount < IdWrap
      BY <2>1, BoundsAssumption DEF SlotInv, TypeOK
    <3>2. sessionCount % IdWrap = sessionCount
      BY <3>1, Z3
    <3>3. QED
      BY <3>1, <3>2
  <2>3. QED
    <3>1. id = <<sessionCount, s>>
      BY <2>2 DEF MakeSessionId
    <3>2. id \in Ids
      BY <3>1, <2>2, <1>1, BoundsAssumption DEF Ids
    <3>3. QED
      BY <3>1, <3>2, <2>1, NoIdAssumption
<1>3. TypeOK'
  BY <1>1, <1>2, BoundsAssumption DEF SlotInv, TypeOK, PCs, Initialising
<1>4. CountIsReferences'
  <2>1. \A x \in Slots : Refs(x)' = Refs(x)
    BY DEF SlotInv, TypeOK, Refs, OpRef, IoRef
  <2>2. QED
    BY <2>1, CountUntouched DEF SlotInv
<1>5. /\ \A x \in Slots, u \in Threads : Owns(u, x)' <=> Owns(u, x)
      /\ \A x \in Slots : OnStack(x)' <=> OnStack(x)
      /\ \A x \in Slots : Live(x)' <=> Live(x)
      /\ OwnersAreExclusive'
  <2>1. \A x \in Slots, u \in Threads : Owns(u, x)' <=> Owns(u, x)
    BY DEF Owns, Deleting, Initialising, SlotInv, TypeOK
  <2>2. QED
    BY <2>1, SameOwners DEF SlotInv
<1>6. /\ ~Live(s)
      /\ \A x \in Slots : x # s => ID'[x] = ID[x] /\ sock'[x] = sock[x]
      /\ ID'[s] = id /\ sock'[s] = id
  BY <1>1 DEF Live, SlotInv, TypeOK
<1>7. UsersHaveTheirSession'
  <2>1. \A x \in Slots, u \in Threads : Uses(u, x)' <=> Uses(u, x)
    BY DEF SlotInv, TypeOK, Uses, IoRef
  <2>2. ASSUME NEW x \in Slots, io[x] > 0 \/ \E u \in Threads : Uses(u, x)'
        PROVE  (Live(x) /\ ID[x] # NoId /\ sock[x] = ID[x])'
    BY <2>1, <2>2, <1>5, <1>6 DEF SlotInv, UsersHaveTheirSession
  <2>3. ASSUME NEW u \in Threads, pc'[u] \in {"hold", "posting"}
        PROVE  ID'[at[u]] = want[u]
    <3>1. pc[u] \in {"hold", "posting"} /\ at[u] \in Slots /\ Uses(u, at[u])
      BY <2>3 DEF SlotInv, TypeOK, KnownSlots, OpRef, IoRef, Uses
    <3>2. at[u] # s
      BY <3>1, <1>6 DEF SlotInv, UsersHaveTheirSession
    <3>3. QED
      BY <3>1, <3>2, <1>6 DEF SlotInv, UsersHaveTheirSession
  <2>4. QED
    BY <2>2, <2>3 DEF UsersHaveTheirSession
<1>8. NoOrphan'
  BY <1>5 DEF SlotInv, TypeOK, NoOrphan
<1>9. AcceptorFindsItsSession'
  BY <1>1 DEF SlotInv, TypeOK, AcceptorFindsItsSession
<1>10. KnownSlots'
  BY <1>5 DEF SlotInv, TypeOK, KnownSlots, Known, OpRef, IoRef
<1>11. AcceptorState'
  BY <1>1, <1>2 DEF SlotInv, TypeOK, AcceptorState, Initialising, Deleting
<1>12. LiveSlots'
  <2>1. \A u \in Threads : pc'[u] = "check" => at'[u] \in Slots /\ Live(at'[u])
    BY DEF SlotInv, TypeOK, LiveSlots, KnownSlots, OpRef
  <2>2. \A x \in Slots : Live(x)' => Carries(x)'
    BY <1>5, <1>6 DEF SlotInv, LiveSlots, Carries
  <2>3. Carries(s)'
    BY <1>2, <1>6 DEF Carries, IndexOf
  <2>4. QED
    BY <2>1, <2>2, <2>3, <1>5 DEF LiveSlots
<1>13. QED
  BY <1>3, <1>4, <1>5, <1>7, <1>8, <1>9, <1>10, <1>11, <1>12 DEF SlotInv

\* init counts the accept thread's reference while the bit is still set.
LEMMA IncInitKeeps ==
  ASSUME SlotInv, IncInit
  PROVE  SlotInv' /\ \A x \in Slots : Live(x)' => Live(x)
<1> DEFINE s == at[Acceptor]
<1> USE DEF IncInit
<1>1. /\ Acceptor \in Threads /\ s \in Slots /\ Owns(Acceptor, s)
      /\ base[Acceptor] = NoSlot /\ base'[Acceptor] = s /\ pc'[Acceptor] = "clear"
  BY DEF SlotInv, TypeOK, AcceptorState, Initialising, Owns, Threads
<1>2. TypeOK'
  BY <1>1 DEF SlotInv, TypeOK, PCs, Initialising
<1>3. CountIsReferences'
  <2>1. \A x \in Slots : Refs(x)' =
           IF x = s THEN Refs(x) \cup {<<Acceptor, "base">>} ELSE Refs(x)
    BY <1>1, SlotsAssumption DEF SlotInv, TypeOK, Refs, OpRef, IoRef
  <2>2. <<Acceptor, "base">> \notin Refs(s)
    BY <1>1, SlotsAssumption DEF Refs
  <2>3. QED
    BY <1>1, <2>1, <2>2, CountTaken DEF SlotInv
<1>4. /\ \A x \in Slots, u \in Threads : Owns(u, x)' <=> Owns(u, x)
      /\ \A x \in Slots : OnStack(x)' <=> OnStack(x)
      /\ \A x \in Slots : Live(x)' <=> Live(x)
      /\ OwnersAreExclusive'
  <2>1. \A x \in Slots, u \in Threads : Owns(u, x)' <=> Owns(u, x)
    BY DEF Owns, Deleting, Initialising, SlotInv, TypeOK
  <2>2. QED
    BY <2>1, SameOwners DEF SlotInv
<1>5. UsersHaveTheirSession'
  <2>1. \A x \in Slots : (\E u \in Threads : Uses(u, x))' => \E u \in Threads : Uses(u, x)
    BY <1>1 DEF SlotInv, TypeOK, Uses, IoRef
  <2>2. QED
    BY <2>1, <1>4 DEF SlotInv, TypeOK, UsersHaveTheirSession
<1>6. NoOrphan'
  BY <1>1, <1>4 DEF SlotInv, TypeOK, NoOrphan
<1>7. AcceptorFindsItsSession'
  BY <1>1 DEF AcceptorFindsItsSession
<1>8. KnownSlots'
  BY <1>1, <1>4 DEF SlotInv, TypeOK, KnownSlots, Known, OpRef, IoRef
<1>9. AcceptorState'
  BY <1>1 DEF SlotInv, TypeOK, AcceptorState, Initialising, Deleting
<1>10. LiveSlots'
  <2>1. \A u \in Threads : pc'[u] = "check" => at'[u] \in Slots /\ Live(at'[u])
    BY DEF SlotInv, TypeOK, LiveSlots, KnownSlots, OpRef
  <2>2. QED
    BY <2>1, <1>1, <1>4 DEF SlotInv, TypeOK, LiveSlots, Carries
<1>11. QED
  BY <1>2, <1>3, <1>4, <1>5, <1>6, <1>7, <1>8, <1>9, <1>10 DEF SlotInv

\* Clearing the bit makes the slot live, under the accept thread's reference.
LEMMA ClearDelKeeps ==
  ASSUME SlotInv, ClearDel
  PROVE  SlotInv'
<1> DEFINE s == at[Acceptor]
<1> USE DEF ClearDel
<1>1. /\ Acceptor \in Threads /\ s \in Slots /\ Owns(Acceptor, s)
      /\ base[Acceptor] = s /\ pc[Acceptor] = "clear" /\ pc'[Acceptor] = "connect"
  BY DEF SlotInv, TypeOK, AcceptorState, Initialising, Owns, Threads
<1>2. TypeOK'
  BY <1>1 DEF SlotInv, TypeOK, PCs
<1>3. CountIsReferences' /\ count[s] > 0
  <2>1. \A x \in Slots : Refs(x)' = Refs(x)
    BY DEF SlotInv, TypeOK, Refs, OpRef, IoRef
  <2>2. <<Acceptor, "base">> \in Refs(s)
    BY <1>1 DEF Refs
  <2>3. Cardinality(Refs(s)) > 0 /\ Cardinality(Refs(s)) \in Nat
    BY <2>2, <1>1, RefsFinite, CardinalityChange
  <2>4. /\ count[s] = Cardinality(Refs(s)) + io[s] + Leaked(s)
        /\ io[s] \in Nat /\ Leaked(s) \in Nat
    BY <1>1, LeakedCounts DEF SlotInv, TypeOK, CountIsReferences
  <2>5. QED
    BY <2>1, <2>3, <2>4, CountUntouched DEF SlotInv
<1>4. /\ ~OnStack(s) /\ \A u \in Threads \ {Acceptor} : ~Owns(u, s)
  BY <1>1 DEF SlotInv, OwnersAreExclusive
<1>5. /\ \A x \in Slots, u \in Threads : Owns(u, x)' <=> Owns(u, x) /\ u # Acceptor
      /\ \A x \in Slots : OnStack(x)' <=> OnStack(x)
      /\ \A x \in Slots : Live(x)' <=> Live(x) \/ x = s
  <2>1. \A x \in Slots, u \in Threads : Owns(u, x)' <=> Owns(u, x) /\ u # Acceptor
    BY <1>1 DEF Owns, Deleting, Initialising, SlotInv, TypeOK
  <2>2. \A x \in Slots : OnStack(x)' <=> OnStack(x)
    BY DEF OnStack
  <2>3. \A x \in Slots : x # s => ~Owns(Acceptor, x) /\ del'[x] = del[x]
    BY <1>1 DEF Owns, SlotInv, TypeOK
  <2>4. ~del'[s]
    BY <1>1 DEF SlotInv, TypeOK
  <2>5. QED
    BY <2>1, <2>2, <2>3, <2>4, <1>1, <1>4 DEF Live
<1>6. OwnersAreExclusive'
  <2>1. NoDuplicates'
    BY DEF SlotInv, OwnersAreExclusive, NoDuplicates
  <2>2. QED
    BY <2>1, <1>5 DEF SlotInv, OwnersAreExclusive
<1>7. UsersHaveTheirSession'
  <2>1. Carries(s)
    BY <1>1 DEF SlotInv, LiveSlots
  <2>2. \A x \in Slots, u \in Threads : Uses(u, x)' => Uses(u, x) \/ x = s
    BY <1>1 DEF SlotInv, TypeOK, Uses, IoRef
  <2>3. ASSUME NEW x \in Slots, io[x] > 0 \/ \E u \in Threads : Uses(u, x)'
        PROVE  Live(x)' /\ ID[x] # NoId /\ sock[x] = ID[x]
    BY <2>1, <2>2, <2>3, <1>5 DEF SlotInv, UsersHaveTheirSession, Carries
  <2>4. \A u \in Threads : pc'[u] \in {"hold", "posting"} => ID[at[u]] = want[u]
    BY <1>1 DEF SlotInv, TypeOK, UsersHaveTheirSession
  <2>5. QED
    BY <2>3, <2>4 DEF UsersHaveTheirSession
<1>8. NoOrphan'
  <2>1. SUFFICES ASSUME NEW x \in Slots, Live(x)', count[x] = 0
                 PROVE  \E u \in Threads : pc'[u] = "zero" /\ at[u] = x
    BY DEF NoOrphan
  <2>2. x # s /\ Live(x)
    BY <2>1, <1>3, <1>5
  <2>3. QED
    BY <2>1, <2>2, <1>1 DEF SlotInv, TypeOK, NoOrphan
<1>9. AcceptorFindsItsSession'
  BY <1>1 DEF AcceptorFindsItsSession
<1>10. KnownSlots'
  <2>1. \A x \in Slots : Known(x)' <=> Known(x)
    BY DEF Known
  <2>2. ASSUME NEW x \in Slots, Known(x),
               (OnStack(x) \/ \E u \in Threads : Owns(u, x))'
        PROVE  del'[x]
    <3>1. OnStack(x) \/ \E u \in Threads : Owns(u, x)
      BY <2>2, <1>5
    <3>2. x # s
      BY <2>2, <1>4, <1>5
    <3>3. QED
      BY <3>1, <3>2, <2>2 DEF SlotInv, TypeOK, KnownSlots
  <2>3. QED
    BY <2>1, <2>2, <1>1 DEF SlotInv, TypeOK, KnownSlots, OpRef, IoRef
<1>11. AcceptorState'
  BY <1>1 DEF SlotInv, TypeOK, AcceptorState, Initialising, Deleting
<1>12. LiveSlots'
  <2>1. \A u \in Threads : pc'[u] = "check" => at'[u] \in Slots /\ Live(at'[u])
    BY <1>1 DEF SlotInv, TypeOK, LiveSlots, KnownSlots, OpRef
  <2>2. Carries(s)
    BY <1>1 DEF SlotInv, LiveSlots
  <2>3. QED
    BY <2>1, <2>2, <1>1, <1>5 DEF SlotInv, LiveSlots, Carries
<1>13. QED
  BY <1>2, <1>3, <1>6, <1>7, <1>8, <1>9, <1>10, <1>11, <1>12 DEF SlotInv

\* OnNewConnect announces the ID of the slot that the accept thread holds.
LEMMA EnterOnNewConnectKeeps ==
  ASSUME SlotInv, EnterOnNewConnect
  PROVE  SlotInv' /\ \A x \in Slots : Live(x)' => Live(x)
<1> DEFINE s == at[Acceptor]
<1> USE DEF EnterOnNewConnect, shared
<1>1. /\ Acceptor \in Threads /\ s \in Slots /\ base[Acceptor] = s
      /\ pc[Acceptor] = "connect" /\ pc'[Acceptor] = "find" /\ want'[Acceptor] = ID[s]
  BY DEF SlotInv, TypeOK, AcceptorState, Threads
<1>2. Live(s) /\ Carries(s) /\ ID[s] \in Ids
  <2>1. Uses(Acceptor, s)
    BY <1>1 DEF Uses
  <2>2. QED
    BY <2>1, <1>1 DEF SlotInv, TypeOK, UsersHaveTheirSession, LiveSlots
<1>3. TypeOK'
  BY <1>1, <1>2 DEF SlotInv, TypeOK, PCs
<1>4. CountIsReferences'
  <2>1. \A x \in Slots : Refs(x)' = Refs(x)
    BY DEF SlotInv, TypeOK, Refs, OpRef, IoRef
  <2>2. QED
    BY <2>1, CountUntouched DEF SlotInv
<1>5. /\ \A x \in Slots, u \in Threads : Owns(u, x)' <=> Owns(u, x)
      /\ \A x \in Slots : OnStack(x)' <=> OnStack(x)
      /\ \A x \in Slots : Live(x)' <=> Live(x)
      /\ OwnersAreExclusive'
  <2>1. \A x \in Slots, u \in Threads : Owns(u, x)' <=> Owns(u, x)
    BY DEF Owns, Deleting, Initialising, SlotInv, TypeOK
  <2>2. QED
    BY <2>1, SameOwners DEF SlotInv
<1>6. UsersHaveTheirSession'
  BY <1>1, <1>5 DEF SlotInv, TypeOK, UsersHaveTheirSession, Uses, IoRef
<1>7. NoOrphan'
  BY <1>5 DEF SlotInv, TypeOK, NoOrphan
<1>8. AcceptorFindsItsSession'
  BY <1>1, <1>2 DEF AcceptorFindsItsSession, Live
<1>9. KnownSlots'
  <2>1. \A x \in Slots : Known(x)' <=> Known(x) \/ x = s
    BY <1>2 DEF Known, Carries
  <2>2. ~OnStack(s) /\ \A u \in Threads : ~Owns(u, s)
    BY <1>2 DEF Live
  <2>3. \A u \in Threads : pc'[u] \in OpRef \cup IoRef \cup {"find", "zero"} =>
           at[u] \in Slots /\ Known(at[u])'
    BY <2>1, <1>1 DEF SlotInv, TypeOK, KnownSlots, OpRef, IoRef
  <2>4. \A u \in Threads : base'[u] # NoSlot /\ pc'[u] \notin {"clear", "connect"} =>
           Known(base[u])'
    BY <2>1, <1>1 DEF SlotInv, TypeOK, KnownSlots
  <2>5. \A x \in Slots : io'[x] > 0 => Known(x)'
    BY <2>1 DEF SlotInv, KnownSlots
  <2>6. \A x \in Slots : (Known(x) /\ (OnStack(x) \/ \E u \in Threads : Owns(u, x)))'
           => del'[x]
    BY <2>1, <2>2, <1>5 DEF SlotInv, KnownSlots
  <2>7. QED
    BY <2>3, <2>4, <2>5, <2>6 DEF KnownSlots, OpRef, IoRef
<1>10. AcceptorState'
  BY <1>1 DEF SlotInv, TypeOK, AcceptorState, Initialising, Deleting
<1>11. LiveSlots'
  <2>1. \A u \in Threads : pc'[u] = "check" => at'[u] \in Slots /\ Live(at'[u])
    BY <1>1 DEF SlotInv, TypeOK, LiveSlots, KnownSlots, OpRef
  <2>2. QED
    BY <2>1, <1>1, <1>5 DEF SlotInv, TypeOK, LiveSlots, Carries
<1>12. QED
  BY <1>3, <1>4, <1>5, <1>6, <1>7, <1>8, <1>9, <1>10, <1>11 DEF SlotInv

-----------------------------------------------------------------------------
(* The second half of IInv: sessions end once, and in order.               *)

\* Steps that neither open nor end a session.
LEMMA EndsUntouched ==
  ASSUME EndsInOrder,
         sessionCount' = sessionCount, ID' = ID, announced' = announced, ended' = ended,
         \A x \in Slots : Live(x)' => Live(x),
         \A u \in Threads : Ending(u)' => Ending(u) /\ want'[u] = want[u],
         pc'[Acceptor] \in {"inc", "clear", "connect"} =>
            pc[Acceptor] \in {"inc", "clear", "connect"} /\ at'[Acceptor] = at[Acceptor],
         pc[Acceptor] = "connect" =>
            pc'[Acceptor] = "connect" /\ at'[Acceptor] = at[Acceptor]
  PROVE  EndsInOrder'
<1>1. (ended \subseteq announced)'
  BY DEF EndsInOrder
<1>2. (\A id \in announced : id[1] < sessionCount)'
  BY DEF EndsInOrder
<1>3. pc'[Acceptor] \in {"inc", "clear", "connect"} =>
         (ID[at[Acceptor]] \notin announced /\ ID[at[Acceptor]][1] < sessionCount)'
  BY DEF EndsInOrder
<1>4. \A s \in Slots : Live(s)' =>
         /\ ID[s] \notin ended
         /\ ID[s] \in announced \/ (pc'[Acceptor] = "connect" /\ at'[Acceptor] = s)
  BY DEF EndsInOrder
<1>5. \A t \in Threads : Ending(t)' =>
         /\ want'[t] \in announced \ ended
         /\ \A s \in Slots : Live(s)' => ID[s] # want'[t]
         /\ \A u \in Threads \ {t} : Ending(u)' => want'[u] # want'[t]
  BY DEF EndsInOrder
<1>6. QED
  BY <1>1, <1>2, <1>3, <1>4, <1>5 DEF EndsInOrder

\* The steps of lookups and of I/O neither open nor end a session.
LEMMA LookupsEndNothing ==
  ASSUME IInv, NEW t \in Threads, \A x \in Slots : Live(x)' => Live(x),
         \/ FindInc(t) \/ FindCheck(t) \/ UseSession(t) \/ SendReqInc(t)
         \/ SendReqPost(t) \/ Release(t) \/ Call(t)
         \/ IOStarted(t) \/ IOFailed(t)
         \/ TakeCompletion(t) \/ RefuseReceive(t) \/ StartIO(t) \/ DropBase(t)
  PROVE  EndsInOrder'
<1> USE DEF IInv, SlotInv, TypeOK, Ending, Deleting, shared
<1>1. CASE FindInc(t)
  BY <1>1, EndsUntouched DEF FindInc
<1>2. CASE FindCheck(t)
  BY <1>2, EndsUntouched DEF FindCheck
<1>3. CASE UseSession(t)
  BY <1>3, EndsUntouched DEF UseSession
<1>4. CASE SendReqInc(t)
  BY <1>4, EndsUntouched DEF SendReqInc
<1>5. CASE SendReqPost(t)
  BY <1>5, EndsUntouched DEF SendReqPost
<1>6. CASE Release(t)
  BY <1>6, EndsUntouched DEF Release
<1>7. CASE Call(t)
  BY <1>7, EndsUntouched DEF Call
<1>8. CASE IOStarted(t)
  BY <1>8, EndsUntouched DEF IOStarted
<1>9. CASE IOFailed(t)
  BY <1>9, EndsUntouched DEF IOFailed
<1>10. CASE TakeCompletion(t)
  BY <1>10, EndsUntouched DEF TakeCompletion
<1>11. CASE StartIO(t)
  BY <1>11, EndsUntouched DEF StartIO
<1>12. CASE DropBase(t)
  BY <1>12, EndsUntouched DEF DropBase
<1>13. CASE RefuseReceive(t)
  BY <1>13, EndsUntouched DEF RefuseReceive
<1>14. QED
  BY <1>1, <1>2, <1>3, <1>4, <1>5, <1>6, <1>7, <1>8, <1>9, <1>10, <1>11, <1>12, <1>13

\* Popping an index, counting the first reference, closing the socket and
\* giving the index back change neither the IDs nor what is announced.
LEMMA SlotStepsEndNothing ==
  ASSUME IInv, \A x \in Slots : Live(x)' => Live(x),
         \/ PopIndex \/ IncInit
         \/ \E t \in Threads : CloseSession(t) \/ PushIndex(t)
  PROVE  EndsInOrder'
<1> USE DEF IInv, SlotInv, TypeOK, Ending, Deleting
<1>1. CASE PopIndex
  BY <1>1, EndsUntouched DEF PopIndex
<1>2. CASE IncInit
  BY <1>2, EndsUntouched DEF IncInit
<1>3. ASSUME NEW t \in Threads, CloseSession(t)
      PROVE  EndsInOrder'
  BY <1>3, EndsUntouched DEF CloseSession
<1>4. ASSUME NEW t \in Threads, PushIndex(t)
      PROVE  EndsInOrder'
  BY <1>4, EndsUntouched DEF PushIndex
<1>5. QED
  BY <1>1, <1>2, <1>3, <1>4

\* A new ID is one that was never announced: its number is the next one.
LEMMA SetIDEndsNothing ==
  ASSUME IInv, SetID, \A x \in Slots : Live(x)' => Live(x)
  PROVE  EndsInOrder'
<1> DEFINE s == at[Acceptor]
           id == MakeSessionId(sessionCount, s)
<1> USE DEF SetID
<1>1. Acceptor \in Threads /\ s \in Slots /\ ~Live(s)
  BY DEF IInv, SlotInv, AcceptorState, Initialising, Live, Owns, Threads
<1>2. /\ sessionCount \in Nat /\ sessionCount' = sessionCount + 1
      /\ id[1] = sessionCount
  <2>1. sessionCount \in Nat /\ IdWrap \in Nat /\ sessionCount < IdWrap
    BY BoundsAssumption DEF IInv, SlotInv, AcceptorState, TypeOK
  <2>2. sessionCount % IdWrap = sessionCount
    BY <2>1, Z3
  <2>3. QED
    BY <2>1, <2>2 DEF MakeSessionId
<1>3. \A i \in announced : i[1] \in Nat /\ i[1] < sessionCount
  BY DEF IInv, SlotInv, TypeOK, EndsInOrder, Ids
<1>4. id \notin announced /\ id[1] < sessionCount'
  BY <1>2, <1>3
<1>5. /\ ID'[s] = id
      /\ \A x \in Slots : x # s => ID'[x] = ID[x]
      /\ \A u \in Threads : Ending(u)' <=> Ending(u)
  BY <1>1 DEF IInv, SlotInv, TypeOK, Ending, Deleting
<1>6. \A x \in Slots : Live(x)' => x # s /\ Live(x) /\ ID'[x] = ID[x]
  BY <1>1, <1>5
<1>7. \A i \in announced : i[1] < sessionCount'
  BY <1>2, <1>3
<1>8. \A x \in Slots : Live(x)' => ID'[x] \notin ended /\ ID'[x] \in announced
  BY <1>6 DEF IInv, EndsInOrder
<1>9. \A t \in Threads : Ending(t)' =>
         /\ want[t] \in announced \ ended
         /\ \A x \in Slots : Live(x)' => ID'[x] # want[t]
         /\ \A u \in Threads \ {t} : Ending(u)' => want[u] # want[t]
  BY <1>5, <1>6 DEF IInv, EndsInOrder
<1>10. ended \subseteq announced
  BY DEF IInv, EndsInOrder
<1>11. QED
  BY <1>4, <1>5, <1>7, <1>8, <1>9, <1>10 DEF EndsInOrder

\* The slot that becomes live carries an ID nobody has heard of.
LEMMA ClearDelEndsNothing ==
  ASSUME IInv, ClearDel
  PROVE  EndsInOrder'
<1> DEFINE s == at[Acceptor]
<1> USE DEF ClearDel
<1>1. /\ Acceptor \in Threads /\ pc'[Acceptor] = "connect"
      /\ ID[s] \notin announced /\ ID[s][1] < sessionCount
  BY DEF IInv, SlotInv, TypeOK, EndsInOrder, Threads
<1>2. \A x \in Slots : Live(x)' => Live(x) \/ x = s
  BY <1>1 DEF Live, Owns, OnStack, Deleting, Initialising, IInv, SlotInv, TypeOK
<1>3. \A u \in Threads : Ending(u)' <=> Ending(u)
  BY DEF IInv, SlotInv, TypeOK, Ending, Deleting
<1>4. \A x \in Slots : Live(x)' =>
         ID[x] \notin ended /\ (ID[x] \in announced \/ x = s)
  BY <1>1, <1>2 DEF IInv, EndsInOrder
<1>5. \A t \in Threads : Ending(t)' =>
         /\ want[t] \in announced \ ended
         /\ \A x \in Slots : Live(x)' => ID[x] # want[t]
         /\ \A u \in Threads \ {t} : Ending(u)' => want[u] # want[t]
  BY <1>1, <1>2, <1>3 DEF IInv, EndsInOrder
<1>6. ended \subseteq announced /\ \A id \in announced : id[1] < sessionCount
  BY DEF IInv, EndsInOrder
<1>7. QED
  BY <1>1, <1>4, <1>5, <1>6 DEF EndsInOrder

\* Announcing the ID keeps the numbering and touches no end.
LEMMA EnterOnNewConnectEndsNothing ==
  ASSUME IInv, EnterOnNewConnect, \A x \in Slots : Live(x)' => Live(x)
  PROVE  EndsInOrder'
<1> DEFINE s == at[Acceptor]
<1> USE DEF EnterOnNewConnect, shared
<1>1. /\ Acceptor \in Threads /\ pc[Acceptor] = "connect" /\ pc'[Acceptor] = "find"
      /\ s \in Slots /\ ID[s] \notin announced /\ ID[s][1] < sessionCount /\ Live(s)
  <2>1. /\ Acceptor \in Threads /\ pc[Acceptor] = "connect" /\ pc'[Acceptor] = "find"
        /\ s \in Slots /\ ID[s] \notin announced /\ ID[s][1] < sessionCount
        /\ Uses(Acceptor, s)
    BY DEF IInv, SlotInv, TypeOK, EndsInOrder, AcceptorState, Threads, Uses
  <2>2. QED
    BY <2>1 DEF IInv, SlotInv, UsersHaveTheirSession
<1>2. \A u \in Threads : Ending(u)' => Ending(u) /\ want'[u] = want[u]
  BY <1>1 DEF IInv, SlotInv, TypeOK, Ending, Deleting
<1>3. \A x \in Slots : Live(x)' => ID[x] \notin ended /\ ID[x] \in announced'
  BY <1>1 DEF IInv, EndsInOrder
<1>4. \A t \in Threads : Ending(t)' =>
         /\ want'[t] \in announced' \ ended
         /\ \A x \in Slots : Live(x)' => ID[x] # want'[t]
         /\ \A u \in Threads \ {t} : Ending(u)' => want'[u] # want'[t]
  BY <1>2 DEF IInv, EndsInOrder
<1>5. ended \subseteq announced' /\ \A id \in announced' : id[1] < sessionCount
  BY <1>1 DEF IInv, EndsInOrder
<1>6. QED
  BY <1>1, <1>3, <1>4, <1>5 DEF EndsInOrder

\* The winner of the exchange begins the end of the session the slot carried:
\* it was announced, no other thread is ending it, and no live slot carries it.
LEMMA DeleteCASEnds ==
  ASSUME IInv, NEW t \in Threads, DeleteCAS(t), \A x \in Slots : Live(x)' => Live(x)
  PROVE  EndsInOrder'
<1> DEFINE s == at[t]
           won == count[s] = 0 /\ ~del[s]
<1> USE DEF DeleteCAS
<1>1. s \in Slots /\ Known(s) /\ pc[t] = "zero"
  BY DEF IInv, SlotInv, KnownSlots
<1>2. CASE ~won
  BY <1>2, <1>1, EndsUntouched DEF IInv, SlotInv, TypeOK, Ending, Deleting
<1>3. CASE won
  <2>1. Live(s) /\ del'[s]
    BY <1>1, <1>3, KnownAndClear DEF IInv, SlotInv, TypeOK
  <2>2. ~(pc[Acceptor] = "connect" /\ at[Acceptor] = s)
    <3>1. pc[Acceptor] = "connect" /\ at[Acceptor] = s => Uses(Acceptor, s)
      BY DEF IInv, SlotInv, AcceptorState, Uses
    <3>2. (\E u \in Threads : Uses(u, s)) => count[s] > 0
      BY <1>1, UsesAreCounted DEF IInv, SlotInv
    <3>3. QED
      BY <3>1, <3>2, <1>3 DEF Threads
  <2>3. ID[s] \in announced \ ended /\ want'[t] = ID[s]
    BY <2>1, <2>2, <1>1, <1>3 DEF IInv, SlotInv, TypeOK, EndsInOrder
  <2>4. \A x \in Slots : Live(x)' => Live(x) /\ x # s /\ ID[x] # ID[s]
    <3>1. \A x \in Slots : Live(x) => IndexOf(ID[x]) = x
      BY DEF IInv, SlotInv, LiveSlots, Carries
    <3>2. \A x \in Slots : Live(x)' => x # s
      BY <2>1 DEF Live
    <3>3. QED
      BY <3>1, <3>2, <2>1, <1>1
  <2>5. \A u \in Threads : /\ Ending(u)' => Ending(u) \/ u = t
                           /\ u # t => want'[u] = want[u]
                           /\ Ending(u) => want[u] # ID[s]
    BY <2>1, <1>1 DEF IInv, SlotInv, TypeOK, Ending, Deleting, EndsInOrder
  <2>6. \A u \in Threads : Ending(u)' =>
           /\ want'[u] \in announced \ ended
           /\ \A x \in Slots : Live(x)' => ID[x] # want'[u]
           /\ \A v \in Threads \ {u} : Ending(v)' => want'[v] # want'[u]
    BY <2>3, <2>4, <2>5 DEF IInv, EndsInOrder
  <2>7. /\ ended \subseteq announced /\ \A id \in announced : id[1] < sessionCount
        /\ \A x \in Slots : Live(x)' =>
              /\ ID[x] \notin ended
              /\ ID[x] \in announced \/ (pc[Acceptor] = "connect" /\ at[Acceptor] = x)
    BY DEF IInv, EndsInOrder
  <2>8. /\ pc'[Acceptor] \in {"inc", "clear", "connect"} =>
              ID[at[Acceptor]] \notin announced /\ ID[at[Acceptor]][1] < sessionCount
        /\ pc[Acceptor] = "connect" => pc'[Acceptor] = "connect"
    BY <1>1 DEF IInv, SlotInv, TypeOK, EndsInOrder
  <2>9. QED
    BY <2>6, <2>7, <2>8 DEF EndsInOrder
<1>4. QED
  BY <1>2, <1>3

\* OnDisconnect gets an ID whose end was not reported before.
LEMMA NotifyDisconnectEnds ==
  ASSUME IInv, NEW t \in Threads, NotifyDisconnect(t), \A x \in Slots : Live(x)' => Live(x)
  PROVE  EndsInOrder' /\ want[t] \in announced \ ended
<1> USE DEF NotifyDisconnect, shared
<1>1. Ending(t) /\ pc'[t] = "idle"
  BY DEF Ending, IInv, SlotInv, TypeOK
<1>2. /\ want[t] \in announced \ ended
      /\ \A x \in Slots : Live(x) => ID[x] # want[t]
      /\ \A u \in Threads \ {t} : Ending(u) => want[u] # want[t]
  BY <1>1 DEF IInv, EndsInOrder
<1>3. \A u \in Threads : Ending(u)' => Ending(u) /\ u # t
  BY <1>1 DEF Ending, Deleting, IInv, SlotInv, TypeOK
<1>4. \A u \in Threads : Ending(u)' =>
         /\ want[u] \in announced \ ended'
         /\ \A x \in Slots : Live(x)' => ID[x] # want[u]
         /\ \A v \in Threads \ {u} : Ending(v)' => want[v] # want[u]
  BY <1>2, <1>3 DEF IInv, EndsInOrder
<1>5. \A x \in Slots : Live(x)' =>
         /\ ID[x] \notin ended'
         /\ ID[x] \in announced \/ (pc[Acceptor] = "connect" /\ at[Acceptor] = x)
  BY <1>2 DEF IInv, EndsInOrder
<1>6. ended' \subseteq announced /\ \A id \in announced : id[1] < sessionCount
  BY <1>2 DEF IInv, EndsInOrder
<1>7. /\ pc'[Acceptor] \in {"inc", "clear", "connect"} =>
            ID[at[Acceptor]] \notin announced /\ ID[at[Acceptor]][1] < sessionCount
      /\ pc[Acceptor] = "connect" => pc'[Acceptor] = "connect"
  BY DEF IInv, SlotInv, TypeOK, EndsInOrder
<1>8. QED
  BY <1>2, <1>4, <1>5, <1>6, <1>7 DEF EndsInOrder

-----------------------------------------------------------------------------
(* The invariant.                                                          *)

\* start() leaves every index on the stack and no session anywhere.
LEMMA InitEstablishes ==
  ASSUME Init
  PROVE  IInv
<1> USE DEF Init
<1>1. \A t \in Threads : pc[t] = "idle" /\ base[t] = NoSlot /\ ~Owns(t, NoSlot)
  BY DEF Owns, Deleting, Initialising
<1>2. Acceptor \in Threads
  BY DEF Threads
<1>3. TypeOK
  <2>1. Cardinality(Slots) \in Nat
    BY SlotsAssumption, FS_CardinalityType
  <2>2. indexStack \in Seq(Slots)
    BY <2>1
  <2>3. QED
    BY <2>2, BoundsAssumption DEF TypeOK, PCs
<1>4. CountIsReferences
  <2>1. \A s \in Slots : Refs(s) = {}
    BY SlotsAssumption DEF Refs, OpRef, IoRef
  <2>2. QED
    <3>1. \A s \in Slots : Cardinality(Refs(s)) = 0
      BY <2>1, FS_EmptySet
    <3>2. \A s \in Slots : count[s] = 0 /\ io[s] = 0
      OBVIOUS
    <3>3. QED
      BY <3>1, <3>2 DEF CountIsReferences, Leaked
<1>5. \A s \in Slots : ~Live(s)
  BY DEF Live
<1>6. OwnersAreExclusive
  BY DEF OwnersAreExclusive, Owns, Deleting, Initialising
<1>7. UsersHaveTheirSession
  BY SlotsAssumption DEF UsersHaveTheirSession, Uses, IoRef
<1>8. NoOrphan /\ LiveSlots
  BY <1>2, <1>5 DEF NoOrphan, LiveSlots
<1>9. AcceptorFindsItsSession /\ AcceptorState
  BY <1>2 DEF AcceptorFindsItsSession, AcceptorState, Deleting, Initialising
<1>10. KnownSlots
  BY DEF KnownSlots, Known, OpRef, IoRef
<1>11. EndsInOrder
  BY <1>2, <1>5 DEF EndsInOrder, Ending, Deleting
<1>12. QED
  BY <1>3, <1>4, <1>6, <1>7, <1>8, <1>9, <1>10, <1>11 DEF IInv, SlotInv

\* A step of a thread that has begun something keeps the invariant, and reports
\* an end only once.
LEMMA StepKeeps ==
  ASSUME IInv, NEW t \in Threads, Step(t)
  PROVE  IInv'
<1> USE DEF IInv
<1>1. CASE FindInc(t)
  BY <1>1, FindIncKeeps, LookupsEndNothing
<1>2. CASE FindCheck(t)
  BY <1>2, FindCheckKeeps, LookupsEndNothing
<1>3. CASE UseSession(t)
  BY <1>3, UseSessionKeeps, LookupsEndNothing
<1>4. CASE SendReqInc(t)
  BY <1>4, SendReqIncKeeps, LookupsEndNothing
<1>5. CASE SendReqPost(t)
  BY <1>5, SendReqPostKeeps, LookupsEndNothing
<1>6. CASE Release(t)
  BY <1>6, ReleaseKeeps, LookupsEndNothing
<1>7. CASE Call(t)
  BY <1>7, CallKeeps, LookupsEndNothing
<1>8. CASE IOStarted(t)
  BY <1>8, IOStartedKeeps, LookupsEndNothing
<1>9. CASE IOFailed(t)
  BY <1>9, IOFailedKeeps, LookupsEndNothing
<1>10. CASE TakeCompletion(t)
  BY <1>10, TakeCompletionKeeps, LookupsEndNothing
<1>11. CASE StartIO(t)
  BY <1>11, StartIOKeeps, LookupsEndNothing
<1>12. CASE DropBase(t)
  BY <1>12, DropBaseKeeps, LookupsEndNothing
<1>13. CASE DeleteCAS(t)
  BY <1>13, DeleteCASKeeps, DeleteCASEnds
<1>14. CASE CloseSession(t)
  BY <1>14, CloseSessionKeeps, SlotStepsEndNothing
<1>15. CASE PushIndex(t)
  BY <1>15, PushIndexKeeps, SlotStepsEndNothing
<1>16. CASE NotifyDisconnect(t)
  <2>1. want[t] \in Ids
    BY <1>16 DEF NotifyDisconnect, EndsInOrder, Ending, SlotInv, TypeOK
  <2>2. QED
    BY <1>16, <2>1, NotifyDisconnectKeeps, NotifyDisconnectEnds
<1>17. CASE RefuseReceive(t)
  BY <1>17, RefuseReceiveKeeps, LookupsEndNothing
<1>18. QED
  BY <1>1, <1>2, <1>3, <1>4, <1>5, <1>6, <1>7, <1>8, <1>9, <1>10, <1>11, <1>12,
     <1>13, <1>14, <1>15, <1>16, <1>17 DEF Step, Continue

\* So does a step of the accept loop.
LEMMA AcceptKeeps ==
  ASSUME IInv, Accept
  PROVE  IInv'
<1> USE DEF IInv
<1>1. CASE PopIndex
  BY <1>1, PopIndexKeeps, SlotStepsEndNothing
<1>2. CASE SetID
  BY <1>2, SetIDKeeps, SetIDEndsNothing
<1>3. CASE IncInit
  BY <1>3, IncInitKeeps, SlotStepsEndNothing
<1>4. CASE ClearDel
  BY <1>4, ClearDelKeeps, ClearDelEndsNothing
<1>5. CASE EnterOnNewConnect
  BY <1>5, EnterOnNewConnectKeeps, EnterOnNewConnectEndsNothing
<1>6. QED
  BY <1>1, <1>2, <1>3, <1>4, <1>5 DEF Accept

\* A step that changes nothing keeps everything.
LEMMA StutterKeeps ==
  ASSUME IInv, UNCHANGED vars
  PROVE  IInv'
<1> USE DEF vars
<1>1. TypeOK' /\ CountIsReferences'
  BY LeakedCounts DEF IInv, SlotInv, TypeOK, CountIsReferences, Refs
<1>2. OwnersAreExclusive' /\ UsersHaveTheirSession' /\ NoOrphan'
  BY DEF IInv, SlotInv, OwnersAreExclusive, NoDuplicates, UsersHaveTheirSession,
         NoOrphan, Uses, Live, OnStack, Owns
<1>3. AcceptorFindsItsSession' /\ KnownSlots' /\ AcceptorState' /\ LiveSlots'
  BY DEF IInv, SlotInv, AcceptorFindsItsSession, KnownSlots, AcceptorState, LiveSlots,
         Known, Carries, Live, OnStack, Owns
<1>4. EndsInOrder'
  BY DEF IInv, EndsInOrder, Ending, Live, OnStack, Owns
<1>5. QED
  BY <1>1, <1>2, <1>3, <1>4 DEF IInv, SlotInv

\* The inductive invariant holds in every reachable state, for every number of
\* slots, workers, content threads, connections and operations.
THEOREM InductiveInvariant == Spec => []IInv
<1>1. Init => IInv
  BY InitEstablishes
<1>2. IInv /\ [Next]_vars => IInv'
  BY StepKeeps, AcceptKeeps, StutterKeeps DEF Next
<1>3. QED
  BY <1>1, <1>2, PTL DEF Spec

\* Every variable of the session table keeps its type; in particular the count
\* of references, which decrementIO only lowers, never passes zero.
THEOREM TypeCorrect == Spec => []TypeOK
<1>1. IInv => TypeOK
  BY DEF IInv, SlotInv
<1>2. QED
  BY <1>1, InductiveInvariant, PTL

\* IOcount is exactly the number of references owned by threads and operations,
\* and of the one that a refused receive has left behind.
THEOREM CountIsExact == Spec => []CountIsReferences
<1>1. IInv => CountIsReferences
  BY DEF IInv, SlotInv
<1>2. QED
  BY <1>1, InductiveInvariant, PTL

\* A slot on the stack, under deletion or being initialised has no other owner.
THEOREM SlotsHaveOneOwner == Spec => []OwnersAreExclusive
<1>1. IInv => OwnersAreExclusive
  BY DEF IInv, SlotInv
<1>2. QED
  BY <1>1, InductiveInvariant, PTL

\* findSession is safe against reuse: whoever uses a session has the one he asked
\* for, live and with its socket open, until he drops his reference.
THEOREM LookupsAreSafe == Spec => []UsersHaveTheirSession
<1>1. IInv => UsersHaveTheirSession
  BY DEF IInv, SlotInv
<1>2. QED
  BY <1>1, InductiveInvariant, PTL

\* No live slot is left without a reference and without a thread to delete it.
THEOREM SlotsAreNeverLost == Spec => []NoOrphan
<1>1. IInv => NoOrphan
  BY DEF IInv, SlotInv
<1>2. QED
  BY <1>1, InductiveInvariant, PTL

\* The error branch of OnNewConnect cannot be reached.
THEOREM OnNewConnectFinds == Spec => []AcceptorFindsItsSession
<1>1. IInv => AcceptorFindsItsSession
  BY DEF IInv, SlotInv
<1>2. QED
  BY <1>1, InductiveInvariant, PTL

\* OnDisconnect is called at most once for a session, and only after OnNewConnect.
THEOREM EndsAreReportedOnce == Spec => DisconnectOnce
<1>1. ASSUME IInv, NEW t \in Threads, NotifyDisconnect(t)
      PROVE  ended' # ended /\ ended' \subseteq announced
  <2>1. want[t] \in announced \ ended /\ ended \subseteq announced
    BY <1>1 DEF NotifyDisconnect, IInv, EndsInOrder, Ending
  <2>2. QED
    BY <2>1, <1>1 DEF NotifyDisconnect
<1>2. IInv /\ [Next]_vars =>
         [\A t \in Threads : NotifyDisconnect(t) =>
             ended' # ended /\ ended' \subseteq announced]_vars
  BY <1>1
<1>3. QED
  BY <1>2, InductiveInvariant, PTL DEF Spec, DisconnectOnce

-----------------------------------------------------------------------------
(* The session table implements SlotPool.                                  *)
(*                                                                         *)
(* Four steps mean something to SlotPool: ClearDel opens a session, the    *)
(* exchange of deleteSession that wins closes it, OnDisconnect reports it, *)
(* and every other step at most changes who uses a session.                *)

\* The state of SlotPool that a state of the table stands for.
PoolSession == [s \in Slots |-> IF Live(s) THEN ID[s] ELSE NoId]
PoolOpened ==
    announced \cup (IF pc[Acceptor] = "connect" THEN {ID[at[Acceptor]]} ELSE {})

\* Whoever uses a session uses one that was opened, that its slot carries, and
\* whose slot counts a reference.
UsesAreCurrent ==
    /\ PoolUses \subseteq PoolUsers \X PoolOpened
    /\ \A u \in PoolUses :
          /\ IndexOf(u[2]) \in Slots /\ PoolSession[IndexOf(u[2])] = u[2]
          /\ count[IndexOf(u[2])] > 0

\* It follows from the invariant of the table.
LEMMA PoolUsesAreCurrent == IInv => UsesAreCurrent
<1> SUFFICES ASSUME IInv PROVE UsesAreCurrent
  OBVIOUS
<1>1. ASSUME NEW s \in Slots, io[s] > 0 \/ \E t \in Threads : Uses(t, s)
      PROVE  /\ ID[s] \in PoolOpened /\ IndexOf(ID[s]) = s /\ PoolSession[s] = ID[s]
             /\ count[s] > 0
  <2>1. Live(s)
    BY <1>1 DEF IInv, SlotInv, UsersHaveTheirSession
  <2>2. IndexOf(ID[s]) = s
    BY <2>1 DEF IInv, SlotInv, LiveSlots, Carries
  <2>3. ID[s] \in PoolOpened
    BY <2>1 DEF IInv, EndsInOrder, PoolOpened
  <2>4. QED
    BY <1>1, <2>1, <2>2, <2>3, UsesAreCounted DEF IInv, SlotInv, PoolSession
<1>2. ASSUME NEW u \in PoolUses
      PROVE  \E s \in Slots : /\ io[s] > 0 \/ \E t \in Threads : Uses(t, s)
                              /\ u[2] = ID[s] /\ u[1] \in PoolUsers /\ u = <<u[1], u[2]>>
  <2>1. CASE \E t \in Threads : /\ base[t] # NoSlot /\ pc[t] # "clear"
                                /\ u = <<<<t, "base">>, ID[base[t]]>>
    BY <2>1 DEF IInv, SlotInv, TypeOK, Uses, PoolUsers
  <2>2. CASE \E t \in Threads : pc[t] \in IoRef /\ u = <<<<t, "op">>, ID[at[t]]>>
    BY <2>2 DEF IInv, SlotInv, KnownSlots, Uses, PoolUsers
  <2>3. CASE \E t \in Threads : pc[t] = "hold" /\ u = <<<<t, "op">>, want[t]>>
    BY <2>3 DEF IInv, SlotInv, KnownSlots, UsersHaveTheirSession, Uses, PoolUsers, OpRef
  <2>4. CASE \E s \in Slots : io[s] > 0 /\ u = <<<<"io", s>>, ID[s]>>
    BY <2>4 DEF PoolUsers
  <2>5. QED
    BY <2>1, <2>2, <2>3, <2>4 DEF PoolUses
<1>3. QED
  BY <1>1, <1>2 DEF UsesAreCurrent

\* And so in the next state.
LEMMA NextUsesAreCurrent == IInv' => UsesAreCurrent'
BY PoolUsesAreCurrent, PTL

\* A step that neither opens, closes nor reports a session is a step of SlotPool,
\* whatever it does to the uses.
LEMMA OtherwiseUse ==
  ASSUME IInv', PoolSession' = PoolSession, PoolOpened' = PoolOpened, ended' = ended
  PROVE  Pool!Use
<1>1. /\ PoolUses' \subseteq PoolUsers \X PoolOpened
      /\ \A u \in PoolUses' : PoolSession[IndexOf(u[2])] = u[2]
  BY NextUsesAreCurrent DEF UsesAreCurrent, PoolUsers
<1>2. QED
  BY <1>1 DEF Pool!Use, PoolSession, PoolOpened
\* A lookup, the start of an operation, a reference dropped: no session comes or goes.
LEMMA QuietStep ==
  ASSUME IInv, IInv', ID' = ID, announced' = announced, ended' = ended, del' = del,
         indexStack' = indexStack,
         \A u \in Threads, x \in Slots : Owns(u, x)' <=> Owns(u, x),
         pc'[Acceptor] = "connect" <=> pc[Acceptor] = "connect",
         pc[Acceptor] = "connect" => at'[Acceptor] = at[Acceptor]
  PROVE  Pool!Use
<1>1. PoolSession' = PoolSession
  BY SameOwners DEF PoolSession
<1>2. PoolOpened' = PoolOpened
  BY DEF PoolOpened
<1>3. QED
  BY <1>1, <1>2, OtherwiseUse

\* The steps of lookups, of I/O and of references are such.
LEMMA LookupStepsAreUses ==
  ASSUME IInv, IInv', NEW t \in Threads,
         \/ FindInc(t) \/ FindCheck(t) \/ UseSession(t) \/ SendReqInc(t) \/ SendReqPost(t)
         \/ Release(t) \/ Call(t) \/ IOStarted(t) \/ IOFailed(t) \/ TakeCompletion(t)
         \/ RefuseReceive(t) \/ StartIO(t) \/ DropBase(t) \/ CloseSession(t)
  PROVE  Pool!Use
<1>1. /\ ID' = ID /\ announced' = announced /\ ended' = ended /\ del' = del
      /\ indexStack' = indexStack
  BY DEF FindInc, FindCheck, UseSession, SendReqInc, SendReqPost, Release, Call,
         IOStarted, IOFailed, TakeCompletion, RefuseReceive, StartIO, DropBase,
         CloseSession, shared
<1>2. /\ \A u \in Threads : u # t => pc'[u] = pc[u] /\ at'[u] = at[u]
      /\ pc[t] \in Deleting => pc'[t] \in Deleting /\ at'[t] = at[t]
      /\ pc'[t] \in Deleting => pc[t] \in Deleting
      /\ pc[t] \notin Initialising \cup {"connect"}
      /\ pc'[t] \notin Initialising \cup {"connect"}
  BY DEF FindInc, FindCheck, UseSession, SendReqInc, SendReqPost, Release, Call,
         IOStarted, IOFailed, TakeCompletion, RefuseReceive, StartIO, DropBase,
         CloseSession, shared,
         Deleting, Initialising, IInv, SlotInv, TypeOK
<1>3. \A u \in Threads, x \in Slots : Owns(u, x)' <=> Owns(u, x)
  BY <1>2 DEF Owns
<1>4. QED
  BY <1>1, <1>2, <1>3, QuietStep DEF Threads
\* A step at the edge of a free slot: it is not live before and not live after.
LEMMA FreeSlotStep ==
  ASSUME IInv, IInv', NEW s \in Slots, ~Live(s), ~Live(s)',
         announced' = announced, ended' = ended, del' = del,
         \A x \in Slots \ {s} : ID'[x] = ID[x] /\ (OnStack(x)' <=> OnStack(x)),
         \A u \in Threads, x \in Slots \ {s} : Owns(u, x)' <=> Owns(u, x),
         pc[Acceptor] # "connect", pc'[Acceptor] # "connect"
  PROVE  Pool!Use
<1>1. PoolSession' = PoolSession
  BY DEF PoolSession, Live
<1>2. PoolOpened' = PoolOpened
  BY DEF PoolOpened
<1>3. QED
  BY <1>1, <1>2, OtherwiseUse

\* The accept thread owns the slot it took from the stack and initialises.
LEMMA InitStepsAreUses ==
  ASSUME IInv, IInv', PopIndex \/ SetID \/ IncInit
  PROVE  Pool!Use
<1> USE DEF Threads
<1>1. CASE PopIndex
  <2> DEFINE n == Len(indexStack) - 1
  <2> USE DEF PopIndex
  <2>1. /\ n \in Nat /\ Len(indexStack) = n + 1 /\ Len(indexStack') = n
        /\ \A i \in 1 .. n + 1 : indexStack[i] \in Slots
        /\ \A i \in 1 .. n : indexStack'[i] = indexStack[i]
    <3>1. indexStack \in Seq(Slots) /\ Len(indexStack) \in Nat \ {0}
      BY <1>1, EmptySeq DEF IInv, SlotInv, TypeOK
    <3>2. \A i \in 1 .. Len(indexStack) : indexStack[i] \in Slots
      BY <3>1, ElementOfSeq
    <3>3. n \in Int /\ n >= 0 /\ \A i \in 1 .. n : indexStack[i] \in Slots
      BY <3>1, <3>2
    <3>4. indexStack' = SubSeq(indexStack, 1, n)
      BY <1>1
    <3> HIDE DEF n
    <3>5. /\ Len(SubSeq(indexStack, 1, n)) = n
          /\ \A i \in 1 .. n : SubSeq(indexStack, 1, n)[i] = indexStack[i]
      BY <3>3, SubSeqProperties, Z3
    <3>6. QED
      BY <3>1, <3>2, <3>4, <3>5 DEF n
  <2>2. PICK s \in Slots : s = indexStack[n + 1]
    BY <2>1
  <2>3. at'[Acceptor] = s /\ pc'[Acceptor] = "setid"
    BY <1>1, <2>1, <2>2 DEF IInv, SlotInv, TypeOK
  <2>4. OnStack(s) /\ \A x \in Slots \ {s} : OnStack(x)' <=> OnStack(x)
    <3> HIDE DEF n
    <3>1. QED
      BY <2>1, <2>2 DEF OnStack
  <2>5. \A u \in Threads, x \in Slots \ {s} : Owns(u, x)' <=> Owns(u, x)
    BY <1>1, <2>3 DEF IInv, SlotInv, TypeOK, Owns, Initialising, Deleting
  <2>6. ~Live(s) /\ ~Live(s)'
    BY <2>3, <2>4 DEF Live, Owns, Initialising
  <2>7. /\ ID' = ID /\ announced' = announced /\ ended' = ended /\ del' = del
        /\ pc[Acceptor] # "connect" /\ pc'[Acceptor] # "connect"
    BY <1>1 DEF IInv, SlotInv, TypeOK
  <2>8. QED
    BY <2>4, <2>5, <2>6, <2>7, FreeSlotStep
<1>2. CASE SetID
  <2> DEFINE s == at[Acceptor]
  <2> USE DEF SetID
  <2>1. s \in Slots /\ Owns(Acceptor, s) /\ Owns(Acceptor, s)'
    BY <1>2 DEF IInv, SlotInv, TypeOK, AcceptorState, Owns, Initialising
  <2>2. \A x \in Slots : ID'[x] = IF x = s THEN ID'[x] ELSE ID[x]
    BY <1>2 DEF IInv, SlotInv, TypeOK
  <2>3. \A u \in Threads, x \in Slots : Owns(u, x)' <=> Owns(u, x)
    BY <1>2 DEF IInv, SlotInv, TypeOK, Owns, Initialising, Deleting
  <2>4. ~Live(s) /\ ~Live(s)'
    BY <2>1 DEF Live
  <2>5. QED
    BY <1>2, <2>1, <2>2, <2>3, <2>4, FreeSlotStep DEF IInv, SlotInv, TypeOK, OnStack
<1>3. CASE IncInit
  <2>1. \A u \in Threads, x \in Slots : Owns(u, x)' <=> Owns(u, x)
    BY <1>3 DEF IncInit, IInv, SlotInv, TypeOK, Owns, Initialising, Deleting
  <2>2. QED
    BY <1>3, <2>1, QuietStep DEF IncInit, IInv, SlotInv, TypeOK
<1>4. QED
  BY <1>1, <1>2, <1>3

\* OnNewConnect announces a session that was opened before.
LEMMA EnterOnNewConnectIsUse ==
  ASSUME IInv, IInv', EnterOnNewConnect
  PROVE  Pool!Use
<1> USE DEF EnterOnNewConnect, shared, Threads
<1>1. \A u \in Threads, x \in Slots : Owns(u, x)' <=> Owns(u, x)
  BY DEF IInv, SlotInv, TypeOK, Owns, Initialising, Deleting
<1>2. PoolSession' = PoolSession
  BY <1>1, SameOwners DEF PoolSession
<1>3. PoolOpened' = PoolOpened
  BY DEF PoolOpened, IInv, SlotInv, TypeOK
<1>4. QED
  BY <1>2, <1>3, OtherwiseUse

\* The index goes back when the session was closed already.
LEMMA PushIndexIsUse ==
  ASSUME IInv, IInv', NEW t \in Threads, PushIndex(t)
  PROVE  Pool!Use
<1> DEFINE s == at[t]
<1> USE DEF PushIndex
<1>1. s \in Slots /\ Owns(t, s)
  BY DEF IInv, SlotInv, AcceptorState, Owns, Deleting
<1>2. OnStack(s)' /\ \A x \in Slots \ {s} : OnStack(x)' <=> OnStack(x)
  <2>1. /\ Len(indexStack) \in Nat
        /\ Len(indexStack') = Len(indexStack) + 1
        /\ \A i \in 1 .. Len(indexStack) : indexStack'[i] = indexStack[i]
        /\ indexStack'[Len(indexStack) + 1] = s
    BY <1>1 DEF IInv, SlotInv, TypeOK
  <2>2. QED
    BY <2>1 DEF OnStack
<1>3. \A u \in Threads, x \in Slots \ {s} : Owns(u, x)' <=> Owns(u, x)
  BY DEF IInv, SlotInv, TypeOK, Owns, Initialising, Deleting
<1>4. ~Live(s) /\ ~Live(s)'
  BY <1>1, <1>2 DEF Live
<1>5. pc[Acceptor] # "connect" <=> pc'[Acceptor] # "connect"
  BY DEF IInv, SlotInv, TypeOK
<1>6. PoolSession' = PoolSession
  BY <1>1, <1>2, <1>3, <1>4 DEF PoolSession, Live
<1>7. PoolOpened' = PoolOpened
  BY <1>5 DEF PoolOpened
<1>8. QED
  BY <1>6, <1>7, OtherwiseUse

\* The exchange of deleteSession closes the session, which nobody uses, or it
\* changes nothing.
LEMMA DeleteCASCloses ==
  ASSUME IInv, IInv', NEW t \in Threads, DeleteCAS(t)
  PROVE  Pool!Next
<1> DEFINE s == at[t]
           won == count[s] = 0 /\ ~del[s]
<1> USE DEF DeleteCAS
<1>1. s \in Slots /\ Known(s) /\ pc[t] = "zero"
  BY DEF IInv, SlotInv, KnownSlots
<1>2. CASE ~won
  <2>1. \A u \in Threads, x \in Slots : Owns(u, x)' <=> Owns(u, x)
    BY <1>1, <1>2 DEF IInv, SlotInv, TypeOK, Owns, Initialising, Deleting
  <2>2. Pool!Use
    BY <1>1, <1>2, <2>1, QuietStep DEF IInv, SlotInv, TypeOK
  <2>3. QED
    BY <2>2 DEF Pool!Next
<1>3. CASE won
  <2>1. Live(s) /\ ID[s] # NoId /\ PoolSession[s] = ID[s]
    BY <1>1, <1>3, KnownAndClear DEF IInv, SlotInv, LiveSlots, Carries, PoolSession
  <2>2. ~Live(s)' /\ \A x \in Slots \ {s} : Live(x)' <=> Live(x)
    <3>1. \A u \in Threads, x \in Slots \ {s} : Owns(u, x)' <=> Owns(u, x)
      BY <1>1 DEF IInv, SlotInv, TypeOK, Owns, Initialising, Deleting
    <3>2. del'[s] /\ \A x \in Slots \ {s} : del'[x] = del[x]
      BY <1>1, <1>3 DEF IInv, SlotInv, TypeOK
    <3>3. \A x \in Slots : OnStack(x)' <=> OnStack(x)
      BY DEF OnStack
    <3>4. QED
      BY <3>1, <3>2, <3>3 DEF Live
  <2>3. PoolSession' = [PoolSession EXCEPT ![s] = NoId]
    BY <1>1, <2>2 DEF PoolSession
  <2>4. \A u \in PoolUses : u[2] # PoolSession[s]
    <3>1. \A u \in PoolUses :
             PoolSession[IndexOf(u[2])] = u[2] /\ count[IndexOf(u[2])] > 0
      BY PoolUsesAreCurrent DEF UsesAreCurrent
    <3>2. IndexOf(PoolSession[s]) = s
      BY <1>1, <2>1 DEF IInv, SlotInv, LiveSlots, Carries
    <3>3. QED
      BY <1>3, <3>1, <3>2
  <2>5. PoolUses' = PoolUses
    BY <1>1 DEF PoolUses, IoRef, IInv, SlotInv, TypeOK
  <2>6. PoolOpened' = PoolOpened
    BY <1>1 DEF PoolOpened, IInv, SlotInv, TypeOK
  <2>7. Pool!Close(s)
    BY <2>1, <2>3, <2>4, <2>5, <2>6 DEF Pool!Close, PoolSession, PoolOpened
  <2>8. QED
    BY <1>1, <2>7 DEF Pool!Next, Pool!Close
<1>4. QED
  BY <1>2, <1>3

\* The end of deleteSession reports a session that was closed, once.
LEMMA NotifyDisconnectReports ==
  ASSUME IInv, IInv', NEW t \in Threads, NotifyDisconnect(t)
  PROVE  Pool!Next
<1> DEFINE id == want[t]
<1> USE DEF NotifyDisconnect, shared
<1>1. id \in announced \ ended /\ \A x \in Slots : Live(x) => ID[x] # id
  BY DEF IInv, EndsInOrder, Ending
<1>2. id \in Ids /\ IndexOf(id) \in Slots /\ id # NoId
  BY <1>1, NoIdAssumption DEF IInv, SlotInv, TypeOK, Ids, IndexOf
<1>3. \A u \in Threads, x \in Slots : Owns(u, x)' <=> Owns(u, x)
  BY DEF IInv, SlotInv, TypeOK, Owns, Initialising, Deleting
<1>4. PoolSession' = PoolSession
  BY <1>3, SameOwners DEF PoolSession
<1>5. PoolOpened' = PoolOpened
  BY DEF PoolOpened, IInv, SlotInv, TypeOK
<1>6. PoolUses' = PoolUses
  BY DEF PoolUses, IoRef, IInv, SlotInv, TypeOK
<1>7. id \in PoolOpened \ ended /\ PoolSession[IndexOf(id)] # id /\ ended' = ended \cup {id}
  BY <1>1, <1>2 DEF PoolOpened, PoolSession
<1>8. Pool!Report(id)
  BY <1>4, <1>5, <1>6, <1>7 DEF Pool!Report, PoolSession, PoolOpened
<1>9. QED
  BY <1>2, <1>8 DEF Pool!Next, Pool!Report

\* The InterlockedAnd at the end of init opens the session in a free slot, used by
\* the accept thread alone.
LEMMA ClearDelOpens ==
  ASSUME IInv, IInv', ClearDel
  PROVE  Pool!Next
<1> DEFINE s == at[Acceptor]
           id == ID[s]
           user == <<Acceptor, "base">>
<1> USE DEF ClearDel, Threads
<1>1. /\ s \in Slots /\ base[Acceptor] = s /\ Owns(Acceptor, s) /\ ~OnStack(s)
      /\ \A u \in Threads \ {Acceptor} : ~Owns(u, s)
  <2>1. s \in Slots /\ base[Acceptor] = s /\ Owns(Acceptor, s)
    BY DEF IInv, SlotInv, AcceptorState, Owns, Initialising
  <2>2. QED
    BY <2>1 DEF IInv, SlotInv, OwnersAreExclusive
<1>2. id # NoId /\ IndexOf(id) = s /\ id \in Ids /\ id \notin announced
  BY <1>1 DEF IInv, SlotInv, LiveSlots, Carries, EndsInOrder, TypeOK
<1>3. /\ \A u \in Threads, x \in Slots : Owns(u, x)' <=> Owns(u, x) /\ u # Acceptor
      /\ \A x \in Slots : OnStack(x)' <=> OnStack(x)
      /\ \A x \in Slots : del'[x] = IF x = s THEN FALSE ELSE del[x]
      /\ \A x \in Slots : Owns(Acceptor, x) => x = s
  BY DEF IInv, SlotInv, TypeOK, Owns, Initialising, Deleting, OnStack
<1>4. ~Live(s) /\ Live(s)' /\ \A x \in Slots \ {s} : Live(x)' <=> Live(x)
  BY <1>1, <1>3 DEF Live
<1>5. PoolSession[s] = NoId /\ PoolSession' = [PoolSession EXCEPT ![s] = id]
  BY <1>1, <1>4 DEF PoolSession
<1>6. id \notin PoolOpened /\ PoolOpened' = PoolOpened \cup {id}
  BY <1>2 DEF PoolOpened, IInv, SlotInv, TypeOK
<1>7. PoolUses' = PoolUses \cup {<<user, id>>}
  <2>1. \A u \in Threads : u # Acceptor => pc'[u] = pc[u]
    BY DEF IInv, SlotInv, TypeOK
  <2>2. pc[Acceptor] = "clear" /\ pc'[Acceptor] = "connect"
    BY DEF IInv, SlotInv, TypeOK
  <2>3. {u \in Threads : base[u] # NoSlot /\ pc'[u] # "clear"}
           = {u \in Threads : base[u] # NoSlot /\ pc[u] # "clear"} \cup {Acceptor}
    BY <2>1, <2>2, <1>1, SlotsAssumption
  <2>4. {u \in Threads : pc'[u] \in IoRef} = {u \in Threads : pc[u] \in IoRef}
    BY <2>1, <2>2 DEF IoRef
  <2>5. {u \in Threads : pc'[u] = "hold"} = {u \in Threads : pc[u] = "hold"}
    BY <2>1, <2>2
  <2>6. /\ base' = base /\ at' = at /\ ID' = ID /\ io' = io /\ want' = want
        /\ base[Acceptor] = s
    BY <1>1
  <2>7. QED
    BY <2>3, <2>4, <2>5, <2>6 DEF PoolUses
<1>8. user \in PoolUsers
  BY DEF PoolUsers
<1>9. Pool!Open(user, id)
  BY <1>2, <1>5, <1>6, <1>7 DEF Pool!Open, PoolSession, PoolOpened
<1>10. QED
  BY <1>2, <1>8, <1>9 DEF Pool!Next, Pool!Open

-----------------------------------------------------------------------------
\* Every step of the table is a step of SlotPool, or changes nothing there.
LEMMA StepsArePoolSteps ==
  ASSUME IInv, IInv', [Next]_vars
  PROVE  [Pool!Next]_(Pool!vars)
<1>1. ASSUME Pool!Use PROVE Pool!Next
  BY <1>1 DEF Pool!Next
<1>2. CASE UNCHANGED vars
  <2>1. PoolSession' = PoolSession /\ PoolOpened' = PoolOpened /\ PoolUses' = PoolUses
    BY <1>2 DEF vars, PoolSession, PoolOpened, PoolUses, Live, OnStack, Owns
  <2>2. QED
    BY <1>2, <2>1 DEF vars, Pool!vars, PoolSession, PoolOpened
<1>3. CASE Accept
  BY <1>1, <1>3, InitStepsAreUses, ClearDelOpens, EnterOnNewConnectIsUse DEF Accept
<1>4. CASE \E t \in Threads : Step(t)
  BY <1>1, <1>4, LookupStepsAreUses, DeleteCASCloses, PushIndexIsUse,
     NotifyDisconnectReports DEF Step, Continue
<1>5. QED
  BY <1>2, <1>3, <1>4 DEF Next

\* The session table keeps the promise of SlotPool: for every number of slots,
\* threads, connections and operations, whatever lookups by stale IDs, reuse and
\* deletions interleave.
THEOREM ImplementsPool == Spec => ImplementsSlotPool
<1>1. Init => Pool!Init
  <2> SUFFICES ASSUME Init PROVE Pool!Init
    OBVIOUS
  <2>1. \A s \in Slots : ~Live(s)
    BY DEF Init, Live
  <2>2. PoolUses = {}
    BY DEF Init, PoolUses, IoRef
  <2>3. QED
    BY <2>1, <2>2 DEF Init, Pool!Init, Threads
<1>2. IInv /\ IInv' /\ [Next]_vars => [Pool!Next]_(Pool!vars)
  BY StepsArePoolSteps
<1>3. QED
  BY <1>1, <1>2, InductiveInvariant, PTL DEF Spec, ImplementsSlotPool, Pool!Spec
=============================================================================
