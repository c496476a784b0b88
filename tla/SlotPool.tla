------------------------------ MODULE SlotPool ------------------------------
(***************************************************************************)
(* What the session table promises to its users: a slot carries at most    *)
(* one session at a time, somebody who uses a session uses one that its    *)
(* slot still carries, a session is given up only when nobody uses it, no  *)
(* ID is given out twice, and the end of each session is reported once.    *)
(***************************************************************************)
EXTENDS FiniteSets

CONSTANTS
    Slots,       \* the places for sessions
    Ids,         \* session identifiers
    IndexOf(_),  \* the slot an identifier belongs to
    Users,       \* who may be using a session
    NoId

VARIABLES
    session,     \* the session a slot carries, or NoId
    uses,        \* the pairs <<user, session>> of uses under way
    opened,      \* every session ever opened
    ended        \* the sessions whose end was reported

vars == <<session, uses, opened, ended>>

Init ==
    /\ session = [s \in Slots |-> NoId]
    /\ uses = {}
    /\ opened = {}
    /\ ended = {}

\* An unused identifier opens a session in its free slot; u uses it from then on.
Open(u, id) ==
    LET s == IndexOf(id) IN
    /\ id \notin opened
    /\ session[s] = NoId
    /\ session' = [session EXCEPT ![s] = id]
    /\ opened' = opened \cup {id}
    /\ uses' = uses \cup {<<u, id>>}
    /\ UNCHANGED ended

\* Uses come and go, but only a session that is there can be used.
Use ==
    /\ uses' \subseteq Users \X opened
    /\ \A u \in uses' \ uses : session[IndexOf(u[2])] = u[2]
    /\ UNCHANGED <<session, opened, ended>>

\* A session nobody uses is given up.
Close(s) ==
    /\ session[s] # NoId
    /\ \A u \in uses : u[2] # session[s]
    /\ session' = [session EXCEPT ![s] = NoId]
    /\ UNCHANGED <<uses, opened, ended>>

\* The end of a session that was given up is reported, once.
Report(id) ==
    /\ id \in opened \ ended
    /\ session[IndexOf(id)] # id
    /\ ended' = ended \cup {id}
    /\ UNCHANGED <<session, uses, opened>>

Next ==
    \/ \E u \in Users, id \in Ids : Open(u, id)
    \/ Use
    \/ \E s \in Slots : Close(s)
    \/ \E id \in Ids : Report(id)

Spec == Init /\ [][Next]_vars

\* Whoever uses a session finds it in its slot (a consequence, for readers).
UsesAreCurrent == \A u \in uses : session[IndexOf(u[2])] = u[2]
=============================================================================
