--------------------------- MODULE SessionContract ---------------------------
(***************************************************************************)
(* What Network promises the content about a session, whatever its locks,  *)
(* counters and completions do: OnNewConnect comes first and once, the     *)
(* callbacks of a session come one at a time, the session is deleted only  *)
(* when no callback runs in it and no one who found it still holds it, and *)
(* OnDisconnect is called once, after that.  SessionIO keeps this promise  *)
(* under its send, receive and cancel paths, LoginServer relies on it.     *)
(***************************************************************************)
CONSTANTS
    Sessions,  \* the sessions, by ID
    Parties    \* the threads that run callbacks or call findSession

VARIABLES
    stage,     \* of a session: "none", "open", "deleted", then "reported"
    inside,    \* of a session: the threads in OnNewConnect or OnRecv
    holders,   \* of a session: the threads with a reference of findSession
    cancelled  \* the sessions somebody asked to disconnect

vars == <<stage, inside, holders, cancelled>>

\* A behaviour starts before the accepts, or with sessions that are established.
Init ==
    /\ stage \in [Sessions -> {"none", "open"}]
    /\ inside = [s \in Sessions |-> {}]
    /\ holders = [s \in Sessions |-> {}]
    /\ cancelled = {}

\* OnNewConnect.
Connect(s, t) ==
    /\ stage[s] = "none"
    /\ stage' = [stage EXCEPT ![s] = "open"]
    /\ inside' = [inside EXCEPT ![s] = {t}]
    /\ UNCHANGED <<holders, cancelled>>

\* OnRecv: never beside another callback of the session.
Deliver(s, t) ==
    /\ stage[s] = "open" /\ inside[s] = {}
    /\ inside' = [inside EXCEPT ![s] = {t}]
    /\ UNCHANGED <<stage, holders, cancelled>>

\* The callback returns, with what it found given back.
Return(s, t) ==
    /\ t \in inside[s]
    /\ inside' = [inside EXCEPT ![s] = @ \ {t}]
    /\ holders' = [holders EXCEPT ![s] = @ \ {t}]
    /\ UNCHANGED <<stage, cancelled>>

\* findSession finds a session that is not deleted, and only such a one.
Find(s, t) ==
    /\ stage[s] = "open" /\ t \notin holders[s]
    /\ holders' = [holders EXCEPT ![s] = @ \cup {t}]
    /\ UNCHANGED <<stage, inside, cancelled>>

GiveBack(s, t) ==
    /\ t \in holders[s]
    /\ holders' = [holders EXCEPT ![s] = @ \ {t}]
    /\ UNCHANGED <<stage, inside, cancelled>>

\* The cancel flag, set while the session is there.
Cancel(s) ==
    /\ stage[s] = "open"
    /\ cancelled' = cancelled \cup {s}
    /\ UNCHANGED <<stage, inside, holders>>

\* deleteSession, by the thread that gives back the last reference.
Delete(s, t) ==
    /\ stage[s] = "open" /\ inside[s] = {} /\ holders[s] \subseteq {t}
    /\ stage' = [stage EXCEPT ![s] = "deleted"]
    /\ holders' = [holders EXCEPT ![s] = {}]
    /\ UNCHANGED <<inside, cancelled>>

\* OnDisconnect.
Report(s) ==
    /\ stage[s] = "deleted"
    /\ stage' = [stage EXCEPT ![s] = "reported"]
    /\ UNCHANGED <<inside, holders, cancelled>>

Next ==
    \E s \in Sessions :
        \/ Cancel(s) \/ Report(s)
        \/ \E t \in Parties :
              \/ Connect(s, t) \/ Deliver(s, t) \/ Return(s, t)
              \/ Find(s, t) \/ GiveBack(s, t) \/ Delete(s, t)

\* A step that changes nothing here is named first: most steps of an implementation
\* are such steps.
Spec == Init /\ [][UNCHANGED vars \/ Next]_vars
=============================================================================
