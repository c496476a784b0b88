---------------------------- MODULE LockFreeQueue ----------------------------
(***************************************************************************)
(* session::sendBuffer: a linked queue whose nodes come from a pool of its *)
(* own.  Any worker pushes; pop is called by the one thread that holds     *)
(* sendFlag (or by deleteSession), so it has no exchange on _head.         *)
(*                                                                         *)
(* Pointers carry a tag: a push takes one from pushs, the pool one from its *)
(* pushCount.  The tag protects _tail and topKey against a node that was   *)
(* recycled in between; the exchange that links a node compares with plain *)
(* NULL and is not protected.  One action is one access to shared memory.  *)
(***************************************************************************)
EXTENDS Integers, Sequences, FiniteSets, SequencesExt

CONSTANTS
    Producers,  \* the workers that push
    Consumer,   \* the thread that pops
    PoolSize,   \* nodes of the pool, the dummy of the constructor included
    MaxPushes   \* bound: pushes begun in a behaviour (pushs stays below 2^16)

Threads == Producers \cup {Consumer}
Nodes   == 1 .. PoolSize
Values  == 1 .. MaxPushes

ASSUME QueueAssumption ==
    /\ Consumer \notin Producers /\ IsFiniteSet(Producers)
    /\ PoolSize \in Nat \ {0} /\ MaxPushes \in Nat

NULL == <<0, 0>>
MAKE_KEY(n, tag) == <<n, tag>>
MAKE_NODEPTR(k) == k[1]

VARIABLES
    pushs, head, tail, size,     \* LockFreeQueue: pushs, _head, _tail, _size
    topKey, pushCount,           \* nodePool
    value, key, poolNext,        \* the fields of the nodes
    pc,
    mine,      \* per thread: its new node's key (push), the node to free (pop)
    seen,      \* per thread: the tail, head or topKey it read
    next,      \* per thread: the key it read from a node
    popped,    \* the values popped, in order
    finished,  \* the values whose push has returned true
    failed     \* the values whose push has returned false

queue  == <<pushs, head, tail, size>>
pool   == <<topKey, pushCount>>
nodes  == <<value, key, poolNext>>
local  == <<pc, mine, seen, next>>
record == <<popped, finished, failed>>
vars   == <<queue, pool, nodes, local, record>>

\* The pool is filled, and its last node becomes the dummy, with no tag.
Init ==
    /\ pushs = 0 /\ size = 0
    /\ poolNext = [n \in Nodes |-> IF n = 1 THEN NULL ELSE MAKE_KEY(n - 1, n - 2)]
    /\ topKey = poolNext[PoolSize] /\ pushCount = PoolSize
    /\ value = [n \in Nodes |-> 0] /\ key = [n \in Nodes |-> NULL]
    /\ head = MAKE_KEY(PoolSize, 0) /\ tail = head
    /\ pc = [t \in Threads |-> "idle"]
    /\ mine = [t \in Threads |-> NULL]
    /\ seen = [t \in Threads |-> NULL]
    /\ next = [t \in Threads |-> NULL]
    /\ popped = <<>> /\ finished = {} /\ failed = {}

Goto(t, from, to) == pc[t] = from /\ pc' = [pc EXCEPT ![t] = to]

-----------------------------------------------------------------------------
(* push.  The value pushed is the number of the push.                      *)

Push(p) ==
    /\ pushs < MaxPushes
    /\ Goto(p, "idle", "alloc")
    /\ pushs' = pushs + 1
    /\ mine' = [mine EXCEPT ![p] = MAKE_KEY(0, pushs + 1)]
    /\ UNCHANGED <<head, tail, size, pool, nodes, seen, next, record>>

\* (Mutant: the push is counted before it is known to have a node.)
AllocReadCounts(p) ==
    /\ pc[p] = "alloc"
    /\ seen' = [seen EXCEPT ![p] = topKey]
    /\ IF topKey = NULL
       THEN /\ pc' = [pc EXCEPT ![p] = "idle"]
            /\ failed' = failed \cup {mine[p][2]}
            /\ size' = size + 1
       ELSE /\ pc' = [pc EXCEPT ![p] = "allocNext"]
            /\ UNCHANGED <<failed, size>>
    /\ UNCHANGED <<pushs, head, tail, pool, nodes, mine, next, popped, finished>>

\* Alloc: an empty pool makes push return false.
AllocRead(p) ==
    /\ pc[p] = "alloc"
    /\ seen' = [seen EXCEPT ![p] = topKey]
    /\ IF topKey = NULL
       THEN /\ pc' = [pc EXCEPT ![p] = "idle"]
            /\ failed' = failed \cup {mine[p][2]}
       ELSE /\ pc' = [pc EXCEPT ![p] = "allocNext"]
            /\ UNCHANGED failed
    /\ UNCHANGED <<queue, pool, nodes, mine, next, popped, finished>>

AllocNext(p) ==
    /\ Goto(p, "allocNext", "allocCAS")
    /\ next' = [next EXCEPT ![p] = poolNext[MAKE_NODEPTR(seen[p])]]
    /\ UNCHANGED <<queue, pool, nodes, mine, seen, record>>

\* (Mutant: the pool's pointer is compared without its tag.)
AllocUntagged(p) ==
    LET won == MAKE_NODEPTR(topKey) = MAKE_NODEPTR(seen[p]) IN
    /\ Goto(p, "allocCAS", IF won THEN "init" ELSE "alloc")
    /\ topKey' = IF won THEN next[p] ELSE topKey
    /\ mine' = IF won THEN [mine EXCEPT ![p] = MAKE_KEY(MAKE_NODEPTR(seen[p]), @[2])] ELSE mine
    /\ UNCHANGED <<queue, pushCount, nodes, seen, next, record>>

AllocCAS(p) ==
    LET won == topKey = seen[p] IN
    /\ Goto(p, "allocCAS", IF won THEN "init" ELSE "alloc")
    /\ topKey' = IF won THEN next[p] ELSE topKey
    /\ mine' = IF won THEN [mine EXCEPT ![p] = MAKE_KEY(MAKE_NODEPTR(seen[p]), @[2])] ELSE mine
    /\ UNCHANGED <<queue, pushCount, nodes, seen, next, record>>

InitNode(p) ==
    LET n == MAKE_NODEPTR(mine[p]) IN
    /\ Goto(p, "init", "readTail")
    /\ value' = [value EXCEPT ![n] = mine[p][2]]
    /\ key' = [key EXCEPT ![n] = NULL]
    /\ UNCHANGED <<queue, pool, poolNext, mine, seen, next, record>>

ReadTail(p) ==
    /\ Goto(p, "readTail", "readKey")
    /\ seen' = [seen EXCEPT ![p] = tail]
    /\ UNCHANGED <<queue, pool, nodes, mine, next, record>>

ReadKey(p) ==
    LET k == key[MAKE_NODEPTR(seen[p])] IN
    /\ Goto(p, "readKey", IF k = NULL THEN "link" ELSE "help")
    /\ next' = [next EXCEPT ![p] = k]
    /\ UNCHANGED <<queue, pool, nodes, mine, seen, record>>

\* (Mutant: the link is stored, not exchanged.)
LinkByStore(p) ==
    /\ Goto(p, "link", "swing")
    /\ key' = [key EXCEPT ![MAKE_NODEPTR(seen[p])] = mine[p]]
    /\ UNCHANGED <<queue, pool, value, poolNext, mine, seen, next, record>>

\* The exchange against NULL, on the node that was the tail when it was read.
Link(p) ==
    LET n == MAKE_NODEPTR(seen[p])  won == key[n] = NULL IN
    /\ Goto(p, "link", IF won THEN "swing" ELSE "readTail")
    /\ key' = IF won THEN [key EXCEPT ![n] = mine[p]] ELSE key
    /\ UNCHANGED <<queue, pool, value, poolNext, mine, seen, next, record>>

MoveTail(p, to) == tail' = IF tail = seen[p] THEN to ELSE tail

Swing(p) ==
    /\ Goto(p, "swing", "count")
    /\ MoveTail(p, mine[p])
    /\ UNCHANGED <<pushs, head, size, pool, nodes, mine, seen, next, record>>

Help(p) ==
    /\ Goto(p, "help", "readTail")
    /\ MoveTail(p, next[p])
    /\ UNCHANGED <<pushs, head, size, pool, nodes, mine, seen, next, record>>

Count(p) ==
    /\ Goto(p, "count", "idle")
    /\ size' = size + 1
    /\ finished' = finished \cup {mine[p][2]}
    /\ UNCHANGED <<pushs, head, tail, pool, nodes, mine, seen, next, popped, failed>>

-----------------------------------------------------------------------------
(* pop.                                                                    *)

PopDecrement ==
    /\ Goto(Consumer, "idle", IF size - 1 < 0 THEN "undo" ELSE "readHead")
    /\ size' = size - 1
    /\ UNCHANGED <<pushs, head, tail, pool, nodes, mine, seen, next, record>>

PopFails ==
    /\ Goto(Consumer, "undo", "idle")
    /\ size' = size + 1
    /\ UNCHANGED <<pushs, head, tail, pool, nodes, mine, seen, next, record>>

\* _head is read; nobody else writes it.
PopReadHead ==
    /\ Goto(Consumer, "readHead", "popTail")
    /\ mine' = [mine EXCEPT ![Consumer] = head]
    /\ UNCHANGED <<queue, pool, nodes, seen, next, record>>

PopReadTail ==
    /\ Goto(Consumer, "popTail", "popKey")
    /\ seen' = [seen EXCEPT ![Consumer] = tail]
    /\ UNCHANGED <<queue, pool, nodes, mine, next, record>>

\* Without a successor pop tries again, at the tail it helps, else it moves on.
PopReadKey ==
    LET k == key[MAKE_NODEPTR(mine[Consumer])] IN
    /\ Goto(Consumer, "popKey",
            IF k = NULL THEN "readHead"
            ELSE IF mine[Consumer] = seen[Consumer] THEN "popHelp" ELSE "popHead")
    /\ next' = [next EXCEPT ![Consumer] = k]
    /\ UNCHANGED <<queue, pool, nodes, mine, seen, record>>

PopHelp ==
    /\ Goto(Consumer, "popHelp", "readHead")
    /\ MoveTail(Consumer, next[Consumer])
    /\ UNCHANGED <<pushs, head, size, pool, nodes, mine, seen, next, record>>

PopMoveHead ==
    /\ Goto(Consumer, "popHead", "free")
    /\ head' = next[Consumer]
    /\ UNCHANGED <<pushs, tail, size, pool, nodes, mine, seen, next, record>>

\* Free of the node that was the head.
FreeRead ==
    /\ Goto(Consumer, "free", "freeCAS")
    /\ seen' = [seen EXCEPT ![Consumer] = topKey]
    /\ poolNext' = [poolNext EXCEPT ![MAKE_NODEPTR(mine[Consumer])] = topKey]
    /\ UNCHANGED <<queue, pool, value, key, mine, next, record>>

FreeCAS ==
    LET won == topKey = seen[Consumer] IN
    /\ Goto(Consumer, "freeCAS", IF won THEN "value" ELSE "free")
    /\ pushCount' = pushCount + 1
    /\ topKey' = IF won THEN MAKE_KEY(MAKE_NODEPTR(mine[Consumer]), pushCount + 1)
                 ELSE topKey
    /\ UNCHANGED <<queue, nodes, mine, seen, next, record>>

\* The value is read from the new head, after the old one was freed.
PopValue ==
    /\ Goto(Consumer, "value", "idle")
    /\ popped' = Append(popped, value[MAKE_NODEPTR(next[Consumer])])
    /\ UNCHANGED <<queue, pool, nodes, mine, seen, next, finished, failed>>

-----------------------------------------------------------------------------
Producing(p) ==
    \/ AllocRead(p) \/ AllocNext(p) \/ AllocCAS(p) \/ InitNode(p)
    \/ ReadTail(p) \/ ReadKey(p) \/ Link(p) \/ Swing(p) \/ Help(p) \/ Count(p)

Popping ==
    \/ PopFails \/ PopReadHead \/ PopReadTail \/ PopReadKey \/ PopHelp
    \/ PopMoveHead \/ FreeRead \/ FreeCAS \/ PopValue

Next ==
    \/ \E p \in Producers : Push(p) \/ Producing(p)
    \/ PopDecrement \/ Popping

Spec == Init /\ [][Next]_vars

\* A call that was begun is run to its end by the scheduler; nobody has to begin one.
FairSpec ==
    Spec /\ WF_vars(Popping) /\ \A p \in Producers : WF_vars(Producing(p))

-----------------------------------------------------------------------------
(* Properties.                                                             *)

\* The nodes that can be reached from n by f, n first.
Chain(f, n) ==
    LET hop[i \in 0 .. PoolSize] ==
            IF i = 0 THEN n ELSE IF hop[i - 1] = 0 THEN 0 ELSE MAKE_NODEPTR(f[hop[i - 1]])
    IN  [i \in 1 .. Cardinality({j \in 0 .. PoolSize : hop[j] # 0}) |-> hop[i - 1]]

Queued == Chain(key, MAKE_NODEPTR(head))
Pooled == Chain(poolNext, MAKE_NODEPTR(topKey))

\* A push that has its node ready and not linked, and a thread whose node is no
\* more and not yet in a chain.
Linking(t) == pc[t] \in {"readTail", "readKey", "link", "help"}
Lone(t)    == pc[t] \in {"init", "free", "freeCAS"}

\* What a thread has: its node, with what stale producers linked behind it.
Carried(t) ==
    IF Linking(t) THEN Chain(key, MAKE_NODEPTR(mine[t]))
    ELSE IF Lone(t) THEN <<MAKE_NODEPTR(mine[t])>> ELSE <<>>

\* Every node is in the queue, in the pool, or carried by one thread, and there
\* once: none is allocated twice or lost to the pool, and no link makes a ring.
NodesHaveOnePlace ==
    /\ IsInjective(Queued) /\ IsInjective(Pooled)
    /\ Range(Queued) \cap Range(Pooled) = {}
    /\ \A t \in Threads :
          /\ IsInjective(Carried(t))
          /\ Range(Carried(t)) \cap (Range(Queued) \cup Range(Pooled)) = {}
          /\ \A u \in Threads \ {t} : Range(Carried(t)) \cap Range(Carried(u)) = {}
    /\ Nodes = Range(Queued) \cup Range(Pooled) \cup UNION {Range(Carried(t)) : t \in Threads}

\* Every value whose push returned true is popped once or still in the queue, and
\* when no call is running the size is the number of values in it.
NothingLost ==
    /\ IsInjective(popped) /\ Range(popped) \subseteq 1 .. pushs
    /\ Range(popped) \cap failed = {}
    /\ (\A t \in Threads : pc[t] = "idle") =>
          /\ finished = Range(popped) \cup {value[n] : n \in Range(Tail(Queued))}
          /\ size = Len(Queued) - 1

\* pop spins until it has a value once the size promised one: it always comes back,
\* because every push that was counted is, or will be, linked.
PopReturns == pc[Consumer] = "readHead" ~> pc[Consumer] = "idle"
=============================================================================
