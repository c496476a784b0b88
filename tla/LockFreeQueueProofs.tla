------------------------ MODULE LockFreeQueueProofs ------------------------
(***************************************************************************)
(* For any number of producers, nodes and pushes: every node of the queue  *)
(* has one place, and no value is lost.  Both follow from QueueInv, which  *)
(* names what the code keeps only in its links: the nodes of each chain and *)
(* their order, and the pool's stack with the tags of its keys.            *)
(*                                                                         *)
(* A lemma ...Moves is about the program counters of one action.  Each part *)
(* of QueueInv has lemmas Push..., for the steps of a push that leave the  *)
(* chains alone, Init... and Link..., for the two that do not, and Pop...  *)
(* and Move... likewise.  PartsKept puts them together.                    *)
(***************************************************************************)
EXTENDS LockFreeQueue, Counting, DataInduction, TLAPS

-----------------------------------------------------------------------------
(* The inductive invariant.                                                *)

Keys  == Nodes \X Nat
Links == Keys \cup {NULL}

ProducerSteps ==
    {"idle", "alloc", "allocNext", "allocCAS", "init", "readTail", "readKey",
     "link", "help", "swing", "count"}
ConsumerSteps ==
    {"idle", "undo", "readHead", "popTail", "popKey", "popHelp", "popHead",
     "free", "freeCAS", "value"}

SharedTypes ==
    /\ pushs \in Nat /\ size \in Int /\ pushCount \in Nat
    /\ head \in Keys /\ tail \in Keys /\ topKey \in Links
    /\ value \in [Nodes -> Nat] /\ key \in [Nodes -> Links] /\ poolNext \in [Nodes -> Links]
    /\ popped \in Seq(Nat) /\ finished \subseteq Nat /\ failed \subseteq Nat

StepTypes ==
    /\ pc \in [Threads -> ProducerSteps \cup ConsumerSteps]
    /\ \A p \in Producers : pc[p] \in ProducerSteps
    /\ pc[Consumer] \in ConsumerSteps

LocalTypes ==
    /\ mine \in [Threads -> (0 .. PoolSize) \X Nat]
    /\ seen \in [Threads -> Links] /\ next \in [Threads -> Links]

\* Where a key was read from a pointer that is not null, and where a node is there.
KeyTypes ==
    /\ \A t \in Threads :
          Lone(t) \/ Linking(t) \/ pc[t] \in {"swing", "count"} => mine[t] \in Keys
    /\ \A p \in Producers :
          pc[p] \in {"allocNext", "allocCAS", "readKey", "link", "help", "swing"} =>
              seen[p] \in Keys

QueueTypes == SharedTypes /\ StepTypes /\ LocalTypes /\ KeyTypes

\* The chains of the nodes that are `live': the queue is the consumer's, and a push
\* has one that starts with its node.  owner[n] has n, in the order of place[n].
Rooted(t) == t = Consumer \/ Linking(t)
Root(t)   == MAKE_NODEPTR(IF t = Consumer THEN head ELSE mine[t])

Members(live, owner, place) ==
    \A n \in live : Rooted(owner[n]) /\ place[Root(owner[n])] =< place[n]

Follows(live, owner, place) ==
    \A n \in live : key[n] # NULL =>
       /\ key[n][1] \in live /\ owner[key[n][1]] = owner[n] /\ place[key[n][1]] = place[n] + 1
       /\ key[n] = MAKE_KEY(key[n][1], value[key[n][1]])

Ordered(live, owner, place) ==
    \A n, m \in live : owner[n] = owner[m] =>
       /\ place[n] = place[m] => n = m
       /\ key[n] = NULL => place[m] =< place[n]

Starts(live, owner) == \A t \in Threads : Rooted(t) => Root(t) \in live /\ owner[Root(t)] = t

Chains(live, owner, place) ==
    /\ Members(live, owner, place) /\ Follows(live, owner, place)
    /\ Ordered(live, owner, place) /\ Starts(live, owner)

\* The pool's nodes, from the deepest to the top, each with the tag of its key.
Stack(pooled, depth, tag) ==
    /\ topKey = NULL => pooled = {}
    /\ topKey # NULL =>
          LET top == MAKE_NODEPTR(topKey)
          IN  top \in pooled /\ topKey = MAKE_KEY(top, tag[top])
              /\ \A n \in pooled : depth[n] =< depth[top]
    /\ \A n \in pooled :
          /\ tag[n] =< pushCount
          /\ poolNext[n] # NULL =>
                LET m == MAKE_NODEPTR(poolNext[n])
                IN  m \in pooled /\ depth[m] = depth[n] - 1 /\ poolNext[n] = MAKE_KEY(m, tag[m])
    /\ \A n, m \in pooled :
          /\ depth[n] = depth[m] => n = m
          /\ poolNext[n] = NULL => depth[n] =< depth[m]

\* Live nodes, pooled ones and those that a thread has alone are all there are.
Apart(live, pooled) ==
    /\ live \cap pooled = {}
    /\ \A t \in Threads : Lone(t) =>
          /\ MAKE_NODEPTR(mine[t]) \notin live \cup pooled
          /\ \A u \in Threads \ {t} : Lone(u) => MAKE_NODEPTR(mine[u]) # MAKE_NODEPTR(mine[t])
    /\ \A n \in Nodes \ (live \cup pooled) :
          \E t \in Threads : Lone(t) /\ MAKE_NODEPTR(mine[t]) = n

\* What a push read of the pool: a key that is in it still has its successor.
PoolReads(p, pooled, tag) ==
    /\ pc[p] \in {"allocNext", "allocCAS"} => seen[p][2] =< pushCount
    /\ pc[p] = "allocCAS" =>
          \A n \in pooled : seen[p] = MAKE_KEY(n, tag[n]) => next[p] = poolNext[n]

\* What pop read of the pool, to put its node on top.
FreeReads == pc[Consumer] = "freeCAS" => poolNext[MAKE_NODEPTR(mine[Consumer])] = seen[Consumer]

PoolInv(live, pooled, depth, tag) ==
    /\ Stack(pooled, depth, tag) /\ Apart(live, pooled)
    /\ \A p \in Producers : PoolReads(p, pooled, tag)
    /\ FreeReads

\* The values that were linked once, and the dummy's.
Uncounted(p) == pc[p] \in {"swing", "count"}
Entered == finished \cup {mine[p][2] : p \in {q \in Producers : Uncounted(q)}}

\* p will link its node behind what q has, if nobody comes first.
Waits(p, q, live, owner) ==
    /\ pc[p] \in {"readKey", "link"}
    /\ MAKE_NODEPTR(seen[p]) \in live /\ owner[MAKE_NODEPTR(seen[p])] = q

\* What a push read of the queue: a node without a successor is in a chain, and a
\* key whose node was not recycled has the successor that was linked or read.
Reads(p, live) ==
    LET n == MAKE_NODEPTR(seen[p]) IN
    /\ pc[p] \in {"readKey", "link"} /\ key[n] = NULL => n \in live
    /\ pc[p] = "swing" /\ value[n] = seen[p][2] => key[n] = mine[p]
    /\ pc[p] = "help" => next[p] # NULL /\ (value[n] = seen[p][2] => key[n] = next[p])
    /\ pc[p] \in {"readKey", "link", "swing", "help"} => seen[p][2] \in Entered \cup {0}

\* There are no pushes that wait for each other in a ring.
NoRing(live, owner) ==
    \A W \in SUBSET Producers :
        W # {} => \E p \in W : \A q \in W : ~Waits(p, q, live, owner)

\* pop has moved the head, and not read the value yet.
Returning == pc[Consumer] \in {"free", "freeCAS", "value"}

\* _head and _tail, and what pop read of them: _tail is never behind _head.
Ends(live, owner) ==
    /\ MAKE_NODEPTR(tail) \in live /\ owner[MAKE_NODEPTR(tail)] = Consumer
    /\ tail[2] = value[MAKE_NODEPTR(tail)] /\ head[2] = value[MAKE_NODEPTR(head)]
    /\ head[2] \in Entered \cup {0}
    /\ pc[Consumer] \in {"popTail", "popKey", "popHelp", "popHead"} => mine[Consumer] = head
    /\ pc[Consumer] = "popKey" /\ seen[Consumer] # head => tail # head
    /\ pc[Consumer] = "popHead" => tail # head
    /\ pc[Consumer] = "popHelp" => seen[Consumer] = head
    /\ pc[Consumer] \in {"popHelp", "popHead"} =>
          next[Consumer] # NULL /\ key[MAKE_NODEPTR(head)] = next[Consumer]
    /\ Returning => next[Consumer] = head

\* The live nodes that were linked, behind the head or behind a push's node.
Linked(live, owner) == {n \in live : n # Root(owner[n])}

\* A value that is being pushed is nowhere else until its node is linked.
Pushing(p) ==
    pc[p] # "idle" =>
       /\ mine[p][2] \in 1 .. pushs
       /\ ~Uncounted(p) => mine[p][2] \notin finished
       /\ mine[p][2] \notin failed
       /\ Linking(p) => value[MAKE_NODEPTR(mine[p])] = mine[p][2]
       /\ \A q \in Producers \ {p} : pc[q] # "idle" => mine[q][2] # mine[p][2]

\* The values that were linked once: in a linked node, the one that pop has yet to
\* read, and those popped; each is in one place.
Placed(live, owner) ==
    /\ finished \subseteq 1 .. pushs /\ failed \subseteq 1 .. pushs /\ finished \cap failed = {}
    /\ Entered = Range(popped) \cup {value[n] : n \in Linked(live, owner)}
                 \cup (IF Returning THEN {head[2]} ELSE {})
    /\ IsInjective(popped)
    /\ \A n \in Linked(live, owner) :
          /\ value[n] \notin Range(popped)
          /\ \A m \in Linked(live, owner) : value[n] = value[m] => n = m
          /\ Returning => value[n] # head[2]
    /\ Returning => head[2] \notin Range(popped)

Accounts(live, owner) == (\A p \in Producers : Pushing(p)) /\ Placed(live, owner)

\* pop has decremented size, and neither moved the head nor undone it.
Promised == pc[Consumer] \in {"undo", "readHead", "popTail", "popKey", "popHelp", "popHead"}

\* size is what was linked, less what is not counted yet and what pop has taken off.
SizeIsExact(live, owner) ==
    Cardinality(Linked(live, owner)) =
        size + Cardinality({p \in Producers : Uncounted(p)})
             + (IF Promised THEN 1 ELSE 0)

ListInv(live, owner, place) ==
    /\ Chains(live, owner, place) /\ Ends(live, owner)
    /\ (\A p \in Producers : Reads(p, live)) /\ NoRing(live, owner)
    /\ Accounts(live, owner) /\ SizeIsExact(live, owner)

QueueInv ==
    /\ QueueTypes
    /\ \E live, pooled \in SUBSET Nodes, owner \in [Nodes -> Threads],
          place, depth \in [Nodes -> Int], tag \in [Nodes -> Nat] :
          PoolInv(live, pooled, depth, tag) /\ ListInv(live, owner, place)

-----------------------------------------------------------------------------
(* Types, and where the threads are.                                       *)

\* Facts about keys.
LEMMA KeyFacts ==
  /\ NULL \in Links /\ NULL \notin Keys /\ Links = Keys \cup {NULL}
  /\ Links \subseteq (0 .. PoolSize) \X Nat
  /\ \A n \in Nodes, t \in Nat : MAKE_KEY(n, t) \in Keys
  /\ \A k \in Keys : k[1] \in Nodes /\ k[2] \in Nat
BY QueueAssumption DEF Links, Keys, NULL, Nodes, MAKE_KEY

\* The consumer does not push, and there is a node.
LEMMA Parties ==
  /\ Consumer \notin Producers /\ Threads = Producers \cup {Consumer}
  /\ PoolSize \in Nat \ {0}
BY QueueAssumption DEF Threads

\* Where the threads are when push is called by an idle thread.
LEMMA PushMoves ==
  ASSUME StepTypes, NEW p \in Producers, Push(p)
  PROVE  /\ pc[p] = "idle" /\ pc'[p] = "alloc"
         /\ \A t \in Threads \ {p} : pc'[t] = pc[t]
         /\ StepTypes'
BY Parties DEF StepTypes, Push, Goto, ProducerSteps, ConsumerSteps

\* Where the threads are when Alloc has read topKey.
LEMMA AllocReadMoves ==
  ASSUME StepTypes, NEW p \in Producers, AllocRead(p)
  PROVE  /\ pc[p] = "alloc" /\ (pc'[p] = "idle" \/ pc'[p] = "allocNext")
         /\ \A t \in Threads \ {p} : pc'[t] = pc[t]
         /\ StepTypes'
BY Parties DEF StepTypes, AllocRead, Goto, ProducerSteps, ConsumerSteps

\* Where the threads are when Alloc has read a node's successor.
LEMMA AllocNextMoves ==
  ASSUME StepTypes, NEW p \in Producers, AllocNext(p)
  PROVE  /\ pc[p] = "allocNext" /\ pc'[p] = "allocCAS"
         /\ \A t \in Threads \ {p} : pc'[t] = pc[t]
         /\ StepTypes'
BY Parties DEF StepTypes, AllocNext, Goto, ProducerSteps, ConsumerSteps

\* Where the threads are when Alloc has its node or tries again.
LEMMA AllocCASMoves ==
  ASSUME StepTypes, NEW p \in Producers, AllocCAS(p)
  PROVE  /\ pc[p] = "allocCAS" /\ (pc'[p] = "init" \/ pc'[p] = "alloc")
         /\ \A t \in Threads \ {p} : pc'[t] = pc[t]
         /\ StepTypes'
BY Parties DEF StepTypes, AllocCAS, Goto, ProducerSteps, ConsumerSteps

\* Where the threads are when the node is filled.
LEMMA InitNodeMoves ==
  ASSUME StepTypes, NEW p \in Producers, InitNode(p)
  PROVE  /\ pc[p] = "init" /\ pc'[p] = "readTail"
         /\ \A t \in Threads \ {p} : pc'[t] = pc[t]
         /\ StepTypes'
BY Parties DEF StepTypes, InitNode, Goto, ProducerSteps, ConsumerSteps

\* Where the threads are when _tail is read.
LEMMA ReadTailMoves ==
  ASSUME StepTypes, NEW p \in Producers, ReadTail(p)
  PROVE  /\ pc[p] = "readTail" /\ pc'[p] = "readKey"
         /\ \A t \in Threads \ {p} : pc'[t] = pc[t]
         /\ StepTypes'
BY Parties DEF StepTypes, ReadTail, Goto, ProducerSteps, ConsumerSteps

\* Where the threads are when the last node's key is read.
LEMMA ReadKeyMoves ==
  ASSUME StepTypes, NEW p \in Producers, ReadKey(p)
  PROVE  /\ pc[p] = "readKey" /\ (pc'[p] = "link" \/ pc'[p] = "help")
         /\ \A t \in Threads \ {p} : pc'[t] = pc[t]
         /\ StepTypes'
BY Parties DEF StepTypes, ReadKey, Goto, ProducerSteps, ConsumerSteps

\* Where the threads are when the node is linked, or the tail is read again.
LEMMA LinkMoves ==
  ASSUME StepTypes, NEW p \in Producers, Link(p)
  PROVE  /\ pc[p] = "link" /\ (pc'[p] = "swing" \/ pc'[p] = "readTail")
         /\ \A t \in Threads \ {p} : pc'[t] = pc[t]
         /\ StepTypes'
BY Parties DEF StepTypes, Link, Goto, ProducerSteps, ConsumerSteps

\* Where the threads are when _tail was moved.
LEMMA SwingMoves ==
  ASSUME StepTypes, NEW p \in Producers, Swing(p)
  PROVE  /\ pc[p] = "swing" /\ pc'[p] = "count"
         /\ \A t \in Threads \ {p} : pc'[t] = pc[t]
         /\ StepTypes'
BY Parties DEF StepTypes, Swing, Goto, ProducerSteps, ConsumerSteps

\* Where the threads are when _tail was moved for another.
LEMMA HelpMoves ==
  ASSUME StepTypes, NEW p \in Producers, Help(p)
  PROVE  /\ pc[p] = "help" /\ pc'[p] = "readTail"
         /\ \A t \in Threads \ {p} : pc'[t] = pc[t]
         /\ StepTypes'
BY Parties DEF StepTypes, Help, Goto, ProducerSteps, ConsumerSteps

\* Where the threads are when push returns.
LEMMA CountMoves ==
  ASSUME StepTypes, NEW p \in Producers, Count(p)
  PROVE  /\ pc[p] = "count" /\ pc'[p] = "idle"
         /\ \A t \in Threads \ {p} : pc'[t] = pc[t]
         /\ StepTypes'
BY Parties DEF StepTypes, Count, Goto, ProducerSteps, ConsumerSteps

\* Where the threads are when pop is called.
LEMMA PopDecrementMoves ==
  ASSUME StepTypes, PopDecrement
  PROVE  /\ pc[Consumer] = "idle" /\ (pc'[Consumer] = "undo" \/ pc'[Consumer] = "readHead")
         /\ \A t \in Threads \ {Consumer} : pc'[t] = pc[t]
         /\ StepTypes'
BY Parties DEF StepTypes, PopDecrement, Goto, ProducerSteps, ConsumerSteps

\* Where the threads are when pop returns nothing.
LEMMA PopFailsMoves ==
  ASSUME StepTypes, PopFails
  PROVE  /\ pc[Consumer] = "undo" /\ pc'[Consumer] = "idle"
         /\ \A t \in Threads \ {Consumer} : pc'[t] = pc[t]
         /\ StepTypes'
BY Parties DEF StepTypes, PopFails, Goto, ProducerSteps, ConsumerSteps

\* Where the threads are when _head is read.
LEMMA PopReadHeadMoves ==
  ASSUME StepTypes, PopReadHead
  PROVE  /\ pc[Consumer] = "readHead" /\ pc'[Consumer] = "popTail"
         /\ \A t \in Threads \ {Consumer} : pc'[t] = pc[t]
         /\ StepTypes'
BY Parties DEF StepTypes, PopReadHead, Goto, ProducerSteps, ConsumerSteps

\* Where the threads are when _tail is read by pop.
LEMMA PopReadTailMoves ==
  ASSUME StepTypes, PopReadTail
  PROVE  /\ pc[Consumer] = "popTail" /\ pc'[Consumer] = "popKey"
         /\ \A t \in Threads \ {Consumer} : pc'[t] = pc[t]
         /\ StepTypes'
BY Parties DEF StepTypes, PopReadTail, Goto, ProducerSteps, ConsumerSteps

\* Where the threads are when the successor is read.
LEMMA PopReadKeyMoves ==
  ASSUME StepTypes, PopReadKey
  PROVE  /\ pc[Consumer] = "popKey" /\ (pc'[Consumer] = "readHead" \/ pc'[Consumer] = "popHelp" \/ pc'[Consumer] = "popHead")
         /\ \A t \in Threads \ {Consumer} : pc'[t] = pc[t]
         /\ StepTypes'
BY Parties DEF StepTypes, PopReadKey, Goto, ProducerSteps, ConsumerSteps

\* Where the threads are when pop has moved _tail.
LEMMA PopHelpMoves ==
  ASSUME StepTypes, PopHelp
  PROVE  /\ pc[Consumer] = "popHelp" /\ pc'[Consumer] = "readHead"
         /\ \A t \in Threads \ {Consumer} : pc'[t] = pc[t]
         /\ StepTypes'
BY Parties DEF StepTypes, PopHelp, Goto, ProducerSteps, ConsumerSteps

\* Where the threads are when _head was moved.
LEMMA PopMoveHeadMoves ==
  ASSUME StepTypes, PopMoveHead
  PROVE  /\ pc[Consumer] = "popHead" /\ pc'[Consumer] = "free"
         /\ \A t \in Threads \ {Consumer} : pc'[t] = pc[t]
         /\ StepTypes'
BY Parties DEF StepTypes, PopMoveHead, Goto, ProducerSteps, ConsumerSteps

\* Where the threads are when Free has read topKey.
LEMMA FreeReadMoves ==
  ASSUME StepTypes, FreeRead
  PROVE  /\ pc[Consumer] = "free" /\ pc'[Consumer] = "freeCAS"
         /\ \A t \in Threads \ {Consumer} : pc'[t] = pc[t]
         /\ StepTypes'
BY Parties DEF StepTypes, FreeRead, Goto, ProducerSteps, ConsumerSteps

\* Where the threads are when Free has put its node on the pool, or tries again.
LEMMA FreeCASMoves ==
  ASSUME StepTypes, FreeCAS
  PROVE  /\ pc[Consumer] = "freeCAS" /\ (pc'[Consumer] = "value" \/ pc'[Consumer] = "free")
         /\ \A t \in Threads \ {Consumer} : pc'[t] = pc[t]
         /\ StepTypes'
BY Parties DEF StepTypes, FreeCAS, Goto, ProducerSteps, ConsumerSteps

\* Where the threads are when pop returns a value.
LEMMA PopValueMoves ==
  ASSUME StepTypes, PopValue
  PROVE  /\ pc[Consumer] = "value" /\ pc'[Consumer] = "idle"
         /\ \A t \in Threads \ {Consumer} : pc'[t] = pc[t]
         /\ StepTypes'
BY Parties DEF StepTypes, PopValue, Goto, ProducerSteps, ConsumerSteps

\* What the types say of a thread's keys where the code follows them.
LEMMA LocalFacts ==
  ASSUME LocalTypes, KeyTypes, StepTypes
  PROVE  /\ \A t \in Threads :
              /\ mine[t][1] \in 0 .. PoolSize /\ mine[t][2] \in Nat
              /\ seen[t] \in Links /\ next[t] \in Links /\ seen[t][2] \in Nat /\ next[t][2] \in Nat
              /\ Lone(t) \/ Linking(t) \/ pc[t] \in {"swing", "count"} =>
                    mine[t] \in Keys /\ mine[t][1] \in Nodes
         /\ \A p \in Producers :
              pc[p] \in {"allocNext", "allocCAS", "readKey", "link", "help", "swing"} =>
                    seen[p] \in Keys /\ seen[p][1] \in Nodes
<1>1. /\ \A k \in Links : k[2] \in Nat
      /\ \A k \in Keys : k[1] \in Nodes
      /\ \A k \in (0 .. PoolSize) \X Nat : k[1] \in 0 .. PoolSize /\ k[2] \in Nat
  BY DEF Links, Keys, NULL
<1>2. QED
  BY <1>1, Parties DEF LocalTypes, KeyTypes

\* Every step leaves the queue's, the pool's and the nodes' fields of their types,
LEMMA SharedKept ==
  ASSUME QueueInv, Next
  PROVE  SharedTypes'
<1>1. PICK live \in SUBSET Nodes, owner \in [Nodes -> Threads] :
         Ends(live, owner) /\ \A p \in Producers : Reads(p, live)
  BY DEF QueueInv, ListInv
<1>2. SharedTypes /\ StepTypes /\ LocalTypes /\ KeyTypes
  BY DEF QueueInv, QueueTypes
<1>3. \A k \in Links : k # NULL => k \in Keys
  BY DEF Links
<1>4. \A n \in Nodes, t \in Nat : MAKE_KEY(n, t) \in Links
  BY DEF Links, Keys, MAKE_KEY
<1>5. NULL \in Links /\ Keys \subseteq Links
  BY DEF Links
<1>6. ASSUME NEW p \in Producers, Push(p) PROVE SharedTypes'
  BY <1>2, <1>6 DEF SharedTypes, Push, queue, pool, nodes, record
<1>7. ASSUME NEW p \in Producers, AllocRead(p) PROVE SharedTypes'
  <2>1. failed' \in {failed, failed \cup {mine[p][2]}} /\ mine[p][2] \in Nat
    BY <1>2, <1>7, LocalFacts, Parties DEF AllocRead
  <2>2. pushs' = pushs /\ head' = head /\ tail' = tail /\ size' = size /\ topKey' = topKey
        /\ pushCount' = pushCount /\ value' = value /\ key' = key /\ poolNext' = poolNext
        /\ popped' = popped /\ finished' = finished
    BY <1>7 DEF AllocRead, queue, pool, nodes, record
  <2>3. QED
    BY <1>2, <1>3, <1>4, <1>5, <2>1, <2>2, Parties DEF SharedTypes, LocalTypes
<1>8. ASSUME NEW p \in Producers, AllocNext(p) PROVE SharedTypes'
  BY <1>2, <1>8 DEF SharedTypes, AllocNext, queue, pool, nodes, record
<1>9. ASSUME NEW p \in Producers, AllocCAS(p) PROVE SharedTypes'
  <2>1. topKey' \in {topKey, next[p]} /\ next[p] \in Links
    BY <1>2, <1>9, LocalFacts, Parties DEF AllocCAS
  <2>2. pushs' = pushs /\ head' = head /\ tail' = tail /\ size' = size /\ pushCount' = pushCount
        /\ value' = value /\ key' = key /\ poolNext' = poolNext /\ popped' = popped
        /\ finished' = finished /\ failed' = failed
    BY <1>9 DEF AllocCAS, queue, pool, nodes, record
  <2>3. QED
    BY <1>2, <1>3, <1>4, <1>5, <2>1, <2>2, Parties DEF SharedTypes, LocalTypes
<1>10. ASSUME NEW p \in Producers, InitNode(p) PROVE SharedTypes'
  <2>1. key' = [key EXCEPT ![mine[p][1]] = NULL] /\ value' = [value EXCEPT ![mine[p][1]] = mine[p][2]]
        /\ mine[p][2] \in Nat
    BY <1>2, <1>10, LocalFacts, Parties DEF InitNode, Goto, Lone, MAKE_NODEPTR
  <2>2. pushs' = pushs /\ head' = head /\ tail' = tail /\ size' = size /\ topKey' = topKey
        /\ pushCount' = pushCount /\ poolNext' = poolNext /\ popped' = popped /\ finished' = finished
        /\ failed' = failed
    BY <1>10 DEF InitNode, queue, pool, nodes, record
  <2>3. QED
    BY <1>2, <1>3, <1>4, <1>5, <2>1, <2>2, Parties DEF SharedTypes, LocalTypes
<1>11. ASSUME NEW p \in Producers, ReadTail(p) PROVE SharedTypes'
  BY <1>2, <1>11 DEF SharedTypes, ReadTail, queue, pool, nodes, record
<1>12. ASSUME NEW p \in Producers, ReadKey(p) PROVE SharedTypes'
  BY <1>2, <1>12 DEF SharedTypes, ReadKey, queue, pool, nodes, record
<1>13. ASSUME NEW p \in Producers, Link(p) PROVE SharedTypes'
  <2>1. key' \in {key, [key EXCEPT ![seen[p][1]] = mine[p]]} /\ mine[p] \in Links /\ seen[p][1] \in Nodes
    BY <1>2, <1>5, <1>13, LocalFacts, Parties DEF Link, Goto, Linking, MAKE_NODEPTR
  <2>2. pushs' = pushs /\ head' = head /\ tail' = tail /\ size' = size /\ topKey' = topKey
        /\ pushCount' = pushCount /\ value' = value /\ poolNext' = poolNext /\ popped' = popped
        /\ finished' = finished /\ failed' = failed
    BY <1>13 DEF Link, queue, pool, nodes, record
  <2>3. QED
    BY <1>2, <1>3, <1>4, <1>5, <2>1, <2>2, Parties DEF SharedTypes, LocalTypes
<1>14. ASSUME NEW p \in Producers, Swing(p) PROVE SharedTypes'
  <2>1. tail' \in {tail, mine[p]} /\ mine[p] \in Keys
    BY <1>2, <1>14, LocalFacts, Parties DEF Swing, MoveTail, Goto
  <2>2. pushs' = pushs /\ head' = head /\ size' = size /\ topKey' = topKey /\ pushCount' = pushCount
        /\ value' = value /\ key' = key /\ poolNext' = poolNext /\ popped' = popped
        /\ finished' = finished /\ failed' = failed
    BY <1>14 DEF Swing, queue, pool, nodes, record
  <2>3. QED
    BY <1>2, <1>3, <1>4, <1>5, <2>1, <2>2, Parties DEF SharedTypes, LocalTypes
<1>15. ASSUME NEW p \in Producers, Help(p) PROVE SharedTypes'
  <2>1. tail' \in {tail, next[p]} /\ next[p] # NULL
    BY <1>1, <1>15 DEF Help, MoveTail, Goto, Reads
  <2>2. pushs' = pushs /\ head' = head /\ size' = size /\ topKey' = topKey /\ pushCount' = pushCount
        /\ value' = value /\ key' = key /\ poolNext' = poolNext /\ popped' = popped
        /\ finished' = finished /\ failed' = failed
    BY <1>15 DEF Help, queue, pool, nodes, record
  <2>3. QED
    BY <1>2, <1>3, <1>4, <1>5, <2>1, <2>2, Parties DEF SharedTypes, LocalTypes
<1>16. ASSUME NEW p \in Producers, Count(p) PROVE SharedTypes'
  <2>1. finished' = finished \cup {mine[p][2]} /\ mine[p][2] \in Nat
    BY <1>2, <1>16, LocalFacts, Parties DEF Count
  <2>2. pushs' = pushs /\ head' = head /\ tail' = tail /\ topKey' = topKey /\ pushCount' = pushCount
        /\ value' = value /\ key' = key /\ poolNext' = poolNext /\ popped' = popped /\ failed' = failed
        /\ size' = size + 1
    BY <1>16 DEF Count, queue, pool, nodes, record
  <2>3. finished' \subseteq Nat
    BY <1>2, <2>1 DEF SharedTypes
  <2>4. QED
    BY <1>2, <2>2, <2>3 DEF SharedTypes
<1>17. CASE PopDecrement
  BY <1>2, <1>17 DEF SharedTypes, PopDecrement, queue, pool, nodes, record
<1>18. CASE PopFails
  BY <1>2, <1>18 DEF SharedTypes, PopFails, queue, pool, nodes, record
<1>19. CASE PopReadHead
  BY <1>2, <1>19 DEF SharedTypes, PopReadHead, queue, pool, nodes, record
<1>20. CASE PopReadTail
  BY <1>2, <1>20 DEF SharedTypes, PopReadTail, queue, pool, nodes, record
<1>21. CASE PopReadKey
  BY <1>2, <1>21 DEF SharedTypes, PopReadKey, queue, pool, nodes, record
<1>22. CASE PopHelp
  <2>1. tail' \in {tail, next[Consumer]} /\ next[Consumer] # NULL
    BY <1>1, <1>22 DEF PopHelp, MoveTail, Goto, Ends
  <2>2. pushs' = pushs /\ head' = head /\ size' = size /\ topKey' = topKey /\ pushCount' = pushCount
        /\ value' = value /\ key' = key /\ poolNext' = poolNext /\ popped' = popped
        /\ finished' = finished /\ failed' = failed
    BY <1>22 DEF PopHelp, queue, pool, nodes, record
  <2>3. QED
    BY <1>2, <1>3, <1>4, <1>5, <2>1, <2>2, Parties DEF SharedTypes, LocalTypes
<1>23. CASE PopMoveHead
  <2>1. head' = next[Consumer] /\ next[Consumer] # NULL
    BY <1>1, <1>23 DEF PopMoveHead, Goto, Ends
  <2>2. pushs' = pushs /\ tail' = tail /\ size' = size /\ topKey' = topKey /\ pushCount' = pushCount
        /\ value' = value /\ key' = key /\ poolNext' = poolNext /\ popped' = popped
        /\ finished' = finished /\ failed' = failed
    BY <1>23 DEF PopMoveHead, queue, pool, nodes, record
  <2>3. QED
    BY <1>2, <1>3, <1>4, <1>5, <2>1, <2>2, Parties DEF SharedTypes, LocalTypes
<1>24. CASE FreeRead
  <2>1. poolNext' = [poolNext EXCEPT ![mine[Consumer][1]] = topKey]
    BY <1>24 DEF FreeRead, MAKE_NODEPTR
  <2>2. pushs' = pushs /\ head' = head /\ tail' = tail /\ size' = size /\ topKey' = topKey
        /\ pushCount' = pushCount /\ value' = value /\ key' = key /\ popped' = popped
        /\ finished' = finished /\ failed' = failed
    BY <1>24 DEF FreeRead, queue, pool, nodes, record
  <2>3. QED
    BY <1>2, <1>3, <1>4, <1>5, <2>1, <2>2, Parties DEF SharedTypes, LocalTypes
<1>25. CASE FreeCAS
  <2>1. mine[Consumer][1] \in Nodes
    BY <1>2, <1>25, LocalFacts, Parties DEF FreeCAS, Goto, Lone
  <2>2. topKey' \in {topKey, MAKE_KEY(mine[Consumer][1], pushCount + 1)} /\ pushCount' = pushCount + 1
    BY <1>25 DEF FreeCAS, MAKE_NODEPTR
  <2>3. pushs' = pushs /\ head' = head /\ tail' = tail /\ size' = size /\ value' = value /\ key' = key
        /\ poolNext' = poolNext /\ popped' = popped /\ finished' = finished /\ failed' = failed
    BY <1>25 DEF FreeCAS, queue, pool, nodes, record
  <2>4. QED
    BY <1>2, <1>3, <1>4, <1>5, <2>1, <2>2, <2>3, Parties DEF SharedTypes, LocalTypes
<1>26. CASE PopValue
  <2>1. popped' = Append(popped, value[head[1]]) /\ value[head[1]] \in Nat
    BY <1>1, <1>2, <1>26, KeyFacts DEF PopValue, Goto, Ends, Returning, MAKE_NODEPTR, SharedTypes
  <2>2. pushs' = pushs /\ head' = head /\ tail' = tail /\ size' = size /\ topKey' = topKey
        /\ pushCount' = pushCount /\ value' = value /\ key' = key /\ poolNext' = poolNext
        /\ finished' = finished /\ failed' = failed
    BY <1>26 DEF PopValue, queue, pool, nodes, record
  <2>3. popped' \in Seq(Nat)
    <3> DEFINE v == value[head[1]]
    <3> HIDE DEF v
    <3>1. popped' = Append(popped, v) /\ v \in Nat /\ popped \in Seq(Nat)
      BY <1>2, <2>1 DEF SharedTypes, v
    <3>2. QED
      BY <3>1, AppendProperties
  <2>4. QED
    BY <1>2, <2>2, <2>3 DEF SharedTypes
<1>27. QED
  BY <1>6, <1>7, <1>8, <1>9, <1>10, <1>11, <1>12, <1>13, <1>14, <1>15, <1>16, <1>17,
     <1>18, <1>19, <1>20, <1>21, <1>22, <1>23, <1>24, <1>25, <1>26 DEF Next, Producing, Popping

\* and the locals of the threads.
LEMMA LocalKept ==
  ASSUME QueueInv, Next
  PROVE  LocalTypes' /\ KeyTypes'
<1>1. PICK live \in SUBSET Nodes, owner \in [Nodes -> Threads] : Ends(live, owner)
  BY DEF QueueInv, ListInv
<1>2. SharedTypes /\ StepTypes /\ LocalTypes /\ KeyTypes
  BY DEF QueueInv, QueueTypes
<1>3. /\ \A k \in Links : k # NULL => k \in Keys
      /\ NULL \in Links /\ Keys \subseteq Links
      /\ \A n \in Nodes, t \in Nat : MAKE_KEY(n, t) \in Keys
      /\ \A n \in 0 .. PoolSize, t \in Nat : MAKE_KEY(n, t) \in (0 .. PoolSize) \X Nat
      /\ Keys \subseteq (0 .. PoolSize) \X Nat
  BY DEF Links, Keys, MAKE_KEY, Nodes, NULL
<1>4. ASSUME NEW p \in Producers, Push(p) PROVE LocalTypes' /\ KeyTypes'
  <2>1. pc[p] = "idle" /\ pc'[p] = "alloc"
         /\ \A t \in Threads \ {p} : pc'[t] = pc[t]
    BY <1>2, <1>4, PushMoves
  <2>2. mine' = [mine EXCEPT ![p] = MAKE_KEY(0, pushs + 1)] /\ seen' = seen /\ next' = next
    BY <1>4 DEF Push, MAKE_NODEPTR
  <2>3. MAKE_KEY(0, pushs + 1) \in (0 .. PoolSize) \X Nat
    <3>1. 0 \in 0 .. PoolSize /\ pushs + 1 \in Nat
      BY <1>2, Parties DEF SharedTypes
    <3>2. QED
      BY <1>3, <3>1
  <2>4. QED
    BY <1>2, <1>3, <2>1, <2>2, <2>3, Parties DEF LocalTypes, KeyTypes, Lone, Linking
<1>5. ASSUME NEW p \in Producers, AllocRead(p) PROVE LocalTypes' /\ KeyTypes'
  <2>1. pc[p] = "alloc" /\ (pc'[p] = "idle" \/ pc'[p] = "allocNext")
         /\ \A t \in Threads \ {p} : pc'[t] = pc[t]
    BY <1>2, <1>5, AllocReadMoves
  <2>2. seen' = [seen EXCEPT ![p] = topKey] /\ mine' = mine /\ next' = next
    BY <1>5 DEF AllocRead, MAKE_NODEPTR
  <2>3. topKey \in Links
    BY <1>2 DEF SharedTypes
  <2>4. pc'[p] = "allocNext" => topKey # NULL
    BY <1>2, <1>5, Parties DEF AllocRead, StepTypes
  <2>5. QED
    BY <1>2, <1>3, <2>1, <2>2, <2>3, <2>4, Parties DEF LocalTypes, KeyTypes, Lone, Linking
<1>6. ASSUME NEW p \in Producers, AllocNext(p) PROVE LocalTypes' /\ KeyTypes'
  <2>1. pc[p] = "allocNext" /\ pc'[p] = "allocCAS"
         /\ \A t \in Threads \ {p} : pc'[t] = pc[t]
    BY <1>2, <1>6, AllocNextMoves
  <2>2. next' = [next EXCEPT ![p] = poolNext[seen[p][1]]] /\ mine' = mine /\ seen' = seen
    BY <1>6 DEF AllocNext, MAKE_NODEPTR
  <2>3. poolNext[seen[p][1]] \in Links
    BY <1>2, <2>1, LocalFacts, KeyFacts, Parties DEF SharedTypes
  <2>4. QED
    BY <1>2, <1>3, <2>1, <2>2, <2>3, Parties DEF LocalTypes, KeyTypes, Lone, Linking
<1>7. ASSUME NEW p \in Producers, AllocCAS(p) PROVE LocalTypes' /\ KeyTypes'
  <2>1. pc[p] = "allocCAS" /\ (pc'[p] = "init" \/ pc'[p] = "alloc")
         /\ \A t \in Threads \ {p} : pc'[t] = pc[t]
    BY <1>2, <1>7, AllocCASMoves
  <2>2. seen' = seen /\ next' = next
    BY <1>7 DEF AllocCAS
  <2>3. \/ mine' = mine /\ pc'[p] = "alloc"
        \/ mine' = [mine EXCEPT ![p] = MAKE_KEY(seen[p][1], mine[p][2])]
    BY <1>2, <1>7, Parties DEF AllocCAS, MAKE_NODEPTR, Goto, StepTypes, LocalTypes
  <2>4. MAKE_KEY(seen[p][1], mine[p][2]) \in Keys
    BY <1>2, <1>3, <2>1, LocalFacts, Parties
  <2>5. CASE mine' = mine /\ pc'[p] = "alloc"
    BY <1>2, <2>1, <2>2, <2>5, Parties DEF LocalTypes, KeyTypes, Lone, Linking
  <2>6. CASE mine' = [mine EXCEPT ![p] = MAKE_KEY(seen[p][1], mine[p][2])]
    <3> DEFINE k == MAKE_KEY(seen[p][1], mine[p][2])
    <3>1. k \in Keys /\ mine' = [mine EXCEPT ![p] = k]
      BY <2>4, <2>6
    <3> HIDE DEF k
    <3>2. QED
      BY <1>2, <1>3, <2>1, <2>2, <3>1, Parties DEF LocalTypes, KeyTypes, Lone, Linking
  <2>7. QED
    BY <2>3, <2>5, <2>6
<1>8. ASSUME NEW p \in Producers, InitNode(p) PROVE LocalTypes' /\ KeyTypes'
  <2>1. pc[p] = "init" /\ pc'[p] = "readTail"
         /\ \A t \in Threads \ {p} : pc'[t] = pc[t]
    BY <1>2, <1>8, InitNodeMoves
  <2>2. mine' = mine /\ seen' = seen /\ next' = next
    BY <1>8 DEF InitNode
  <2>3. QED
    BY <1>2, <2>1, <2>2, Parties DEF LocalTypes, KeyTypes, Lone, Linking
<1>9. ASSUME NEW p \in Producers, ReadTail(p) PROVE LocalTypes' /\ KeyTypes'
  <2>1. pc[p] = "readTail" /\ pc'[p] = "readKey"
         /\ \A t \in Threads \ {p} : pc'[t] = pc[t]
    BY <1>2, <1>9, ReadTailMoves
  <2>2. seen' = [seen EXCEPT ![p] = tail] /\ mine' = mine /\ next' = next
    BY <1>9 DEF ReadTail, MAKE_NODEPTR
  <2>3. tail \in Keys
    BY <1>2 DEF SharedTypes
  <2>4. QED
    BY <1>2, <1>3, <2>1, <2>2, <2>3, Parties DEF LocalTypes, KeyTypes, Lone, Linking
<1>10. ASSUME NEW p \in Producers, ReadKey(p) PROVE LocalTypes' /\ KeyTypes'
  <2>1. pc[p] = "readKey" /\ (pc'[p] = "link" \/ pc'[p] = "help")
         /\ \A t \in Threads \ {p} : pc'[t] = pc[t]
    BY <1>2, <1>10, ReadKeyMoves
  <2>2. next' = [next EXCEPT ![p] = key[seen[p][1]]] /\ mine' = mine /\ seen' = seen
    BY <1>10 DEF ReadKey, MAKE_NODEPTR
  <2>3. key[seen[p][1]] \in Links
    BY <1>2, <2>1, LocalFacts, KeyFacts, Parties DEF SharedTypes
  <2>4. QED
    BY <1>2, <1>3, <2>1, <2>2, <2>3, Parties DEF LocalTypes, KeyTypes, Lone, Linking
<1>11. ASSUME NEW p \in Producers, Link(p) PROVE LocalTypes' /\ KeyTypes'
  <2>1. pc[p] = "link" /\ (pc'[p] = "swing" \/ pc'[p] = "readTail")
         /\ \A t \in Threads \ {p} : pc'[t] = pc[t]
    BY <1>2, <1>11, LinkMoves
  <2>2. mine' = mine /\ seen' = seen /\ next' = next
    BY <1>11 DEF Link
  <2>3. QED
    BY <1>2, <2>1, <2>2, Parties DEF LocalTypes, KeyTypes, Lone, Linking
<1>12. ASSUME NEW p \in Producers, Swing(p) PROVE LocalTypes' /\ KeyTypes'
  <2>1. pc[p] = "swing" /\ pc'[p] = "count"
         /\ \A t \in Threads \ {p} : pc'[t] = pc[t]
    BY <1>2, <1>12, SwingMoves
  <2>2. mine' = mine /\ seen' = seen /\ next' = next
    BY <1>12 DEF Swing
  <2>3. QED
    BY <1>2, <2>1, <2>2, Parties DEF LocalTypes, KeyTypes, Lone, Linking
<1>13. ASSUME NEW p \in Producers, Help(p) PROVE LocalTypes' /\ KeyTypes'
  <2>1. pc[p] = "help" /\ pc'[p] = "readTail"
         /\ \A t \in Threads \ {p} : pc'[t] = pc[t]
    BY <1>2, <1>13, HelpMoves
  <2>2. mine' = mine /\ seen' = seen /\ next' = next
    BY <1>13 DEF Help
  <2>3. QED
    BY <1>2, <2>1, <2>2, Parties DEF LocalTypes, KeyTypes, Lone, Linking
<1>14. ASSUME NEW p \in Producers, Count(p) PROVE LocalTypes' /\ KeyTypes'
  <2>1. pc[p] = "count" /\ pc'[p] = "idle"
         /\ \A t \in Threads \ {p} : pc'[t] = pc[t]
    BY <1>2, <1>14, CountMoves
  <2>2. mine' = mine /\ seen' = seen /\ next' = next
    BY <1>14 DEF Count
  <2>3. QED
    BY <1>2, <2>1, <2>2, Parties DEF LocalTypes, KeyTypes, Lone, Linking
<1>15. CASE PopDecrement
  <2>1. pc[Consumer] = "idle" /\ (pc'[Consumer] = "undo" \/ pc'[Consumer] = "readHead")
         /\ \A t \in Threads \ {Consumer} : pc'[t] = pc[t]
    BY <1>2, <1>15, PopDecrementMoves
  <2>2. mine' = mine /\ seen' = seen /\ next' = next
    BY <1>15 DEF PopDecrement
  <2>3. QED
    BY <1>2, <2>1, <2>2, Parties DEF LocalTypes, KeyTypes, Lone, Linking
<1>16. CASE PopFails
  <2>1. pc[Consumer] = "undo" /\ pc'[Consumer] = "idle"
         /\ \A t \in Threads \ {Consumer} : pc'[t] = pc[t]
    BY <1>2, <1>16, PopFailsMoves
  <2>2. mine' = mine /\ seen' = seen /\ next' = next
    BY <1>16 DEF PopFails
  <2>3. QED
    BY <1>2, <2>1, <2>2, Parties DEF LocalTypes, KeyTypes, Lone, Linking
<1>17. CASE PopReadHead
  <2>1. pc[Consumer] = "readHead" /\ pc'[Consumer] = "popTail"
         /\ \A t \in Threads \ {Consumer} : pc'[t] = pc[t]
    BY <1>2, <1>17, PopReadHeadMoves
  <2>2. mine' = [mine EXCEPT ![Consumer] = head] /\ seen' = seen /\ next' = next
    BY <1>17 DEF PopReadHead, MAKE_NODEPTR
  <2>3. head \in Keys
    BY <1>2 DEF SharedTypes
  <2>4. QED
    BY <1>2, <1>3, <2>1, <2>2, <2>3, Parties DEF LocalTypes, KeyTypes, Lone, Linking
<1>18. CASE PopReadTail
  <2>1. pc[Consumer] = "popTail" /\ pc'[Consumer] = "popKey"
         /\ \A t \in Threads \ {Consumer} : pc'[t] = pc[t]
    BY <1>2, <1>18, PopReadTailMoves
  <2>2. seen' = [seen EXCEPT ![Consumer] = tail] /\ mine' = mine /\ next' = next
    BY <1>18 DEF PopReadTail, MAKE_NODEPTR
  <2>3. tail \in Keys
    BY <1>2 DEF SharedTypes
  <2>4. QED
    BY <1>2, <1>3, <2>1, <2>2, <2>3, Parties DEF LocalTypes, KeyTypes, Lone, Linking
<1>19. CASE PopReadKey
  <2>1. pc[Consumer] = "popKey"
        /\ (pc'[Consumer] = "readHead" \/ pc'[Consumer] = "popHelp" \/ pc'[Consumer] = "popHead")
         /\ \A t \in Threads \ {Consumer} : pc'[t] = pc[t]
    BY <1>2, <1>19, PopReadKeyMoves
  <2>2. next' = [next EXCEPT ![Consumer] = key[head[1]]] /\ mine' = mine /\ seen' = seen
    BY <1>1, <2>1, <1>19 DEF PopReadKey, MAKE_NODEPTR, Ends
  <2>3. key[head[1]] \in Links
    BY <1>2, <2>1, LocalFacts, KeyFacts, Parties DEF SharedTypes
  <2>4. QED
    BY <1>2, <1>3, <2>1, <2>2, <2>3, Parties DEF LocalTypes, KeyTypes, Lone, Linking
<1>20. CASE PopHelp
  <2>1. pc[Consumer] = "popHelp" /\ pc'[Consumer] = "readHead"
         /\ \A t \in Threads \ {Consumer} : pc'[t] = pc[t]
    BY <1>2, <1>20, PopHelpMoves
  <2>2. mine' = mine /\ seen' = seen /\ next' = next
    BY <1>20 DEF PopHelp
  <2>3. QED
    BY <1>2, <2>1, <2>2, Parties DEF LocalTypes, KeyTypes, Lone, Linking
<1>21. CASE PopMoveHead
  <2>1. pc[Consumer] = "popHead" /\ pc'[Consumer] = "free"
         /\ \A t \in Threads \ {Consumer} : pc'[t] = pc[t]
    BY <1>2, <1>21, PopMoveHeadMoves
  <2>2. mine' = mine /\ seen' = seen /\ next' = next
    BY <1>21 DEF PopMoveHead
  <2>3. mine[Consumer] \in Keys
    BY <1>1, <1>2, <2>1 DEF Ends, SharedTypes
  <2>4. QED
    BY <1>2, <2>1, <2>2, <2>3, Parties DEF LocalTypes, KeyTypes, Lone, Linking
<1>22. CASE FreeRead
  <2>1. pc[Consumer] = "free" /\ pc'[Consumer] = "freeCAS"
         /\ \A t \in Threads \ {Consumer} : pc'[t] = pc[t]
    BY <1>2, <1>22, FreeReadMoves
  <2>2. seen' = [seen EXCEPT ![Consumer] = topKey] /\ mine' = mine /\ next' = next
    BY <1>22 DEF FreeRead, MAKE_NODEPTR
  <2>3. topKey \in Links
    BY <1>2 DEF SharedTypes
  <2>4. QED
    BY <1>2, <1>3, <2>1, <2>2, <2>3, Parties DEF LocalTypes, KeyTypes, Lone, Linking
<1>23. CASE FreeCAS
  <2>1. pc[Consumer] = "freeCAS" /\ (pc'[Consumer] = "value" \/ pc'[Consumer] = "free")
         /\ \A t \in Threads \ {Consumer} : pc'[t] = pc[t]
    BY <1>2, <1>23, FreeCASMoves
  <2>2. mine' = mine /\ seen' = seen /\ next' = next
    BY <1>23 DEF FreeCAS
  <2>3. QED
    BY <1>2, <2>1, <2>2, Parties DEF LocalTypes, KeyTypes, Lone, Linking
<1>24. CASE PopValue
  <2>1. pc[Consumer] = "value" /\ pc'[Consumer] = "idle"
         /\ \A t \in Threads \ {Consumer} : pc'[t] = pc[t]
    BY <1>2, <1>24, PopValueMoves
  <2>2. mine' = mine /\ seen' = seen /\ next' = next
    BY <1>24 DEF PopValue
  <2>3. QED
    BY <1>2, <2>1, <2>2, Parties DEF LocalTypes, KeyTypes, Lone, Linking
<1>25. QED
  BY <1>4, <1>5, <1>6, <1>7, <1>8, <1>9, <1>10, <1>11, <1>12, <1>13, <1>14, <1>15, <1>16, <1>17,
     <1>18, <1>19, <1>20, <1>21, <1>22, <1>23, <1>24 DEF Next, Producing, Popping

\* So does the type invariant hold after every step.
LEMMA TypesKept ==
  ASSUME QueueInv, Next
  PROVE  QueueTypes'
<1>1. StepTypes /\ StepTypes'
  BY AllocReadMoves, AllocNextMoves, AllocCASMoves, InitNodeMoves, ReadTailMoves, ReadKeyMoves,
     LinkMoves, SwingMoves, HelpMoves, CountMoves, PushMoves, PopDecrementMoves, PopFailsMoves,
     PopReadHeadMoves, PopReadTailMoves, PopReadKeyMoves, PopHelpMoves, PopMoveHeadMoves,
     FreeReadMoves, FreeCASMoves, PopValueMoves
     DEF QueueInv, QueueTypes, Next, Producing, Popping
<1>2. QED
  BY <1>1, SharedKept, LocalKept DEF QueueTypes

-----------------------------------------------------------------------------
(* Steps that leave the chains as they are.                                *)

\* No key, no value and no root of a chain changes.
ChainsRest ==
    /\ key' = key /\ value' = value
    /\ \A t \in Threads : (Rooted(t) <=> Rooted(t)') /\ (Rooted(t) => Root(t)' = Root(t))

\* The chains depend on the roots, the links and the values only.
LEMMA ChainsSame ==
  ASSUME ChainsRest, NEW live \in SUBSET Nodes, NEW owner \in [Nodes -> Threads], NEW place,
         Chains(live, owner, place)
  PROVE  Chains(live, owner, place)' /\ Linked(live, owner)' = Linked(live, owner)
<1>1. /\ \A n \in live : owner[n] \in Threads /\ Rooted(owner[n]) /\ place[Root(owner[n])] =< place[n]
      /\ Follows(live, owner, place) /\ Ordered(live, owner, place) /\ Starts(live, owner)
  BY DEF Chains, Members
<1>2. \A n \in live : Rooted(owner[n])' /\ Root(owner[n])' = Root(owner[n])
  BY <1>1 DEF ChainsRest
<1>3. Linked(live, owner)' = Linked(live, owner)
  BY <1>2 DEF Linked
<1>4. Members(live, owner, place)'
  BY <1>1, <1>2 DEF Members
<1>5. Follows(live, owner, place)'
  BY <1>1 DEF Follows, ChainsRest
<1>6. Ordered(live, owner, place)'
  BY <1>1 DEF Ordered, ChainsRest
<1>7. Starts(live, owner)'
  BY <1>1 DEF Starts, ChainsRest
<1>8. QED
  BY <1>3, <1>4, <1>5, <1>6, <1>7 DEF Chains

\* The steps of a push, but the one that readies its node and the one that links it.
LEMMA PushRests ==
  ASSUME StepTypes, LocalTypes, NEW p \in Producers,
         Push(p) \/ (Producing(p) /\ ~InitNode(p) /\ ~(Link(p) /\ key[MAKE_NODEPTR(seen[p])] = NULL))
  PROVE  ChainsRest
<1>1. /\ key' = key /\ value' = value /\ head' = head
      /\ \A t \in Threads \ {p} : pc'[t] = pc[t] /\ mine'[t] = mine[t]
      /\ Linking(p) <=> Linking(p)'
      /\ Linking(p) => mine'[p] = mine[p]
  <2> DEFINE Same == /\ key' = key /\ value' = value /\ head' = head
          /\ \A t \in Threads \ {p} : pc'[t] = pc[t] /\ mine'[t] = mine[t]
          /\ Linking(p) <=> Linking(p)'
          /\ Linking(p) => mine'[p] = mine[p]
  <2>1. CASE Push(p)
    BY <2>1, PushMoves, Parties DEF Push, Goto, Linking, LocalTypes, queue, nodes
  <2>2. CASE AllocRead(p)
    BY <2>2, AllocReadMoves, Parties DEF AllocRead, Goto, Linking, LocalTypes, queue, nodes
  <2>3. CASE AllocNext(p)
    BY <2>3, AllocNextMoves, Parties DEF AllocNext, Goto, Linking, LocalTypes, queue, nodes
  <2>4. CASE AllocCAS(p)
    BY <2>4, AllocCASMoves, Parties DEF AllocCAS, Goto, Linking, LocalTypes, queue, nodes
  <2>5. CASE ReadTail(p)
    BY <2>5, ReadTailMoves, Parties DEF ReadTail, Goto, Linking, LocalTypes, queue, nodes
  <2>6. CASE ReadKey(p)
    BY <2>6, ReadKeyMoves, Parties DEF ReadKey, Goto, Linking, LocalTypes, queue, nodes
  <2>7. CASE Link(p) /\ key[MAKE_NODEPTR(seen[p])] # NULL
    BY <2>7, LinkMoves, Parties DEF Link, Goto, Linking, LocalTypes, queue, nodes
  <2>8. CASE Swing(p)
    BY <2>8, SwingMoves, Parties DEF Swing, Goto, Linking, LocalTypes, queue, nodes
  <2>9. CASE Help(p)
    BY <2>9, HelpMoves, Parties DEF Help, Goto, Linking, LocalTypes, queue, nodes
  <2>10. CASE Count(p)
    BY <2>10, CountMoves, Parties DEF Count, Goto, Linking, LocalTypes, queue, nodes
  <2>11. QED
    BY <2>1, <2>2, <2>3, <2>4, <2>5, <2>6, <2>7, <2>8, <2>9, <2>10 DEF Producing
<1>2. QED
  BY <1>1, Parties DEF ChainsRest, Rooted, Root, Linking

\* The steps of pop, but the one that moves the head.
LEMMA PopRests ==
  ASSUME StepTypes, LocalTypes, PopDecrement \/ (Popping /\ ~PopMoveHead)
  PROVE  ChainsRest
<1> DEFINE Same == /\ key' = key /\ value' = value /\ head' = head
                   /\ \A t \in Producers : pc'[t] = pc[t] /\ mine'[t] = mine[t]
<1>1. Same
  <2>1. CASE PopDecrement
    BY <2>1, PopDecrementMoves, Parties DEF PopDecrement, LocalTypes, queue, nodes
  <2>2. CASE PopFails
    BY <2>2, PopFailsMoves, Parties DEF PopFails, LocalTypes, queue, nodes
  <2>3. CASE PopReadHead
    BY <2>3, PopReadHeadMoves, Parties DEF PopReadHead, LocalTypes, queue, nodes
  <2>4. CASE PopReadTail
    BY <2>4, PopReadTailMoves, Parties DEF PopReadTail, LocalTypes, queue, nodes
  <2>5. CASE PopReadKey
    BY <2>5, PopReadKeyMoves, Parties DEF PopReadKey, LocalTypes, queue, nodes
  <2>6. CASE PopHelp
    BY <2>6, PopHelpMoves, Parties DEF PopHelp, LocalTypes, queue, nodes
  <2>7. CASE FreeRead
    BY <2>7, FreeReadMoves, Parties DEF FreeRead, LocalTypes, queue, nodes
  <2>8. CASE FreeCAS
    BY <2>8, FreeCASMoves, Parties DEF FreeCAS, LocalTypes, queue, nodes
  <2>9. CASE PopValue
    BY <2>9, PopValueMoves, Parties DEF PopValue, LocalTypes, queue, nodes
  <2>10. QED
    BY <2>1, <2>2, <2>3, <2>4, <2>5, <2>6, <2>7, <2>8, <2>9 DEF Popping
<1>2. QED
  BY <1>1, Parties DEF ChainsRest, Rooted, Root, Linking

-----------------------------------------------------------------------------
(* The pool.                                                               *)

\* Nothing is put on the pool or taken from it, and nobody gets a node or gives one up.
PoolRests(pooled) ==
    /\ topKey' = topKey /\ pushCount' \in {pushCount, pushCount + 1}
    /\ \A n \in pooled : poolNext'[n] = poolNext[n]

LoneRest ==
    \A t \in Threads : (Lone(t) <=> Lone(t)') /\ (Lone(t) => mine'[t] = mine[t])

\* The pool's stack is as it was when its nodes and its top are,
LEMMA StackSame ==
  ASSUME NEW pooled \in SUBSET Nodes, NEW depth, NEW tag \in [Nodes -> Nat], SharedTypes, PoolRests(pooled),
         Stack(pooled, depth, tag)
  PROVE  Stack(pooled, depth, tag)'
<1>1. \A n \in pooled : tag[n] \in Nat
  OBVIOUS
<1>2. pushCount \in Nat
  BY DEF SharedTypes
<1>3. \A n \in pooled : tag[n] =< pushCount'
  BY <1>1, <1>2 DEF PoolRests, Stack
<1>4. QED
  BY <1>3 DEF PoolRests, Stack

\* who has a node alone is when the lone threads are the same,
LEMMA ApartSame ==
  ASSUME NEW live, NEW pooled, LoneRest, Apart(live, pooled)
  PROVE  Apart(live, pooled)'
BY DEF LoneRest, Apart

\* and what a thread read of the pool stays good.
LEMMA PoolReadsSame ==
  ASSUME NEW pooled \in SUBSET Nodes, NEW tag \in [Nodes -> Nat], SharedTypes, StepTypes, LocalTypes, KeyTypes,
         NEW p \in Producers, PoolReads(p, pooled, tag), PoolRests(pooled),
         pc'[p] = pc[p], seen'[p] = seen[p], next'[p] = next[p]
  PROVE  PoolReads(p, pooled, tag)'
<1>1. seen[p][2] \in Nat /\ pushCount \in Nat
  BY LocalFacts, Parties DEF SharedTypes
<1>2. QED
  BY <1>1 DEF PoolReads, PoolRests

\* A push between its two steps on the pool and the last.
LEMMA PushLeavesPool ==
  ASSUME SharedTypes, StepTypes, LocalTypes, KeyTypes, NEW live, NEW pooled \in SUBSET Nodes, NEW depth,
         NEW tag \in [Nodes -> Nat], PoolInv(live, pooled, depth, tag),
         NEW p \in Producers,
         Push(p) \/ (Producing(p) /\ ~InitNode(p) /\ ~(AllocCAS(p) /\ topKey = seen[p]))
  PROVE  PoolInv(live, pooled, depth, tag)'
<1> DEFINE Same == /\ topKey' = topKey /\ pushCount' = pushCount /\ poolNext' = poolNext
                   /\ \A t \in Threads \ {p} :
                         pc'[t] = pc[t] /\ mine'[t] = mine[t] /\ seen'[t] = seen[t] /\ next'[t] = next[t]
                   /\ Lone(p) <=> Lone(p)'
                   /\ Lone(p) => mine'[p] = mine[p]
           Mine == PoolReads(p, pooled, tag)'
<1>1. Same /\ Mine
  <2>1. CASE Push(p)
    <3>1. Same
      BY <2>1, PushMoves, Parties DEF Push, Goto, Lone, LocalTypes, pool, nodes
    <3>2. QED
      BY <2>1, <3>1, PushMoves DEF PoolReads
  <2>2. CASE AllocRead(p)
    <3>1. Same
      BY <2>2, AllocReadMoves, Parties DEF AllocRead, Goto, Lone, LocalTypes, pool, nodes
    <3>2. pc'[p] = "allocNext" => seen'[p] = topKey /\ topKey # NULL
      BY <2>2, Parties DEF AllocRead, LocalTypes, StepTypes
    <3>3. topKey # NULL => topKey[2] =< pushCount
      BY KeyFacts DEF PoolInv, Stack, MAKE_KEY
    <3>4. QED
      BY <2>2, <3>1, <3>2, <3>3, AllocReadMoves DEF PoolReads
  <2>3. CASE AllocNext(p)
    <3>1. Same
      BY <2>3, AllocNextMoves, Parties DEF AllocNext, Goto, Lone, LocalTypes, pool, nodes
    <3>2. seen'[p] = seen[p] /\ next'[p] = poolNext[seen[p][1]] /\ pc[p] = "allocNext"
      BY <2>3, Parties DEF AllocNext, LocalTypes, Goto, MAKE_NODEPTR
    <3>3. seen[p][2] =< pushCount
      BY <3>2 DEF PoolInv, PoolReads
    <3>4. \A n \in pooled : seen[p] = MAKE_KEY(n, tag[n]) => seen[p][1] = n
      BY DEF MAKE_KEY
    <3>5. QED
      BY <3>1, <3>2, <3>3, <3>4 DEF PoolReads
  <2>4. CASE AllocCAS(p) /\ topKey # seen[p]
    <3>1. Same
      BY <2>4, AllocCASMoves, Parties DEF AllocCAS, Goto, Lone, LocalTypes, pool, nodes
    <3>2. QED
      BY <2>4, <3>1, AllocCASMoves DEF PoolReads
  <2>5. CASE ReadTail(p)
    <3>1. Same
      BY <2>5, ReadTailMoves, Parties DEF ReadTail, Goto, Lone, LocalTypes, pool, nodes
    <3>2. QED
      BY <2>5, <3>1, ReadTailMoves DEF PoolReads
  <2>6. CASE ReadKey(p)
    <3>1. Same
      BY <2>6, ReadKeyMoves, Parties DEF ReadKey, Goto, Lone, LocalTypes, pool, nodes
    <3>2. QED
      BY <2>6, <3>1, ReadKeyMoves DEF PoolReads
  <2>7. CASE Link(p)
    <3>1. Same
      BY <2>7, LinkMoves, Parties DEF Link, Goto, Lone, LocalTypes, pool, nodes
    <3>2. QED
      BY <2>7, <3>1, LinkMoves DEF PoolReads
  <2>8. CASE Swing(p)
    <3>1. Same
      BY <2>8, SwingMoves, Parties DEF Swing, Goto, Lone, LocalTypes, pool, nodes
    <3>2. QED
      BY <2>8, <3>1, SwingMoves DEF PoolReads
  <2>9. CASE Help(p)
    <3>1. Same
      BY <2>9, HelpMoves, Parties DEF Help, Goto, Lone, LocalTypes, pool, nodes
    <3>2. QED
      BY <2>9, <3>1, HelpMoves DEF PoolReads
  <2>10. CASE Count(p)
    <3>1. Same
      BY <2>10, CountMoves, Parties DEF Count, Goto, Lone, LocalTypes, pool, nodes
    <3>2. QED
      BY <2>10, <3>1, CountMoves DEF PoolReads
  <2>11. QED
    BY <2>1, <2>2, <2>3, <2>4, <2>5, <2>6, <2>7, <2>8, <2>9, <2>10 DEF Producing
<1> HIDE DEF Mine
<1>2. PoolRests(pooled) /\ LoneRest /\ FreeReads'
  BY <1>1, Parties DEF PoolRests, LoneRest, Lone, FreeReads, PoolInv
<1>3. ASSUME NEW q \in Producers PROVE PoolReads(q, pooled, tag)'
  <2>1. CASE q = p
    BY <1>1, <2>1 DEF Mine
  <2>2. CASE q # p
    BY <1>1, <1>2, <2>2, PoolReadsSame, Parties DEF PoolInv
  <2>3. QED
    BY <2>1, <2>2
<1>4. Stack(pooled, depth, tag)' /\ Apart(live, pooled)'
  BY <1>2, StackSame, ApartSame DEF PoolInv
<1>5. QED
  BY <1>2, <1>3, <1>4 DEF PoolInv

\* A pop before it has a node to free, while it frees it in vain, and after.
LEMMA PopLeavesPool ==
  ASSUME SharedTypes, StepTypes, LocalTypes, KeyTypes, NEW live, NEW pooled \in SUBSET Nodes, NEW depth,
         NEW tag \in [Nodes -> Nat], PoolInv(live, pooled, depth, tag),
         PopDecrement \/ (Popping /\ ~PopMoveHead /\ ~(FreeCAS /\ topKey = seen[Consumer]))
  PROVE  PoolInv(live, pooled, depth, tag)'
<1> DEFINE Same == /\ PoolRests(pooled)
                   /\ \A t \in Producers :
                         pc'[t] = pc[t] /\ mine'[t] = mine[t] /\ seen'[t] = seen[t] /\ next'[t] = next[t]
                   /\ Lone(Consumer) <=> Lone(Consumer)'
                   /\ Lone(Consumer) => mine'[Consumer] = mine[Consumer]
           Mine == FreeReads'
<1>1. Same /\ Mine
  <2>1. CASE PopDecrement
    <3>1. Same
      BY <2>1, PopDecrementMoves, Parties DEF PopDecrement, Lone, LocalTypes, pool, nodes, queue, PoolRests
    <3>2. QED
      BY <2>1, <3>1, PopDecrementMoves DEF FreeReads
  <2>2. CASE PopFails
    <3>1. Same
      BY <2>2, PopFailsMoves, Parties DEF PopFails, Lone, LocalTypes, pool, nodes, queue, PoolRests
    <3>2. QED
      BY <2>2, <3>1, PopFailsMoves DEF FreeReads
  <2>3. CASE PopReadHead
    <3>1. Same
      BY <2>3, PopReadHeadMoves, Parties DEF PopReadHead, Lone, LocalTypes, pool, nodes, queue, PoolRests
    <3>2. QED
      BY <2>3, <3>1, PopReadHeadMoves DEF FreeReads
  <2>4. CASE PopReadTail
    <3>1. Same
      BY <2>4, PopReadTailMoves, Parties DEF PopReadTail, Lone, LocalTypes, pool, nodes, queue, PoolRests
    <3>2. QED
      BY <2>4, <3>1, PopReadTailMoves DEF FreeReads
  <2>5. CASE PopReadKey
    <3>1. Same
      BY <2>5, PopReadKeyMoves, Parties DEF PopReadKey, Lone, LocalTypes, pool, nodes, queue, PoolRests
    <3>2. QED
      BY <2>5, <3>1, PopReadKeyMoves DEF FreeReads
  <2>6. CASE PopHelp
    <3>1. Same
      BY <2>6, PopHelpMoves, Parties DEF PopHelp, Lone, LocalTypes, pool, nodes, queue, PoolRests
    <3>2. QED
      BY <2>6, <3>1, PopHelpMoves DEF FreeReads
  <2>7. CASE FreeRead
    <3>1. mine[Consumer][1] \in Nodes \ pooled
      BY <2>7, LocalFacts, FreeReadMoves, Parties DEF Lone, PoolInv, Apart, MAKE_NODEPTR
    <3>2. poolNext' = [poolNext EXCEPT ![mine[Consumer][1]] = topKey] /\ poolNext \in [Nodes -> Links]
      BY <2>7 DEF FreeRead, MAKE_NODEPTR, SharedTypes
    <3>3. QED
      BY <2>7, <3>1, <3>2, FreeReadMoves, Parties DEF FreeRead, Lone, LocalTypes, pool, PoolRests, FreeReads, MAKE_NODEPTR
  <2>8. CASE FreeCAS /\ topKey # seen[Consumer]
    <3>1. topKey' = topKey /\ pushCount' = pushCount + 1 /\ poolNext' = poolNext /\ mine' = mine
          /\ seen' = seen /\ next' = next
      BY <2>8 DEF FreeCAS, nodes
    <3>2. pc[Consumer] = "freeCAS" /\ pc'[Consumer] = "free" /\ \A t \in Producers : pc'[t] = pc[t]
      BY <2>8, FreeCASMoves, Parties DEF FreeCAS, Goto, StepTypes
    <3>3. Same
      BY <3>1, <3>2 DEF Lone, PoolRests
    <3>4. QED
      BY <3>2, <3>3 DEF FreeReads
  <2>9. CASE PopValue
    <3>1. Same
      BY <2>9, PopValueMoves, Parties DEF PopValue, Lone, LocalTypes, pool, nodes, queue, PoolRests
    <3>2. QED
      BY <2>9, <3>1, PopValueMoves DEF FreeReads
  <2>10. QED
    BY <2>1, <2>2, <2>3, <2>4, <2>5, <2>6, <2>7, <2>8, <2>9 DEF Popping
<1> HIDE DEF Mine
<1>2. LoneRest
  BY <1>1, Parties DEF LoneRest, Lone
<1>3. ASSUME NEW q \in Producers PROVE PoolReads(q, pooled, tag)'
  BY <1>1, PoolReadsSame DEF PoolInv
<1>4. Stack(pooled, depth, tag)' /\ Apart(live, pooled)'
  BY <1>1, <1>2, StackSame, ApartSame DEF PoolInv
<1>5. QED
  BY <1>1, <1>3, <1>4 DEF PoolInv, Mine

\* Alloc takes the top: what it read as the next of it is the next of it.
LEMMA AllocTakes ==
  ASSUME SharedTypes, StepTypes, LocalTypes, KeyTypes, NEW live, NEW pooled \in SUBSET Nodes,
         NEW depth \in [Nodes -> Int], NEW tag \in [Nodes -> Nat], PoolInv(live, pooled, depth, tag),
         NEW p \in Producers, AllocCAS(p), topKey = seen[p], NEW n, n = seen[p][1],
         NEW rest, rest = pooled \ {n}
  PROVE  rest \in SUBSET Nodes /\ PoolInv(live, rest, depth, tag)'
<1>1. /\ topKey' = next[p] /\ pushCount' = pushCount /\ poolNext' = poolNext
      /\ mine' = [mine EXCEPT ![p] = MAKE_KEY(n, mine[p][2])] /\ seen' = seen /\ next' = next
      /\ pc'[p] = "init"
  BY Parties DEF AllocCAS, Goto, StepTypes, MAKE_NODEPTR, LocalTypes, nodes
<1>2. pc[p] = "allocCAS"
         /\ \A t \in Threads \ {p} : pc'[t] = pc[t]
  BY AllocCASMoves
<1>3. seen[p] \in Keys /\ n \in Nodes /\ mine[p][2] \in Nat
  BY <1>2, LocalFacts, Parties
<1>4. n \in pooled /\ seen[p] = MAKE_KEY(n, tag[n]) /\ \A m \in pooled : depth[m] =< depth[n]
  BY <1>3, KeyFacts DEF PoolInv, Stack, MAKE_NODEPTR
<1>5. next[p] = poolNext[n]
  BY <1>2, <1>4 DEF PoolInv, PoolReads
<1>6. (\A m \in pooled : depth[m] \in Int) /\ \A m : m \in rest <=> m \in pooled /\ m # n
  OBVIOUS
<1>7. Stack(rest, depth, tag)'
  <2>1. ASSUME NEW m \in rest PROVE m \in pooled /\ depth[m] < depth[n]
    BY <1>4, <1>6 DEF PoolInv, Stack
  <2>2. next[p] = NULL => rest = {}
    <3>1. next[p] = NULL => \A m \in pooled : depth[n] =< depth[m]
      BY <1>4, <1>5 DEF PoolInv, Stack
    <3>2. ASSUME NEW m \in rest PROVE ~(depth[n] =< depth[m])
      <4>1. depth[n] \in Int /\ depth[m] \in Int /\ depth[m] < depth[n]
        BY <1>4, <1>6, <2>1
      <4>2. QED
        BY <4>1
    <3>3. QED
      BY <1>6, <3>1, <3>2
  <2>3. next[p] # NULL =>
           LET m == MAKE_NODEPTR(next[p])
           IN  m \in rest /\ next[p] = MAKE_KEY(m, tag[m]) /\ \A k \in rest : depth[k] =< depth[m]
    <3>1. ASSUME next[p] # NULL
          PROVE  LET m == MAKE_NODEPTR(next[p])
                 IN  m \in pooled /\ next[p] = MAKE_KEY(m, tag[m]) /\ depth[m] = depth[n] - 1
      BY <1>4, <1>5, <3>1 DEF PoolInv, Stack
    <3>2. ASSUME next[p] # NULL, NEW m, m = MAKE_NODEPTR(next[p])
          PROVE  m \in rest /\ next[p] = MAKE_KEY(m, tag[m]) /\ \A k \in rest : depth[k] =< depth[m]
      <4>1. m \in pooled /\ next[p] = MAKE_KEY(m, tag[m]) /\ depth[m] = depth[n] - 1
        BY <3>1, <3>2
      <4>2. depth[n] \in Int /\ depth[m] \in Int
        BY <1>4, <1>6, <4>1
      <4>3. m # n
        BY <4>1, <4>2
      <4>4. ASSUME NEW k \in rest PROVE depth[k] =< depth[m]
        <5>1. depth[k] \in Int /\ depth[k] < depth[n]
          BY <1>6, <2>1
        <5>2. QED
          BY <4>1, <4>2, <5>1
      <4>5. QED
        BY <1>6, <4>1, <4>3, <4>4
    <3>3. QED
      BY <3>2
  <2>4. \A k \in rest : poolNext[k] # NULL =>
           LET m == MAKE_NODEPTR(poolNext[k])
           IN  m \in rest /\ depth[m] = depth[k] - 1 /\ poolNext[k] = MAKE_KEY(m, tag[m])
    <3>1. ASSUME NEW k \in rest, poolNext[k] # NULL
          PROVE  LET m == MAKE_NODEPTR(poolNext[k])
                 IN  m \in pooled /\ depth[m] = depth[k] - 1 /\ poolNext[k] = MAKE_KEY(m, tag[m])
      BY <3>1 DEF PoolInv, Stack
    <3>2. ASSUME NEW k \in rest, poolNext[k] # NULL, NEW m, m = MAKE_NODEPTR(poolNext[k])
          PROVE  m \in rest /\ depth[m] = depth[k] - 1 /\ poolNext[k] = MAKE_KEY(m, tag[m])
      <4>1. m \in pooled /\ depth[m] = depth[k] - 1 /\ poolNext[k] = MAKE_KEY(m, tag[m])
        BY <3>1, <3>2
      <4>2. depth[k] \in Int /\ depth[n] \in Int /\ depth[k] < depth[n]
        BY <1>4, <1>6, <2>1
      <4>3. m # n
        BY <4>1, <4>2
      <4>4. QED
        BY <1>6, <4>1, <4>3
    <3>3. QED
      BY <3>2
  <2>5. /\ \A k \in rest : tag[k] =< pushCount
        /\ \A k, m \in rest : depth[k] = depth[m] => k = m
        /\ \A k, m \in rest : poolNext[k] = NULL => depth[k] =< depth[m]
    BY DEF PoolInv, Stack
  <2>6. QED
    BY <1>1, <2>2, <2>3, <2>4, <2>5 DEF Stack
<1>8. Apart(live, rest)'
  <2>1. Lone(p)' /\ ~Lone(p) /\ mine'[p][1] = n /\ \A t \in Threads \ {p} :
           (Lone(t) <=> Lone(t)') /\ mine'[t] = mine[t]
    BY <1>1, <1>2, Parties DEF Lone, MAKE_KEY, LocalTypes
  <2>2. Apart(live, pooled) /\ n \in pooled
    BY <1>4 DEF PoolInv
  <2>3. live \cap rest = {}
    BY <1>6, <2>2 DEF Apart
  <2>4. ASSUME NEW t \in Threads, Lone(t)'
        PROVE  /\ mine'[t][1] \notin live \cup rest
               /\ \A u \in Threads \ {t} : Lone(u)' => mine'[u][1] # mine'[t][1]
    <3>1. CASE t = p
      <4>1. n \notin live /\ n \notin rest
        BY <1>6, <2>2 DEF Apart
      <4>2. ASSUME NEW u \in Threads \ {p}, Lone(u)' PROVE mine'[u][1] # n
        BY <2>1, <2>2, <4>2 DEF Apart, MAKE_NODEPTR
      <4>3. QED
        BY <2>1, <3>1, <4>1, <4>2
    <3>2. CASE t # p
      <4>1. Lone(t) /\ mine'[t] = mine[t] /\ mine[t][1] \notin live /\ mine[t][1] \notin pooled
        BY <2>1, <2>2, <2>4, <3>2 DEF Apart, MAKE_NODEPTR
      <4>2. ASSUME NEW u \in Threads \ {t}, Lone(u)' PROVE mine'[u][1] # mine[t][1]
        <5>1. CASE u = p
          BY <2>1, <2>2, <4>1, <5>1
        <5>2. CASE u # p
          BY <2>1, <2>2, <4>1, <4>2, <5>2 DEF Apart, MAKE_NODEPTR
        <5>3. QED
          BY <5>1, <5>2
      <4>3. QED
        BY <1>6, <4>1, <4>2
    <3>3. QED
      BY <3>1, <3>2
  <2>5. ASSUME NEW m \in Nodes \ (live \cup rest) PROVE \E t \in Threads : Lone(t)' /\ mine'[t][1] = m
    <3>1. CASE m = n
      BY <2>1, <3>1, Parties
    <3>2. CASE m # n
      <4>1. m \in Nodes \ (live \cup pooled)
        BY <1>6, <3>2
      <4>2. PICK t \in Threads : Lone(t) /\ mine[t][1] = m
        BY <2>2, <4>1 DEF Apart, MAKE_NODEPTR
      <4>3. t # p
        BY <2>1, <4>2
      <4>4. QED
        BY <2>1, <4>2, <4>3
    <3>3. QED
      BY <3>1, <3>2
  <2>6. QED
    BY <2>3, <2>4, <2>5 DEF Apart, MAKE_NODEPTR
<1>9. \A q \in Producers : PoolReads(q, rest, tag)'
  <2>1. PoolReads(p, rest, tag)'
    BY <1>1 DEF PoolReads
  <2>2. ASSUME NEW q \in Producers \ {p} PROVE PoolReads(q, rest, tag)'
    BY <1>1, <1>2, Parties DEF PoolReads, PoolInv
  <2>3. QED
    BY <2>1, <2>2
<1>10. FreeReads'
  BY <1>1, <1>2, Parties DEF FreeReads, PoolInv, LocalTypes
<1>11. QED
  BY <1>4, <1>7, <1>8, <1>9, <1>10 DEF PoolInv

\* Free puts a node on top, under a tag that nobody can have read.
LEMMA FreePuts ==
  ASSUME SharedTypes, StepTypes, LocalTypes, KeyTypes, NEW live, NEW pooled \in SUBSET Nodes,
         NEW depth \in [Nodes -> Int], NEW tag \in [Nodes -> Nat], PoolInv(live, pooled, depth, tag),
         FreeCAS, topKey = seen[Consumer]
  PROVE  \E more \in SUBSET Nodes, depth2 \in [Nodes -> Int], tag2 \in [Nodes -> Nat] :
            PoolInv(live, more, depth2, tag2)'
<1>0. PICK n, d, k : /\ n = mine[Consumer][1] /\ k = pushCount + 1
                     /\ d = IF topKey = NULL THEN 0 ELSE depth[topKey[1]] + 1
  OBVIOUS
<1> DEFINE more == pooled \cup {n}
           depth2 == [depth EXCEPT ![n] = d]  tag2 == [tag EXCEPT ![n] = k]
<1>1. /\ topKey' = MAKE_KEY(n, k) /\ pushCount' = k /\ poolNext' = poolNext
      /\ mine' = mine /\ seen' = seen /\ next' = next /\ pc'[Consumer] = "value"
  BY <1>0, Parties DEF FreeCAS, Goto, StepTypes, MAKE_NODEPTR, nodes
<1>2. pc[Consumer] = "freeCAS" /\ \A t \in Producers : pc'[t] = pc[t]
  BY FreeCASMoves, Parties
<1>3. n \in Nodes /\ n \notin pooled /\ n \notin live
  BY <1>0, <1>2, LocalFacts, Parties DEF Lone, PoolInv, Apart, MAKE_NODEPTR
<1>4. poolNext[n] = topKey
  BY <1>0, <1>2 DEF PoolInv, FreeReads, MAKE_NODEPTR
<1>5. k \in Nat /\ pushCount \in Nat /\ k > pushCount
  BY <1>0 DEF SharedTypes
<1>6. d \in Int /\ \A m \in pooled : depth[m] \in Int /\ depth[m] < d
  <2>1. CASE topKey = NULL
    BY <1>0, <2>1 DEF PoolInv, Stack
  <2>2. CASE topKey # NULL
    <3>1. topKey[1] \in pooled /\ \A m \in pooled : depth[m] =< depth[topKey[1]]
      BY <2>2 DEF PoolInv, Stack, MAKE_NODEPTR
    <3>2. \A m \in pooled : depth[m] \in Int
      OBVIOUS
    <3>3. QED
      BY <1>0, <2>2, <3>1, <3>2
  <2>3. QED
    BY <2>1, <2>2
<1>7. /\ depth2 \in [Nodes -> Int] /\ depth2[n] = d /\ tag2 \in [Nodes -> Nat] /\ tag2[n] = k
      /\ \A m \in pooled : m # n /\ depth2[m] = depth[m] /\ tag2[m] = tag[m] /\ tag[m] \in Nat /\ tag[m] < k
  <2>1. \A m \in pooled : tag[m] =< pushCount
    BY DEF PoolInv, Stack
  <2>2. \A m \in pooled : tag[m] \in Nat
    OBVIOUS
  <2>3. QED
    BY <1>3, <1>5, <1>6, <2>1, <2>2
<1> HIDE DEF depth2, tag2
<1>8. Stack(more, depth2, tag2)'
  <2>1. topKey' # NULL /\ topKey' = MAKE_KEY(n, tag2[n]) /\ MAKE_NODEPTR(topKey') = n
        /\ \A m \in more : depth2[m] =< depth2[n]
    BY <1>1, <1>3, <1>5, <1>6, <1>7, KeyFacts DEF MAKE_KEY, MAKE_NODEPTR
  <2>2. \A m \in more : tag2[m] =< pushCount'
    BY <1>1, <1>5, <1>7
  <2>3. poolNext[n] # NULL =>
           LET m == MAKE_NODEPTR(poolNext[n])
           IN  m \in more /\ depth2[m] = depth2[n] - 1 /\ poolNext[n] = MAKE_KEY(m, tag2[m])
    <3>1. SUFFICES ASSUME topKey # NULL
                   PROVE  LET m == MAKE_NODEPTR(topKey)
                          IN  m \in more /\ depth2[m] = depth2[n] - 1 /\ topKey = MAKE_KEY(m, tag2[m])
      BY <1>4
    <3>2. topKey[1] \in pooled /\ topKey = MAKE_KEY(topKey[1], tag[topKey[1]])
      BY <3>1 DEF PoolInv, Stack, MAKE_NODEPTR
    <3>3. d = depth[topKey[1]] + 1
      BY <1>0, <3>1
    <3>4. QED
      BY <1>6, <1>7, <3>2, <3>3 DEF MAKE_NODEPTR
  <2>4. \A j \in pooled : poolNext[j] # NULL =>
           LET m == MAKE_NODEPTR(poolNext[j])
           IN  m \in more /\ depth2[m] = depth2[j] - 1 /\ poolNext[j] = MAKE_KEY(m, tag2[m])
    BY <1>7 DEF PoolInv, Stack
  <2>5. poolNext[n] = NULL => \A m \in more : depth2[n] =< depth2[m]
    BY <1>4, <1>6, <1>7 DEF PoolInv, Stack
  <2>6. \A j, m \in more : depth2[j] = depth2[m] => j = m
    BY <1>6, <1>7 DEF PoolInv, Stack
  <2>7. \A j \in pooled, m \in more : poolNext[j] = NULL => depth2[j] =< depth2[m]
    <3>1. \A j, m \in pooled : poolNext[j] = NULL => depth2[j] =< depth2[m]
      BY <1>7 DEF PoolInv, Stack
    <3>2. \A j \in pooled : depth2[j] =< depth2[n]
      BY <1>6, <1>7
    <3>3. QED
      BY <3>1, <3>2
  <2>8. QED
    BY <1>1, <2>1, <2>2, <2>3, <2>4, <2>5, <2>6, <2>7 DEF Stack
<1>9. Apart(live, more)'
  <2>1. Lone(Consumer) /\ ~Lone(Consumer)' /\ \A t \in Producers : Lone(t) <=> Lone(t)'
    BY <1>1, <1>2, Parties DEF Lone
  <2>2. QED
    BY <1>0, <1>1, <1>3, <2>1, Parties DEF Apart, PoolInv, MAKE_NODEPTR
<1>10. ASSUME NEW q \in Producers PROVE PoolReads(q, more, tag2)'
  <2>1. seen[q][2] \in Nat
    BY LocalFacts, Parties
  <2>2. pc[q] \in {"allocNext", "allocCAS"} => seen[q][2] =< pushCount
    BY DEF PoolInv, PoolReads
  <2>3. pc[q] \in {"allocNext", "allocCAS"} => seen[q][2] =< k /\ seen[q] # MAKE_KEY(n, k)
    BY <1>5, <2>1, <2>2 DEF MAKE_KEY
  <2>4. pc[q] = "allocCAS" => \A m \in pooled : seen[q] = MAKE_KEY(m, tag2[m]) => next[q] = poolNext[m]
    BY <1>7 DEF PoolInv, PoolReads
  <2>5. QED
    BY <1>1, <1>2, <1>7, <2>3, <2>4 DEF PoolReads
<1>11. FreeReads'
  BY <1>1 DEF FreeReads
<1>12. PoolInv(live, more, depth2, tag2)' /\ more \in SUBSET Nodes
  BY <1>3, <1>8, <1>9, <1>10, <1>11 DEF PoolInv
<1>13. QED
  BY <1>7, <1>12

\* A node that a push gets ready is live,
Readies(live, p, n, more) ==
    p \in Producers /\ InitNode(p) /\ n = mine[p][1] /\ more = live \cup {n}

\* A node that was initialised is live, and the pool is as it was.
LEMMA InitLeavesPool ==
  ASSUME SharedTypes, StepTypes, LocalTypes, KeyTypes, NEW live, NEW pooled \in SUBSET Nodes,
         NEW depth, NEW tag \in [Nodes -> Nat], PoolInv(live, pooled, depth, tag),
         NEW p, NEW n, NEW more, Readies(live, p, n, more)
  PROVE  n \in Nodes \ live /\ PoolInv(more, pooled, depth, tag)'
<1> SUFFICES ASSUME p \in Producers, InitNode(p), n = mine[p][1], more = live \cup {n}
             PROVE  n \in Nodes \ live /\ PoolInv(more, pooled, depth, tag)'
  BY DEF Readies
<1>1. pc[p] = "init" /\ pc'[p] = "readTail"
         /\ \A t \in Threads \ {p} : pc'[t] = pc[t]
  BY InitNodeMoves
<1>2. /\ topKey' = topKey /\ pushCount' = pushCount /\ poolNext' = poolNext
      /\ mine' = mine /\ seen' = seen /\ next' = next
  BY DEF InitNode, pool
<1>3. Stack(pooled, depth, tag)'
  BY <1>2, StackSame DEF PoolRests, PoolInv
<1>4. Apart(more, pooled)'
  <2>1. Lone(p) /\ ~Lone(p)' /\ \A t \in Threads \ {p} : Lone(t) <=> Lone(t)'
    BY <1>1, Parties DEF Lone
  <2>2. QED
    BY <1>2, <2>1, Parties DEF Apart, PoolInv, MAKE_NODEPTR
<1>5. (\A q \in Producers : PoolReads(q, pooled, tag)') /\ FreeReads'
  BY <1>1, <1>2, Parties DEF PoolReads, FreeReads, PoolInv
<1>6. n \in Nodes \ live
  BY <1>1, LocalFacts, Parties DEF Lone, PoolInv, Apart, MAKE_NODEPTR
<1>7. QED
  BY <1>3, <1>4, <1>5, <1>6 DEF PoolInv

\* and the node that was the head is not.
LEMMA MoveLeavesPool ==
  ASSUME SharedTypes, StepTypes, LocalTypes, KeyTypes, NEW live \in SUBSET Nodes, NEW pooled \in SUBSET Nodes,
         NEW depth, NEW tag \in [Nodes -> Nat], PoolInv(live, pooled, depth, tag),
         PopMoveHead, mine[Consumer] = head, NEW h \in live, h = head[1],
         NEW rest, rest = live \ {h}
  PROVE  PoolInv(rest, pooled, depth, tag)'
<1>1. pc[Consumer] = "popHead" /\ pc'[Consumer] = "free" /\ \A t \in Producers : pc'[t] = pc[t]
  BY PopMoveHeadMoves, Parties
<1>2. /\ topKey' = topKey /\ pushCount' = pushCount /\ poolNext' = poolNext
      /\ mine' = mine /\ seen' = seen /\ next' = next
  BY DEF PopMoveHead, pool, nodes
<1>3. Stack(pooled, depth, tag)'
  BY <1>2, StackSame DEF PoolRests, PoolInv
<1>4. Apart(rest, pooled)'
  <2>1. ~Lone(Consumer) /\ Lone(Consumer)' /\ \A t \in Producers : Lone(t) <=> Lone(t)'
    BY <1>1, Parties DEF Lone
  <2>2. QED
    BY <1>2, <2>1, Parties DEF Apart, PoolInv, MAKE_NODEPTR
<1>5. (\A q \in Producers : PoolReads(q, pooled, tag)') /\ FreeReads'
  BY <1>1, <1>2, Parties DEF PoolReads, FreeReads, PoolInv
<1>6. QED
  BY <1>3, <1>4, <1>5 DEF PoolInv

-----------------------------------------------------------------------------
(* Steps that change the chains.                                           *)

\* What a chain starts with is in it, and the head starts pop's.
LEMMA HeadIn ==
  ASSUME NEW live, NEW owner, NEW place, Chains(live, owner, place)
  PROVE  head[1] \in live /\ owner[head[1]] = Consumer
BY Parties DEF Root, Rooted, MAKE_NODEPTR, Chains, Starts

\* A node that a push gets ready is a chain of its own.
Readied(live, owner, place, p, n, more, owner2) ==
    /\ live \in SUBSET Nodes /\ owner \in [Nodes -> Threads] /\ place \in [Nodes -> Int]
    /\ Chains(live, owner, place) /\ p \in Producers /\ InitNode(p)
    /\ n \in Nodes \ live /\ n = mine[p][1]
    /\ more = live \cup {n} /\ owner2 = [owner EXCEPT ![n] = p]

\* A node that was initialised is a chain of its own.
LEMMA InitChains ==
  ASSUME SharedTypes, StepTypes, LocalTypes, KeyTypes,
         NEW live, NEW owner, NEW place, NEW p, NEW n, NEW more, NEW owner2,
         Readied(live, owner, place, p, n, more, owner2)
  PROVE  /\ more \in SUBSET Nodes /\ owner2 \in [Nodes -> Threads]
         /\ Chains(more, owner2, place)'
         /\ Linked(more, owner2)' = Linked(live, owner)
<1> SUFFICES ASSUME live \in SUBSET Nodes, owner \in [Nodes -> Threads], place \in [Nodes -> Int],
                    Chains(live, owner, place), p \in Producers, InitNode(p),
                    n \in Nodes \ live, n = mine[p][1], more = live \cup {n}, owner2 = [owner EXCEPT ![n] = p]
             PROVE  /\ more \in SUBSET Nodes /\ owner2 \in [Nodes -> Threads]
                    /\ Chains(more, owner2, place)'
                    /\ Linked(more, owner2)' = Linked(live, owner)
  BY DEF Readied
<1>1. /\ \A t \in Threads \ {p} : (Rooted(t)' <=> Rooted(t)) /\ (Rooted(t) => Root(t)' = Root(t))
      /\ Rooted(p)' /\ ~Rooted(p) /\ Root(p)' = n
  <2>1. pc[p] = "init" /\ pc'[p] = "readTail"
         /\ \A t \in Threads \ {p} : pc'[t] = pc[t]
    BY InitNodeMoves
  <2>2. mine' = mine /\ head' = head
    BY DEF InitNode, queue
  <2>3. QED
    BY <2>1, <2>2, Parties DEF Rooted, Root, Linking, MAKE_NODEPTR
<1>2. /\ \A m \in live : m \in Nodes /\ owner[m] \in Threads /\ place[m] \in Int
      /\ \A m \in live : owner[m] # p /\ Rooted(owner[m]) /\ place[Root(owner[m])] =< place[m]
      /\ \A m \in live : owner[m] \in Threads \ {p}
  BY <1>1 DEF Chains, Members
<1>3. /\ \A m \in live : m # n /\ key'[m] = key[m] /\ value'[m] = value[m] /\ owner2[m] = owner[m]
      /\ key'[n] = NULL /\ owner2[n] = p /\ owner2 \in [Nodes -> Threads] /\ more \in SUBSET Nodes
  BY Parties DEF InitNode, MAKE_NODEPTR, SharedTypes
<1>4. \A m \in live : Rooted(owner2[m])' /\ Root(owner2[m])' = Root(owner[m])
  <2>1. ASSUME NEW m \in live PROVE Rooted(owner2[m])' /\ Root(owner2[m])' = Root(owner[m])
    <3>1. PICK t \in Threads \ {p} : t = owner[m] /\ t = owner2[m] /\ Rooted(t)
      BY <1>2, <1>3
    <3>2. QED
      BY <1>1, <3>1
  <2>2. QED
    BY <2>1
<1>5. Rooted(owner2[n])' /\ Root(owner2[n])' = n
  BY <1>1, <1>3
<1>6. Linked(more, owner2)' = Linked(live, owner)
  BY <1>4, <1>5 DEF Linked
<1>7. Members(more, owner2, place)'
  <2>1. place[n] =< place[n]
    <3>1. place[n] \in Int
      OBVIOUS
    <3>2. QED
      BY <3>1
  <2>2. QED
    BY <1>2, <1>4, <1>5, <2>1 DEF Members
<1>8. Follows(more, owner2, place)'
  <2>1. Follows(live, owner, place)
    BY DEF Chains
  <2>2. QED
    BY <1>3, <2>1 DEF Follows
<1>9. Ordered(more, owner2, place)'
  <2>1. Ordered(live, owner, place) /\ place[n] \in Int
    BY DEF Chains
  <2>2. QED
    BY <1>2, <1>3, <2>1 DEF Ordered
<1>10. Starts(more, owner2)'
  <2>1. ASSUME NEW t \in Threads \ {p}, Rooted(t)' PROVE Root(t)' \in more /\ owner2[Root(t)'] = t
    <3>1. Root(t) \in live /\ owner[Root(t)] = t
      BY <1>1, <2>1 DEF Chains, Starts
    <3>2. QED
      BY <1>1, <1>3, <2>1, <3>1
  <2>2. QED
    BY <1>1, <1>3, <2>1 DEF Starts
<1>11. QED
  BY <1>3, <1>6, <1>7, <1>8, <1>9, <1>10 DEF Chains

\* When pop moves the head, the old one leaves the queue and the next starts it.
Advanced(live, owner, place, h, n, rest) ==
    /\ live \in SUBSET Nodes /\ owner \in [Nodes -> Threads] /\ place \in [Nodes -> Int]
    /\ Chains(live, owner, place) /\ Ends(live, owner)
    /\ PopMoveHead /\ h = head[1] /\ n = next[Consumer][1] /\ rest = live \ {h}

\* The head that pop leaves is no more in the queue; its successor is the new one.
LEMMA MoveChains ==
  ASSUME SharedTypes, StepTypes, LocalTypes, KeyTypes,
         NEW live, NEW owner, NEW place, NEW h, NEW n, NEW rest, Advanced(live, owner, place, h, n, rest)
  PROVE  /\ Chains(rest, owner, place)'
         /\ head' = next[Consumer] /\ key' = key /\ value' = value /\ n # h
         /\ n \in Linked(live, owner) /\ owner[n] = Consumer /\ head' = MAKE_KEY(n, value[n])
         /\ Linked(rest, owner)' = Linked(live, owner) \ {n}
         /\ h \in live /\ key[h] # NULL
<1> SUFFICES ASSUME live \in SUBSET Nodes, owner \in [Nodes -> Threads], place \in [Nodes -> Int],
                    Chains(live, owner, place), Ends(live, owner), PopMoveHead,
                    h = head[1], n = next[Consumer][1], rest = live \ {h}
             PROVE  /\ Chains(rest, owner, place)'
                    /\ head' = next[Consumer] /\ key' = key /\ value' = value /\ n # h
                    /\ n \in Linked(live, owner) /\ owner[n] = Consumer /\ head' = MAKE_KEY(n, value[n])
                    /\ Linked(rest, owner)' = Linked(live, owner) \ {n}
                    /\ h \in live /\ key[h] # NULL
  BY DEF Advanced
<1>1. /\ head' = next[Consumer] /\ key' = key /\ value' = value /\ pc[Consumer] = "popHead"
      /\ \A t \in Threads : (Rooted(t)' <=> Rooted(t))
      /\ \A t \in Producers : Root(t)' = Root(t)
      /\ Root(Consumer) = h /\ Root(Consumer)' = n /\ Rooted(Consumer)
  <2>1. pc[Consumer] = "popHead" /\ pc'[Consumer] = "free"
         /\ \A t \in Threads \ {Consumer} : pc'[t] = pc[t]
    BY PopMoveHeadMoves
  <2>2. mine' = mine /\ head' = next[Consumer] /\ key' = key /\ value' = value
    BY DEF PopMoveHead, nodes
  <2>3. QED
    BY <2>1, <2>2, Parties DEF Rooted, Root, Linking, MAKE_NODEPTR
<1>2. next[Consumer] # NULL /\ key[h] = next[Consumer]
  BY <1>1 DEF Ends, MAKE_NODEPTR
<1>3. h \in live /\ owner[h] = Consumer
  BY HeadIn
<1>4. n \in live /\ owner[n] = Consumer /\ place[n] = place[h] + 1 /\ next[Consumer] = MAKE_KEY(n, value[n])
  BY <1>2, <1>3 DEF Chains, Follows
<1>5. \A m \in live : place[m] \in Int /\ owner[m] \in Threads /\ Rooted(owner[m])
      /\ place[Root(owner[m])] =< place[m]
  BY DEF Chains, Members
<1>6. n # h /\ place[h] \in Int /\ \A m \in live : owner[m] = Consumer => place[h] =< place[m]
  BY <1>1, <1>3, <1>4, <1>5
<1>7. Ordered(live, owner, place) /\ Follows(live, owner, place) /\ Starts(live, owner)
  BY DEF Chains
<1>8. \A m \in rest : owner[m] = Consumer => place[h] < place[m] /\ place[n] =< place[m]
  <2>1. \A m \in rest : owner[m] = Consumer => place[m] # place[h]
    BY <1>3, <1>7 DEF Ordered
  <2>2. QED
    BY <1>4, <1>5, <1>6, <2>1
<1>9. \A t \in Threads : t = Consumer \/ t \in Producers
  BY Parties
<1>10. ASSUME NEW m \in live, owner[m] # Consumer
       PROVE  Rooted(owner[m])' /\ Root(owner[m])' = Root(owner[m]) /\ m # n
  <2>1. PICK t \in Producers : t = owner[m] /\ Rooted(t)
    BY <1>5, <1>9, <1>10
  <2>2. QED
    BY <1>1, <1>4, <1>9, <1>10, <2>1, Parties
<1>11. ASSUME NEW m \in live, owner[m] = Consumer
       PROVE  Rooted(owner[m])' /\ Root(owner[m])' = n /\ Root(owner[m]) = h
  BY <1>1, <1>11, Parties
<1>12. Linked(rest, owner)' = Linked(live, owner) \ {n}
  <2>1. \A m \in rest : (m # Root(owner[m])' <=> m # Root(owner[m]) /\ m # n)
    BY <1>10, <1>11
  <2>2. h \notin Linked(live, owner)
    BY <1>1, <1>3 DEF Linked
  <2>3. QED
    BY <2>1, <2>2 DEF Linked
<1>13. n \in Linked(live, owner)
  BY <1>1, <1>4, <1>6 DEF Linked
<1>14. Members(rest, owner, place)'
  <2>1. ASSUME NEW m \in rest PROVE Rooted(owner[m])' /\ place[Root(owner[m])'] =< place[m]
    <3>1. CASE owner[m] = Consumer
      BY <1>8, <1>11, <3>1
    <3>2. CASE owner[m] # Consumer
      BY <1>5, <1>10, <3>2
    <3>3. QED
      BY <3>1, <3>2
  <2>2. QED
    BY <2>1 DEF Members
<1>15. Follows(rest, owner, place)'
  <2>1. ASSUME NEW m \in rest, key[m] # NULL PROVE key[m][1] # h
    <3>1. key[m][1] = h => owner[m] = Consumer /\ place[h] = place[m] + 1
      BY <1>3, <1>7, <2>1 DEF Follows
    <3>2. QED
      BY <1>5, <1>6, <3>1
  <2>2. QED
    BY <1>1, <1>7, <2>1 DEF Follows
<1>16. Ordered(rest, owner, place)'
  BY <1>1, <1>7 DEF Ordered
<1>17. Starts(rest, owner)'
  <2>1. Root(Consumer)' \in rest /\ owner[Root(Consumer)'] = Consumer
    BY <1>1, <1>4, <1>6
  <2>2. ASSUME NEW t \in Producers, Rooted(t)' PROVE Root(t)' \in rest /\ owner[Root(t)'] = t
    <3>1. Root(t) \in live /\ owner[Root(t)] = t /\ t # Consumer
      BY <1>1, <1>7, <2>2, Parties DEF Starts
    <3>2. QED
      BY <1>1, <1>3, <3>1
  <2>3. QED
    BY <1>9, <2>1, <2>2 DEF Starts
<1>18. QED
  BY <1>1, <1>2, <1>3, <1>4, <1>6, <1>12, <1>13, <1>14, <1>15, <1>16, <1>17 DEF Chains

\* What a push has goes behind the node without a successor that it read.
Joined(owner, p, n)           == [m \in Nodes |-> IF owner[m] = p THEN owner[n] ELSE owner[m]]
Moved(owner, place, p, n, r)  ==
    [m \in Nodes |-> IF owner[m] = p THEN place[m] - place[r] + place[n] + 1 ELSE place[m]]

Extended(live, owner, place, p, n, r, owner2, place2) ==
    /\ live \in SUBSET Nodes /\ owner \in [Nodes -> Threads] /\ place \in [Nodes -> Int]
    /\ Chains(live, owner, place) /\ p \in Producers /\ Link(p)
    /\ n \in live /\ n = seen[p][1] /\ key[n] = NULL /\ owner[n] # p
    /\ r \in Nodes /\ mine[p] = MAKE_KEY(r, value[r])
    /\ owner2 = Joined(owner, p, n) /\ place2 = Moved(owner, place, p, n, r)

\* A link that succeeds puts the chain of the push behind the one it has the end of.
LEMMA LinkChains ==
  ASSUME SharedTypes, StepTypes, LocalTypes, KeyTypes,
         NEW live, NEW owner, NEW place, NEW p, NEW n, NEW r, NEW owner2, NEW place2,
         Extended(live, owner, place, p, n, r, owner2, place2)
  PROVE  /\ owner2 \in [Nodes -> Threads] /\ place2 \in [Nodes -> Int]
         /\ Chains(live, owner2, place2)'
         /\ r \in live /\ r \notin Linked(live, owner)
         /\ Linked(live, owner2)' = Linked(live, owner) \cup {r}
         /\ key' = [key EXCEPT ![n] = mine[p]] /\ value' = value /\ head' = head
<1> SUFFICES ASSUME live \in SUBSET Nodes, owner \in [Nodes -> Threads], place \in [Nodes -> Int],
                    Chains(live, owner, place), p \in Producers, Link(p),
                    n \in live, n = seen[p][1], key[n] = NULL, owner[n] # p,
                    r \in Nodes, mine[p] = MAKE_KEY(r, value[r]),
                    owner2 = Joined(owner, p, n), place2 = Moved(owner, place, p, n, r)
             PROVE  /\ owner2 \in [Nodes -> Threads] /\ place2 \in [Nodes -> Int]
                    /\ Chains(live, owner2, place2)'
                    /\ r \in live /\ r \notin Linked(live, owner)
                    /\ Linked(live, owner2)' = Linked(live, owner) \cup {r}
                    /\ key' = [key EXCEPT ![n] = mine[p]] /\ value' = value /\ head' = head
  BY DEF Extended
<1> DEFINE q == owner[n]
<1>1. /\ key' = [key EXCEPT ![n] = mine[p]] /\ value' = value /\ head' = head
      /\ \A t \in Threads \ {p} : (Rooted(t)' <=> Rooted(t))
      /\ \A t \in Threads : Root(t)' = Root(t)
      /\ Rooted(p) /\ ~Rooted(p)' /\ Root(p) = r
  <2>1. pc[p] = "link" /\ pc'[p] = "swing"
         /\ \A t \in Threads \ {p} : pc'[t] = pc[t]
    BY LinkMoves, Parties DEF Link, Goto, StepTypes, MAKE_NODEPTR
  <2>2. mine' = mine /\ head' = head /\ value' = value
    BY DEF Link, queue
  <2>3. key' = [key EXCEPT ![n] = mine[p]]
    BY DEF Link, MAKE_NODEPTR
  <2>4. QED
    BY <2>1, <2>2, <2>3, Parties DEF Rooted, Root, Linking, MAKE_NODEPTR, MAKE_KEY
<1>2. \A m \in live : place[m] \in Int /\ owner[m] \in Threads /\ Rooted(owner[m])
      /\ place[Root(owner[m])] =< place[m]
  BY DEF Chains, Members
<1>3. Ordered(live, owner, place) /\ Follows(live, owner, place) /\ Starts(live, owner)
  BY DEF Chains
<1>4. r \in live /\ owner[r] = p
  BY <1>1, <1>3, Parties DEF Starts
<1>5. n \in Nodes /\ q \in Threads /\ q # p /\ p \in Threads /\ place[r] \in Int /\ place[n] \in Int
      /\ Rooted(q) /\ r # n
  BY <1>2, <1>4, Parties
<1>6. \A m \in live : /\ owner[m] = p => place[r] =< place[m]
                      /\ owner[m] = q => place[m] =< place[n]
  <2>1. \A m \in live : owner[m] = q => place[m] =< place[n]
    BY <1>3 DEF Ordered
  <2>2. QED
    BY <1>1, <1>2, <2>1
<1>7. /\ owner2 \in [Nodes -> Threads]
      /\ \A m \in live : owner2[m] = IF owner[m] = p THEN q ELSE owner[m]
  BY <1>5 DEF Joined
<1>8. /\ place2 \in [Nodes -> Int]
      /\ \A m \in live : place2[m] = IF owner[m] = p THEN place[m] - place[r] + place[n] + 1 ELSE place[m]
  BY <1>5 DEF Moved
<1> HIDE DEF q
<1>9. \A m \in live :
         /\ owner[m] = p => owner2[m] = q /\ place2[m] = place[m] - place[r] + place[n] + 1 /\ place2[m] > place[n]
         /\ owner[m] # p => owner2[m] = owner[m] /\ place2[m] = place[m]
         /\ owner[m] = q => place2[m] =< place[n]
         /\ place2[m] \in Int /\ owner2[m] \in Threads /\ owner2[m] # p
  BY <1>2, <1>5, <1>6, <1>7, <1>8
<1>10. place2[n] = place[n] /\ owner2[n] = q /\ place2[r] = place[n] + 1 /\ owner2[r] = q
  <2>1. owner[n] = q /\ owner[n] # p
    BY <1>5 DEF q
  <2>2. QED
    BY <1>4, <1>5, <1>9, <2>1
<1>11. Root(q) \in live /\ owner[Root(q)] = q /\ Root(q)' = Root(q) /\ Rooted(q)'
  BY <1>1, <1>3, <1>5 DEF Starts
<1>12. ASSUME NEW m \in live
       PROVE  /\ Rooted(owner2[m])'
              /\ owner[m] = p => Root(owner2[m])' = Root(q)
              /\ owner[m] # p => Root(owner2[m])' = Root(owner[m])
  <2>1. CASE owner[m] = p
    BY <1>9, <1>11, <2>1
  <2>2. CASE owner[m] # p
    <3>1. PICK t \in Threads \ {p} : t = owner[m] /\ t = owner2[m] /\ Rooted(t)
      BY <1>2, <1>9, <2>2
    <3>2. QED
      BY <1>1, <2>2, <3>1
  <2>3. QED
    BY <2>1, <2>2
<1>13. Members(live, owner2, place2)'
  <2>1. ASSUME NEW m \in live PROVE place2[Root(owner2[m])'] =< place2[m]
    <3>1. CASE owner[m] = p
      <4>1. place2[Root(q)] =< place[n]
        BY <1>9, <1>11
      <4>2. place2[m] > place[n] /\ place2[Root(q)] \in Int /\ place2[m] \in Int
        BY <1>9, <1>11, <3>1
      <4>3. QED
        BY <1>5, <1>12, <3>1, <4>1, <4>2
    <3>2. CASE owner[m] # p
      <4>1. Root(owner[m]) \in live /\ owner[Root(owner[m])] = owner[m]
        BY <1>2, <1>3 DEF Starts
      <4>2. place2[Root(owner[m])] = place[Root(owner[m])] /\ place2[m] = place[m]
        BY <1>9, <3>2, <4>1
      <4>3. QED
        BY <1>2, <1>12, <3>2, <4>2
    <3>3. QED
      BY <3>1, <3>2
  <2>2. QED
    BY <1>12, <2>1 DEF Members
<1>14. key'[n] = MAKE_KEY(r, value[r]) /\ \A m \in live \ {n} : key'[m] = key[m]
  BY <1>1, <1>5 DEF SharedTypes
<1>15. Follows(live, owner2, place2)'
  <2>1. ASSUME NEW m \in live, m = n
        PROVE  /\ key'[m][1] \in live /\ owner2[key'[m][1]] = owner2[m]
               /\ place2[key'[m][1]] = place2[m] + 1 /\ key'[m] = MAKE_KEY(key'[m][1], value'[key'[m][1]])
    <3>1. key'[m] = MAKE_KEY(r, value[r]) /\ key'[m][1] = r
      BY <1>14, <2>1 DEF MAKE_KEY
    <3>2. QED
      BY <1>1, <1>4, <1>10, <2>1, <3>1
  <2>2. ASSUME NEW m \in live, m # n, key[m] # NULL
        PROVE  /\ key[m][1] \in live /\ owner2[key[m][1]] = owner2[m]
               /\ place2[key[m][1]] = place2[m] + 1 /\ key[m] = MAKE_KEY(key[m][1], value[key[m][1]])
    <3>1. PICK k \in live : k = key[m][1] /\ owner[k] = owner[m] /\ place[k] = place[m] + 1
                            /\ key[m] = MAKE_KEY(k, value[k])
      BY <1>3, <2>2 DEF Follows
    <3>2. owner2[k] = owner2[m] /\ place2[k] = place2[m] + 1
      BY <1>2, <1>5, <1>9, <3>1
    <3>3. QED
      BY <3>1, <3>2
  <2>3. QED
    BY <1>1, <1>14, <2>1, <2>2 DEF Follows
<1>16. Ordered(live, owner2, place2)'
  <2>1. ASSUME NEW k \in live, NEW m \in live, owner2[k] = owner2[m], place2[k] = place2[m] PROVE k = m
    <3>1. CASE owner[k] = p /\ owner[m] = p
      <4>1. place[k] = place[m]
        BY <1>2, <1>5, <1>9, <2>1, <3>1
      <4>2. QED
        BY <1>3, <3>1, <4>1 DEF Ordered
    <3>2. CASE owner[k] # p /\ owner[m] # p
      <4>1. owner[k] = owner[m] /\ place[k] = place[m]
        BY <1>9, <2>1, <3>2
      <4>2. QED
        BY <1>3, <4>1 DEF Ordered
    <3>3. CASE owner[k] = p /\ owner[m] # p
      BY <1>5, <1>9, <2>1, <3>3
    <3>4. CASE owner[k] # p /\ owner[m] = p
      BY <1>5, <1>9, <2>1, <3>4
    <3>5. QED
      BY <3>1, <3>2, <3>3, <3>4
  <2>2. ASSUME NEW k \in live, NEW m \in live, owner2[k] = owner2[m], key'[k] = NULL PROVE place2[m] =< place2[k]
    <3>1. k # n /\ key[k] = NULL
      <4>1. MAKE_KEY(r, value[r]) # NULL
        BY KeyFacts DEF SharedTypes
      <4>2. QED
        BY <1>14, <2>2, <4>1
    <3>2. CASE owner[k] = p /\ owner[m] = p
      <4>1. place[m] =< place[k]
        BY <1>3, <3>1, <3>2 DEF Ordered
      <4>2. QED
        BY <1>2, <1>5, <1>9, <3>2, <4>1
    <3>3. CASE owner[k] = p /\ owner[m] # p
      <4>1. owner[m] = q
        BY <1>9, <2>2, <3>3
      <4>2. QED
        BY <1>5, <1>9, <3>3, <4>1
    <3>4. CASE owner[k] = q
      <4>1. place[n] =< place[k]
        BY <1>3, <3>1, <3>4 DEF Ordered, q
      <4>2. place[n] = place[k]
        BY <1>2, <1>5, <1>6, <3>4, <4>1
      <4>3. k = n
        BY <1>3, <3>4, <4>2 DEF Ordered, q
      <4>4. QED
        BY <3>1, <4>3
    <3>5. CASE owner[k] # p /\ owner[k] # q
      <4>1. owner[m] = owner[k]
        BY <1>9, <2>2, <3>5
      <4>2. place[m] =< place[k]
        BY <1>3, <3>1, <4>1 DEF Ordered
      <4>3. QED
        BY <1>9, <3>5, <4>1, <4>2
    <3>6. QED
      BY <3>2, <3>3, <3>4, <3>5
  <2>3. QED
    BY <2>1, <2>2 DEF Ordered
<1>17. Starts(live, owner2)'
  <2>1. ASSUME NEW t \in Threads, Rooted(t)' PROVE Root(t)' \in live /\ owner2[Root(t)'] = t
    <3>1. t # p /\ Root(t)' = Root(t) /\ Root(t) \in live /\ owner[Root(t)] = t
      BY <1>1, <1>3, <2>1 DEF Starts
    <3>2. QED
      BY <1>9, <3>1
  <2>2. QED
    BY <2>1 DEF Starts
<1>18. Chains(live, owner2, place2)'
  BY <1>13, <1>15, <1>16, <1>17 DEF Chains
<1>19. Linked(live, owner2)' = Linked(live, owner) \cup {r}
  <2>1. r \in live /\ r # Root(owner2[r])'
    BY <1>4, <1>5, <1>11, <1>12
  <2>2. ASSUME NEW m \in live, m # r PROVE m # Root(owner2[m])' <=> m # Root(owner[m])
    <3>1. CASE owner[m] = p
      BY <1>1, <1>5, <1>11, <1>12, <2>2, <3>1
    <3>2. CASE owner[m] # p
      BY <1>12, <3>2
    <3>3. QED
      BY <3>1, <3>2
  <2>3. QED
    BY <2>1, <2>2 DEF Linked
<1>20. r \notin Linked(live, owner)
  BY <1>1, <1>4 DEF Linked
<1>21. QED
  BY <1>1, <1>4, <1>7, <1>8, <1>18, <1>19, <1>20

-----------------------------------------------------------------------------
(* The values that were linked once.                                       *)

\* What it is for a value to have been linked, before and after a step.
LEMMA EnteredIs ==
  /\ \A v : v \in Entered <=> v \in finished \/ \E q \in Producers : Uncounted(q) /\ mine[q][2] = v
  /\ \A v : v \in Entered' <=> v \in finished' \/ \E q \in Producers : Uncounted(q)' /\ mine'[q][2] = v
BY DEF Entered

\* A push enters its value when it links its node; the rest changes nothing.
LEMMA PushEnters ==
  ASSUME SharedTypes, StepTypes, LocalTypes, NEW p \in Producers, Push(p) \/ Producing(p)
  PROVE  /\ Link(p) /\ key[MAKE_NODEPTR(seen[p])] = NULL => Entered' = Entered \cup {mine[p][2]}
         /\ ~(Link(p) /\ key[MAKE_NODEPTR(seen[p])] = NULL) => Entered' = Entered
<1> DEFINE Won  == Link(p) /\ key[MAKE_NODEPTR(seen[p])] = NULL
           Same == /\ finished' = finished
                   /\ \A q \in Producers \ {p} : (Uncounted(q)' <=> Uncounted(q)) /\ mine'[q] = mine[q]
<1>1. CASE Won
  <2>1. /\ Same /\ mine' = mine
        /\ pc[p] = "link" /\ pc'[p] = "swing"
    BY <1>1, LinkMoves, Parties DEF Link, Goto, Uncounted, StepTypes, record
  <2>2. Entered' = Entered \cup {mine[p][2]}
    BY <2>1, EnteredIs DEF Uncounted
  <2>3. QED
    BY <1>1, <2>2
<1>2. CASE ~Won
  <2>1. CASE Count(p)
    <3>1. /\ finished' = finished \cup {mine[p][2]} /\ mine' = mine
          /\ pc[p] = "count" /\ pc'[p] = "idle"
          /\ \A q \in Producers \ {p} : (Uncounted(q)' <=> Uncounted(q))
      BY <2>1, CountMoves, Parties DEF Count, Uncounted
    <3>2. Entered' = Entered
      BY <3>1, EnteredIs DEF Uncounted
    <3>3. QED
      BY <1>2, <3>2
  <2>2. ASSUME ~Count(p) PROVE Same /\ (Uncounted(p)' <=> Uncounted(p)) /\ (Uncounted(p) => mine'[p] = mine[p])
    <3>1. CASE Push(p)
      BY <1>2, <3>1, PushMoves, Parties DEF Push, Goto, Uncounted, StepTypes, LocalTypes, record
    <3>2. CASE AllocRead(p)
      BY <1>2, <3>2, AllocReadMoves, Parties DEF AllocRead, Goto, Uncounted, StepTypes, LocalTypes, record
    <3>3. CASE AllocNext(p)
      BY <1>2, <3>3, AllocNextMoves, Parties DEF AllocNext, Goto, Uncounted, StepTypes, LocalTypes, record
    <3>4. CASE AllocCAS(p)
      BY <1>2, <3>4, AllocCASMoves, Parties DEF AllocCAS, Goto, Uncounted, StepTypes, LocalTypes, record
    <3>5. CASE InitNode(p)
      BY <1>2, <3>5, InitNodeMoves, Parties DEF InitNode, Goto, Uncounted, StepTypes, LocalTypes, record
    <3>6. CASE ReadTail(p)
      BY <1>2, <3>6, ReadTailMoves, Parties DEF ReadTail, Goto, Uncounted, StepTypes, LocalTypes, record
    <3>7. CASE ReadKey(p)
      BY <1>2, <3>7, ReadKeyMoves, Parties DEF ReadKey, Goto, Uncounted, StepTypes, LocalTypes, record
    <3>8. CASE Link(p)
      BY <1>2, <3>8, LinkMoves, Parties DEF Link, Goto, Uncounted, StepTypes, LocalTypes, record
    <3>9. CASE Swing(p)
      BY <1>2, <3>9, SwingMoves, Parties DEF Swing, Goto, Uncounted, StepTypes, LocalTypes, record
    <3>10. CASE Help(p)
      BY <1>2, <3>10, HelpMoves, Parties DEF Help, Goto, Uncounted, StepTypes, LocalTypes, record
    <3>11. QED
      BY <2>2, <3>1, <3>2, <3>3, <3>4, <3>5, <3>6, <3>7, <3>8, <3>9, <3>10 DEF Producing
  <2>3. ASSUME ~Count(p) PROVE Entered' = Entered
    <3>1. \A q \in Producers : (Uncounted(q)' <=> Uncounted(q)) /\ (Uncounted(q) => mine'[q] = mine[q])
      BY <2>2, <2>3
    <3>2. finished' = finished
      BY <2>2, <2>3
    <3>3. \A v : v \in Entered' <=> v \in Entered
      BY <3>1, <3>2, EnteredIs
    <3> HIDE DEF Entered
    <3>4. QED
      BY <3>3
  <2>4. QED
    BY <1>2, <2>1, <2>3
<1>3. QED
  BY <1>1, <1>2

\* No step of pop changes what was linked, nor anything of a push.
LEMMA PopEnters ==
  ASSUME StepTypes, LocalTypes, PopDecrement \/ Popping
  PROVE  Entered' = Entered /\ finished' = finished /\ failed' = failed /\ pushs' = pushs
         /\ \A p \in Producers : pc'[p] = pc[p] /\ mine'[p] = mine[p] /\ seen'[p] = seen[p] /\ next'[p] = next[p]
<1> DEFINE Same == /\ finished' = finished /\ failed' = failed /\ pushs' = pushs
                   /\ \A p \in Producers : pc'[p] = pc[p] /\ mine'[p] = mine[p] /\ seen'[p] = seen[p] /\ next'[p] = next[p]
<1>1. Same
  <2>1. CASE PopDecrement
    BY <2>1, PopDecrementMoves, Parties DEF PopDecrement, LocalTypes, record, queue
  <2>2. CASE PopFails
    BY <2>2, PopFailsMoves, Parties DEF PopFails, LocalTypes, record, queue
  <2>3. CASE PopReadHead
    BY <2>3, PopReadHeadMoves, Parties DEF PopReadHead, LocalTypes, record, queue
  <2>4. CASE PopReadTail
    BY <2>4, PopReadTailMoves, Parties DEF PopReadTail, LocalTypes, record, queue
  <2>5. CASE PopReadKey
    BY <2>5, PopReadKeyMoves, Parties DEF PopReadKey, LocalTypes, record, queue
  <2>6. CASE PopHelp
    BY <2>6, PopHelpMoves, Parties DEF PopHelp, LocalTypes, record, queue
  <2>7. CASE PopMoveHead
    BY <2>7, PopMoveHeadMoves, Parties DEF PopMoveHead, LocalTypes, record, queue
  <2>8. CASE FreeRead
    BY <2>8, FreeReadMoves, Parties DEF FreeRead, LocalTypes, record, queue
  <2>9. CASE FreeCAS
    BY <2>9, FreeCASMoves, Parties DEF FreeCAS, LocalTypes, record, queue
  <2>10. CASE PopValue
    BY <2>10, PopValueMoves, Parties DEF PopValue, LocalTypes, record, queue
  <2>11. QED
    BY <2>1, <2>2, <2>3, <2>4, <2>5, <2>6, <2>7, <2>8, <2>9, <2>10 DEF Popping
<1>2. QED
  BY ZenonT(60), <1>1, EnteredIs DEF Uncounted

\* The value of a node in the queue was linked once, or is the dummy's.
LEMMA QueueEntered ==
  ASSUME NEW live \in SUBSET Nodes, NEW owner \in [Nodes -> Threads], Ends(live, owner), Accounts(live, owner),
         NEW n \in live, owner[n] = Consumer
  PROVE  value[n] \in Entered \cup {0}
<1>1. CASE n = head[1]
  BY <1>1 DEF Ends, MAKE_NODEPTR
<1>2. CASE n # head[1]
  <2>1. n \in Linked(live, owner)
    BY <1>2 DEF Linked, Root, MAKE_NODEPTR
  <2>2. QED
    BY <2>1 DEF Accounts, Placed
<1>3. QED
  BY <1>1, <1>2

-----------------------------------------------------------------------------
(* What pushes read of the queue.                                          *)

\* What a push read stays good when what it read from is as it was, or was recycled.
LEMMA ReadsKept ==
  ASSUME NEW live, NEW more, NEW q \in Producers, Reads(q, live), Entered \subseteq Entered',
         pc'[q] = pc[q], seen'[q] = seen[q], mine'[q] = mine[q], next'[q] = next[q],
         NEW n, n = seen[q][1],
         pc[q] \in {"readKey", "link"} /\ key'[n] = NULL => n \in more \/ (key[n] = NULL /\ n \notin live),
         pc[q] \in {"swing", "help"} /\ value'[n] = seen[q][2] => value[n] = seen[q][2] /\ key'[n] = key[n]
  PROVE  Reads(q, more)'
<1>1. MAKE_NODEPTR(seen[q]) = n /\ MAKE_NODEPTR(seen'[q]) = n
  BY DEF MAKE_NODEPTR
<1> HIDE DEF Entered
<1>2. QED
  BY <1>1 DEF Reads

\* It does when no node changes.
LEMMA ReadsRest ==
  ASSUME NEW live, NEW q \in Producers, Reads(q, live), Entered \subseteq Entered',
         pc'[q] = pc[q], seen'[q] = seen[q], mine'[q] = mine[q], next'[q] = next[q],
         key' = key, value' = value
  PROVE  Reads(q, live)'
<1>1. DEFINE n == seen[q][1]
<1>2. pc[q] \in {"readKey", "link"} /\ key[n] = NULL => n \in live
  BY DEF Reads, MAKE_NODEPTR
<1>3. QED
  BY <1>2, ReadsKept

\* A push that has its node ready has a value that was not linked.
LEMMA NotEntered ==
  ASSUME NEW live, NEW owner, Accounts(live, owner), NEW p \in Producers, pc[p] # "idle", ~Uncounted(p)
  PROVE  mine[p][2] \notin Entered /\ mine[p][2] # 0
<1>1. /\ mine[p][2] \in 1 .. pushs /\ mine[p][2] \notin finished
      /\ \A q \in Producers \ {p} : pc[q] # "idle" => mine[q][2] # mine[p][2]
  BY DEF Accounts, Pushing
<1>2. pushs \in Nat => mine[p][2] # 0
  BY <1>1
<1>3. mine[p][2] # 0
  BY <1>1
<1>4. QED
  BY <1>1, <1>3, EnteredIs DEF Uncounted

\* A push that reads _tail has a node of the queue; the other reads follow it.
LEMMA PushReads ==
  ASSUME SharedTypes, StepTypes, LocalTypes, KeyTypes,
         NEW live \in SUBSET Nodes, NEW owner \in [Nodes -> Threads],
         Ends(live, owner), Accounts(live, owner), NEW p \in Producers, Reads(p, live),
         Push(p) \/ (Producing(p) /\ ~InitNode(p) /\ ~(Link(p) /\ key[MAKE_NODEPTR(seen[p])] = NULL))
  PROVE  Reads(p, live)'
<1>1. CASE Push(p)
  BY <1>1, PushMoves DEF Reads
<1>2. CASE AllocRead(p)
  BY <1>2, AllocReadMoves DEF Reads
<1>3. CASE AllocNext(p)
  BY <1>3, AllocNextMoves DEF Reads
<1>4. CASE AllocCAS(p)
  BY <1>4, AllocCASMoves DEF Reads
<1>5. CASE ReadTail(p)
  <2>1. pc'[p] = "readKey" /\ seen'[p] = tail /\ key' = key /\ value' = value /\ Entered' = Entered
    BY <1>5, ReadTailMoves, PushEnters, LinkMoves, Parties DEF ReadTail, LocalTypes, nodes, Producing
  <2>2. tail[1] \in live /\ tail[2] \in Entered \cup {0}
    BY QueueEntered DEF Ends, MAKE_NODEPTR
  <2>3. QED
    BY <2>1, <2>2 DEF Reads, MAKE_NODEPTR
<1>6. CASE ReadKey(p)
  <2>1. /\ pc[p] = "readKey" /\ pc'[p] = (IF key[seen[p][1]] = NULL THEN "link" ELSE "help")
        /\ seen' = seen /\ mine' = mine /\ key' = key /\ value' = value /\ next'[p] = key[seen[p][1]]
    BY <1>6, Parties DEF ReadKey, LocalTypes, nodes, Goto, MAKE_NODEPTR, StepTypes
  <2>2. Entered' = Entered
    BY <1>6, <2>1, PushEnters, LinkMoves DEF Producing
  <2>3. /\ key[seen[p][1]] = NULL => seen[p][1] \in live
        /\ seen[p][2] \in Entered \cup {0}
    BY <2>1 DEF Reads, MAKE_NODEPTR
  <2> HIDE DEF Entered
  <2>4. QED
    BY <2>1, <2>2, <2>3 DEF Reads, MAKE_NODEPTR
<1>7. CASE Link(p) /\ key[MAKE_NODEPTR(seen[p])] # NULL
  <2>1. pc'[p] = "readTail"
    BY <1>7, Parties DEF Link, Goto, StepTypes
  <2>2. QED
    BY <2>1 DEF Reads
<1>8. CASE Swing(p)
  BY <1>8, SwingMoves DEF Reads
<1>9. CASE Help(p)
  BY <1>9, HelpMoves DEF Reads
<1>10. CASE Count(p)
  BY <1>10, CountMoves DEF Reads
<1>11. QED
  BY <1>1, <1>2, <1>3, <1>4, <1>5, <1>6, <1>7, <1>8, <1>9, <1>10 DEF Producing

\* What a step of a push leaves alone of the other threads.
LEMMA PushLocal ==
  ASSUME StepTypes, LocalTypes, NEW p \in Producers, Push(p) \/ Producing(p)
  PROVE  \A t \in Threads \ {p} :
            pc'[t] = pc[t] /\ mine'[t] = mine[t] /\ seen'[t] = seen[t] /\ next'[t] = next[t]
<1>1. CASE Push(p)
  BY <1>1, PushMoves, Parties DEF Push, LocalTypes
<1>2. CASE AllocRead(p)
  BY <1>2, AllocReadMoves, Parties DEF AllocRead, LocalTypes
<1>3. CASE AllocNext(p)
  BY <1>3, AllocNextMoves, Parties DEF AllocNext, LocalTypes
<1>4. CASE AllocCAS(p)
  BY <1>4, AllocCASMoves, Parties DEF AllocCAS, LocalTypes
<1>5. CASE InitNode(p)
  BY <1>5, InitNodeMoves, Parties DEF InitNode, LocalTypes
<1>6. CASE ReadTail(p)
  BY <1>6, ReadTailMoves, Parties DEF ReadTail, LocalTypes
<1>7. CASE ReadKey(p)
  BY <1>7, ReadKeyMoves, Parties DEF ReadKey, LocalTypes
<1>8. CASE Link(p)
  BY <1>8, LinkMoves, Parties DEF Link, LocalTypes
<1>9. CASE Swing(p)
  BY <1>9, SwingMoves, Parties DEF Swing, LocalTypes
<1>10. CASE Help(p)
  BY <1>10, HelpMoves, Parties DEF Help, LocalTypes
<1>11. CASE Count(p)
  BY <1>11, CountMoves, Parties DEF Count, LocalTypes
<1>12. QED
  BY <1>1, <1>2, <1>3, <1>4, <1>5, <1>6, <1>7, <1>8, <1>9, <1>10, <1>11 DEF Producing

\* A node that is made ready has a value that no key has yet.
LEMMA InitReads ==
  ASSUME SharedTypes, StepTypes, LocalTypes, KeyTypes,
         NEW live \in SUBSET Nodes, NEW owner, Accounts(live, owner), NEW p \in Producers, InitNode(p),
         NEW m, m = mine[p][1], NEW more, more = live \cup {m},
         NEW q \in Producers, Reads(q, live)
  PROVE  Reads(q, more)'
<1>1. pc[p] = "init" /\ pc'[p] = "readTail"
  BY InitNodeMoves
<1>2. CASE q = p
  BY <1>1, <1>2 DEF Reads
<1>3. CASE q # p
  <2>0. PICK n : n = seen[q][1]
    OBVIOUS
  <2>1. /\ pc'[q] = pc[q] /\ mine'[q] = mine[q] /\ seen'[q] = seen[q] /\ next'[q] = next[q]
    BY <1>3, PushLocal, Parties DEF Producing
  <2>2. Entered' = Entered
    BY <1>1, PushEnters, LinkMoves DEF Producing
  <2>3. key' = [key EXCEPT ![m] = NULL] /\ value' = [value EXCEPT ![m] = mine[p][2]]
    BY DEF InitNode, MAKE_NODEPTR
  <2>4. mine[p][2] \notin Entered /\ mine[p][2] # 0
    BY <1>1, NotEntered DEF Uncounted
  <2> HIDE DEF Entered
  <2>5. pc[q] \in {"swing", "help"} => seen[q][2] \in Entered \cup {0} /\ n \in Nodes
    BY <2>0, LocalFacts DEF Reads
  <2>6. pc[q] \in {"swing", "help"} /\ value'[n] = seen[q][2] => value[n] = seen[q][2] /\ key'[n] = key[n]
    BY <2>3, <2>4, <2>5 DEF SharedTypes
  <2>7. pc[q] \in {"readKey", "link"} /\ key'[n] = NULL => n \in more
    <3>1. ASSUME n # m, pc[q] \in {"readKey", "link"} PROVE key'[n] = key[n]
      <4>1. n \in Nodes
        BY <2>0, <3>1, LocalFacts
      <4>2. QED
        BY <2>3, <3>1, <4>1 DEF SharedTypes
    <3>2. QED
      BY <2>0, <3>1 DEF Reads, MAKE_NODEPTR
  <2>8. QED
    BY <2>0, <2>1, <2>2, <2>6, <2>7, ReadsKept
<1>4. QED
  BY <1>2, <1>3

\* A node that gets a successor had none, so nobody had read one of it.
LEMMA LinkReads ==
  ASSUME SharedTypes, StepTypes, LocalTypes, KeyTypes,
         NEW live \in SUBSET Nodes, NEW p \in Producers, Link(p), key[seen[p][1]] = NULL, Reads(p, live),
         NEW q \in Producers, Reads(q, live)
  PROVE  Reads(q, live)'
<1> DEFINE m == seen[p][1]  n == seen[q][1]
<1>1. /\ pc[p] = "link" /\ pc'[p] = "swing"
      /\ seen' = seen /\ mine' = mine /\ value' = value /\ key' = [key EXCEPT ![m] = mine[p]]
  BY Parties DEF Link, Goto, StepTypes, MAKE_NODEPTR
<1>2. m \in Nodes /\ mine[p] \in Keys /\ NULL \notin Keys
  BY <1>1, LocalFacts, Parties, KeyFacts DEF Linking
<1>3. Entered \subseteq Entered'
  BY PushEnters DEF Producing, MAKE_NODEPTR
<1>4. key'[m] = mine[p] /\ \A k \in Nodes \ {m} : key'[k] = key[k]
  BY <1>1, <1>2 DEF SharedTypes
<1> HIDE DEF Entered
<1>5. CASE q = p
  <2>1. seen[p][2] \in Entered \cup {0}
    BY <1>1 DEF Reads
  <2>2. QED
    BY <1>1, <1>3, <1>4, <1>5, <2>1 DEF Reads, MAKE_NODEPTR
<1>6. CASE q # p
  <2>1. pc'[q] = pc[q] /\ mine'[q] = mine[q] /\ seen'[q] = seen[q] /\ next'[q] = next[q]
    BY <1>6, PushLocal, Parties DEF Producing
  <2>2. pc[q] \in {"readKey", "link", "swing", "help"} => n \in Nodes
    BY LocalFacts, Parties
  <2>3. pc[q] \in {"readKey", "link"} /\ key'[n] = NULL => n \in live
    BY <1>2, <1>4, <2>2 DEF Reads, MAKE_NODEPTR
  <2>4. pc[q] \in {"swing", "help"} /\ value[n] = seen[q][2] => key[n] # NULL
    <3>1. pc[q] = "swing" => mine[q] \in Keys
      BY LocalFacts, Parties
    <3>2. QED
      BY <1>2, <3>1 DEF Reads, MAKE_NODEPTR
  <2>5. pc[q] \in {"swing", "help"} /\ value'[n] = seen[q][2] => value[n] = seen[q][2] /\ key'[n] = key[n]
    BY <1>1, <1>4, <2>2, <2>4
  <2> HIDE DEF n
  <2>6. n = seen[q][1]
    BY DEF n
  <2>7. QED
    BY <1>3, <2>1, <2>3, <2>5, <2>6, ReadsKept
<1>7. QED
  BY <1>5, <1>6

\* The head that pop leaves behind has a successor.
LEMMA MoveReads ==
  ASSUME StepTypes, LocalTypes, NEW live \in SUBSET Nodes, PopMoveHead, NEW h, key[h] # NULL,
         NEW rest, rest = live \ {h}, NEW q \in Producers, Reads(q, live)
  PROVE  Reads(q, rest)'
<1>0. PICK n : n = seen[q][1]
  OBVIOUS
<1>1. key' = key /\ value' = value
  BY DEF PopMoveHead, nodes
<1>2. /\ Entered' = Entered
      /\ pc'[q] = pc[q] /\ mine'[q] = mine[q] /\ seen'[q] = seen[q] /\ next'[q] = next[q]
  BY PopEnters DEF Popping
<1>3. pc[q] \in {"readKey", "link"} /\ key'[n] = NULL => n \in rest
  BY <1>0, <1>1 DEF Reads, MAKE_NODEPTR
<1>4. QED
  BY <1>0, <1>1, <1>2, <1>3, ReadsKept

-----------------------------------------------------------------------------
(* No pushes wait for each other in a ring.                                *)

\* Nobody waits for a push that did not before.
LEMMA FewerWaits ==
  ASSUME NEW live, NEW owner, NEW more, NEW owner2, NoRing(live, owner),
         \A q, r \in Producers : Waits(q, r, more, owner2)' => Waits(q, r, live, owner)
  PROVE  NoRing(more, owner2)'
BY DEF NoRing

\* One push waits for nobody, and nobody but for it that did not before.
LEMMA OneAwaited ==
  ASSUME NEW live, NEW owner, NEW more, NEW owner2, NoRing(live, owner), NEW p \in Producers,
         \A r \in Producers : ~Waits(p, r, more, owner2)',
         \A q, r \in Producers \ {p} : Waits(q, r, more, owner2)' => Waits(q, r, live, owner)
  PROVE  NoRing(more, owner2)'
<1>1. ASSUME NEW W \in SUBSET Producers, W # {}
      PROVE  \E q \in W : \A r \in W : ~Waits(q, r, more, owner2)'
  <2>1. CASE p \in W
    BY <2>1
  <2>2. CASE p \notin W
    <3>1. PICK q \in W : \A r \in W : ~Waits(q, r, live, owner)
      BY <1>1 DEF NoRing
    <3>2. QED
      BY <2>2, <3>1
  <2>3. QED
    BY <2>1, <2>2
<1>2. QED
  BY <1>1 DEF NoRing

\* One push waits no more, and who waited for it waits for whom it waited.
LEMMA OnePasses ==
  ASSUME NEW live, NEW owner, NEW more, NEW owner2, NoRing(live, owner), NEW p \in Producers, NEW s,
         Waits(p, s, live, owner), \A r \in Producers : ~Waits(p, r, more, owner2)',
         \A q, r \in Producers \ {p} :
            Waits(q, r, more, owner2)' => Waits(q, r, live, owner) \/ (r = s /\ Waits(q, p, live, owner))
  PROVE  NoRing(more, owner2)'
<1>1. ASSUME NEW W \in SUBSET Producers, W # {}
      PROVE  \E q \in W : \A r \in W : ~Waits(q, r, more, owner2)'
  <2>1. CASE p \in W
    BY <2>1
  <2>2. CASE p \notin W /\ s \in W
    <3>1. PICK q \in W \cup {p} : \A r \in W \cup {p} : ~Waits(q, r, live, owner)
      BY <1>1 DEF NoRing
    <3>2. q # p
      BY <2>2, <3>1
    <3>3. QED
      BY <2>2, <3>1, <3>2
  <2>3. CASE p \notin W /\ s \notin W
    <3>1. PICK q \in W : \A r \in W : ~Waits(q, r, live, owner)
      BY <1>1 DEF NoRing
    <3>2. QED
      BY <2>3, <3>1
  <2>4. QED
    BY <2>1, <2>2, <2>3
<1>2. QED
  BY <1>1 DEF NoRing

\* A push that reads _tail waits for pop's queue.
LEMMA PushWaits ==
  ASSUME StepTypes, LocalTypes, NEW live, NEW owner, NoRing(live, owner), Ends(live, owner), NEW p \in Producers,
         Push(p) \/ (Producing(p) /\ ~InitNode(p) /\ ~(Link(p) /\ key[MAKE_NODEPTR(seen[p])] = NULL))
  PROVE  NoRing(live, owner)'
<1>1. \A q \in Producers \ {p} : \A r \in Producers : Waits(q, r, live, owner)' => Waits(q, r, live, owner)
  BY PushLocal, Parties DEF Waits
<1>2. ASSUME NEW r \in Producers, Waits(p, r, live, owner)' PROVE Waits(p, r, live, owner)
  <2>0. pc'[p] \in {"readKey", "link"}
    BY <1>2 DEF Waits
  <2>1. CASE Push(p)
    BY <2>0, <2>1, PushMoves
  <2>2. CASE AllocRead(p)
    BY <2>0, <2>2, AllocReadMoves
  <2>3. CASE AllocNext(p)
    BY <2>0, <2>3, AllocNextMoves
  <2>4. CASE AllocCAS(p)
    BY <2>0, <2>4, AllocCASMoves
  <2>5. CASE ReadTail(p)
    <3>1. seen'[p] = tail
      BY <2>5, Parties DEF ReadTail, LocalTypes
    <3>2. QED
      BY <1>2, <3>1, Parties DEF Waits, Ends
  <2>6. CASE ReadKey(p)
    <3>1. seen' = seen /\ pc[p] = "readKey"
      BY <2>6, ReadKeyMoves DEF ReadKey
    <3>2. QED
      BY <1>2, <3>1 DEF Waits
  <2>7. CASE Link(p) /\ key[MAKE_NODEPTR(seen[p])] # NULL
    BY <2>0, <2>7, LinkMoves
  <2>8. CASE Swing(p)
    BY <2>0, <2>8, SwingMoves
  <2>9. CASE Help(p)
    BY <2>0, <2>9, HelpMoves
  <2>10. CASE Count(p)
    BY <2>0, <2>10, CountMoves
  <2>11. QED
    BY <2>1, <2>2, <2>3, <2>4, <2>5, <2>6, <2>7, <2>8, <2>9, <2>10 DEF Producing
<1>3. \A q, r \in Producers : Waits(q, r, live, owner)' => Waits(q, r, live, owner)
  BY <1>1, <1>2
<1>4. QED
  BY <1>3, FewerWaits

\* Nobody waits for a push whose node was initialised just now.
LEMMA InitWaits ==
  ASSUME StepTypes, LocalTypes, NEW live, NEW owner, NEW place, NEW p, NEW n, NEW more, NEW owner2,
         Readied(live, owner, place, p, n, more, owner2), NoRing(live, owner)
  PROVE  NoRing(more, owner2)'
<1> SUFFICES ASSUME owner \in [Nodes -> Threads], p \in Producers, InitNode(p), n \in Nodes,
                    more = live \cup {n}, owner2 = [owner EXCEPT ![n] = p]
             PROVE  NoRing(more, owner2)'
  BY DEF Readied
<1>1. \A r : ~Waits(p, r, more, owner2)'
  BY InitNodeMoves DEF Waits
<1>2. ASSUME NEW q \in Producers \ {p}, NEW r \in Producers \ {p}, Waits(q, r, more, owner2)'
      PROVE  Waits(q, r, live, owner)
  <2>1. pc'[q] = pc[q] /\ seen'[q] = seen[q]
    BY PushLocal, Parties DEF Producing
  <2>2. owner2[n] = p /\ \A m : m # n => owner2[m] = owner[m]
    OBVIOUS
  <2>3. QED
    BY <1>2, <2>1, <2>2 DEF Waits
<1>3. QED
  BY <1>1, <1>2, OneAwaited

\* A push that links its node does not wait for itself, and the ones that waited for it
\* wait for the one that has its node now.
LEMMA LinkWaits ==
  ASSUME StepTypes, LocalTypes, KeyTypes, NEW live \in SUBSET Nodes, NEW owner \in [Nodes -> Threads],
         NoRing(live, owner), NEW p \in Producers, Link(p), key[seen[p][1]] = NULL, Reads(p, live)
  PROVE  /\ seen[p][1] \in live /\ owner[seen[p][1]] # p
         /\ \A n, owner2 : n = seen[p][1] /\ owner2 = Joined(owner, p, n) => NoRing(live, owner2)'
<1> DEFINE m == seen[p][1]
<1>1. pc[p] = "link" /\ pc'[p] = "swing" /\ seen' = seen
  BY Parties DEF Link, Goto, StepTypes, MAKE_NODEPTR
<1>2. m \in live
  BY <1>1 DEF Reads, MAKE_NODEPTR
<1>3. Waits(p, owner[m], live, owner)
  BY <1>1, <1>2 DEF Waits, MAKE_NODEPTR
<1>4. owner[m] # p
  <2>1. \E x \in {p} : \A y \in {p} : ~Waits(x, y, live, owner)
    <3>1. {p} \in SUBSET Producers /\ {p} # {}
      OBVIOUS
    <3>2. QED
      BY <3>1 DEF NoRing
  <2>2. QED
    BY <1>3, <2>1
<1>5. ASSUME NEW n, n = m, NEW owner2, owner2 = Joined(owner, p, n) PROVE NoRing(live, owner2)'
  <2>1. \A k \in live : owner2[k] = IF owner[k] = p THEN owner[n] ELSE owner[k]
    BY <1>5 DEF Joined
  <2>2. \A r : ~Waits(p, r, live, owner2)'
    BY <1>1 DEF Waits
  <2>3. ASSUME NEW q \in Producers \ {p}, NEW r \in Producers \ {p}, Waits(q, r, live, owner2)'
        PROVE  Waits(q, r, live, owner) \/ (r = owner[n] /\ Waits(q, p, live, owner))
    <3>1. pc'[q] = pc[q] /\ seen'[q] = seen[q]
      BY PushLocal, Parties DEF Producing
    <3>2. QED
      BY <2>1, <2>3, <3>1 DEF Waits
  <2>4. QED
    BY <1>3, <1>5, <2>2, <2>3, OnePasses
<1>6. QED
  BY <1>2, <1>4, <1>5

\* pop makes nobody wait.
LEMMA PopWaits ==
  ASSUME StepTypes, LocalTypes, NEW live, NEW owner, NEW more \in SUBSET live, NoRing(live, owner),
         PopDecrement \/ Popping
  PROVE  NoRing(more, owner)'
<1>1. \A q, r \in Producers : Waits(q, r, more, owner)' => Waits(q, r, live, owner)
  BY PopEnters DEF Waits
<1>2. QED
  BY <1>1, FewerWaits

-----------------------------------------------------------------------------
(* _head and _tail.                                                        *)

\* The ends stay, and pop's reads of them; nodes of the queue keep their values and
\* their successors.
LEMMA EndsKept ==
  ASSUME NEW live \in SUBSET Nodes, NEW owner, NEW more, NEW owner2, Ends(live, owner), Entered \subseteq Entered',
         head' = head, tail' = tail, head[1] \in live, owner[head[1]] = Consumer,
         pc'[Consumer] = pc[Consumer], mine'[Consumer] = mine[Consumer],
         seen'[Consumer] = seen[Consumer], next'[Consumer] = next[Consumer],
         \A n \in live : owner[n] = Consumer =>
            /\ n \in more /\ owner2[n] = Consumer /\ value'[n] = value[n]
            /\ key[n] # NULL => key'[n] = key[n]
  PROVE  Ends(more, owner2)'
<1> HIDE DEF Entered
<1>1. /\ tail[1] \in more /\ owner2[tail[1]] = Consumer
      /\ tail[2] = value'[tail[1]] /\ head[2] = value'[head[1]]
      /\ head[2] \in Entered' \cup {0}
      /\ key[head[1]] # NULL => key'[head[1]] = key[head[1]]
  BY DEF Ends, MAKE_NODEPTR
<1>2. QED
  BY <1>1 DEF Ends, MAKE_NODEPTR, Returning

\* _tail moves to the successor of its node.
LEMMA TailMoves ==
  ASSUME SharedTypes, NEW live \in SUBSET Nodes, NEW owner \in [Nodes -> Threads], NEW place \in [Nodes -> Int],
         Chains(live, owner, place), Ends(live, owner),
         key[tail[1]] # NULL, tail' = key[tail[1]], head' = head, key' = key, value' = value, Entered' = Entered,
         pc'[Consumer] = "readHead" \/
            ( pc'[Consumer] = pc[Consumer] /\ mine'[Consumer] = mine[Consumer]
              /\ seen'[Consumer] = seen[Consumer] /\ next'[Consumer] = next[Consumer] )
  PROVE  Ends(live, owner)'
<1> HIDE DEF Entered
<1>1. tail[1] \in live /\ owner[tail[1]] = Consumer
  BY DEF Ends, MAKE_NODEPTR
<1>2. tail'[1] \in live /\ owner[tail'[1]] = Consumer /\ tail'[2] = value[tail'[1]]
      /\ place[tail'[1]] = place[tail[1]] + 1
  <2>1. PICK m \in live : /\ m = key[tail[1]][1] /\ owner[m] = Consumer
                          /\ key[tail[1]] = MAKE_KEY(m, value[m]) /\ place[m] = place[tail[1]] + 1
    BY <1>1 DEF Chains, Follows
  <2>2. QED
    BY <2>1 DEF MAKE_KEY
<1>3. tail' # head
  <2>1. head[1] \in live /\ place[head[1]] =< place[tail[1]] /\ place[head[1]] \in Int /\ place[tail[1]] \in Int
    BY <1>1, HeadIn, Parties DEF Chains, Members, Root, MAKE_NODEPTR
  <2>2. QED
    BY <1>2, <2>1
<1>4. QED
  BY <1>2, <1>3 DEF Ends, MAKE_NODEPTR, Returning

\* Swing and Help move _tail to a successor or not at all.
LEMMA PushEnds ==
  ASSUME SharedTypes, StepTypes, LocalTypes, KeyTypes,
         NEW live \in SUBSET Nodes, NEW owner \in [Nodes -> Threads], NEW place \in [Nodes -> Int],
         Chains(live, owner, place), Ends(live, owner), NEW p \in Producers, Reads(p, live),
         Push(p) \/ (Producing(p) /\ ~InitNode(p) /\ ~(Link(p) /\ key[MAKE_NODEPTR(seen[p])] = NULL))
  PROVE  Ends(live, owner)'
<1>1. /\ pc'[Consumer] = pc[Consumer] /\ mine'[Consumer] = mine[Consumer]
      /\ seen'[Consumer] = seen[Consumer] /\ next'[Consumer] = next[Consumer]
  BY PushLocal, Parties
<1>2. Entered' = Entered
  BY PushMoves, LinkMoves, PushEnters
<1> HIDE DEF Entered
<1>3. head[1] \in live /\ owner[head[1]] = Consumer
  BY HeadIn
<1>4. key' = key /\ value' = value /\ head' = head
  <2>1. CASE Push(p)
    BY <2>1 DEF Push, queue, nodes
  <2>2. CASE AllocRead(p)
    BY <2>2 DEF AllocRead, queue, nodes
  <2>3. CASE AllocNext(p)
    BY <2>3 DEF AllocNext, queue, nodes
  <2>4. CASE AllocCAS(p)
    BY <2>4 DEF AllocCAS, queue, nodes
  <2>5. CASE ReadTail(p)
    BY <2>5 DEF ReadTail, queue, nodes
  <2>6. CASE ReadKey(p)
    BY <2>6 DEF ReadKey, queue, nodes
  <2>7. CASE Link(p) /\ key[MAKE_NODEPTR(seen[p])] # NULL
    BY <2>7 DEF Link, queue, nodes
  <2>8. CASE Swing(p)
    BY <2>8 DEF Swing, queue, nodes
  <2>9. CASE Help(p)
    BY <2>9 DEF Help, queue, nodes
  <2>10. CASE Count(p)
    BY <2>10 DEF Count, queue, nodes
  <2>11. QED
    BY <2>1, <2>2, <2>3, <2>4, <2>5, <2>6, <2>7, <2>8, <2>9, <2>10 DEF Producing
<1>5. tail' = tail \/ (key[tail[1]] # NULL /\ tail' = key[tail[1]])
  <2> DEFINE Goal == tail' = tail \/ (key[tail[1]] # NULL /\ tail' = key[tail[1]])
  <2>1. tail[2] = value[tail[1]]
    BY DEF Ends, MAKE_NODEPTR
  <2>2. CASE Push(p)
    BY <2>2 DEF Push, queue
  <2>3. CASE AllocRead(p)
    BY <2>3 DEF AllocRead, queue
  <2>4. CASE AllocNext(p)
    BY <2>4 DEF AllocNext, queue
  <2>5. CASE AllocCAS(p)
    BY <2>5 DEF AllocCAS, queue
  <2>6. CASE ReadTail(p)
    BY <2>6 DEF ReadTail, queue
  <2>7. CASE ReadKey(p)
    BY <2>7 DEF ReadKey, queue
  <2>8. CASE Link(p) /\ key[MAKE_NODEPTR(seen[p])] # NULL
    BY <2>8 DEF Link, queue
  <2>9. CASE Swing(p)
    <3>1. pc[p] = "swing" /\ mine[p] \in Keys /\ NULL \notin Keys
      BY <2>9, SwingMoves, LocalFacts, Parties, KeyFacts
    <3>2. tail = seen[p] => key[tail[1]] = mine[p]
      BY <2>1, <3>1 DEF Reads, MAKE_NODEPTR
    <3>3. QED
      BY <2>9, <3>1, <3>2 DEF Swing, MoveTail
  <2>10. CASE Help(p)
    <3>1. pc[p] = "help"
      BY <2>10, HelpMoves
    <3>2. tail = seen[p] => key[tail[1]] = next[p] /\ next[p] # NULL
      BY <2>1, <3>1 DEF Reads, MAKE_NODEPTR
    <3>3. QED
      BY <2>10, <3>2 DEF Help, MoveTail
  <2>11. CASE Count(p)
    BY <2>11 DEF Count, queue
  <2>12. QED
    BY <2>2, <2>3, <2>4, <2>5, <2>6, <2>7, <2>8, <2>9, <2>10, <2>11 DEF Producing
<1>6. CASE tail' = tail
  BY <1>1, <1>2, <1>3, <1>4, <1>6, EndsKept
<1>7. CASE key[tail[1]] # NULL /\ tail' = key[tail[1]]
  BY <1>1, <1>2, <1>4, <1>7, TailMoves
<1>8. QED
  BY <1>5, <1>6, <1>7

\* A node that is initialised is neither _head nor _tail, nor linked behind them,
LEMMA InitEnds ==
  ASSUME SharedTypes, StepTypes, LocalTypes,
         NEW live, NEW owner, NEW place, NEW p, NEW n, NEW more, NEW owner2,
         Readied(live, owner, place, p, n, more, owner2), Ends(live, owner)
  PROVE  Ends(more, owner2)'
<1> SUFFICES ASSUME live \in SUBSET Nodes, owner \in [Nodes -> Threads], Chains(live, owner, place),
                    p \in Producers, InitNode(p), n \in Nodes \ live, n = mine[p][1]
             PROVE  Ends(more, owner2)'
  BY DEF Readied
<1>1. /\ pc'[Consumer] = pc[Consumer] /\ mine'[Consumer] = mine[Consumer]
      /\ seen'[Consumer] = seen[Consumer] /\ next'[Consumer] = next[Consumer]
  BY PushLocal, Parties DEF Producing
<1>2. Entered' = Entered
  BY InitNodeMoves, LinkMoves, PushEnters DEF Producing
<1> HIDE DEF Entered
<1>3. head[1] \in live /\ owner[head[1]] = Consumer
  BY HeadIn
<1>4. head' = head /\ tail' = tail
  BY DEF InitNode, queue
<1>5. \A m \in live : owner[m] = Consumer =>
         /\ m \in more /\ owner2[m] = Consumer /\ value'[m] = value[m]
         /\ key[m] # NULL => key'[m] = key[m]
  BY DEF InitNode, MAKE_NODEPTR, SharedTypes, Readied
<1>6. QED
  BY <1>1, <1>2, <1>3, <1>4, <1>5, EndsKept

\* and a link leaves both where they are.
LEMMA LinkEnds ==
  ASSUME SharedTypes, StepTypes, LocalTypes,
         NEW live, NEW owner, NEW place, NEW p, NEW n, NEW r, NEW owner2, NEW place2,
         Extended(live, owner, place, p, n, r, owner2, place2), Ends(live, owner)
  PROVE  Ends(live, owner2)'
<1> SUFFICES ASSUME live \in SUBSET Nodes, owner \in [Nodes -> Threads], Chains(live, owner, place),
                    p \in Producers, Link(p), n \in live, n = seen[p][1], key[n] = NULL,
                    owner2 = Joined(owner, p, n)
             PROVE  Ends(live, owner2)'
  BY DEF Extended
<1>1. /\ pc'[Consumer] = pc[Consumer] /\ mine'[Consumer] = mine[Consumer]
      /\ seen'[Consumer] = seen[Consumer] /\ next'[Consumer] = next[Consumer]
  BY PushLocal, Parties DEF Producing
<1>2. Entered \subseteq Entered'
  BY PushEnters DEF Producing, MAKE_NODEPTR
<1> HIDE DEF Entered
<1>3. head[1] \in live /\ owner[head[1]] = Consumer
  BY HeadIn
<1>4. head' = head /\ tail' = tail /\ value' = value /\ key' = [key EXCEPT ![n] = mine[p]]
  BY DEF Link, queue, MAKE_NODEPTR
<1>5. \A m \in live : /\ owner[m] = Consumer => owner2[m] = Consumer
                      /\ key[m] # NULL => key'[m] = key[m]
  BY <1>4, Parties DEF Joined, SharedTypes
<1>6. QED
  BY <1>1, <1>2, <1>3, <1>4, <1>5, EndsKept

\* pop reads _head and _tail before the head's successor.
LEMMA PopEnds ==
  ASSUME SharedTypes, StepTypes, LocalTypes, KeyTypes,
         NEW live \in SUBSET Nodes, NEW owner \in [Nodes -> Threads], NEW place \in [Nodes -> Int],
         Chains(live, owner, place), Ends(live, owner),
         PopDecrement \/ (Popping /\ ~PopMoveHead)
  PROVE  Ends(live, owner)'
<1>1. Entered' = Entered
  BY PopEnters
<1> HIDE DEF Entered
<1>2. head[1] \in live /\ owner[head[1]] = Consumer
  BY HeadIn
<1>3. key' = key /\ value' = value /\ head' = head
  <2>1. CASE PopDecrement
    BY <2>1 DEF PopDecrement, queue, nodes
  <2>2. CASE PopFails
    BY <2>2 DEF PopFails, queue, nodes
  <2>3. CASE PopReadHead
    BY <2>3 DEF PopReadHead, queue, nodes
  <2>4. CASE PopReadTail
    BY <2>4 DEF PopReadTail, queue, nodes
  <2>5. CASE PopReadKey
    BY <2>5 DEF PopReadKey, queue, nodes
  <2>6. CASE PopHelp
    BY <2>6 DEF PopHelp, queue, nodes
  <2>7. CASE FreeRead
    BY <2>7 DEF FreeRead, queue, nodes
  <2>8. CASE FreeCAS
    BY <2>8 DEF FreeCAS, queue, nodes
  <2>9. CASE PopValue
    BY <2>9 DEF PopValue, queue, nodes
  <2>10. QED
    BY <2>1, <2>2, <2>3, <2>4, <2>5, <2>6, <2>7, <2>8, <2>9 DEF Popping
<1>4. CASE PopDecrement
  <2>1. tail' = tail /\ mine' = mine /\ next' = next
    BY <1>4 DEF PopDecrement, queue
  <2>2. QED
    BY <1>1, <1>3, <1>4, <2>1, PopDecrementMoves DEF Ends, Returning, MAKE_NODEPTR
<1>5. CASE PopFails
  <2>1. tail' = tail /\ mine' = mine /\ next' = next
    BY <1>5 DEF PopFails, queue
  <2>2. QED
    BY <1>1, <1>3, <1>5, <2>1, PopFailsMoves DEF Ends, Returning, MAKE_NODEPTR
<1>6. CASE PopReadHead
  <2>1. pc'[Consumer] = "popTail" /\ mine'[Consumer] = head /\ tail' = tail
    BY <1>6, PopReadHeadMoves, Parties DEF PopReadHead, LocalTypes, queue
  <2>2. QED
    BY <1>1, <1>3, <2>1 DEF Ends, Returning, MAKE_NODEPTR
<1>7. CASE PopReadTail
  <2>1. /\ pc[Consumer] = "popTail" /\ pc'[Consumer] = "popKey" /\ mine' = mine /\ tail' = tail
        /\ seen'[Consumer] = tail
    BY <1>7, PopReadTailMoves, Parties DEF PopReadTail, LocalTypes, queue
  <2>2. QED
    BY <1>1, <1>3, <2>1 DEF Ends, Returning, MAKE_NODEPTR
<1>8. CASE PopReadKey
  <2> DEFINE k == key[head[1]]
  <2>1. pc[Consumer] = "popKey" /\ mine[Consumer] = head
    BY <1>8, PopReadKeyMoves DEF Ends
  <2>2. /\ pc'[Consumer] = (IF k = NULL THEN "readHead"
                            ELSE IF head = seen[Consumer] THEN "popHelp" ELSE "popHead")
        /\ next'[Consumer] = k /\ mine' = mine /\ seen' = seen /\ tail' = tail
    BY <1>8, <2>1, Parties DEF PopReadKey, LocalTypes, StepTypes, queue, Goto, MAKE_NODEPTR
  <2>3. seen[Consumer] # head => tail # head
    BY <2>1 DEF Ends
  <2> HIDE DEF k
  <2>4. k = key[head[1]]
    BY DEF k
  <2>5. CASE k = NULL
    BY <1>1, <1>3, <2>1, <2>2, <2>5 DEF Ends, Returning, MAKE_NODEPTR
  <2>6. CASE k # NULL /\ head = seen[Consumer]
    BY <1>1, <1>3, <2>1, <2>2, <2>4, <2>6 DEF Ends, Returning, MAKE_NODEPTR
  <2>7. CASE k # NULL /\ head # seen[Consumer]
    BY <1>1, <1>3, <2>1, <2>2, <2>3, <2>4, <2>7 DEF Ends, Returning, MAKE_NODEPTR
  <2>8. QED
    BY <2>5, <2>6, <2>7
<1>9. CASE PopHelp
  <2>1. pc[Consumer] = "popHelp" /\ pc'[Consumer] = "readHead"
    BY <1>9, PopHelpMoves
  <2>2. seen[Consumer] = head /\ next[Consumer] # NULL /\ key[head[1]] = next[Consumer]
    BY <2>1 DEF Ends, MAKE_NODEPTR
  <2>3. tail' = IF tail = head THEN key[head[1]] ELSE tail
    BY <1>9, <2>2 DEF PopHelp, MoveTail
  <2>4. CASE tail = head
    BY <1>1, <1>3, <2>1, <2>2, <2>3, <2>4, TailMoves
  <2>5. CASE tail # head
    BY <1>1, <1>3, <2>1, <2>3, <2>5 DEF Ends, Returning, MAKE_NODEPTR
  <2>6. QED
    BY <2>4, <2>5
<1>10. CASE FreeRead
  <2>1. tail' = tail /\ mine' = mine /\ next' = next
    BY <1>10 DEF FreeRead, queue
  <2>2. QED
    BY <1>1, <1>3, <1>10, <2>1, FreeReadMoves DEF Ends, Returning, MAKE_NODEPTR
<1>11. CASE FreeCAS
  <2>1. tail' = tail /\ mine' = mine /\ next' = next
    BY <1>11 DEF FreeCAS, queue
  <2>2. QED
    BY <1>1, <1>3, <1>11, <2>1, FreeCASMoves DEF Ends, Returning, MAKE_NODEPTR
<1>12. CASE PopValue
  <2>1. tail' = tail /\ mine' = mine /\ next' = next
    BY <1>12 DEF PopValue, queue
  <2>2. QED
    BY <1>1, <1>3, <1>12, <2>1, PopValueMoves DEF Ends, Returning, MAKE_NODEPTR
<1>13. QED
  BY <1>4, <1>5, <1>6, <1>7, <1>8, <1>9, <1>10, <1>11, <1>12 DEF Popping

\* _tail is not the head that pop leaves behind.
LEMMA MoveEnds ==
  ASSUME SharedTypes, StepTypes, LocalTypes, KeyTypes,
         NEW live, NEW owner, NEW place, NEW h, NEW n, NEW rest, Advanced(live, owner, place, h, n, rest), Accounts(live, owner)
  PROVE  Ends(rest, owner)'
<1> SUFFICES ASSUME live \in SUBSET Nodes, owner \in [Nodes -> Threads],
                    Chains(live, owner, place), Ends(live, owner), PopMoveHead, h = head[1], n = next[Consumer][1], rest = live \ {h}
             PROVE  Ends(rest, owner)'
  BY DEF Advanced
<1>1. Entered' = Entered
  BY PopEnters DEF Popping
<1>2. /\ head' = next[Consumer] /\ key' = key /\ value' = value /\ n \in Linked(live, owner)
      /\ head' = MAKE_KEY(n, value[n])
  BY MoveChains
<1>3. /\ pc[Consumer] = "popHead" /\ pc'[Consumer] = "free"
      /\ tail' = tail /\ next' = next
  BY PopMoveHeadMoves DEF PopMoveHead
<1>4. value[n] \in Entered
  BY <1>2 DEF Accounts, Placed
<1> HIDE DEF Entered
<1>5. head'[1] = n /\ head'[2] = value[n] /\ head'[2] \in Entered
  BY <1>2, <1>4 DEF MAKE_KEY
<1>6. tail[1] # h
  <2>1. tail # head /\ tail[2] = value[tail[1]] /\ head[2] = value[head[1]]
    BY <1>3 DEF Ends, MAKE_NODEPTR
  <2>2. tail = <<tail[1], tail[2]>> /\ head = <<head[1], head[2]>>
    BY DEF SharedTypes, Keys
  <2>3. QED
    BY <2>1, <2>2
<1>7. tail[1] \in live \ {h} /\ owner[tail[1]] = Consumer /\ tail[2] = value[tail[1]]
  BY <1>6 DEF Ends, MAKE_NODEPTR
<1>8. QED
  BY <1>1, <1>2, <1>3, <1>5, <1>7 DEF Ends, MAKE_NODEPTR, Returning

-----------------------------------------------------------------------------
(* Where the values are.                                                   *)

\* A push that does not take this step keeps its value for itself.
LEMMA PushingKept ==
  ASSUME NEW q \in Producers, Pushing(q), pc'[q] = pc[q], mine'[q] = mine[q], NEW v,
         pushs \in Nat, pushs' \in {pushs, pushs + 1},
         finished' \subseteq finished \cup {v}, failed' \subseteq failed \cup {v},
         pc[q] # "idle" => v # mine[q][2],
         Linking(q) => value'[mine[q][1]] = value[mine[q][1]],
         \A r \in Producers \ {q} : pc'[r] # "idle" /\ pc[q] # "idle" => mine'[r][2] # mine[q][2]
  PROVE  Pushing(q)'
<1>1. SUFFICES ASSUME pc[q] # "idle" PROVE Pushing(q)'
  BY DEF Pushing
<1>2. mine[q][2] \in 1 .. pushs'
  BY <1>1 DEF Pushing
<1>3. (Uncounted(q)' <=> Uncounted(q)) /\ (Linking(q)' <=> Linking(q))
  BY DEF Uncounted, Linking
<1>4. QED
  BY <1>1, <1>2, <1>3 DEF Pushing, MAKE_NODEPTR

\* What a step of a push does to the values, but where they are in nodes.
LEMMA PushValues ==
  ASSUME SharedTypes, StepTypes, LocalTypes, KeyTypes, NEW p \in Producers, Push(p) \/ Producing(p)
  PROVE  /\ popped' = popped /\ head' = head /\ (Returning' <=> Returning)
         /\ ~InitNode(p) => value' = value
         /\ finished' \subseteq finished \cup {mine'[p][2]} /\ failed' \subseteq failed \cup {mine'[p][2]}
         /\ pc'[p] # "idle" => finished' = finished /\ failed' = failed
         /\ pc[p] = "idle" => pushs' = pushs + 1 /\ mine'[p][2] = pushs + 1 /\ ~Linking(p)'
         /\ pc[p] # "idle" => /\ pushs' = pushs /\ mine'[p][2] = mine[p][2] /\ (Uncounted(p) => pc'[p] = "idle" \/ Uncounted(p)')
                              /\ Linking(p)' => InitNode(p) \/ (Linking(p) /\ mine'[p] = mine[p])
         /\ pc[p] # "idle" => finished' = finished \/ (Uncounted(p) /\ failed' = failed)
         /\ failed' # failed => ~Uncounted(p) /\ finished' = finished /\ pc[p] # "idle"
<1>1. CASE Push(p)
  <2>1. mine'[p][2] = pushs + 1
    BY <1>1, Parties DEF Push, LocalTypes, MAKE_KEY
  <2>2. QED
    BY <1>1, <2>1, PushMoves, Parties DEF Push, Linking, Uncounted, Returning, queue, nodes, record
<1>2. CASE AllocRead(p)
  <2>1. pc[p] = "alloc" /\ (pc'[p] = "idle" \/ pc'[p] = "allocNext") /\ pc'[Consumer] = pc[Consumer]
    BY <1>2, AllocReadMoves, Parties
  <2>2. /\ failed' \in {failed, failed \cup {mine[p][2]}} /\ mine' = mine
        /\ pc'[p] = "allocNext" => failed' = failed
    BY <1>2, Parties DEF AllocRead, StepTypes
  <2>3. popped' = popped /\ head' = head /\ value' = value /\ finished' = finished /\ pushs' = pushs
    BY <1>2 DEF AllocRead, queue, nodes
  <2>4. QED
    BY <2>1, <2>2, <2>3 DEF Linking, Uncounted, Returning
<1>3. CASE AllocNext(p)
  BY <1>3, AllocNextMoves, Parties DEF AllocNext, Linking, Uncounted, Returning, queue, nodes, record
<1>4. CASE AllocCAS(p)
  <2>1. mine'[p][2] = mine[p][2]
    BY <1>4, Parties DEF AllocCAS, LocalTypes, MAKE_KEY
  <2>2. QED
    BY <1>4, <2>1, AllocCASMoves, Parties DEF AllocCAS, Linking, Uncounted, Returning, queue, nodes, record
<1>5. CASE InitNode(p)
  BY <1>5, InitNodeMoves, Parties DEF InitNode, Linking, Uncounted, Returning, queue, nodes, record
<1>6. CASE ReadTail(p)
  BY <1>6, ReadTailMoves, Parties DEF ReadTail, Linking, Uncounted, Returning, queue, nodes, record
<1>7. CASE ReadKey(p)
  BY <1>7, ReadKeyMoves, Parties DEF ReadKey, Linking, Uncounted, Returning, queue, nodes, record
<1>8. CASE Link(p)
  BY <1>8, LinkMoves, Parties DEF Link, Linking, Uncounted, Returning, queue, nodes, record
<1>9. CASE Swing(p)
  BY <1>9, SwingMoves, Parties DEF Swing, Linking, Uncounted, Returning, queue, nodes, record
<1>10. CASE Help(p)
  BY <1>10, HelpMoves, Parties DEF Help, Linking, Uncounted, Returning, queue, nodes, record
<1>11. CASE Count(p)
  BY <1>11, CountMoves, Parties DEF Count, Linking, Uncounted, Returning, queue, nodes, record
<1>12. QED
  BY <1>1, <1>2, <1>3, <1>4, <1>5, <1>6, <1>7, <1>8, <1>9, <1>10, <1>11 DEF Producing

\* A push has a value that no other one has.
LEMMA PushPushing ==
  ASSUME SharedTypes, StepTypes, LocalTypes, KeyTypes,
         NEW live \in SUBSET Nodes, NEW owner \in [Nodes -> Threads], NEW place,
         Chains(live, owner, place), Accounts(live, owner), NEW p \in Producers, Push(p) \/ Producing(p),
         InitNode(p) => mine[p][1] \notin live
  PROVE  \A q \in Producers : Pushing(q)'
<1>0. PICK v, n : v = mine'[p][2] /\ n = mine[p][1]
  OBVIOUS
<1>1. /\ \A q \in Producers : Pushing(q)
      /\ finished \subseteq 1 .. pushs /\ failed \subseteq 1 .. pushs /\ pushs \in Nat
  BY DEF Accounts, Placed, SharedTypes
<1>2. /\ finished' \subseteq finished \cup {v} /\ failed' \subseteq failed \cup {v}
      /\ pc'[p] # "idle" => finished' = finished /\ failed' = failed
      /\ pc[p] = "idle" => pushs' = pushs + 1 /\ v = pushs + 1 /\ ~Linking(p)'
      /\ pc[p] # "idle" => /\ pushs' = pushs /\ v = mine[p][2] /\ (Uncounted(p) => pc'[p] = "idle" \/ Uncounted(p)')
                           /\ Linking(p)' => InitNode(p) \/ (Linking(p) /\ mine'[p] = mine[p])
      /\ ~InitNode(p) => value' = value
  BY <1>0, PushValues
<1>3. \A q \in Producers \ {p} : pc'[q] = pc[q] /\ mine'[q] = mine[q]
  BY PushLocal, Parties
<1>4. \A q \in Producers \ {p} : pc[q] # "idle" => v # mine[q][2]
  <2>1. CASE pc[p] = "idle"
    BY <1>1, <1>2, <2>1 DEF Pushing
  <2>2. CASE pc[p] # "idle"
    BY <1>1, <1>2, <2>2 DEF Pushing
  <2>3. QED
    BY <2>1, <2>2
<1>5. InitNode(p) => value' = [value EXCEPT ![n] = mine[p][2]] /\ mine' = mine /\ n \in Nodes \ live
  <2>1. InitNode(p) => n \in Nodes
    BY <1>0, InitNodeMoves, LocalFacts, Parties DEF Lone
  <2>2. QED
    BY <1>0, <2>1 DEF InitNode, MAKE_NODEPTR
<1>6. ASSUME NEW q \in Producers \ {p} PROVE Pushing(q)'
  <2>1. Linking(q) => mine[q][1] \in live
    BY Parties DEF Chains, Starts, Rooted, Root, MAKE_NODEPTR
  <2>2. Linking(q) => value'[mine[q][1]] = value[mine[q][1]]
    BY <1>2, <1>5, <2>1 DEF SharedTypes
  <2>3. \A r \in Producers \ {q} : pc'[r] # "idle" /\ pc[q] # "idle" => mine'[r][2] # mine[q][2]
    BY <1>0, <1>1, <1>3, <1>4 DEF Pushing
  <2>4. pushs' \in {pushs, pushs + 1}
    BY <1>2
  <2>5. QED
    BY <1>1, <1>2, <1>3, <1>4, <2>2, <2>3, <2>4, PushingKept
<1>7. Pushing(p)'
  <2>1. SUFFICES ASSUME pc'[p] # "idle" PROVE Pushing(p)'
    BY DEF Pushing
  <2>2. v \in 1 .. pushs' /\ v \notin failed
    BY <1>1, <1>2 DEF Pushing
  <2>3. ~Uncounted(p)' => v \notin finished
    BY <1>1, <1>2, <2>1 DEF Pushing
  <2>4. Linking(p)' => value'[mine'[p][1]] = v
    <3>1. CASE InitNode(p)
      BY <1>0, <1>5, <3>1 DEF SharedTypes
    <3>2. CASE ~InitNode(p)
      BY <1>1, <1>2, <3>2 DEF Pushing, MAKE_NODEPTR, Linking
    <3>3. QED
      BY <3>1, <3>2
  <2>5. \A q \in Producers \ {p} : pc'[q] # "idle" => mine'[q][2] # v
    BY <1>3, <1>4
  <2>6. QED
    BY <1>0, <1>2, <2>1, <2>2, <2>3, <2>4, <2>5 DEF Pushing, MAKE_NODEPTR
<1>8. QED
  BY <1>6, <1>7

\* What is linked, and what pop takes, stays.
LEMMA PlacedKept ==
  ASSUME NEW live, NEW owner, NEW more, NEW owner2, Placed(live, owner),
         popped' = popped, head' = head, Returning' <=> Returning, Entered' = Entered,
         NEW L, L = Linked(live, owner), L = Linked(more, owner2)', \A n \in L : value'[n] = value[n],
         finished' \subseteq 1 .. pushs', failed' \subseteq 1 .. pushs', finished' \cap failed' = {}
  PROVE  Placed(more, owner2)'
<1>1. {value'[n] : n \in L} = {value[n] : n \in L}
  OBVIOUS
<1> HIDE DEF Entered, Linked, Returning
<1>2. QED
  BY <1>1 DEF Placed
\* A value that is appended is one more element.
LEMMA AppendRange ==
  ASSUME NEW E, NEW s \in Seq(E), NEW e \in E
  PROVE  /\ Range(Append(s, e)) = Range(s) \cup {e}
         /\ IsInjective(s) /\ e \notin Range(s) => IsInjective(Append(s, e))
<1>1. PICK t : t = Append(s, e)
  OBVIOUS
<1>2. /\ DOMAIN s = 1 .. Len(s) /\ DOMAIN t = 1 .. Len(s) + 1 /\ Len(s) \in Nat
      /\ t[Len(s) + 1] = e /\ \A i \in 1 .. Len(s) : t[i] = s[i]
  BY <1>1, AppendProperties, LenProperties
<1>3. Range(t) = Range(s) \cup {e}
  <2>1. \A x : x \in Range(t) <=> \E i \in 1 .. Len(s) + 1 : x = t[i]
    BY <1>2 DEF Range
  <2>2. \A x : x \in Range(s) <=> \E i \in 1 .. Len(s) : x = s[i]
    BY <1>2 DEF Range
  <2>3. \A i : i \in 1 .. Len(s) + 1 <=> i \in 1 .. Len(s) \/ i = Len(s) + 1
    BY <1>2
  <2>4. QED
    BY <1>2, <2>1, <2>2, <2>3
<1>4. IsInjective(s) /\ e \notin Range(s) => IsInjective(t)
  BY <1>2 DEF IsInjective, Range
<1>5. QED
  BY <1>1, <1>3, <1>4

\* A step of a push leaves the values that are in order so.
LEMMA PushSets ==
  ASSUME SharedTypes, StepTypes, LocalTypes, KeyTypes, NEW live, NEW owner, Accounts(live, owner),
         NEW p \in Producers, Push(p) \/ Producing(p)
  PROVE  finished' \subseteq 1 .. pushs' /\ failed' \subseteq 1 .. pushs' /\ finished' \cap failed' = {}
<1>0. PICK v : v = mine'[p][2]
  OBVIOUS
<1>1. /\ finished' \subseteq finished \cup {v} /\ failed' \subseteq failed \cup {v}
      /\ pc[p] = "idle" => pushs' = pushs + 1 /\ v = pushs + 1
      /\ pc[p] # "idle" => pushs' = pushs /\ v = mine[p][2]
      /\ pc[p] # "idle" => finished' = finished \/ (Uncounted(p) /\ failed' = failed)
      /\ failed' # failed => ~Uncounted(p) /\ finished' = finished /\ pc[p] # "idle"
      /\ pc'[p] # "idle" => finished' = finished /\ failed' = failed
  BY <1>0, PushValues
<1>2. /\ finished \subseteq 1 .. pushs /\ failed \subseteq 1 .. pushs /\ pushs \in Nat /\ finished \cap failed = {}
      /\ pc[p] # "idle" => v \in 1 .. pushs /\ v \notin failed /\ (~Uncounted(p) => v \notin finished)
  BY <1>1 DEF Accounts, Placed, Pushing, SharedTypes
<1>3. v \in 1 .. pushs'
  BY <1>1, <1>2
<1>4. finished' \cap failed' = {}
  <2>1. CASE pc[p] = "idle"
    <3>1. pc'[p] # "idle"
      BY <2>1, PushMoves, AllocReadMoves, AllocNextMoves, AllocCASMoves, InitNodeMoves, ReadTailMoves,
         ReadKeyMoves, LinkMoves, SwingMoves, HelpMoves, CountMoves DEF Producing
    <3>2. QED
      BY <1>1, <1>2, <3>1
  <2>2. CASE pc[p] # "idle" /\ failed' # failed
    BY <1>1, <1>2, <2>2
  <2>3. CASE pc[p] # "idle" /\ failed' = failed
    BY <1>1, <1>2, <2>3
  <2>4. QED
    BY <2>1, <2>2, <2>3
<1>5. finished \cup {v} \subseteq 1 .. pushs' /\ failed \cup {v} \subseteq 1 .. pushs'
  <2>1. 1 .. pushs \subseteq 1 .. pushs'
    BY <1>1, <1>2
  <2>2. QED
    BY <1>2, <1>3, <2>1
<1>6. QED
  BY <1>1, <1>4, <1>5

\* The steps of a push that change no chain leave the values where they are;
LEMMA PushAccounts ==
  ASSUME SharedTypes, StepTypes, LocalTypes, KeyTypes,
         NEW live \in SUBSET Nodes, NEW owner \in [Nodes -> Threads], NEW place,
         Chains(live, owner, place), Accounts(live, owner), NEW p \in Producers,
         Push(p) \/ (Producing(p) /\ ~InitNode(p) /\ ~(Link(p) /\ key[MAKE_NODEPTR(seen[p])] = NULL))
  PROVE  Accounts(live, owner)'
<1>0. PICK L : L = Linked(live, owner)
  OBVIOUS
<1>1. L = Linked(live, owner)' /\ value' = value
  BY <1>0, PushRests, ChainsSame DEF ChainsRest
<1>2. Entered' = Entered
  BY PushMoves, LinkMoves, PushEnters
<1>3. popped' = popped /\ head' = head /\ (Returning' <=> Returning)
  BY PushValues
<1> HIDE DEF Entered, Returning, Linked
<1>4. Placed(live, owner)'
  BY <1>0, <1>1, <1>2, <1>3, PushSets, PlacedKept DEF Accounts
<1>5. \A q \in Producers : Pushing(q)'
  <2>1. ~InitNode(p)
    <3>1. CASE Push(p)
      BY <3>1, PushMoves, InitNodeMoves
    <3>2. QED
      BY <3>1
  <2>2. QED
    BY <2>1, PushPushing
<1>6. QED
  BY <1>4, <1>5 DEF Accounts

\* a node that is initialised is linked nowhere;
LEMMA InitAccounts ==
  ASSUME SharedTypes, StepTypes, LocalTypes, KeyTypes,
         NEW live, NEW owner, NEW place, NEW p, NEW n, NEW more, NEW owner2,
         Readied(live, owner, place, p, n, more, owner2), Accounts(live, owner)
  PROVE  Accounts(more, owner2)'
<1> SUFFICES ASSUME live \in SUBSET Nodes, owner \in [Nodes -> Threads], Chains(live, owner, place),
                    p \in Producers, InitNode(p), n \in Nodes \ live, n = mine[p][1]
             PROVE  Accounts(more, owner2)'
  BY DEF Readied
<1>0. PICK L : L = Linked(live, owner)
  OBVIOUS
<1>1. L = Linked(more, owner2)'
  BY <1>0, InitChains
<1>2. Entered' = Entered
  BY InitNodeMoves, LinkMoves, PushEnters DEF Producing
<1>3. popped' = popped /\ head' = head /\ (Returning' <=> Returning)
  BY PushValues DEF Producing
<1>4. \A m \in L : value'[m] = value[m]
  BY <1>0 DEF Linked, InitNode, MAKE_NODEPTR, SharedTypes
<1>5. finished' \subseteq 1 .. pushs' /\ failed' \subseteq 1 .. pushs' /\ finished' \cap failed' = {}
  BY PushSets DEF Producing
<1> HIDE DEF Entered, Returning, Linked
<1>6. Placed(more, owner2)'
  BY <1>0, <1>1, <1>2, <1>3, <1>4, <1>5, PlacedKept DEF Accounts
<1>7. \A q \in Producers : Pushing(q)'
  BY PushPushing DEF Producing
<1>8. QED
  BY <1>6, <1>7 DEF Accounts

\* The value of a push enters with its node.
LEMMA LinkAccounts ==
  ASSUME SharedTypes, StepTypes, LocalTypes, KeyTypes,
         NEW live, NEW owner, NEW place, NEW p, NEW n, NEW r, NEW owner2, NEW place2,
         Extended(live, owner, place, p, n, r, owner2, place2), Accounts(live, owner)
  PROVE  Accounts(live, owner2)'
<1> SUFFICES ASSUME live \in SUBSET Nodes, owner \in [Nodes -> Threads], Chains(live, owner, place),
                    p \in Producers, Link(p), n \in live, n = seen[p][1], key[n] = NULL,
                    mine[p] = MAKE_KEY(r, value[r])
             PROVE  Accounts(live, owner2)'
  BY DEF Extended
<1>0. PICK L, v : L = Linked(live, owner) /\ v = mine[p][2]
  OBVIOUS
<1>1. r \notin L /\ Linked(live, owner2)' = L \cup {r} /\ value' = value /\ head' = head
  BY <1>0, LinkChains
<1>2. v = value[r] /\ v \notin Entered
  <2>1. pc[p] = "link"
    BY LinkMoves
  <2>2. QED
    BY <1>0, <2>1, NotEntered DEF Uncounted, MAKE_KEY
<1>3. Entered' = Entered \cup {v}
  BY <1>0, PushEnters DEF Producing, MAKE_NODEPTR
<1>4. popped' = popped /\ (Returning' <=> Returning)
  BY PushValues DEF Producing
<1>5. finished' \subseteq 1 .. pushs' /\ failed' \subseteq 1 .. pushs' /\ finished' \cap failed' = {}
  BY PushSets DEF Producing
<1> HIDE DEF Entered, Returning, Linked
<1>6. /\ Entered = Range(popped) \cup {value[m] : m \in L} \cup (IF Returning THEN {head[2]} ELSE {})
      /\ IsInjective(popped)
      /\ \A m \in L : /\ value[m] \notin Range(popped)
                      /\ \A k \in L : value[m] = value[k] => m = k
                      /\ Returning => value[m] # head[2]
      /\ Returning => head[2] \notin Range(popped)
  BY <1>0 DEF Accounts, Placed
<1>7. v \notin Range(popped) /\ (\A m \in L : value[m] # v) /\ (Returning => head[2] # v)
  BY <1>2, <1>6
<1>8. Entered' = Range(popped) \cup {value[m] : m \in L \cup {r}} \cup (IF Returning THEN {head[2]} ELSE {})
  BY <1>2, <1>3, <1>6
<1>9. \A m \in L \cup {r} : /\ value[m] \notin Range(popped)
                            /\ \A k \in L \cup {r} : value[m] = value[k] => m = k
                            /\ Returning => value[m] # head[2]
  BY <1>2, <1>6, <1>7
<1>10. Placed(live, owner2)'
  BY <1>1, <1>4, <1>5, <1>6, <1>8, <1>9 DEF Placed
<1>11. \A q \in Producers : Pushing(q)'
  <2>1. ~InitNode(p)
    BY LinkMoves, InitNodeMoves
  <2>2. QED
    BY <2>1, PushPushing DEF Producing
<1>12. QED
  BY <1>10, <1>11 DEF Accounts

\* pop leaves the pushes alone.
LEMMA PopPushing ==
  ASSUME SharedTypes, StepTypes, LocalTypes, KeyTypes, NEW live, NEW owner, Accounts(live, owner),
         PopDecrement \/ Popping
  PROVE  /\ \A q \in Producers : Pushing(q)'
         /\ finished' \subseteq 1 .. pushs' /\ failed' \subseteq 1 .. pushs' /\ finished' \cap failed' = {}
         /\ value' = value
<1>1. value' = value
  <2>1. CASE PopMoveHead
    BY <2>1 DEF PopMoveHead, nodes
  <2>2. QED
    BY <2>1, PopRests DEF ChainsRest
<1>2. finished' = finished /\ failed' = failed /\ pushs' = pushs
      /\ \A p \in Producers : pc'[p] = pc[p] /\ mine'[p] = mine[p]
  BY PopEnters
<1>3. ASSUME NEW q \in Producers PROVE Pushing(q)'
  BY <1>1, <1>2 DEF Accounts, Pushing, Uncounted, Linking
<1>4. QED
  BY <1>1, <1>2, <1>3 DEF Accounts, Placed

\* neither do those of pop, until it moves the head or returns a value.
LEMMA PopAccounts ==
  ASSUME SharedTypes, StepTypes, LocalTypes, KeyTypes,
         NEW live \in SUBSET Nodes, NEW owner \in [Nodes -> Threads], NEW place,
         Chains(live, owner, place), Accounts(live, owner),
         PopDecrement \/ (Popping /\ ~PopMoveHead /\ ~PopValue)
  PROVE  Accounts(live, owner)'
<1>0. PICK L : L = Linked(live, owner)
  OBVIOUS
<1>1. L = Linked(live, owner)' /\ value' = value
  BY <1>0, PopRests, ChainsSame DEF ChainsRest
<1>2. Entered' = Entered
  BY PopEnters
<1>3. popped' = popped /\ head' = head /\ (Returning' <=> Returning)
  <2>1. CASE PopDecrement
    BY <2>1, PopDecrementMoves DEF PopDecrement, Returning, queue, record
  <2>2. CASE PopFails
    BY <2>2, PopFailsMoves DEF PopFails, Returning, queue, record
  <2>3. CASE PopReadHead
    BY <2>3, PopReadHeadMoves DEF PopReadHead, Returning, queue, record
  <2>4. CASE PopReadTail
    BY <2>4, PopReadTailMoves DEF PopReadTail, Returning, queue, record
  <2>5. CASE PopReadKey
    BY <2>5, PopReadKeyMoves DEF PopReadKey, Returning, queue, record
  <2>6. CASE PopHelp
    BY <2>6, PopHelpMoves DEF PopHelp, Returning, queue, record
  <2>7. CASE FreeRead
    BY <2>7, FreeReadMoves DEF FreeRead, Returning, queue, record
  <2>8. CASE FreeCAS
    BY <2>8, FreeCASMoves DEF FreeCAS, Returning, queue, record
  <2>9. QED
    BY <2>1, <2>2, <2>3, <2>4, <2>5, <2>6, <2>7, <2>8 DEF Popping
<1> HIDE DEF Entered, Returning, Linked
<1>4. Placed(live, owner)'
  BY <1>0, <1>1, <1>2, <1>3, PopPushing, PlacedKept DEF Accounts
<1>5. QED
  BY <1>4, PopPushing DEF Accounts

\* pop takes the value that is next off the queue,
LEMMA MoveAccounts ==
  ASSUME SharedTypes, StepTypes, LocalTypes, KeyTypes,
         NEW live, NEW owner, NEW place, NEW h, NEW n, NEW rest, Advanced(live, owner, place, h, n, rest), Accounts(live, owner)
  PROVE  Accounts(rest, owner)'
<1> SUFFICES ASSUME live \in SUBSET Nodes, owner \in [Nodes -> Threads],
                    Chains(live, owner, place), Ends(live, owner), PopMoveHead, h = head[1], n = next[Consumer][1], rest = live \ {h}
             PROVE  Accounts(rest, owner)'
  BY DEF Advanced
<1>0. PICK L, v : L = Linked(live, owner) /\ v = value[n]
  OBVIOUS
<1>1. /\ Linked(rest, owner)' = L \ {n} /\ n \in L /\ value' = value /\ head'[2] = v
  BY <1>0, MoveChains DEF MAKE_KEY
<1>2. Entered' = Entered
  BY PopEnters DEF Popping
<1>3. popped' = popped /\ Returning' /\ ~Returning
  BY PopMoveHeadMoves DEF PopMoveHead, record, Returning
<1> HIDE DEF Entered, Returning, Linked
<1>4. /\ Entered = Range(popped) \cup {value[m] : m \in L}
      /\ IsInjective(popped)
      /\ \A m \in L : value[m] \notin Range(popped) /\ \A k \in L : value[m] = value[k] => m = k
  BY <1>0, <1>3 DEF Accounts, Placed
<1>5. Entered = Range(popped) \cup {value[m] : m \in L \ {n}} \cup {v}
  BY <1>0, <1>1, <1>4
<1>6. \A m \in L \ {n} : value[m] # v
  BY <1>0, <1>1, <1>4
<1>7. v \notin Range(popped)
  BY <1>0, <1>1, <1>4
<1>8. finished' \subseteq 1 .. pushs' /\ failed' \subseteq 1 .. pushs' /\ finished' \cap failed' = {}
  BY PopPushing DEF Popping
<1>9. Placed(rest, owner)'
  <2>1. PICK K : K = L \ {n}
    OBVIOUS
  <2>2. Linked(rest, owner)' = K
    BY <1>1, <2>1
  <2>3. Entered' = Range(popped') \cup {value'[m] : m \in K} \cup {head'[2]}
    BY <1>1, <1>2, <1>3, <1>5, <2>1
  <2>4. \A m \in K : /\ value'[m] \notin Range(popped') /\ value'[m] # head'[2]
                        /\ \A k \in K : value'[m] = value'[k] => m = k
    BY <1>1, <1>3, <1>4, <1>6, <2>1
  <2>5. IsInjective(popped') /\ head'[2] \notin Range(popped')
    BY <1>1, <1>3, <1>4, <1>7
  <2>6. QED
    BY <1>3, <1>8, <2>2, <2>3, <2>4, <2>5 DEF Placed
<1>10. \A q \in Producers : Pushing(q)'
  BY PopPushing DEF Popping
<1>11. QED
  BY <1>9, <1>10 DEF Accounts

\* and has it popped when it reads it from the new head.
LEMMA ValueAccounts ==
  ASSUME SharedTypes, StepTypes, LocalTypes, KeyTypes,
         NEW live \in SUBSET Nodes, NEW owner \in [Nodes -> Threads], NEW place,
         Chains(live, owner, place), Ends(live, owner), Accounts(live, owner), PopValue
  PROVE  Accounts(live, owner)'
<1>0. PICK L, v : L = Linked(live, owner) /\ v = head[2]
  OBVIOUS
<1>1. L = Linked(live, owner)' /\ value' = value
  BY <1>0, PopRests, PopValueMoves, PopMoveHeadMoves, ChainsSame DEF ChainsRest, Popping
<1>2. Entered' = Entered
  BY PopEnters DEF Popping
<1>3. popped' = Append(popped, v) /\ ~Returning' /\ Returning
  <2>1. pc[Consumer] = "value" /\ pc'[Consumer] = "idle"
    BY PopValueMoves
  <2>2. next[Consumer] = head /\ head[2] = value[head[1]]
    BY <2>1 DEF Ends, Returning, MAKE_NODEPTR
  <2>3. QED
    BY <1>0, <2>1, <2>2 DEF PopValue, Returning, MAKE_NODEPTR
<1> HIDE DEF Entered, Returning, Linked
<1>4. /\ Entered = Range(popped) \cup {value[m] : m \in L} \cup {v}
      /\ IsInjective(popped) /\ popped \in Seq(Nat) /\ v \in Nat
      /\ \A m \in L : value[m] \notin Range(popped) /\ value[m] # v /\ \A k \in L : value[m] = value[k] => m = k
      /\ v \notin Range(popped)
  BY <1>0, <1>3 DEF Accounts, Placed, SharedTypes, Keys
<1>5. Range(popped') = Range(popped) \cup {v} /\ IsInjective(popped')
  BY <1>3, <1>4, AppendRange
<1>6. finished' \subseteq 1 .. pushs' /\ failed' \subseteq 1 .. pushs' /\ finished' \cap failed' = {}
  BY PopPushing DEF Popping
<1>7. Placed(live, owner)'
  <2>1. PICK R, S : R = Range(popped) /\ S = Range(popped')
    OBVIOUS
  <2>2. Entered' = S \cup {value'[m] : m \in L}
    BY <1>1, <1>2, <1>4, <1>5, <2>1
  <2>3. \A m \in L : value'[m] \notin S /\ \A k \in L : value'[m] = value'[k] => m = k
    BY <1>1, <1>4, <1>5, <2>1
  <2>4. QED
    BY <1>1, <1>3, <1>5, <1>6, <2>1, <2>2, <2>3 DEF Placed
<1>8. \A q \in Producers : Pushing(q)'
  BY PopPushing DEF Popping
<1>9. QED
  BY <1>7, <1>8 DEF Accounts

-----------------------------------------------------------------------------
(* The size.                                                               *)

\* There are finitely many linked nodes.
LEMMA LinkedFinite ==
  ASSUME NEW live \in SUBSET Nodes, NEW owner
  PROVE  IsFiniteSet(Linked(live, owner))
<1>1. IsFiniteSet(Nodes)
  BY Parties, FS_Interval DEF Nodes
<1>2. Linked(live, owner) \subseteq Nodes
  BY DEF Linked
<1>3. QED
  BY <1>1, <1>2, FS_Subset

\* What the size should be when the linked nodes are M, which were L, but for x.
Balanced(L, M, x, p) ==
    size' = size + (IF x \in M THEN 1 ELSE 0) - (IF x \in L THEN 1 ELSE 0)
                 - (IF p \in Producers /\ Uncounted(p)' THEN 1 ELSE 0)
                 + (IF p \in Producers /\ Uncounted(p) THEN 1 ELSE 0)
                 - (IF Promised' THEN 1 ELSE 0) + (IF Promised THEN 1 ELSE 0)

\* The size moves with the nodes that are linked, the pushes that have not counted
\* theirs, and pop's promise.
LEMMA SizeMoves ==
  ASSUME size \in Int, NEW live, NEW owner, NEW more, NEW owner2, SizeIsExact(live, owner),
         NEW L, L = Linked(live, owner), IsFiniteSet(L), NEW M, M = Linked(more, owner2)',
         NEW x, L \ {x} = M \ {x},
         NEW p, \A q \in Producers \ {p} : Uncounted(q)' <=> Uncounted(q),
         Balanced(L, M, x, p)
  PROVE  SizeIsExact(more, owner2)'
<1>1. PICK B, C : B = {q \in Producers : Uncounted(q)} /\ C = {q \in Producers : Uncounted(q)'}
  OBVIOUS
<1>2. IsFiniteSet(B) /\ B \ {p} = C \ {p}
  BY <1>1, QueueAssumption, FS_Subset
<1>3. /\ Cardinality(L) \in Nat /\ Cardinality(M) \in Nat
      /\ Cardinality(M) = Cardinality(L) + (IF x \in M THEN 1 ELSE 0) - (IF x \in L THEN 1 ELSE 0)
  BY OneChanges
<1>4. /\ Cardinality(B) \in Nat /\ Cardinality(C) \in Nat
      /\ Cardinality(C) = Cardinality(B) + (IF p \in C THEN 1 ELSE 0) - (IF p \in B THEN 1 ELSE 0)
  BY <1>2, OneChanges
<1>5. (p \in C <=> p \in Producers /\ Uncounted(p)') /\ (p \in B <=> p \in Producers /\ Uncounted(p))
  BY <1>1
<1>6. Cardinality(L) = size + Cardinality(B) + (IF Promised THEN 1 ELSE 0)
  BY <1>1 DEF SizeIsExact
<1>7. SizeIsExact(more, owner2)' <=> Cardinality(M) = size' + Cardinality(C) + (IF Promised' THEN 1 ELSE 0)
  BY <1>1 DEF SizeIsExact
<1> HIDE DEF Promised, Uncounted
<1>8. QED
  BY <1>3, <1>4, <1>5, <1>6, <1>7 DEF Balanced

\* What a step of a push does to the size.
LEMMA PushSizes ==
  ASSUME StepTypes, LocalTypes, NEW p \in Producers, Push(p) \/ Producing(p)
  PROVE  /\ \A q \in Producers \ {p} : Uncounted(q)' <=> Uncounted(q)
         /\ Promised' <=> Promised
         /\ Count(p) => size' = size + 1 /\ Uncounted(p) /\ ~Uncounted(p)'
         /\ ~Count(p) => size' = size
         /\ ~Count(p) /\ ~(Link(p) /\ key[MAKE_NODEPTR(seen[p])] = NULL) => (Uncounted(p)' <=> Uncounted(p))
         /\ Link(p) /\ key[MAKE_NODEPTR(seen[p])] = NULL => ~Uncounted(p) /\ Uncounted(p)'
<1>1. \A t \in Threads \ {p} : pc'[t] = pc[t]
  BY PushLocal
<1>2. (\A q \in Producers \ {p} : Uncounted(q)' <=> Uncounted(q)) /\ (Promised' <=> Promised)
  BY <1>1, Parties DEF Uncounted, Promised
<1>3. CASE Push(p)
  <2>1. size' = size
    BY <1>3 DEF Push, queue
  <2>2. QED
    BY <1>2, <1>3, <2>1, PushMoves, LinkMoves, CountMoves DEF Uncounted
<1>4. CASE AllocRead(p)
  <2>1. size' = size
    BY <1>4 DEF AllocRead, queue
  <2>2. QED
    BY <1>2, <1>4, <2>1, AllocReadMoves, LinkMoves, CountMoves DEF Uncounted
<1>5. CASE AllocNext(p)
  <2>1. size' = size
    BY <1>5 DEF AllocNext, queue
  <2>2. QED
    BY <1>2, <1>5, <2>1, AllocNextMoves, LinkMoves, CountMoves DEF Uncounted
<1>6. CASE AllocCAS(p)
  <2>1. size' = size
    BY <1>6 DEF AllocCAS, queue
  <2>2. QED
    BY <1>2, <1>6, <2>1, AllocCASMoves, LinkMoves, CountMoves DEF Uncounted
<1>7. CASE InitNode(p)
  <2>1. size' = size
    BY <1>7 DEF InitNode, queue
  <2>2. QED
    BY <1>2, <1>7, <2>1, InitNodeMoves, LinkMoves, CountMoves DEF Uncounted
<1>8. CASE ReadTail(p)
  <2>1. size' = size
    BY <1>8 DEF ReadTail, queue
  <2>2. QED
    BY <1>2, <1>8, <2>1, ReadTailMoves, LinkMoves, CountMoves DEF Uncounted
<1>9. CASE ReadKey(p)
  <2>1. size' = size
    BY <1>9 DEF ReadKey, queue
  <2>2. QED
    BY <1>2, <1>9, <2>1, ReadKeyMoves, LinkMoves, CountMoves DEF Uncounted
<1>10. CASE Link(p)
  <2>1. pc[p] = "link" /\ pc'[p] = IF key[MAKE_NODEPTR(seen[p])] = NULL THEN "swing" ELSE "readTail"
    BY <1>10, Parties DEF Link, Goto, StepTypes
  <2>2. size' = size
    BY <1>10 DEF Link, queue
  <2>3. QED
    BY <1>2, <1>10, <2>1, <2>2, CountMoves DEF Uncounted
<1>11. CASE Swing(p)
  <2>1. size' = size
    BY <1>11 DEF Swing, queue
  <2>2. QED
    BY <1>2, <1>11, <2>1, SwingMoves, LinkMoves, CountMoves DEF Uncounted
<1>12. CASE Help(p)
  <2>1. size' = size
    BY <1>12 DEF Help, queue
  <2>2. QED
    BY <1>2, <1>12, <2>1, HelpMoves, LinkMoves, CountMoves DEF Uncounted
<1>13. CASE Count(p)
  <2>1. size' = size + 1
    BY <1>13 DEF Count, queue
  <2>2. QED
    BY <1>2, <1>13, <2>1, CountMoves, LinkMoves DEF Uncounted
<1>14. QED
  BY <1>3, <1>4, <1>5, <1>6, <1>7, <1>8, <1>9, <1>10, <1>11, <1>12, <1>13 DEF Producing

\* The steps of a push that change no chain keep size exact,
LEMMA PushSize ==
  ASSUME SharedTypes, StepTypes, LocalTypes, KeyTypes,
         NEW live \in SUBSET Nodes, NEW owner \in [Nodes -> Threads], NEW place,
         Chains(live, owner, place), SizeIsExact(live, owner), NEW p \in Producers,
         Push(p) \/ (Producing(p) /\ ~InitNode(p) /\ ~(Link(p) /\ key[MAKE_NODEPTR(seen[p])] = NULL))
  PROVE  SizeIsExact(live, owner)'
<1>0. PICK L, x : L = Linked(live, owner) /\ x \notin L
  <2>1. 0 \notin Linked(live, owner)
    BY DEF Linked, Nodes
  <2>2. QED
    BY <2>1
<1>1. L = Linked(live, owner)'
  BY <1>0, PushRests, ChainsSame
<1>2. IsFiniteSet(L) /\ size \in Int
  BY <1>0, LinkedFinite DEF SharedTypes
<1>3. /\ \A q \in Producers \ {p} : Uncounted(q)' <=> Uncounted(q)
      /\ Promised' <=> Promised
      /\ \/ size' = size + 1 /\ Uncounted(p) /\ ~Uncounted(p)'
         \/ size' = size /\ (Uncounted(p)' <=> Uncounted(p))
  BY PushSizes, PushMoves, LinkMoves, CountMoves
<1> HIDE DEF Linked, Promised, Uncounted
<1>4. Balanced(L, L, x, p)
  BY <1>0, <1>2, <1>3 DEF Balanced
<1>5. QED
  BY <1>0, <1>1, <1>2, <1>3, <1>4, SizeMoves

\* and so does a node that is initialised.
LEMMA InitSize ==
  ASSUME SharedTypes, StepTypes, LocalTypes, KeyTypes,
         NEW live, NEW owner, NEW place, NEW p, NEW n, NEW more, NEW owner2,
         Readied(live, owner, place, p, n, more, owner2), SizeIsExact(live, owner)
  PROVE  SizeIsExact(more, owner2)'
<1>0. PICK L, x : L = Linked(live, owner) /\ x \notin L
  <2>1. 0 \notin Linked(live, owner)
    BY DEF Linked, Nodes, Readied
  <2>2. QED
    BY <2>1
<1>1. L = Linked(more, owner2)'
  BY <1>0, InitChains
<1>2. IsFiniteSet(L) /\ size \in Int /\ p \in Producers /\ InitNode(p)
  BY <1>0, LinkedFinite DEF SharedTypes, Readied
<1>3. /\ \A q \in Producers \ {p} : Uncounted(q)' <=> Uncounted(q)
      /\ Promised' <=> Promised
      /\ size' = size /\ (Uncounted(p)' <=> Uncounted(p))
  BY <1>2, PushSizes, InitNodeMoves, LinkMoves, CountMoves DEF Producing
<1> HIDE DEF Linked, Promised, Uncounted
<1>4. Balanced(L, L, x, p)
  BY <1>0, <1>2, <1>3 DEF Balanced
<1>5. QED
  BY <1>0, <1>1, <1>2, <1>3, <1>4, SizeMoves

\* A node that is linked is not counted yet.
LEMMA LinkSize ==
  ASSUME SharedTypes, StepTypes, LocalTypes, KeyTypes,
         NEW live, NEW owner, NEW place, NEW p, NEW n, NEW r, NEW owner2, NEW place2,
         Extended(live, owner, place, p, n, r, owner2, place2), SizeIsExact(live, owner)
  PROVE  SizeIsExact(live, owner2)'
<1>0. PICK L, M : L = Linked(live, owner) /\ M = L \cup {r}
  OBVIOUS
<1>1. M = Linked(live, owner2)' /\ r \notin L
  BY <1>0, LinkChains
<1>2. IsFiniteSet(L) /\ size \in Int /\ p \in Producers /\ Link(p) /\ key[MAKE_NODEPTR(seen[p])] = NULL
  BY <1>0, LinkedFinite DEF SharedTypes, Extended, MAKE_NODEPTR
<1>3. /\ \A q \in Producers \ {p} : Uncounted(q)' <=> Uncounted(q)
      /\ Promised' <=> Promised
      /\ size' = size /\ ~Uncounted(p) /\ Uncounted(p)'
  BY <1>2, PushSizes, LinkMoves, CountMoves DEF Producing
<1>4. L \ {r} = M \ {r} /\ r \in M
  BY <1>0
<1> HIDE DEF Linked, Promised, Uncounted
<1>5. Balanced(L, M, r, p)
  BY <1>1, <1>2, <1>3, <1>4 DEF Balanced
<1>6. QED
  BY <1>0, <1>1, <1>2, <1>3, <1>4, <1>5, SizeMoves

\* pop counts down when it begins, and up again when it fails.
LEMMA PopSize ==
  ASSUME SharedTypes, StepTypes, LocalTypes, KeyTypes,
         NEW live \in SUBSET Nodes, NEW owner \in [Nodes -> Threads], NEW place,
         Chains(live, owner, place), SizeIsExact(live, owner),
         PopDecrement \/ (Popping /\ ~PopMoveHead)
  PROVE  SizeIsExact(live, owner)'
<1>0. PICK L, x : L = Linked(live, owner) /\ x \notin L
  <2>1. 0 \notin Linked(live, owner)
    BY DEF Linked, Nodes
  <2>2. QED
    BY <2>1
<1>1. L = Linked(live, owner)'
  BY <1>0, PopRests, ChainsSame
<1>2. IsFiniteSet(L) /\ size \in Int
  BY <1>0, LinkedFinite DEF SharedTypes
<1>3. \A q \in Producers : Uncounted(q)' <=> Uncounted(q)
  BY PopEnters DEF Uncounted
<1>4. \/ size' = size - 1 /\ ~Promised /\ Promised'
      \/ size' = size + 1 /\ Promised /\ ~Promised'
      \/ size' = size /\ (Promised' <=> Promised)

  <2>1. CASE PopDecrement
    BY <2>1, PopDecrementMoves DEF PopDecrement, Promised, queue
  <2>2. CASE PopFails
    BY <2>2, PopFailsMoves DEF PopFails, Promised, queue
  <2>3. CASE PopReadHead
    BY <2>3, PopReadHeadMoves DEF PopReadHead, Promised, queue
  <2>4. CASE PopReadTail
    BY <2>4, PopReadTailMoves DEF PopReadTail, Promised, queue
  <2>5. CASE PopReadKey
    BY <2>5, PopReadKeyMoves DEF PopReadKey, Promised, queue
  <2>6. CASE PopHelp
    BY <2>6, PopHelpMoves DEF PopHelp, Promised, queue
  <2>7. CASE FreeRead
    BY <2>7, FreeReadMoves DEF FreeRead, Promised, queue
  <2>8. CASE FreeCAS
    BY <2>8, FreeCASMoves DEF FreeCAS, Promised, queue
  <2>9. CASE PopValue
    BY <2>9, PopValueMoves DEF PopValue, Promised, queue
  <2>10. QED
    BY <2>1, <2>2, <2>3, <2>4, <2>5, <2>6, <2>7, <2>8, <2>9 DEF Popping
<1>5. PICK p : p \notin Producers
  BY Parties
<1> HIDE DEF Linked, Promised, Uncounted
<1>6. Balanced(L, L, x, p)
  BY <1>0, <1>2, <1>4, <1>5 DEF Balanced
<1>7. QED
  BY <1>0, <1>1, <1>2, <1>3, <1>6, SizeMoves

\* pop keeps its promise when it takes a node off.
LEMMA MoveSize ==
  ASSUME SharedTypes, StepTypes, LocalTypes, KeyTypes,
         NEW live, NEW owner, NEW place, NEW h, NEW n, NEW rest, Advanced(live, owner, place, h, n, rest), SizeIsExact(live, owner)
  PROVE  SizeIsExact(rest, owner)'
<1> SUFFICES ASSUME live \in SUBSET Nodes, owner \in [Nodes -> Threads],
                    Chains(live, owner, place), Ends(live, owner), PopMoveHead, h = head[1], n = next[Consumer][1], rest = live \ {h}
             PROVE  SizeIsExact(rest, owner)'
  BY DEF Advanced
<1>0. PICK L, M : L = Linked(live, owner) /\ M = L \ {n}
  OBVIOUS
<1>1. Linked(rest, owner)' = M /\ n \in L
  BY <1>0, MoveChains
<1>2. IsFiniteSet(L) /\ size \in Int
  BY <1>0, LinkedFinite DEF SharedTypes
<1>3. (\A q \in Producers : Uncounted(q)' <=> Uncounted(q)) /\ size' = size /\ Promised /\ ~Promised'
  BY PopEnters, PopMoveHeadMoves DEF Uncounted, Popping, PopMoveHead, Promised
<1>4. PICK p : p \notin Producers
  BY Parties
<1>5. L \ {n} = M \ {n} /\ n \notin M
  BY <1>0
<1> HIDE DEF Linked, Promised, Uncounted
<1>6. Balanced(L, M, n, p)
  BY <1>1, <1>2, <1>3, <1>4, <1>5 DEF Balanced
<1>7. QED
  BY <1>0, <1>1, <1>2, <1>3, <1>5, <1>6, SizeMoves
-----------------------------------------------------------------------------
(* The invariant is inductive.                                             *)

\* The lists are kept by the steps of a push that change no chain,
LEMMA PushKeeps ==
  ASSUME SharedTypes, StepTypes, LocalTypes, KeyTypes,
         NEW live \in SUBSET Nodes, NEW owner \in [Nodes -> Threads], NEW place \in [Nodes -> Int],
         ListInv(live, owner, place), NEW p \in Producers,
         Push(p) \/ (Producing(p) /\ ~InitNode(p) /\ ~(Link(p) /\ key[MAKE_NODEPTR(seen[p])] = NULL))
  PROVE  ListInv(live, owner, place)'
<1>1. /\ Chains(live, owner, place) /\ Ends(live, owner) /\ NoRing(live, owner)
      /\ Accounts(live, owner) /\ SizeIsExact(live, owner) /\ \A q \in Producers : Reads(q, live)
  BY DEF ListInv
<1>2. Chains(live, owner, place)'
  BY <1>1, PushRests, ChainsSame
<1>3. Ends(live, owner)'
  BY <1>1, PushEnds
<1>4. NoRing(live, owner)'
  BY <1>1, PushWaits
<1>5. Accounts(live, owner)'
  BY <1>1, PushAccounts
<1>6. SizeIsExact(live, owner)'
  BY <1>1, PushSize
<1>7. Reads(p, live)'
  BY <1>1, PushReads
<1>8. ASSUME NEW q \in Producers \ {p} PROVE Reads(q, live)'
  <2>1. pc'[q] = pc[q] /\ seen'[q] = seen[q] /\ mine'[q] = mine[q] /\ next'[q] = next[q]
    BY PushLocal, Parties
  <2>2. key' = key /\ value' = value
    BY PushRests DEF ChainsRest
  <2>3. Entered \subseteq Entered'
    BY PushEnters, PushMoves, LinkMoves
  <2> HIDE DEF Entered
  <2>4. QED
    BY <1>1, <2>1, <2>2, <2>3, ReadsRest
<1>9. QED
  BY <1>2, <1>3, <1>4, <1>5, <1>6, <1>7, <1>8 DEF ListInv

\* by InitNode,
LEMMA InitKeeps ==
  ASSUME SharedTypes, StepTypes, LocalTypes, KeyTypes,
         NEW live, NEW owner, NEW place, NEW p, NEW n, NEW more, NEW owner2,
         Readied(live, owner, place, p, n, more, owner2), ListInv(live, owner, place)
  PROVE  /\ more \in SUBSET Nodes /\ owner2 \in [Nodes -> Threads]
         /\ ListInv(more, owner2, place)'
<1>1. /\ Chains(live, owner, place) /\ Ends(live, owner) /\ NoRing(live, owner)
      /\ Accounts(live, owner) /\ SizeIsExact(live, owner) /\ \A q \in Producers : Reads(q, live)
  BY DEF ListInv
<1>2. more \in SUBSET Nodes /\ owner2 \in [Nodes -> Threads] /\ Chains(more, owner2, place)'
  BY InitChains
<1>3. Ends(more, owner2)'
  BY <1>1, InitEnds
<1>4. NoRing(more, owner2)'
  BY <1>1, InitWaits
<1>5. Accounts(more, owner2)'
  BY <1>1, InitAccounts
<1>6. SizeIsExact(more, owner2)'
  BY <1>1, InitSize
<1>7. ASSUME NEW q \in Producers PROVE Reads(q, more)'
  <2>1. live \in SUBSET Nodes /\ p \in Producers /\ InitNode(p) /\ n = mine[p][1] /\ more = live \cup {n}
    BY DEF Readied
  <2>2. QED
    BY <1>1, <2>1, InitReads
<1>8. QED
  BY <1>2, <1>3, <1>4, <1>5, <1>6, <1>7 DEF ListInv

\* by a link that succeeds,
LEMMA LinkKeeps ==
  ASSUME SharedTypes, StepTypes, LocalTypes, KeyTypes,
         NEW live \in SUBSET Nodes, NEW owner \in [Nodes -> Threads], NEW place \in [Nodes -> Int],
         ListInv(live, owner, place), NEW p \in Producers, Link(p), key[MAKE_NODEPTR(seen[p])] = NULL
  PROVE  \E owner2 \in [Nodes -> Threads], place2 \in [Nodes -> Int] : ListInv(live, owner2, place2)'
<1>1. /\ Chains(live, owner, place) /\ Ends(live, owner) /\ NoRing(live, owner)
      /\ Accounts(live, owner) /\ SizeIsExact(live, owner) /\ \A q \in Producers : Reads(q, live)
  BY DEF ListInv
<1>2. PICK n, r : n = seen[p][1] /\ r = mine[p][1]
  OBVIOUS
<1>3. PICK owner2, place2 : owner2 = Joined(owner, p, n) /\ place2 = Moved(owner, place, p, n, r)
  OBVIOUS
<1>4. /\ key[n] = NULL /\ n \in live /\ owner[n] # p
      /\ \A k, x : k = seen[p][1] /\ x = Joined(owner, p, k) => NoRing(live, x)'
  BY <1>1, <1>2, LinkWaits DEF MAKE_NODEPTR
<1>5. r \in Nodes /\ mine[p] = MAKE_KEY(r, value[r])
  <2>1. pc[p] = "link"
    BY LinkMoves
  <2>2. mine[p] \in Keys /\ value[r] = mine[p][2]
    BY <1>1, <1>2, <2>1, LocalFacts, Parties DEF Accounts, Pushing, Linking, MAKE_NODEPTR
  <2>3. QED
    BY <1>2, <2>2 DEF Keys, MAKE_KEY
<1>6. Extended(live, owner, place, p, n, r, owner2, place2)
  BY <1>1, <1>2, <1>3, <1>4, <1>5 DEF Extended
<1>7. owner2 \in [Nodes -> Threads] /\ place2 \in [Nodes -> Int] /\ Chains(live, owner2, place2)'
  BY <1>6, LinkChains
<1>8. Ends(live, owner2)'
  BY <1>1, <1>6, LinkEnds
<1>9. NoRing(live, owner2)'
  BY <1>2, <1>3, <1>4
<1>10. Accounts(live, owner2)'
  BY <1>1, <1>6, LinkAccounts
<1>11. SizeIsExact(live, owner2)'
  BY <1>1, <1>6, LinkSize
<1>12. ASSUME NEW q \in Producers PROVE Reads(q, live)'
  BY <1>1, <1>2, <1>4, LinkReads
<1>13. ListInv(live, owner2, place2)'
  BY <1>7, <1>8, <1>9, <1>10, <1>11, <1>12 DEF ListInv
<1>14. QED
  BY <1>7, <1>13

\* by the steps of pop that do not move the head,
LEMMA PopKeeps ==
  ASSUME SharedTypes, StepTypes, LocalTypes, KeyTypes,
         NEW live \in SUBSET Nodes, NEW owner \in [Nodes -> Threads], NEW place \in [Nodes -> Int],
         ListInv(live, owner, place), PopDecrement \/ (Popping /\ ~PopMoveHead)
  PROVE  ListInv(live, owner, place)'
<1>1. /\ Chains(live, owner, place) /\ Ends(live, owner) /\ NoRing(live, owner)
      /\ Accounts(live, owner) /\ SizeIsExact(live, owner) /\ \A q \in Producers : Reads(q, live)
  BY DEF ListInv
<1>2. Chains(live, owner, place)'
  BY <1>1, PopRests, ChainsSame
<1>3. Ends(live, owner)'
  BY <1>1, PopEnds
<1>4. NoRing(live, owner)'
  <2>1. live \in SUBSET live
    OBVIOUS
  <2>2. QED
    BY <1>1, <2>1, PopWaits
<1>5. Accounts(live, owner)'
  BY <1>1, PopAccounts, ValueAccounts
<1>6. SizeIsExact(live, owner)'
  BY <1>1, PopSize
<1>7. ASSUME NEW q \in Producers PROVE Reads(q, live)'
  <2>1. pc'[q] = pc[q] /\ seen'[q] = seen[q] /\ mine'[q] = mine[q] /\ next'[q] = next[q]
    BY PopEnters
  <2>2. key' = key /\ value' = value
    BY PopRests DEF ChainsRest
  <2>3. Entered \subseteq Entered'
    BY PopEnters
  <2> HIDE DEF Entered
  <2>4. QED
    BY <1>1, <2>1, <2>2, <2>3, ReadsRest
<1>8. QED
  BY <1>2, <1>3, <1>4, <1>5, <1>6, <1>7 DEF ListInv

\* and by the one that does.
LEMMA MoveKeeps ==
  ASSUME SharedTypes, StepTypes, LocalTypes, KeyTypes,
         NEW live, NEW owner, NEW place, NEW h, NEW n, NEW rest,
         Advanced(live, owner, place, h, n, rest), ListInv(live, owner, place)
  PROVE  ListInv(rest, owner, place)'
<1>1. /\ Chains(live, owner, place) /\ Ends(live, owner) /\ NoRing(live, owner)
      /\ Accounts(live, owner) /\ SizeIsExact(live, owner) /\ \A q \in Producers : Reads(q, live)
  BY DEF ListInv
<1>2. Chains(rest, owner, place)' /\ key[h] # NULL
  BY MoveChains
<1>3. Ends(rest, owner)'
  BY <1>1, MoveEnds
<1>4. PopMoveHead /\ rest \in SUBSET live /\ live \in SUBSET Nodes /\ rest = live \ {h}
  BY DEF Advanced
<1>5. NoRing(rest, owner)'
  BY <1>1, <1>4, PopWaits DEF Popping
<1>6. Accounts(rest, owner)'
  BY <1>1, MoveAccounts
<1>7. SizeIsExact(rest, owner)'
  BY <1>1, MoveSize
<1>8. ASSUME NEW q \in Producers PROVE Reads(q, rest)'
  BY <1>1, <1>2, <1>4, MoveReads
<1>9. QED
  BY <1>2, <1>3, <1>5, <1>6, <1>7, <1>8 DEF ListInv

\* What the queue and the pool consist of is so after every step.
LEMMA PartsKept ==
  ASSUME QueueInv, Next
  PROVE  \E live, pooled \in SUBSET Nodes, owner \in [Nodes -> Threads],
            place, depth \in [Nodes -> Int], tag \in [Nodes -> Nat] :
            PoolInv(live, pooled, depth, tag)' /\ ListInv(live, owner, place)'
<1>1. SharedTypes /\ StepTypes /\ LocalTypes /\ KeyTypes
  BY DEF QueueInv, QueueTypes
<1>2. PICK live \in SUBSET Nodes, pooled \in SUBSET Nodes, owner \in [Nodes -> Threads],
           place \in [Nodes -> Int], depth \in [Nodes -> Int], tag \in [Nodes -> Nat] :
           PoolInv(live, pooled, depth, tag) /\ ListInv(live, owner, place)
  BY DEF QueueInv
<1>3. ASSUME NEW p \in Producers,
             Push(p) \/ (Producing(p) /\ ~InitNode(p) /\ ~(Link(p) /\ key[MAKE_NODEPTR(seen[p])] = NULL))
      PROVE  \E pooled2 \in SUBSET Nodes : PoolInv(live, pooled2, depth, tag)' /\ ListInv(live, owner, place)'
  <2>1. ListInv(live, owner, place)'
    BY <1>1, <1>2, <1>3, PushKeeps
  <2>2. CASE AllocCAS(p) /\ topKey = seen[p]
    <3>1. PICK n, rest : n = seen[p][1] /\ rest = pooled \ {n}
      OBVIOUS
    <3>2. rest \in SUBSET Nodes /\ PoolInv(live, rest, depth, tag)'
      BY <1>1, <1>2, <2>2, <3>1, AllocTakes
    <3>3. QED
      BY <2>1, <3>2
  <2>3. CASE ~(AllocCAS(p) /\ topKey = seen[p])
    <3>1. PoolInv(live, pooled, depth, tag)'
      BY <1>1, <1>2, <1>3, <2>3, PushLeavesPool
    <3>2. QED
      BY <2>1, <3>1
  <2>4. QED
    BY <2>2, <2>3
<1>4. ASSUME NEW p \in Producers, InitNode(p)
      PROVE  \E more \in SUBSET Nodes, owner2 \in [Nodes -> Threads] :
                PoolInv(more, pooled, depth, tag)' /\ ListInv(more, owner2, place)'
  <2>1. PICK n, more, owner2 : n = mine[p][1] /\ more = live \cup {n} /\ owner2 = [owner EXCEPT ![n] = p]
    OBVIOUS
  <2>2. n \in Nodes \ live /\ PoolInv(more, pooled, depth, tag)'
    <3>1. Readies(live, p, n, more)
      BY <1>4, <2>1 DEF Readies
    <3>2. QED
      BY <1>1, <1>2, <3>1, InitLeavesPool
  <2>3. Readied(live, owner, place, p, n, more, owner2)
    BY <1>2, <1>4, <2>1, <2>2 DEF Readied, ListInv
  <2>4. more \in SUBSET Nodes /\ owner2 \in [Nodes -> Threads] /\ ListInv(more, owner2, place)'
    BY <1>1, <1>2, <2>3, InitKeeps
  <2>5. QED
    BY <2>2, <2>4
<1>5. ASSUME NEW p \in Producers, Link(p), key[MAKE_NODEPTR(seen[p])] = NULL
      PROVE  \E owner2 \in [Nodes -> Threads], place2 \in [Nodes -> Int] :
                PoolInv(live, pooled, depth, tag)' /\ ListInv(live, owner2, place2)'
  <2>1. PoolInv(live, pooled, depth, tag)'
    BY <1>1, <1>2, <1>5, PushLeavesPool, LinkMoves, InitNodeMoves, AllocCASMoves DEF Producing
  <2>2. PICK owner2 \in [Nodes -> Threads], place2 \in [Nodes -> Int] : ListInv(live, owner2, place2)'
    BY <1>1, <1>2, <1>5, LinkKeeps
  <2>3. QED
    BY <2>1, <2>2
<1>6. ASSUME PopDecrement \/ (Popping /\ ~PopMoveHead)
      PROVE  \E more \in SUBSET Nodes, depth2 \in [Nodes -> Int], tag2 \in [Nodes -> Nat] :
                PoolInv(live, more, depth2, tag2)' /\ ListInv(live, owner, place)'
  <2>1. ListInv(live, owner, place)'
    BY <1>1, <1>2, <1>6, PopKeeps
  <2>2. CASE FreeCAS /\ topKey = seen[Consumer]
    <3>1. PICK more \in SUBSET Nodes, depth2 \in [Nodes -> Int], tag2 \in [Nodes -> Nat] :
             PoolInv(live, more, depth2, tag2)'
      BY <1>1, <1>2, <2>2, FreePuts
    <3>2. QED
      BY <2>1, <3>1
  <2>3. CASE ~(FreeCAS /\ topKey = seen[Consumer])
    <3>1. PoolInv(live, pooled, depth, tag)'
      BY <1>1, <1>2, <1>6, <2>3, PopLeavesPool
    <3>2. QED
      BY <2>1, <3>1
  <2>4. QED
    BY <2>2, <2>3
<1>7. ASSUME PopMoveHead
      PROVE  \E rest \in SUBSET Nodes : PoolInv(rest, pooled, depth, tag)' /\ ListInv(rest, owner, place)'
  <2>1. PICK h, n, rest : h = head[1] /\ n = next[Consumer][1] /\ rest = live \ {h}
    OBVIOUS
  <2>2. Chains(live, owner, place) /\ Ends(live, owner) /\ pc[Consumer] = "popHead"
    BY <1>1, <1>2, <1>7, PopMoveHeadMoves DEF ListInv
  <2>3. Advanced(live, owner, place, h, n, rest)
    BY <1>2, <1>7, <2>1, <2>2 DEF Advanced
  <2>4. mine[Consumer] = head /\ h \in live
    BY <2>1, <2>2, HeadIn DEF Ends
  <2>5. PoolInv(rest, pooled, depth, tag)'
    BY <1>1, <1>2, <1>7, <2>1, <2>4, MoveLeavesPool
  <2>6. ListInv(rest, owner, place)'
    BY <1>1, <1>2, <2>3, MoveKeeps
  <2>7. rest \in SUBSET Nodes
    BY <2>1
  <2>8. QED
    BY <2>5, <2>6, <2>7
<1>8. CASE \E p \in Producers : Push(p) \/ Producing(p)
  <2>1. PICK p \in Producers : Push(p) \/ Producing(p)
    BY <1>8
  <2>2. CASE InitNode(p)
    BY <1>2, <1>4, <2>2
  <2>3. CASE Link(p) /\ key[MAKE_NODEPTR(seen[p])] = NULL
    BY <1>2, <1>5, <2>3
  <2>4. CASE ~InitNode(p) /\ ~(Link(p) /\ key[MAKE_NODEPTR(seen[p])] = NULL)
    BY <1>2, <1>3, <2>1, <2>4
  <2>5. QED
    BY <2>2, <2>3, <2>4
<1>9. CASE PopDecrement \/ Popping
  <2>1. CASE PopMoveHead
    BY <1>2, <1>7, <2>1
  <2>2. CASE ~PopMoveHead
    BY <1>2, <1>6, <1>9, <2>2
  <2>3. QED
    BY <2>1, <2>2
<1>10. QED
  BY <1>8, <1>9 DEF Next

\* The pool that the constructor fills, and the dummy that it takes.
LEMMA InitTypes ==
  ASSUME Init
  PROVE  QueueTypes
<1>1. /\ \A n \in Nodes : poolNext[n] \in Links
      /\ PoolSize \in Nodes /\ head \in Keys /\ poolNext \in [Nodes -> Links]
  <2>1. PoolSize \in Nodes
    BY Parties DEF Nodes
  <2>2. ASSUME NEW n \in Nodes, n # 1 PROVE MAKE_KEY(n - 1, n - 2) \in Keys
    <3>1. n - 1 \in Nodes /\ n - 2 \in Nat
      BY <2>2, Parties DEF Nodes
    <3>2. QED
      BY <3>1, KeyFacts
  <2>3. \A n \in Nodes : (IF n = 1 THEN NULL ELSE MAKE_KEY(n - 1, n - 2)) \in Links
    BY <2>2, KeyFacts
  <2>4. head \in Keys
    BY <2>1, KeyFacts DEF Init
  <2>5. QED
    BY <2>1, <2>3, <2>4 DEF Init
<1>2. SharedTypes
  <2>1. popped \in Seq(Nat)
    BY DEF Init
  <2>2. topKey \in Links /\ tail \in Keys /\ pushCount \in Nat
    BY <1>1, Parties DEF Init
  <2>3. key \in [Nodes -> Links] /\ value \in [Nodes -> Nat]
    BY KeyFacts DEF Init
  <2>4. QED
    BY <1>1, <2>1, <2>2, <2>3 DEF Init, SharedTypes
<1>3. StepTypes
  BY Parties DEF Init, StepTypes, ProducerSteps, ConsumerSteps
<1>4. LocalTypes
  BY KeyFacts DEF Init, LocalTypes
<1>5. KeyTypes
  BY Parties DEF Init, KeyTypes, Lone, Linking
<1>6. QED
  BY <1>2, <1>3, <1>4, <1>5 DEF QueueTypes

\* At first the dummy is the queue, and all other nodes are the pool.
LEMMA InitParts ==
  ASSUME Init
  PROVE  \E live, pooled \in SUBSET Nodes, owner \in [Nodes -> Threads],
            place, depth \in [Nodes -> Int], tag \in [Nodes -> Nat] :
            PoolInv(live, pooled, depth, tag) /\ ListInv(live, owner, place)
<1>1. PICK N : N = PoolSize /\ N \in Nat \ {0} /\ Nodes = 1 .. N
  BY Parties DEF Nodes
<1> DEFINE live == {N}  pooled == 1 .. N - 1
           owner == [n \in Nodes |-> Consumer]  place == [n \in Nodes |-> 0]
           depth == [n \in Nodes |-> n]  tag == [n \in Nodes |-> n - 1]
<1>2. /\ live \in SUBSET Nodes /\ pooled \in SUBSET Nodes /\ owner \in [Nodes -> Threads]
      /\ place \in [Nodes -> Int] /\ depth \in [Nodes -> Int] /\ tag \in [Nodes -> Nat]
  BY <1>1, Parties
<1>3. /\ head = MAKE_KEY(N, 0) /\ tail = MAKE_KEY(N, 0) /\ head[1] = N /\ tail[1] = N /\ head[2] = 0 /\ tail[2] = 0
      /\ N \in Nodes /\ key[N] = NULL /\ value[N] = 0
      /\ \A t \in Threads : pc[t] = "idle" /\ ~Lone(t) /\ ~Linking(t)
      /\ Rooted(Consumer) /\ Root(Consumer) = N /\ \A t \in Threads : Rooted(t) => t = Consumer
      /\ \A n \in live : n = N
  BY <1>1, Parties DEF Init, MAKE_KEY, MAKE_NODEPTR, Lone, Linking, Rooted, Root
<1>4. \A p \in Producers : ~Uncounted(p) /\ pc[p] = "idle"
  BY <1>3, Parties DEF Uncounted
<1>5. Entered = {} /\ Linked(live, owner) = {} /\ ~Returning /\ ~Promised /\ pc[Consumer] = "idle"
  <2>1. Entered = {}
    BY <1>4 DEF Entered, Init
  <2>2. Linked(live, owner) = {}
    BY <1>3 DEF Linked
  <2>3. QED
    BY <1>3, <2>1, <2>2, Parties DEF Returning, Promised
<1>6. Stack(pooled, depth, tag)
  <2>1. \A n \in Nodes : poolNext[n] = IF n = 1 THEN NULL ELSE MAKE_KEY(n - 1, n - 2)
    BY DEF Init
  <2>2. topKey = (IF N = 1 THEN NULL ELSE MAKE_KEY(N - 1, N - 2)) /\ pushCount = N
    BY <1>1, <1>3, <2>1 DEF Init
  <2>3. \A n \in pooled : n \in Nodes /\ n \in Nat /\ n # 0 /\ n < N /\ depth[n] = n /\ tag[n] = n - 1
    BY <1>1
  <2>4. topKey = NULL => pooled = {}
    <3>1. N # 1 => MAKE_KEY(N - 1, N - 2) # NULL
      BY <1>1 DEF MAKE_KEY, NULL
    <3>2. QED
      BY <1>1, <2>2, <3>1
  <2>5. topKey # NULL =>
          LET top == MAKE_NODEPTR(topKey)
          IN  top \in pooled /\ topKey = MAKE_KEY(top, tag[top])
              /\ \A n \in pooled : depth[n] =< depth[top]
    <3>1. SUFFICES ASSUME N # 1
                   PROVE  N - 1 \in pooled /\ tag[N - 1] = N - 2 /\ \A n \in pooled : depth[n] =< depth[N - 1]
      BY <2>2 DEF MAKE_KEY, MAKE_NODEPTR
    <3>2. N - 1 \in pooled
      BY <1>1, <3>1
    <3>3. QED
      BY <1>1, <2>3, <3>2
  <2>6. ASSUME NEW n \in pooled
        PROVE  /\ tag[n] =< pushCount
               /\ poolNext[n] # NULL =>
                    LET m == MAKE_NODEPTR(poolNext[n])
                    IN  m \in pooled /\ depth[m] = depth[n] - 1 /\ poolNext[n] = MAKE_KEY(m, tag[m])
    <3>1. tag[n] =< pushCount
      BY <1>1, <2>2, <2>3
    <3>2. n # 1 => n - 1 \in pooled /\ tag[n - 1] = n - 2 /\ depth[n - 1] = depth[n] - 1
      <4>1. n # 1 => n - 1 \in pooled
        BY <1>1, <2>3
      <4>2. QED
        BY <2>3, <4>1
    <3>3. poolNext[n] = IF n = 1 THEN NULL ELSE MAKE_KEY(n - 1, n - 2)
      BY <2>1, <2>3
    <3>4. QED
      BY <3>1, <3>2, <3>3 DEF MAKE_KEY, MAKE_NODEPTR
  <2>7. \A n, m \in pooled :
          /\ depth[n] = depth[m] => n = m
          /\ poolNext[n] = NULL => depth[n] =< depth[m]
    <3>1. ASSUME NEW n \in pooled, n # 1 PROVE poolNext[n] # NULL
      <4>1. n \in Nodes /\ n \in Nat /\ n # 0
        BY <2>3
      <4>2. poolNext[n] = MAKE_KEY(n - 1, n - 2) /\ n - 1 # 0
        BY <2>1, <3>1, <4>1
      <4>3. QED
        BY <4>2 DEF MAKE_KEY, NULL
    <3>2. ASSUME NEW n \in pooled, NEW m \in pooled
          PROVE  /\ depth[n] = depth[m] => n = m
                 /\ poolNext[n] = NULL => depth[n] =< depth[m]
      <4>1. depth[n] = n /\ depth[m] = m /\ m \in Nat /\ m # 0
        BY <2>3
      <4>2. poolNext[n] = NULL => n = 1
        BY <3>1
      <4> HIDE DEF depth, pooled
      <4>3. QED
        BY <4>1, <4>2
    <3>3. QED
      BY <3>2
  <2>8. QED
    BY <2>4, <2>5, <2>6, <2>7 DEF Stack
<1>7. Apart(live, pooled)
  <2>1. live \cap pooled = {} /\ Nodes \ (live \cup pooled) = {}
    BY <1>1
  <2>2. QED
    BY <1>3, <2>1 DEF Apart
<1> HIDE DEF live, pooled, owner, place, depth, tag
<1>8. PoolInv(live, pooled, depth, tag)
  <2>1. \A p \in Producers : PoolReads(p, pooled, tag)
    BY <1>4 DEF PoolReads
  <2>2. FreeReads
    BY <1>5 DEF FreeReads
  <2>3. QED
    BY <1>6, <1>7, <2>1, <2>2 DEF PoolInv
<1>9. Chains(live, owner, place)
  <2>1. live = {N} /\ owner[N] = Consumer /\ place[N] = 0
    BY <1>3 DEF live, owner, place
  <2>2. Members(live, owner, place)
    BY <1>3, <2>1 DEF Members
  <2>3. Follows(live, owner, place)
    BY <1>3, <2>1 DEF Follows
  <2>4. Ordered(live, owner, place)
    BY <1>3, <2>1 DEF Ordered
  <2>5. Starts(live, owner)
    BY <1>3, <2>1, Parties DEF Starts
  <2>6. QED
    BY <2>2, <2>3, <2>4, <2>5 DEF Chains
<1>10. Ends(live, owner)
  <2>1. live = {N} /\ owner[N] = Consumer
    BY <1>3 DEF live, owner
  <2>2. QED
    BY <1>3, <1>5, <2>1 DEF Ends, MAKE_NODEPTR
<1>11. (\A p \in Producers : Reads(p, live)) /\ NoRing(live, owner)
  BY <1>4 DEF Reads, NoRing, Waits
<1>12. Accounts(live, owner)
  <2>1. popped = <<>> /\ finished = {} /\ failed = {}
    BY DEF Init
  <2>2. Range(popped) = {} /\ IsInjective(popped)
    BY <2>1 DEF Range, IsInjective
  <2> HIDE DEF Entered, Linked, Returning
  <2>3. Placed(live, owner)
    BY <1>5, <2>1, <2>2 DEF Placed
  <2>4. \A p \in Producers : Pushing(p)
    BY <1>4 DEF Pushing
  <2>5. QED
    BY <2>3, <2>4 DEF Accounts
<1>13. SizeIsExact(live, owner)
  <2>1. {p \in Producers : Uncounted(p)} = {} /\ size = 0
    BY <1>4 DEF Init
  <2>2. Cardinality({}) = 0
    BY FS_EmptySet
  <2> HIDE DEF Linked, Promised, Uncounted
  <2>3. QED
    BY <1>5, <2>1, <2>2 DEF SizeIsExact
<1>14. ListInv(live, owner, place)
  BY <1>9, <1>10, <1>11, <1>12, <1>13 DEF ListInv
<1>15. QED
  BY <1>2, <1>8, <1>14

\* The nodes are where the code takes them to be, in every reachable state.
THEOREM Invariance == Spec => []QueueInv
<1>1. Init => QueueInv
  BY InitTypes, InitParts DEF QueueInv
<1>2. QueueInv /\ [Next]_vars => QueueInv'
  <2>1. CASE QueueInv /\ Next
    <3>1. QueueTypes' /\ \E live, pooled \in SUBSET Nodes, owner \in [Nodes -> Threads],
            place, depth \in [Nodes -> Int], tag \in [Nodes -> Nat] :
            PoolInv(live, pooled, depth, tag)' /\ ListInv(live, owner, place)'
      BY <2>1, TypesKept, PartsKept
    <3>2. QED
      BY <3>1 DEF QueueInv
  <2>2. CASE QueueInv /\ UNCHANGED vars
    <3>1. UNCHANGED <<pushs, head, tail, size, topKey, pushCount, value, key, poolNext, pc, mine, seen, next,
                      popped, finished, failed>>
      BY <2>2 DEF vars, queue, pool, nodes, local, record
    <3>2. QueueTypes'
      BY <2>2, <3>1 DEF QueueInv, QueueTypes, SharedTypes, StepTypes, LocalTypes, KeyTypes, Lone, Linking
    <3>3. ASSUME NEW live \in SUBSET Nodes, NEW pooled \in SUBSET Nodes, NEW depth, NEW tag,
                 PoolInv(live, pooled, depth, tag)
          PROVE  PoolInv(live, pooled, depth, tag)'
      BY <3>1, <3>3 DEF PoolInv, Stack, Apart, PoolReads, FreeReads, Lone
    <3>4. ASSUME NEW live \in SUBSET Nodes, NEW owner, NEW place, ListInv(live, owner, place)
          PROVE  ListInv(live, owner, place)'
      <4>1. Entered' = Entered /\ Linked(live, owner)' = Linked(live, owner)
        BY <3>1 DEF Entered, Uncounted, Linked, Root
      <4>2. Chains(live, owner, place)' /\ NoRing(live, owner)'
        BY <3>1, <3>4 DEF ListInv, Chains, Members, Follows, Ordered, Starts, Rooted, Root, Linking, NoRing, Waits
      <4>3. Ends(live, owner)' /\ (\A p \in Producers : Reads(p, live))'
        BY <3>1, <3>4, <4>1 DEF ListInv, Ends, Reads, Returning
      <4>4. Accounts(live, owner)'
        BY <3>1, <3>4, <4>1 DEF ListInv, Accounts, Pushing, Placed, Returning, Uncounted, Linking
      <4>5. SizeIsExact(live, owner)'
        BY <3>1, <3>4, <4>1 DEF ListInv, SizeIsExact, Uncounted, Promised
      <4>6. QED
        BY <4>2, <4>3, <4>4, <4>5 DEF ListInv
    <3>5. QED
      BY <2>2, <3>2, <3>3, <3>4 DEF QueueInv
  <2>3. QED
    BY <2>1, <2>2
<1>3. QED
  BY <1>1, <1>2, PTL DEF Spec

-----------------------------------------------------------------------------
(* The chains, as the properties follow them.                              *)

\* The nodes that f leads through from n, and 0 once there is no other.
Hops(h, f, n) ==
    /\ h \in [0 .. PoolSize -> 0 .. PoolSize] /\ h[0] = n
    /\ \A i \in 1 .. PoolSize : h[i] = IF h[i - 1] = 0 THEN 0 ELSE f[h[i - 1]][1]

\* What a chain has is what its hops go through.
LEMMA ChainHops ==
  ASSUME NEW f \in [Nodes -> Links], NEW n \in 0 .. PoolSize
  PROVE  \E h : Hops(h, f, n) /\
            Chain(f, n) = [i \in 1 .. Cardinality({j \in 0 .. PoolSize : h[j] # 0}) |-> h[i - 1]]
<1> DEFINE P == 0 .. PoolSize
           step == [x \in P |-> IF x = 0 THEN 0 ELSE f[x][1]]
           steps == [i \in 1 .. PoolSize |-> step]
           hop == CHOOSE h : h = [i \in P |-> IF i = 0 THEN n
                                  ELSE IF h[i - 1] = 0 THEN 0 ELSE MAKE_NODEPTR(f[h[i - 1]])]
<1>1. PoolSize \in Nat /\ \A x \in P : x # 0 => x \in Nodes /\ f[x][1] \in P
  <2>1. \A k \in Links : k[1] \in 0 .. PoolSize
    BY Parties DEF Links, Keys, NULL, Nodes
  <2>2. QED
    BY <2>1, Parties DEF Nodes
<1>2. steps \in [1 .. PoolSize -> [P -> P]]
  <2>1. step \in [P -> P]
    BY <1>1
  <2> HIDE DEF step
  <2>2. QED
    BY <2>1
<1>3. PICK g \in [P -> P] : Iterates(g, steps, n, PoolSize)
  <2> HIDE DEF steps
  <2>1. n \in P
    OBVIOUS
  <2>2. QED
    BY <1>1, <1>2, <2>1, Recursion
<1>4. g[0] = n /\ \A i \in 1 .. PoolSize : g[i] = IF g[i - 1] = 0 THEN 0 ELSE f[g[i - 1]][1]
  <2>1. \A i \in 1 .. PoolSize : i - 1 \in P /\ g[i - 1] \in P /\ steps[i] = step
    BY <1>1, <1>3
  <2>2. QED
    BY <1>3, <2>1 DEF Iterates
<1>5. g = [i \in P |-> IF i = 0 THEN n ELSE IF g[i - 1] = 0 THEN 0 ELSE MAKE_NODEPTR(f[g[i - 1]])]
  <2>1. \A i \in P : g[i] = IF i = 0 THEN n ELSE IF g[i - 1] = 0 THEN 0 ELSE MAKE_NODEPTR(f[g[i - 1]])
    <3>1. \A i \in P : i # 0 => i \in 1 .. PoolSize
      BY <1>1
    <3>2. QED
      BY <1>4, <3>1 DEF MAKE_NODEPTR
  <2> HIDE DEF P
  <2>2. QED
    BY <1>3, <2>1
<1>6. hop = [i \in P |-> IF i = 0 THEN n ELSE IF hop[i - 1] = 0 THEN 0 ELSE MAKE_NODEPTR(f[hop[i - 1]])]
  BY <1>5
<1> HIDE DEF hop
<1>7. hop[0] = n /\ \A i \in 1 .. PoolSize : hop[i] = IF hop[i - 1] = 0 THEN 0 ELSE f[hop[i - 1]][1]
  <2>1. 0 \in P /\ \A i \in 1 .. PoolSize : i \in P /\ i # 0
    BY <1>1
  <2> HIDE DEF P
  <2>2. QED
    BY <1>6, <2>1 DEF MAKE_NODEPTR
<1>8. \A i \in P : hop[i] = g[i]
  <2> DEFINE S == {i \in Nat : i =< PoolSize => hop[i] = g[i]}
  <2>1. 0 \in S
    BY <1>4, <1>7
  <2>2. ASSUME NEW i \in S PROVE i + 1 \in S
    <3>1. SUFFICES ASSUME i + 1 =< PoolSize PROVE hop[i + 1] = g[i + 1]
      OBVIOUS
    <3>2. i + 1 \in 1 .. PoolSize /\ (i + 1) - 1 = i /\ hop[i] = g[i]
      BY <1>1, <3>1
    <3>3. QED
      BY <1>4, <1>7, <3>2
  <2>3. S = Nat
    <3> HIDE DEF S
    <3>1. S \in SUBSET Nat
      BY DEF S
    <3>2. QED
      BY <2>1, <2>2, <3>1, SetInduction
  <2>4. QED
    BY <2>3
<1>9. Hops(hop, f, n)
  <2>1. DOMAIN hop = P /\ hop = [i \in P |-> hop[i]]
    <3> HIDE DEF P
    <3>1. QED
      BY <1>6
  <2>2. hop \in [P -> P]
    <3> HIDE DEF P
    <3>1. QED
      BY <1>3, <1>8, <2>1
  <2>3. QED
    BY <1>7, <2>2 DEF Hops
<1>10. Chain(f, n) = [i \in 1 .. Cardinality({j \in 0 .. PoolSize : hop[j] # 0}) |-> hop[i - 1]]
  BY DEF Chain, hop
<1>11. QED
  BY <1>9, <1>10

\* M is a chain of f from n, in the order of place.
Lists(f, n, M, place) ==
    /\ M \subseteq Nodes /\ f \in [Nodes -> Links] /\ place \in [Nodes -> Int]
    /\ n = 0 => M = {}
    /\ n # 0 => n \in M /\ \A m \in M : place[n] =< place[m]
    /\ \A m \in M :
         /\ f[m] # NULL => f[m][1] \in M /\ place[f[m][1]] = place[m] + 1
         /\ f[m] = NULL => \A k \in M : place[k] =< place[m]
         /\ \A k \in M : place[m] = place[k] => m = k

\* A chain has each of its nodes once, the first of them first.
LEMMA ChainLists ==
  ASSUME NEW f, NEW n \in 0 .. PoolSize, NEW M, NEW place, Lists(f, n, M, place)
  PROVE  /\ IsInjective(Chain(f, n)) /\ Range(Chain(f, n)) = M
         /\ \E k \in Nat : Chain(f, n) \in [1 .. k -> M] /\ (n # 0 => k # 0 /\ Chain(f, n)[1] = n)
<1>1. /\ M \subseteq Nodes /\ f \in [Nodes -> Links] /\ \A m \in Nodes : place[m] \in Int
      /\ PoolSize \in Nat /\ Nodes = 1 .. PoolSize /\ 0 \notin M
  BY Parties DEF Lists, Nodes
<1>2. PICK h : Hops(h, f, n) /\
         Chain(f, n) = [i \in 1 .. Cardinality({j \in 0 .. PoolSize : h[j] # 0}) |-> h[i - 1]]
  BY <1>1, ChainHops
<1>3. /\ h[0] = n /\ \A i \in 0 .. PoolSize : h[i] \in 0 .. PoolSize
      /\ \A i \in Nat : i + 1 =< PoolSize => h[i + 1] = IF h[i] = 0 THEN 0 ELSE f[h[i]][1]
  <2>1. \A i \in Nat : i + 1 =< PoolSize => i + 1 \in 1 .. PoolSize /\ (i + 1) - 1 = i
    BY <1>1
  <2>2. QED
    BY <1>2, <2>1 DEF Hops
<1>4. \A i \in 0 .. PoolSize : h[i] # 0 => h[i] \in M /\ place[h[i]] = place[n] + i
  <2> DEFINE S == {i \in Nat : i =< PoolSize /\ h[i] # 0 => h[i] \in M /\ place[h[i]] = place[n] + i}
  <2>1. 0 \in S
    BY <1>1, <1>3 DEF Lists
  <2>2. ASSUME NEW i \in S PROVE i + 1 \in S
    <3>1. SUFFICES ASSUME i + 1 =< PoolSize, h[i + 1] # 0
                   PROVE  h[i + 1] \in M /\ place[h[i + 1]] = place[n] + (i + 1)
      OBVIOUS
    <3>2. i \in Nat /\ i \in 0 .. PoolSize /\ h[i + 1] = IF h[i] = 0 THEN 0 ELSE f[h[i]][1]
      BY <1>1, <1>3, <3>1
    <3>3. h[i] \in M /\ place[h[i]] = place[n] + i /\ h[i + 1] = f[h[i]][1]
      BY <3>1, <3>2
    <3>4. f[h[i]] # NULL
      BY <3>1, <3>3 DEF NULL
    <3>5. f[h[i]][1] \in M /\ place[f[h[i]][1]] = place[h[i]] + 1
      BY <3>3, <3>4 DEF Lists
    <3>6. n \in M
      BY <3>3 DEF Lists
    <3>7. QED
      BY SMTT(30), <1>1, <3>2, <3>3, <3>5, <3>6
  <2>3. S = Nat
    <3> HIDE DEF S
    <3>1. S \in SUBSET Nat
      BY DEF S
    <3>2. QED
      BY <2>1, <2>2, <3>1, SetInduction
  <2>4. QED
    BY <2>3
<1>5. ASSUME NEW i \in 0 .. PoolSize, NEW j \in 0 .. PoolSize, h[i] # 0, h[i] = h[j] PROVE i = j
  <2>1. h[i] \in M /\ place[h[i]] = place[n] + i /\ place[h[j]] = place[n] + j
    BY <1>4, <1>5
  <2>2. n \in M
    BY <2>1 DEF Lists
  <2>3. place[n] \in Int /\ place[n] + i = place[n] + j
    BY <1>1, <1>5, <2>1, <2>2
  <2>4. QED
    BY <2>3
<1>6. PICK k \in 0 .. PoolSize : h[k] = 0 /\ \A i \in 0 .. k - 1 : h[i] # 0
  <2> DEFINE S == {k \in Nat : k =< PoolSize + 1 => \A i \in 0 .. k - 1 : h[i] # 0}
  <2>1. CASE S = Nat
    <3>1. PoolSize + 1 \in S
      <4>1. PoolSize + 1 \in Nat
        BY <1>1
      <4> HIDE DEF S
      <4>2. QED
        BY <2>1, <4>1
    <3>2. \A i \in 0 .. PoolSize : h[i] # 0
      BY <1>1, <3>1
    <3>3. \A i \in 0 .. PoolSize : h[i] \in 1 .. PoolSize
      BY <1>1, <1>3, <3>2
    <3>4. h \in [0 .. PoolSize -> 1 .. PoolSize]
      BY <1>2, <3>3 DEF Hops
    <3>5. /\ IsFiniteSet(0 .. PoolSize) /\ Cardinality(0 .. PoolSize) = PoolSize + 1
          /\ IsFiniteSet(1 .. PoolSize) /\ Cardinality(1 .. PoolSize) = PoolSize
      BY <1>1, FS_Interval
    <3>6. Cardinality(1 .. PoolSize) < Cardinality(0 .. PoolSize)
      BY <1>1, <3>5
    <3>7. \E i, j \in 0 .. PoolSize : i # j /\ h[i] = h[j]
      BY <3>4, <3>5, <3>6, FS_PigeonHole
    <3>8. QED
      BY <1>5, <3>2, <3>7
  <2>2. CASE S # Nat
    <3>1. 0 \in S /\ S \in SUBSET Nat
      BY <1>1
    <3>2. ~(\A k \in S : k + 1 \in S)
      <4> HIDE DEF S
      <4>1. QED
        BY <2>2, <3>1, SetInduction
    <3>3. PICK k \in S : k + 1 \notin S
      <4> HIDE DEF S
      <4>1. QED
        BY <3>2
    <3>4. k \in Nat /\ k =< PoolSize /\ ~(\A i \in 0 .. k : h[i] # 0) /\ \A i \in 0 .. k - 1 : h[i] # 0
      BY <1>1, <3>3
    <3>5. h[k] = 0
      BY <3>4
    <3>6. QED
      BY <1>1, <3>4, <3>5
  <2>3. QED
    BY <2>1, <2>2
<1>7. \A i \in 0 .. PoolSize : h[i] # 0 <=> i \in 0 .. k - 1
  <2> DEFINE S == {d \in Nat : k + d =< PoolSize => h[k + d] = 0}
  <2>1. 0 \in S
    BY <1>6
  <2>2. ASSUME NEW d \in S PROVE d + 1 \in S
    <3>1. SUFFICES ASSUME k + (d + 1) =< PoolSize PROVE h[k + (d + 1)] = 0
      OBVIOUS
    <3>2. k + d \in Nat /\ (k + d) + 1 =< PoolSize /\ k + (d + 1) = (k + d) + 1 /\ h[k + d] = 0
      BY <1>1, <3>1
    <3>3. QED
      BY <1>3, <3>2
  <2>3. S = Nat
    <3> HIDE DEF S
    <3>1. S \in SUBSET Nat
      BY DEF S
    <3>2. QED
      BY <2>1, <2>2, <3>1, SetInduction
  <2>4. \A i \in 0 .. PoolSize : i >= k => h[i] = 0
    <3>1. SUFFICES ASSUME NEW i \in 0 .. PoolSize, i >= k PROVE h[i] = 0
      OBVIOUS
    <3>2. i - k \in Nat /\ k + (i - k) = i
      BY <1>1, <3>1
    <3>3. i - k \in S
      BY <2>3, <3>2
    <3>4. QED
      BY <1>1, <3>2, <3>3
  <2>5. QED
    BY <1>1, <1>6, <2>4
<1>8. Chain(f, n) = [i \in 1 .. k |-> h[i - 1]]
  <2>1. {j \in 0 .. PoolSize : h[j] # 0} = 0 .. k - 1
    BY <1>1, <1>7
  <2>2. Cardinality(0 .. k - 1) = k
    BY <1>1, FS_Interval
  <2>3. QED
    BY <1>2, <2>1, <2>2
<1>9. \A i \in 1 .. k : i - 1 \in 0 .. PoolSize /\ i - 1 \in 0 .. k - 1 /\ h[i - 1] \in M
  BY <1>1, <1>4, <1>7
<1>10. ASSUME NEW m \in M PROVE \E i \in 1 .. k : h[i - 1] = m
  <2>1. n # 0 /\ n \in M /\ place[n] =< place[m]
    BY DEF Lists
  <2>2. k # 0 /\ k - 1 \in 0 .. PoolSize /\ k - 1 \in Nat /\ h[k - 1] \in M
        /\ place[h[k - 1]] = place[n] + (k - 1)
    BY <1>1, <1>3, <1>4, <1>6, <2>1
  <2>3. f[h[k - 1]] = NULL
    <3>1. (k - 1) + 1 = k /\ h[k] = f[h[k - 1]][1]
      BY <1>1, <1>3, <2>2
    <3>2. f[h[k - 1]] # NULL => f[h[k - 1]][1] \in M
      BY <2>2 DEF Lists
    <3>3. QED
      BY <1>1, <1>6, <3>1, <3>2
  <2>4. place[m] =< place[n] + (k - 1)
    BY <2>2, <2>3 DEF Lists
  <2>5. PICK d : d = place[m] - place[n]
    OBVIOUS
  <2>6. d \in 0 .. k - 1 /\ d \in 0 .. PoolSize /\ place[m] = place[n] + d
    BY <1>1, <2>1, <2>4, <2>5
  <2>7. h[d] \in M /\ place[h[d]] = place[m]
    BY <1>4, <1>6, <2>6
  <2>8. h[d] = m
    BY <2>7 DEF Lists
  <2>9. d + 1 \in 1 .. k /\ (d + 1) - 1 = d
    BY <1>1, <2>6
  <2>10. QED
    BY <2>8, <2>9
<1>11. Chain(f, n) \in [1 .. k -> M] /\ k \in Nat
  BY <1>1, <1>8, <1>9
<1>12. IsInjective(Chain(f, n))
  <2>1. \A i, j \in 1 .. k : h[i - 1] = h[j - 1] => i = j
    <3>1. \A i, j \in 1 .. k : h[i - 1] = h[j - 1] => i - 1 = j - 1
      BY <1>5, <1>7, <1>9
    <3>2. QED
      BY <3>1
  <2>2. QED
    BY <1>8, <2>1 DEF IsInjective
<1>13. Range(Chain(f, n)) = M
  <2>1. Range(Chain(f, n)) = {h[i - 1] : i \in 1 .. k}
    BY <1>8 DEF Range
  <2>2. \A m : m \in {h[i - 1] : i \in 1 .. k} <=> m \in M
    BY <1>9, <1>10
  <2>3. QED
    BY <2>1, <2>2
<1>14. ASSUME n # 0 PROVE k # 0 /\ Chain(f, n)[1] = n
  <2>1. k # 0 /\ 1 \in 1 .. k /\ 1 - 1 = 0
    BY <1>1, <1>3, <1>6, <1>14
  <2>2. QED
    BY <1>3, <1>8, <2>1
<1>15. QED
  BY <1>11, <1>12, <1>13, <1>14

-----------------------------------------------------------------------------
(* What the invariant says of the properties.                              *)

\* The nodes that thread t has.
Owned(live, owner, t) == {n \in live : owner[n] = t}
Held(live, owner, t) ==
    IF Linking(t) THEN Owned(live, owner, t)
    ELSE IF Lone(t) THEN {MAKE_NODEPTR(mine[t])} ELSE {}

\* A thread with a chain has its nodes in it, each of them once.
LEMMA OwnedIs ==
  ASSUME QueueTypes, NEW live \in SUBSET Nodes, NEW owner \in [Nodes -> Threads],
         NEW place \in [Nodes -> Int], Chains(live, owner, place), NEW t \in Threads, Rooted(t),
         NEW n, n = Root(t)
  PROVE  /\ n \in Nodes /\ Lists(key, n, Owned(live, owner, t), place)
         /\ IsInjective(Chain(key, n)) /\ Range(Chain(key, n)) = Owned(live, owner, t)
<1>1. n \in live /\ owner[n] = t /\ n \in Nodes /\ n # 0 /\ n \in 0 .. PoolSize
  <2>1. n \in live /\ owner[n] = t
    BY DEF Chains, Starts
  <2>2. QED
    BY <2>1, Parties DEF Nodes
<1>2. PICK M : M = Owned(live, owner, t)
  OBVIOUS
<1>3. key \in [Nodes -> Links] /\ M \subseteq live /\ \A m : m \in M <=> m \in live /\ owner[m] = t
  BY <1>2 DEF QueueTypes, SharedTypes, Owned
<1>4. Lists(key, n, M, place)
  <2>1. n \in M /\ \A m \in M : place[n] =< place[m]
    BY <1>1, <1>3 DEF Chains, Members
  <2>2. ASSUME NEW m \in M
        PROVE  /\ key[m] # NULL => key[m][1] \in M /\ place[key[m][1]] = place[m] + 1
               /\ key[m] = NULL => \A k \in M : place[k] =< place[m]
               /\ \A k \in M : place[m] = place[k] => m = k
    <3>1. m \in live /\ owner[m] = t
      BY <1>3
    <3>2. key[m] # NULL => key[m][1] \in M /\ place[key[m][1]] = place[m] + 1
      BY <1>3, <3>1 DEF Chains, Follows
    <3>3. ASSUME NEW k \in M PROVE (key[m] = NULL => place[k] =< place[m]) /\ (place[m] = place[k] => m = k)
      BY <1>3, <3>1 DEF Chains, Ordered
    <3>4. QED
      BY <3>2, <3>3
  <2>3. QED
    BY <1>1, <1>3, <2>1, <2>2 DEF Lists
<1>5. IsInjective(Chain(key, n)) /\ Range(Chain(key, n)) = M
  BY <1>1, <1>4, ChainLists
<1>6. QED
  BY <1>1, <1>2, <1>4, <1>5

\* What a thread carries is what it has.
LEMMA CarriedIs ==
  ASSUME QueueTypes, NEW live \in SUBSET Nodes, NEW owner \in [Nodes -> Threads],
         NEW place \in [Nodes -> Int], Chains(live, owner, place), NEW t \in Threads
  PROVE  IsInjective(Carried(t)) /\ Range(Carried(t)) = Held(live, owner, t)
<1>1. CASE Linking(t)
  <2>1. t # Consumer
    BY <1>1 DEF QueueTypes, StepTypes, ConsumerSteps, Linking
  <2>2. PICK n : n = Root(t) /\ n = MAKE_NODEPTR(mine[t])
    BY <2>1 DEF Root
  <2>3. Carried(t) = Chain(key, n) /\ Held(live, owner, t) = Owned(live, owner, t) /\ Rooted(t)
    BY <1>1, <2>2 DEF Carried, Held, Rooted
  <2>4. QED
    BY <2>2, <2>3, OwnedIs
<1>2. CASE ~Linking(t) /\ Lone(t)
  <2>1. PICK n : n = MAKE_NODEPTR(mine[t])
    OBVIOUS
  <2>2. Carried(t) = <<n>> /\ Held(live, owner, t) = {n}
    BY <1>2, <2>1 DEF Carried, Held
  <2>3. IsInjective(<<n>>) /\ Range(<<n>>) = {n}
    BY DEF IsInjective, Range
  <2>4. QED
    BY <2>2, <2>3
<1>3. CASE ~Linking(t) /\ ~Lone(t)
  <2>1. Carried(t) = <<>> /\ Held(live, owner, t) = {}
    BY <1>3 DEF Carried, Held
  <2>2. IsInjective(<<>>) /\ Range(<<>>) = {}
    BY DEF IsInjective, Range
  <2>3. QED
    BY <2>1, <2>2
<1>4. QED
  BY <1>1, <1>2, <1>3

\* The pool is what can be reached from its top.
LEMMA PooledIs ==
  ASSUME QueueTypes, NEW pooled \in SUBSET Nodes, NEW depth \in [Nodes -> Int], NEW tag,
         Stack(pooled, depth, tag)
  PROVE  IsInjective(Pooled) /\ Range(Pooled) = pooled
<1>1. PICK n : n = MAKE_NODEPTR(topKey)
  OBVIOUS
<1>2. PICK height : height = [m \in Nodes |-> 0 - depth[m]]
  OBVIOUS
<1>3. height \in [Nodes -> Int] /\ \A m \in Nodes : height[m] = 0 - depth[m] /\ depth[m] \in Int
  BY <1>2
<1>4. poolNext \in [Nodes -> Links] /\ topKey \in Links /\ n \in 0 .. PoolSize /\ 0 \notin pooled
      /\ (n = 0 <=> topKey = NULL)
  <2>1. poolNext \in [Nodes -> Links] /\ topKey \in Links
    BY DEF QueueTypes, SharedTypes
  <2>2. \A k \in Links : k[1] \in 0 .. PoolSize /\ (k[1] = 0 <=> k = NULL)
    BY Parties DEF Links, Keys, NULL, Nodes
  <2>3. QED
    BY <1>1, <2>1, <2>2, Parties DEF Nodes, MAKE_NODEPTR
<1>5. Lists(poolNext, n, pooled, height)
  <2>1. n = 0 => pooled = {}
    BY <1>4 DEF Stack
  <2>2. ASSUME n # 0 PROVE n \in pooled /\ \A m \in pooled : height[n] =< height[m]
    <3>1. n \in pooled /\ \A m \in pooled : depth[m] =< depth[n]
      BY <1>1, <1>4, <2>2 DEF Stack
    <3>2. QED
      BY <1>3, <3>1
  <2>3. ASSUME NEW m \in pooled
        PROVE  /\ poolNext[m] # NULL => poolNext[m][1] \in pooled /\ height[poolNext[m][1]] = height[m] + 1
               /\ poolNext[m] = NULL => \A k \in pooled : height[k] =< height[m]
               /\ \A k \in pooled : height[m] = height[k] => m = k
    <3>1. ASSUME poolNext[m] # NULL
          PROVE  poolNext[m][1] \in pooled /\ height[poolNext[m][1]] = height[m] + 1
      <4>1. PICK k : k = poolNext[m][1]
        OBVIOUS
      <4>2. k \in pooled /\ depth[k] = depth[m] - 1
        BY <3>1, <4>1 DEF Stack, MAKE_NODEPTR
      <4>3. QED
        BY <1>3, <4>1, <4>2
    <3>2. ASSUME NEW k \in pooled
          PROVE  (poolNext[m] = NULL => height[k] =< height[m]) /\ (height[m] = height[k] => m = k)
      <4>1. (depth[m] = depth[k] => m = k) /\ (poolNext[m] = NULL => depth[m] =< depth[k])
        BY DEF Stack
      <4>2. QED
        BY <1>3, <4>1
    <3>3. QED
      BY <3>1, <3>2
  <2>4. QED
    BY <1>3, <1>4, <2>1, <2>2, <2>3 DEF Lists
<1>6. Pooled = Chain(poolNext, n)
  BY <1>1 DEF Pooled
<1>7. QED
  BY <1>4, <1>5, <1>6, ChainLists

\* The chains that the properties follow are those of the invariant,
LEMMA InvPlaces ==
  ASSUME QueueInv
  PROVE  NodesHaveOnePlace
<1>1. QueueTypes
  BY DEF QueueInv
<1>2. PICK live \in SUBSET Nodes, pooled \in SUBSET Nodes, owner \in [Nodes -> Threads],
           place \in [Nodes -> Int], depth \in [Nodes -> Int], tag \in [Nodes -> Nat] :
           PoolInv(live, pooled, depth, tag) /\ ListInv(live, owner, place)
  BY DEF QueueInv
<1>3. Chains(live, owner, place) /\ Stack(pooled, depth, tag) /\ Apart(live, pooled)
  BY <1>2 DEF PoolInv, ListInv
<1>4. Consumer \in Threads /\ Rooted(Consumer) /\ Root(Consumer) = MAKE_NODEPTR(head)
      /\ ~Linking(Consumer)
  BY <1>1, Parties DEF Rooted, Root, QueueTypes, StepTypes, ConsumerSteps, Linking
<1>5. IsInjective(Queued) /\ Range(Queued) = Owned(live, owner, Consumer)
  <2>1. PICK n : n = Root(Consumer)
    OBVIOUS
  <2>2. QED
    BY <1>1, <1>3, <1>4, <2>1, OwnedIs DEF Queued
<1>6. IsInjective(Pooled) /\ Range(Pooled) = pooled
  BY <1>1, <1>3, PooledIs
<1>7. \A t \in Threads : IsInjective(Carried(t)) /\ Range(Carried(t)) = Held(live, owner, t)
  BY <1>1, <1>3, CarriedIs
<1>8. \A t \in Threads : ~(Linking(t) /\ Lone(t))
  BY DEF Linking, Lone
<1>9. ASSUME NEW t \in Threads
      PROVE  /\ Held(live, owner, t) \cap (Owned(live, owner, Consumer) \cup pooled) = {}
             /\ \A u \in Threads \ {t} : Held(live, owner, t) \cap Held(live, owner, u) = {}
  BY <1>3, <1>4 DEF Held, Owned, Apart
<1>10. Nodes = Owned(live, owner, Consumer) \cup pooled \cup UNION {Held(live, owner, t) : t \in Threads}
  <2>1. ASSUME NEW t \in Threads PROVE Held(live, owner, t) \subseteq Nodes
    <3>1. Lone(t) => mine[t] \in Keys /\ MAKE_NODEPTR(mine[t]) \in Nodes
      BY <1>1, KeyFacts DEF QueueTypes, KeyTypes, MAKE_NODEPTR
    <3>2. QED
      BY <1>2, <3>1 DEF Held, Owned
  <2>2. ASSUME NEW n \in live PROVE n \in Owned(live, owner, Consumer) \/ \E t \in Threads : n \in Held(live, owner, t)
    <3>1. Rooted(owner[n]) /\ owner[n] \in Threads
      BY <1>2, <1>3 DEF Chains, Members
    <3>2. QED
      BY <3>1 DEF Rooted, Held, Owned
  <2>3. ASSUME NEW n \in Nodes \ (live \cup pooled) PROVE \E t \in Threads : n \in Held(live, owner, t)
    <3>1. PICK t \in Threads : Lone(t) /\ MAKE_NODEPTR(mine[t]) = n
      BY <1>3 DEF Apart
    <3>2. QED
      BY <1>8, <3>1 DEF Held
  <2>4. Owned(live, owner, Consumer) \subseteq Nodes
    BY <1>2 DEF Owned
  <2>5. QED
    BY <1>2, <2>1, <2>2, <2>3, <2>4
<1>11. Owned(live, owner, Consumer) \cap pooled = {}
  BY <1>3 DEF Owned, Apart
<1> HIDE DEF Held, Owned, Queued, Pooled, Carried
<1>12. UNION {Range(Carried(t)) : t \in Threads} = UNION {Held(live, owner, t) : t \in Threads}
  BY <1>7
<1>13. QED
  BY <1>5, <1>6, <1>7, <1>9, <1>10, <1>11, <1>12 DEF NodesHaveOnePlace

\* Every node is in the queue, in the pool or with one thread, and there once, in
\* every reachable state.
THEOREM NodesStayInPlace == Spec => []NodesHaveOnePlace
<1>1. QueueInv => NodesHaveOnePlace
  BY InvPlaces
<1>2. QED
  BY <1>1, Invariance, PTL

\* When no call is running, the queue is all that is live, its dummy first.
LEMMA AtRest ==
  ASSUME QueueTypes, NEW live \in SUBSET Nodes, NEW owner \in [Nodes -> Threads],
         NEW place \in [Nodes -> Int], Chains(live, owner, place),
         \A t \in Threads : pc[t] = "idle"
  PROVE  /\ Range(Tail(Queued)) = Linked(live, owner)
         /\ Len(Queued) - 1 = Cardinality(Linked(live, owner))
<1>1. PICK n, L : n = Root(Consumer) /\ L = Linked(live, owner)
  OBVIOUS
<1>2. Consumer \in Threads /\ Rooted(Consumer) /\ Queued = Chain(key, n)
  BY <1>1, Parties DEF Rooted, Root, Queued
<1>3. n \in live /\ owner[n] = Consumer
  BY <1>1, <1>2 DEF Chains, Starts
<1>4. Owned(live, owner, Consumer) = live /\ L = live \ {n}
  <2>1. ASSUME NEW m \in live PROVE owner[m] = Consumer
    <3>1. Rooted(owner[m]) /\ owner[m] \in Threads
      BY DEF Chains, Members
    <3>2. QED
      BY <3>1 DEF Rooted, Linking
  <2>2. QED
    BY <1>1, <2>1 DEF Owned, Linked
<1>5. Lists(key, n, live, place) /\ n \in Nodes
  BY <1>1, <1>2, <1>4, OwnedIs
<1>6. n # 0 /\ n \in 0 .. PoolSize
  BY <1>5, Parties DEF Nodes
<1>7. PICK q : q = Chain(key, n)
  OBVIOUS
<1>8. IsInjective(q) /\ Range(q) = live /\ \E k \in Nat : q \in [1 .. k -> live] /\ k # 0 /\ q[1] = n
  BY <1>5, <1>6, <1>7, ChainLists
<1>9. PICK k \in Nat : q \in [1 .. k -> live] /\ k # 0 /\ q[1] = n
  BY <1>8
<1>10. q \in Seq(live) /\ Len(q) = k /\ q # <<>>
  BY <1>9
<1>11. Len(Tail(q)) = k - 1 /\ Tail(q) \in Seq(live) /\ \A i \in 1 .. k - 1 : Tail(q)[i] = q[i + 1]
  BY <1>9, <1>10
<1>12. \A i, j \in 1 .. k : q[i] = q[j] => i = j
  BY <1>8, <1>9 DEF IsInjective
<1>13. Range(Tail(q)) = L
  <2>1. Range(Tail(q)) = {q[i + 1] : i \in 1 .. k - 1}
    <3>1. DOMAIN Tail(q) = 1 .. k - 1
      BY <1>9, <1>11
    <3>2. QED
      BY <1>11, <3>1 DEF Range
  <2>2. ASSUME NEW i \in 1 .. k - 1 PROVE q[i + 1] \in live \ {n}
    <3>1. i + 1 \in 1 .. k /\ 1 \in 1 .. k /\ i + 1 # 1
      BY <1>9
    <3>2. q[i + 1] # q[1]
      BY <1>12, <3>1
    <3>3. QED
      BY <1>9, <3>1, <3>2
  <2>3. ASSUME NEW m \in live \ {n} PROVE \E i \in 1 .. k - 1 : q[i + 1] = m
    <3>1. PICK j \in 1 .. k : q[j] = m
      BY <1>8, <1>9 DEF Range
    <3>2. j # 1
      BY <1>9, <3>1
    <3>3. j - 1 \in 1 .. k - 1 /\ (j - 1) + 1 = j
      BY <1>9, <3>2
    <3>4. QED
      BY <3>1, <3>3
  <2>4. QED
    BY <1>4, <2>1, <2>2, <2>3
<1>14. Cardinality(L) = k - 1
  <2>1. IsFiniteSet(1 .. k) /\ Cardinality(1 .. k) = k
    BY <1>9, FS_Interval
  <2>2. ExistsBijection(1 .. k, live)
    <3>1. q \in Injection(1 .. k, live)
      BY <1>8, <1>9 DEF Injection
    <3>2. q \in Surjection(1 .. k, live)
      BY <1>8, <1>9 DEF Range, Surjection
    <3>3. QED
      BY <3>1, <3>2 DEF ExistsBijection, Bijection
  <2>3. IsFiniteSet(live) /\ Cardinality(live) = k
    BY <2>1, <2>2, FS_Bijection
  <2>4. QED
    BY <1>3, <1>4, <2>3, FS_RemoveElement
<1>15. QED
  BY <1>1, <1>2, <1>7, <1>10, <1>13, <1>14

\* and the values linked in the queue at rest are those pushed and not popped.
LEMMA InvLosesNothing ==
  ASSUME QueueInv
  PROVE  NothingLost
<1>1. QueueTypes
  BY DEF QueueInv
<1>2. PICK live \in SUBSET Nodes, owner \in [Nodes -> Threads], place \in [Nodes -> Int] :
           ListInv(live, owner, place)
  BY DEF QueueInv
<1>3. Chains(live, owner, place) /\ Placed(live, owner) /\ SizeIsExact(live, owner)
      /\ \A p \in Producers : Pushing(p)
  BY <1>2 DEF ListInv, Accounts
<1>4. Range(popped) \subseteq Entered /\ IsInjective(popped)
  BY <1>3 DEF Placed
<1>5. Entered \subseteq 1 .. pushs /\ Entered \cap failed = {}
  <2>1. ASSUME NEW v \in Entered PROVE v \in 1 .. pushs /\ v \notin failed
    <3>1. CASE v \in finished
      BY <1>3, <3>1 DEF Placed
    <3>2. CASE v \notin finished
      <4>1. PICK p \in Producers : Uncounted(p) /\ v = mine[p][2]
        BY <3>2 DEF Entered
      <4>2. pc[p] # "idle"
        BY <4>1 DEF Uncounted
      <4>3. QED
        BY <1>3, <4>1, <4>2 DEF Pushing
    <3>3. QED
      BY <3>1, <3>2
  <2>2. QED
    BY <2>1
<1>6. ASSUME \A t \in Threads : pc[t] = "idle"
      PROVE  /\ finished = Range(popped) \cup {value[n] : n \in Range(Tail(Queued))}
             /\ size = Len(Queued) - 1
  <2>1. PICK L : L = Linked(live, owner)
    OBVIOUS
  <2>2. Range(Tail(Queued)) = L /\ Len(Queued) - 1 = Cardinality(L)
    BY <1>1, <1>2, <1>3, <1>6, <2>1, AtRest
  <2>3. (\A p \in Producers : ~Uncounted(p)) /\ ~Returning /\ ~Promised
    BY <1>6, Parties DEF Uncounted, Returning, Promised
  <2>4. Entered = finished
    BY <2>3 DEF Entered
  <2>5. finished = Range(popped) \cup {value[n] : n \in L}
    <3> HIDE DEF Entered, Linked, Returning
    <3>1. Entered = Range(popped) \cup {value[n] : n \in L}
      BY <1>3, <2>1, <2>3 DEF Placed
    <3>2. QED
      BY <2>4, <3>1
  <2>6. size = Cardinality(L)
    <3>1. {p \in Producers : Uncounted(p)} = {} /\ Cardinality({}) = 0
      BY <2>3, FS_EmptySet
    <3> HIDE DEF Uncounted, Promised, Linked
    <3>2. Cardinality(L) = size + 0 + 0
      BY <1>3, <2>1, <2>3, <3>1 DEF SizeIsExact
    <3>3. QED
      BY <1>1, <3>2 DEF QueueTypes, SharedTypes
  <2>7. QED
    BY <2>2, <2>5, <2>6
<1>7. QED
  BY <1>4, <1>5, <1>6 DEF NothingLost

\* Every value whose push returned true is popped once or still in the queue, in
\* every reachable state, and size is exact when no call is running.
THEOREM NoValueIsLost == Spec => []NothingLost
<1>1. QueueInv => NothingLost
  BY InvLosesNothing
<1>2. QED
  BY <1>1, Invariance, PTL
=============================================================================
