--------------------------- MODULE ConcurrentQueue ---------------------------
(***************************************************************************)
(* The concurrent queue (concurrent_queue.c): a singly linked list under   *)
(* queueMutex, with a condition variable on which a pop waits for items.   *)
(* An operation is atomic but for the wait inside a pop.  The three ways   *)
(* the program takes items are three kinds of threads:                     *)
(*   Consumers  pop and so wait      (a connection's sending thread),      *)
(*   Counters   count, then pop      (the swarm watchdog's ingestion),     *)
(*   Pollers    popifpossible        (the swarm watchdog's drain).         *)
(* A push may come from any thread at any time.                            *)
(***************************************************************************)
EXTENDS Naturals, Sequences, FiniteSets

CONSTANTS
    Items,          \* the pointers that are pushed
    Nodes, NULL,    \* addresses malloc gives conc_queue_items, and NULL
    Consumers, Counters, Pollers, None

Threads == Consumers \cup Counters \cup Pollers

ASSUME QueueAssumption ==
    /\ NULL \notin Nodes
    /\ None \notin Items
    /\ Consumers \cap (Counters \cup Pollers) = {}
    /\ Counters \cap Pollers = {}
    /\ IsFiniteSet(Consumers \cup Counters)

VARIABLES
    rootItem, lastItem, queueCount,
    next, theItem,      \* the fields of the items, by address
    allocated,          \* the addresses in use
    waiting,            \* threads blocked on queuePopCondvar
    woken,              \* threads signalled and not yet rechecking the count
    counted,            \* counters that found the count positive
    popped              \* per thread, what its last pop returned

listVars == <<rootItem, lastItem, queueCount, next, theItem, allocated>>
waitVars == <<waiting, woken, counted>>
qvars == <<listVars, waitVars, popped>>

QueueInit ==
    /\ rootItem = NULL /\ lastItem = NULL
    /\ queueCount = 0
    /\ next = [n \in Nodes |-> NULL]
    /\ theItem = [n \in Nodes |-> None]
    /\ allocated = {}
    /\ waiting = {} /\ woken = {} /\ counted = {}
    /\ popped = [t \in Threads |-> None]

\* Operators named Mutant... are slips of the definition that follows: each
\* one breaks a property, which shows that the property depends on the code.
MutantLink(n, x) ==
    /\ theItem' = [theItem EXCEPT ![n] = x]
    /\ next' = [next EXCEPT ![n] = rootItem]
    /\ rootItem' = n
    /\ lastItem' = IF rootItem = NULL THEN n ELSE lastItem
    /\ allocated' = allocated \cup {n}
    /\ queueCount' = queueCount + 1

\* Link a new item to the end of the list.
Link(n, x) ==
    /\ theItem' = [theItem EXCEPT ![n] = x]
    /\ next' = IF rootItem = NULL
               THEN [next EXCEPT ![n] = NULL]
               ELSE [next EXCEPT ![n] = NULL, ![lastItem] = n]
    /\ rootItem' = IF rootItem = NULL THEN n ELSE rootItem
    /\ lastItem' = n
    /\ allocated' = allocated \cup {n}
    /\ queueCount' = queueCount + 1

MutantSignal == UNCHANGED <<waiting, woken>>

MutantSignalWhenEmpty ==
    IF waiting = {} \/ queueCount # 0
    THEN UNCHANGED <<waiting, woken>>
    ELSE \E t \in waiting : /\ waiting' = waiting \ {t}
                            /\ woken' = woken \cup {t}

\* pthread_cond_signal releases one waiting thread, if there is one.
Signal ==
    IF waiting = {}
    THEN UNCHANGED <<waiting, woken>>
    ELSE \E t \in waiting : /\ waiting' = waiting \ {t}
                            /\ woken' = woken \cup {t}

Push(x) ==
    /\ \E n \in Nodes \ allocated : Link(n, x)
    /\ Signal
    /\ UNCHANGED <<counted, popped>>

MutantUnlinkLast(t) ==
    /\ popped' = [popped EXCEPT ![t] = theItem[rootItem]]
    /\ rootItem' = next[rootItem]
    /\ queueCount' = queueCount - 1
    /\ allocated' = allocated \ {rootItem}
    /\ UNCHANGED <<next, theItem, lastItem>>

\* Take the first item off the list and return it to t.
Unlink(t) ==
    /\ popped' = [popped EXCEPT ![t] = theItem[rootItem]]
    /\ IF next[rootItem] = NULL
       THEN rootItem' = NULL /\ lastItem' = NULL
       ELSE rootItem' = next[rootItem] /\ UNCHANGED lastItem
    /\ queueCount' = queueCount - 1
    /\ allocated' = allocated \ {rootItem}
    /\ UNCHANGED <<next, theItem>>

\* A thread may call pop when it is not inside one; a counter only after count.
MayCallPop(t) == t \notin waiting \cup woken /\ t \in Consumers \cup counted

\* In pop, the thread has the mutex: it just called, or was woken.
InPop(t) == t \in woken \/ MayCallPop(t)

Pop(t) ==
    /\ InPop(t)
    /\ queueCount # 0
    /\ Unlink(t)
    /\ woken' = woken \ {t}
    /\ counted' = counted \ {t}
    /\ UNCHANGED waiting

\* The count is zero: the while loop of pop waits, for the first time or again.
WaitForItem(t) ==
    /\ InPop(t)
    /\ queueCount = 0
    /\ waiting' = waiting \cup {t}
    /\ woken' = woken \ {t}
    /\ UNCHANGED <<listVars, counted, popped>>

SpuriousWakeup(t) ==
    /\ t \in waiting
    /\ waiting' = waiting \ {t}
    /\ woken' = woken \cup {t}
    /\ UNCHANGED <<listVars, counted, popped>>

\* count > 0, after which the caller pops.
Count(t) ==
    /\ t \in Counters \ counted
    /\ queueCount > 0
    /\ counted' = counted \cup {t}
    /\ UNCHANGED <<listVars, waiting, woken, popped>>

PopIfPossible(t) ==
    /\ t \in Pollers
    /\ IF queueCount > 0
       THEN Unlink(t)
       ELSE popped' = [popped EXCEPT ![t] = None] /\ UNCHANGED listVars
    /\ UNCHANGED waitVars

Take(t) == Pop(t) \/ WaitForItem(t) \/ Count(t) \/ PopIfPossible(t)

QueueNext == \/ \E x \in Items : Push(x)
             \/ \E t \in Threads : Take(t) \/ SpuriousWakeup(t)

QueueSpec == QueueInit /\ [][QueueNext]_qvars

\* Every thread that takes items does so in an endless loop.
FairQueueSpec == QueueSpec /\ WF_qvars(\E t \in Threads : Pop(t))

-----------------------------------------------------------------------------
(* The abstract queue the list stands for *)

\* The i-th address of the list, counted from the root.
ListNode[i \in Nat] == IF i = 0 THEN rootItem ELSE next[ListNode[i - 1]]

ListedItems == [i \in 1 .. queueCount |-> theItem[ListNode[i - 1]]]

Fifo == INSTANCE FifoQueue WITH queue <- ListedItems

-----------------------------------------------------------------------------
(* Properties *)

\* The queue's fields have their types.
QueueTypeOK ==
    /\ rootItem \in Nodes \cup {NULL} /\ lastItem \in Nodes \cup {NULL}
    /\ queueCount \in Nat
    /\ next \in [Nodes -> Nodes \cup {NULL}]
    /\ theItem \in [Nodes -> Items \cup {None}]
    /\ allocated \subseteq Nodes
    /\ waiting \subseteq Consumers \cup Counters
    /\ woken \subseteq Consumers \cup Counters
    /\ counted \subseteq Counters
    /\ popped \in [Threads -> Items \cup {None}]

\* The list holds exactly the items that are allocated and not freed, in a
\* chain of queueCount items that starts at rootItem and ends at lastItem: no
\* item is leaked, reached after it was freed, or reached twice.
ListIsWellFormed ==
    /\ QueueTypeOK
    /\ LET nodes == {ListNode[i] : i \in 0 .. queueCount - 1}
       IN  IF queueCount = 0
           THEN rootItem = NULL /\ lastItem = NULL /\ allocated = {}
           ELSE /\ nodes = allocated
                /\ Cardinality(nodes) = queueCount
                /\ ListNode[queueCount - 1] = lastItem
                /\ next[lastItem] = NULL

\* The linked list behaves as a queue: items come out once, in push order.
IsFifo == Fifo!FifoSpec

\* No lost wakeup: while a thread waits, each item in the queue has a thread
\* of its own on the way that was signalled and has not rechecked the count.
EveryItemHasATaker ==
    waiting # {} => queueCount <= Cardinality(woken)

\* In the way the program uses them, one counter is the only thread that takes
\* from its queue: the pop after a positive count never waits, so the swarm
\* watchdog never blocks on peerIngestionQueue.
CountedPopNeverWaits == waiting \cap Counters = {}

\* Every item pushed is popped in the end, however the threads race for it.
EveryItemIsPopped ==
    \A n \in Nodes : n \in allocated ~> n \notin allocated
=============================================================================
