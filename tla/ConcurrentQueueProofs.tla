------------------------ MODULE ConcurrentQueueProofs ------------------------
(***************************************************************************)
(* Proofs about the concurrent queue, for any number of threads of each    *)
(* kind: that no wakeup is lost on queuePopCondvar, that a lone counter    *)
(* never waits, and that the linked list is a FIFO queue.                  *)
(***************************************************************************)
EXTENDS ConcurrentQueue, FiniteSetTheorems, SequenceTheorems,
        WellFoundedInduction, NaturalsInduction, TLAPS

\* Some other thread may have popped the item a woken thread was woken for; it
\* then finds the count smaller, so counting takers against items survives.
WakeupInv ==
    /\ queueCount \in Nat
    /\ waiting \subseteq Consumers \cup Counters
    /\ woken \subseteq Consumers \cup Counters
    /\ waiting \cap woken = {}
    /\ counted \subseteq Counters
    /\ EveryItemHasATaker

\* woken is finite, so adding or removing a thread changes its size by one.
LEMMA WokenCount ==
    ASSUME WakeupInv
    PROVE  /\ Cardinality(woken) \in Nat
           /\ \A t : t \notin woken =>
                  Cardinality(woken \cup {t}) = Cardinality(woken) + 1
           /\ \A t : t \in woken =>
                  Cardinality(woken \ {t}) = Cardinality(woken) - 1
<1>1. IsFiniteSet(woken)
  BY QueueAssumption, FS_Subset DEF WakeupInv
<1> QED
  BY <1>1, FS_CardinalityType, FS_AddElement, FS_RemoveElement

\* An empty queue owes nobody a wakeup.
LEMMA WakeupInit == QueueInit => WakeupInv
BY DEF QueueInit, WakeupInv, EveryItemHasATaker

\* A push adds an item and, if a thread waits, a woken thread to take it.
LEMMA PushWakeup ==
    ASSUME WakeupInv, NEW x \in Items, Push(x)
    PROVE  WakeupInv'
<1>1. queueCount' = queueCount + 1 /\ counted' = counted
  BY DEF Push, Link
<1>2. CASE waiting = {}
  BY <1>1, <1>2 DEF Push, Signal, WakeupInv, EveryItemHasATaker
<1>3. CASE waiting # {}
  <2>1. PICK t \in waiting : /\ waiting' = waiting \ {t}
                             /\ woken' = woken \cup {t}
    BY <1>3 DEF Push, Signal
  <2>2. Cardinality(woken') = Cardinality(woken) + 1
    BY <2>1, WokenCount DEF WakeupInv
  <2>3. queueCount' <= Cardinality(woken')
    BY <1>1, <1>3, <2>2, WokenCount DEF WakeupInv, EveryItemHasATaker
  <2> QED
    BY <1>1, <2>1, <2>3 DEF WakeupInv, EveryItemHasATaker
<1> QED
  BY <1>2, <1>3

\* A pop takes an item and the thread that was to take it.
LEMMA PopWakeup ==
    ASSUME WakeupInv, NEW t \in Threads, Pop(t)
    PROVE  WakeupInv'
<1>1. /\ queueCount # 0 /\ queueCount' = queueCount - 1
      /\ woken' = woken \ {t} /\ counted' = counted \ {t}
      /\ waiting' = waiting
  BY DEF Pop, Unlink
<1>2. Cardinality(woken') >= Cardinality(woken) - 1
  <2>1. CASE t \in woken
    BY <1>1, <2>1, WokenCount
  <2>2. CASE t \notin woken
    <3>1. woken' = woken
      BY <1>1, <2>2
    <3> QED
      BY <3>1, WokenCount
  <2> QED
    BY <2>1, <2>2
<1>3. Cardinality(woken') \in Int
  BY <1>1, QueueAssumption, FS_Subset, FS_CardinalityType DEF WakeupInv
<1>4. EveryItemHasATaker'
  BY <1>1, <1>2, <1>3, WokenCount DEF WakeupInv, EveryItemHasATaker
<1> QED
  BY <1>1, <1>4 DEF WakeupInv

\* A thread begins to wait only when the count is zero.
LEMMA WaitWakeup ==
    ASSUME WakeupInv, NEW t \in Threads, WaitForItem(t)
    PROVE  WakeupInv'
<1>1. /\ queueCount' = queueCount /\ queueCount = 0
      /\ waiting' = waiting \cup {t} /\ woken' = woken \ {t}
      /\ counted' = counted
  BY DEF WaitForItem, listVars
<1>2. t \in Consumers \cup Counters
  BY DEF WaitForItem, InPop, MayCallPop, WakeupInv
<1>3. IsFiniteSet(woken')
  BY <1>1, QueueAssumption, FS_Subset DEF WakeupInv
<1>4. 0 <= Cardinality(woken')
  BY <1>3, FS_CardinalityType
<1> QED
  BY <1>1, <1>2, <1>4 DEF WakeupInv, EveryItemHasATaker

\* A spurious wakeup adds a woken thread and takes none away.
LEMMA SpuriousWakeupStep ==
    ASSUME WakeupInv, NEW t \in Threads, SpuriousWakeup(t)
    PROVE  WakeupInv'
<1>1. /\ queueCount' = queueCount /\ counted' = counted
      /\ waiting' = waiting \ {t} /\ woken' = woken \cup {t} /\ t \in waiting
  BY DEF SpuriousWakeup, listVars
<1>2. Cardinality(woken') = Cardinality(woken) + 1
  BY <1>1, WokenCount DEF WakeupInv
<1>3. queueCount <= Cardinality(woken')
  BY <1>1, <1>2, WokenCount DEF WakeupInv, EveryItemHasATaker
<1> QED
  BY <1>1, <1>3 DEF WakeupInv, EveryItemHasATaker

\* Reading the count changes nothing that threads wait for.
LEMMA CountWakeup ==
    ASSUME WakeupInv, NEW t \in Threads, Count(t)
    PROVE  WakeupInv'
BY DEF Count, listVars, WakeupInv, EveryItemHasATaker

\* A poll wakes and takes no thread, and leaves no more items than before.
LEMMA PollWakeup ==
    ASSUME WakeupInv, NEW t \in Threads, PopIfPossible(t)
    PROVE  WakeupInv'
<1>1. UNCHANGED waitVars /\ queueCount' \in {queueCount, queueCount - 1}
      /\ (queueCount' = queueCount - 1 => queueCount > 0)
  BY DEF PopIfPossible, Unlink, listVars, WakeupInv
<1>2. queueCount' \in Nat /\ queueCount' <= queueCount
  BY <1>1 DEF WakeupInv
<1> QED
  BY <1>1, <1>2, WokenCount DEF waitVars, WakeupInv, EveryItemHasATaker

\* Every step of the queue keeps the invariant.
LEMMA WakeupStep == WakeupInv /\ [QueueNext]_qvars => WakeupInv'
<1> SUFFICES ASSUME WakeupInv, [QueueNext]_qvars PROVE WakeupInv'
  OBVIOUS
<1>1. CASE UNCHANGED qvars
  BY <1>1 DEF qvars, listVars, waitVars, WakeupInv, EveryItemHasATaker
<1> QED
  BY <1>1, PushWakeup, PopWakeup, WaitWakeup, SpuriousWakeupStep,
     CountWakeup, PollWakeup DEF QueueNext, Take

\* A push may signal a thread whose item another thread then takes, but never
\* leaves a thread asleep beside an item that nobody is coming for.
THEOREM NoLostWakeup == QueueSpec => []EveryItemHasATaker
<1>1. WakeupInv => EveryItemHasATaker
  BY DEF WakeupInv
<1> QED
  BY <1>1, WakeupInit, WakeupStep, PTL DEF QueueSpec

-----------------------------------------------------------------------------
(* A lone counter *)

\* Once the counter has counted, only its own pop can take the item away.
CounterInv ==
    /\ queueCount \in Nat
    /\ waiting = {} /\ woken = {}
    /\ counted \subseteq Counters
    /\ counted # {} => queueCount # 0

\* Nobody takes an item between the count and the pop of the only taker.
LEMMA CounterStep ==
    ASSUME NEW w, Counters = {w}, Consumers = {}, Pollers = {},
           CounterInv, [QueueNext]_qvars
    PROVE  CounterInv'
<1>1. Threads = {w}
  BY DEF Threads
<1>2. CASE UNCHANGED qvars
  BY <1>2 DEF qvars, listVars, waitVars, CounterInv
<1>3. ASSUME NEW x \in Items, Push(x) PROVE CounterInv'
  BY <1>3 DEF Push, Link, Signal, CounterInv
<1>4. ASSUME Pop(w) PROVE CounterInv'
  <2>1. w \in counted
    BY <1>4 DEF Pop, InPop, MayCallPop, CounterInv
  <2>2. /\ queueCount' = queueCount - 1 /\ queueCount # 0
        /\ waiting' = waiting /\ woken' = woken \ {w}
        /\ counted' = counted \ {w}
    BY <1>4 DEF Pop, Unlink
  <2>3. counted' = {}
    BY <2>2 DEF CounterInv
  <2> QED
    BY <2>2, <2>3 DEF CounterInv
<1>5. ASSUME WaitForItem(w) PROVE FALSE
  <2>1. w \in counted /\ queueCount = 0
    BY <1>5 DEF WaitForItem, InPop, MayCallPop, CounterInv
  <2> QED
    BY <2>1 DEF CounterInv
<1>6. ASSUME Count(w) PROVE CounterInv'
  BY <1>6 DEF Count, listVars, CounterInv
<1>7. ~PopIfPossible(w) /\ ~SpuriousWakeup(w)
  BY DEF PopIfPossible, SpuriousWakeup, CounterInv
<1> QED
  BY <1>1, <1>2, <1>3, <1>4, <1>5, <1>6, <1>7 DEF QueueNext, Take

\* The swarm watchdog counts peerIngestionQueue before it pops: with nobody
\* else taking from the queue it never waits there, whoever pushes.
THEOREM LoneCounterNeverWaits ==
    ASSUME NEW w, Counters = {w}, Consumers = {}, Pollers = {}
    PROVE  QueueSpec => []CountedPopNeverWaits
<1>1. QueueInit => CounterInv
  BY DEF QueueInit, CounterInv
<1>2. CounterInv /\ [QueueNext]_qvars => CounterInv'
  BY CounterStep
<1>3. CounterInv => CountedPopNeverWaits
  BY DEF CounterInv, CountedPopNeverWaits
<1> QED
  BY <1>1, <1>2, <1>3, PTL DEF QueueSpec

-----------------------------------------------------------------------------
(* The list *)

\* Induction on the naturals, for a set in place of a predicate.
LEMMA NatSetInduction ==
    ASSUME NEW S \in SUBSET Nat, 0 \in S, \A n \in S : n + 1 \in S
    PROVE  \A n \in Nat : n \in S
<1> DEFINE less == {ss \in Nat \X Nat : ss[1] < ss[2]}
           T == Nat \ S
<1>1. IsWellFoundedOn(less, Nat)
  BY NatLessThanWellFounded, Zenon DEF OpToRel
<1>2. \A m, n \in Nat : m < n => <<m, n>> \in less
  OBVIOUS
<1>3. SUFFICES ASSUME T # {} PROVE FALSE
  OBVIOUS
<1>4. PICK t \in T : \A u \in T : ~(<<u, t>> \in less)
  <2> T \in SUBSET Nat
    OBVIOUS
  <2> HIDE DEF less, T
  <2> QED
    BY <1>1, <1>3, WFMin
<1> HIDE DEF less
<1>5. t \in Nat /\ t # 0 /\ t - 1 \in Nat /\ t - 1 < t /\ (t - 1) + 1 = t
  OBVIOUS
<1>6. t - 1 \in S
  BY <1>2, <1>4, <1>5
<1> QED
  BY <1>5, <1>6

\* Following a function from a starting point is well defined.
Follows(f, base, step) == f = [i \in Nat |-> IF i = 0 THEN base ELSE step[f[i - 1]]]

\* There is such a function, for every start and every successor.
LEMMA FollowedFunction == \A base, step : \E f : Follows(f, base, step)
<1> TAKE base, step
<1> DEFINE Upto(g, n) == g[0] = base /\ \A i \in 1 .. n : g[i] = step[g[i - 1]]
           A == {n \in Nat : \E g : Upto(g, n)}
           F == [n \in Nat |-> (CHOOSE g : Upto(g, n))[n]]
<1>1. \A n \in Nat : \E g : Upto(g, n)
  <2>1. 0 \in A
    <3>1. Upto([i \in {0} |-> base], 0)
      OBVIOUS
    <3> QED
      BY <3>1
  <2>2. ASSUME NEW n \in A PROVE n + 1 \in A
    <3>1. PICK g : Upto(g, n)
      OBVIOUS
    <3> DEFINE h == [i \in 0 .. n + 1 |-> IF i = n + 1 THEN step[g[n]] ELSE g[i]]
    <3>2. h[0] = base
      BY <3>1
    <3>3. ASSUME NEW i \in 1 .. n + 1 PROVE h[i] = step[h[i - 1]]
      <4>1. CASE i = n + 1
        BY <4>1
      <4>2. CASE i # n + 1
        <5>1. i \in 1 .. n /\ h[i] = g[i] /\ h[i - 1] = g[i - 1]
          BY <4>2
        <5> HIDE DEF h
        <5> QED
          BY <3>1, <5>1
      <4> QED
        BY <4>1, <4>2
    <3>4. Upto(h, n + 1)
      BY <3>2, <3>3
    <3> HIDE DEF h
    <3>5. \E k : Upto(k, n + 1)
      BY <3>4
    <3> QED
      BY <3>5
  <2>3. A \in SUBSET Nat
    OBVIOUS
  <2> HIDE DEF A
  <2>4. \A n \in Nat : n \in A
    BY <2>1, <2>2, <2>3, NatSetInduction
  <2> QED
    BY <2>4 DEF A
<1>2. ASSUME NEW n \in Nat, NEW g, NEW h, Upto(g, n), Upto(h, n + 1)
      PROVE  g[n] = h[n]
  <2> DEFINE B == {i \in Nat : i <= n => g[i] = h[i]}
  <2>1. 0 \in B
    BY <1>2
  <2>2. ASSUME NEW i \in B PROVE i + 1 \in B
    <3> SUFFICES ASSUME i + 1 <= n PROVE g[i + 1] = h[i + 1]
      OBVIOUS
    <3>1. i + 1 \in 1 .. n /\ i + 1 \in 1 .. n + 1 /\ (i + 1) - 1 = i /\ g[i] = h[i]
      OBVIOUS
    <3> QED
      BY <1>2, <3>1
  <2>3. B \in SUBSET Nat
    OBVIOUS
  <2> HIDE DEF B
  <2>4. n \in B
    BY <2>1, <2>2, <2>3, NatSetInduction
  <2> QED
    BY <2>4 DEF B
<1>3. F[0] = base
  <2>1. Upto(CHOOSE g : Upto(g, 0), 0)
    BY <1>1
  <2> QED
    BY <2>1
<1>4. ASSUME NEW i \in Nat PROVE F[i + 1] = step[F[i]]
  <2> DEFINE g == CHOOSE g : Upto(g, i)
             h == CHOOSE h : Upto(h, i + 1)
  <2>1. Upto(g, i)
    BY <1>1
  <2>2. Upto(h, i + 1)
    BY <1>1
  <2>3. F[i] = g[i] /\ F[i + 1] = h[i + 1]
    OBVIOUS
  <2> HIDE DEF F, g, h
  <2>4. g[i] = h[i]
    BY <1>2, <2>1, <2>2
  <2>5. h[i + 1] = step[h[i]]
    <3>1. i + 1 \in 1 .. i + 1 /\ (i + 1) - 1 = i
      OBVIOUS
    <3> QED
      BY <2>2, <3>1
  <2> QED
    BY <2>3, <2>4, <2>5
<1> DEFINE Body(f) == [i \in Nat |-> IF i = 0 THEN base ELSE step[f[i - 1]]]
<1>5. F = Body(F)
  <2>1. ASSUME NEW i \in Nat PROVE F[i] = Body(F)[i]
    <3>1. CASE i = 0
      BY <1>3, <3>1
    <3>2. CASE i # 0
      <4>1. i - 1 \in Nat /\ (i - 1) + 1 = i
        BY <3>2
      <4>2. F[i] = step[F[i - 1]]
        BY <1>4, <4>1
      <4> HIDE DEF F
      <4> QED
        BY <3>2, <4>2
    <3> QED
      BY <3>1, <3>2
  <2>2. F = [i \in Nat |-> F[i]]
    OBVIOUS
  <2> QED
    BY <2>1, <2>2
<1> HIDE DEF F
<1> QED
  BY <1>5 DEF Follows

\* The addresses of the list, one after the other, now and after a step.
LEMMA ListNodeSteps ==
    /\ ListNode[0] = rootItem
    /\ \A i \in Nat : ListNode[i + 1] = next[ListNode[i]]
<1>1. ListNode = CHOOSE f : Follows(f, rootItem, next)
  BY Zenon DEF ListNode, Follows
<1>2. Follows(ListNode, rootItem, next)
  BY <1>1, FollowedFunction, Zenon
<1>3. \A i \in Nat : i + 1 \in Nat /\ i + 1 # 0 /\ (i + 1) - 1 = i
  OBVIOUS
<1> QED
  BY <1>2, <1>3 DEF Follows

\* The nodes of the list after a step, one by one.
LEMMA ListNodeStepsAfter ==
    /\ ListNode'[0] = rootItem'
    /\ \A i \in Nat : ListNode'[i + 1] = next'[ListNode'[i]]
<1>1. ListNode' = CHOOSE f : Follows(f, rootItem', next')
  BY Zenon DEF ListNode, Follows
<1>2. Follows(ListNode', rootItem', next')
  BY <1>1, FollowedFunction, Zenon
<1>3. \A i \in Nat : i + 1 \in Nat /\ i + 1 # 0 /\ (i + 1) - 1 = i
  OBVIOUS
<1> QED
  BY <1>2, <1>3 DEF Follows

\* The addresses from the root are those in use, each once, and lastItem is the
\* last of them.
ChainInv ==
    /\ QueueTypeOK
    /\ \A i \in Nat : i < queueCount => ListNode[i] \in allocated
    /\ \A n \in allocated : \E i \in Nat : i < queueCount /\ ListNode[i] = n
    /\ \A i, j \in Nat : i < queueCount /\ j < queueCount /\ ListNode[i] = ListNode[j]
                             => i = j
    /\ queueCount = 0 => rootItem = NULL /\ lastItem = NULL
    /\ queueCount # 0 => /\ ListNode[queueCount - 1] = lastItem
                         /\ next[lastItem] = NULL

\* The root is NULL only in an empty list, and its successor only in a list of
\* one.
LEMMA EndsOfChain ==
    ASSUME ChainInv
    PROVE  /\ rootItem = NULL <=> queueCount = 0
           /\ queueCount # 0 => /\ rootItem \in allocated
                                /\ next[rootItem] = NULL <=> queueCount = 1
<1>1. queueCount \in Nat /\ allocated \subseteq Nodes /\ NULL \notin Nodes
  BY QueueAssumption DEF ChainInv, QueueTypeOK
<1>2. queueCount # 0 => rootItem \in allocated
  BY <1>1, ListNodeSteps DEF ChainInv
<1>3. queueCount > 1 => next[rootItem] \in allocated
  <2>1. next[rootItem] = ListNode[1]
    BY ListNodeSteps
  <2> QED
    BY <1>1, <2>1 DEF ChainInv
<1>4. queueCount = 1 => next[rootItem] = NULL
  <2>1. queueCount = 1 => lastItem = rootItem
    BY ListNodeSteps DEF ChainInv
  <2> QED
    BY <2>1 DEF ChainInv
<1> QED
  BY <1>1, <1>2, <1>3, <1>4 DEF ChainInv

\* A push leaves the chain as it was and continues it.
LEMMA LinkChain ==
    ASSUME ChainInv, NEW x \in Items, NEW n \in Nodes \ allocated, Link(n, x)
    PROVE  /\ queueCount' = queueCount + 1 /\ allocated' = allocated \cup {n}
           /\ \A i \in Nat : i < queueCount => ListNode'[i] = ListNode[i]
           /\ ListNode'[queueCount] = n /\ lastItem' = n /\ next'[n] = NULL
<1>1. /\ queueCount \in Nat /\ queueCount' = queueCount + 1
      /\ next \in [Nodes -> Nodes \cup {NULL}] /\ lastItem' = n
      /\ allocated' = allocated \cup {n}
  BY DEF ChainInv, QueueTypeOK, Link
<1>2. CASE queueCount = 0
  <2>1. rootItem' = n /\ next' = [next EXCEPT ![n] = NULL]
    BY <1>2, EndsOfChain DEF Link
  <2> QED
    BY <1>1, <1>2, <2>1, ListNodeStepsAfter
<1>3. CASE queueCount # 0
  <2>1. /\ rootItem' = rootItem /\ next' = [next EXCEPT ![n] = NULL, ![lastItem] = n]
        /\ lastItem = ListNode[queueCount - 1] /\ lastItem \in allocated
    BY <1>1, <1>3, EndsOfChain DEF Link, ChainInv
  <2>2. lastItem \in Nodes /\ lastItem # n
    BY <2>1 DEF ChainInv, QueueTypeOK
  <2> DEFINE S == {i \in Nat : i < queueCount => ListNode'[i] = ListNode[i]}
  <2>3. 0 \in S
    BY <2>1, ListNodeSteps, ListNodeStepsAfter
  <2>4. ASSUME NEW i \in S PROVE i + 1 \in S
    <3> SUFFICES ASSUME i + 1 < queueCount PROVE ListNode'[i + 1] = ListNode[i + 1]
      OBVIOUS
    <3>1. i \in Nat /\ i < queueCount /\ i # queueCount - 1 /\ queueCount - 1 \in Nat
          /\ queueCount - 1 < queueCount /\ ListNode'[i] = ListNode[i]
      BY <1>1
    <3>2. ListNode[i] \in allocated /\ ListNode[i] # lastItem
      BY <2>1, <3>1 DEF ChainInv
    <3>3. next'[ListNode[i]] = next[ListNode[i]]
      BY <1>1, <2>1, <3>2 DEF ChainInv, QueueTypeOK
    <3> QED
      BY <3>1, <3>3, ListNodeSteps, ListNodeStepsAfter
  <2> HIDE DEF S
  <2>5. \A i \in Nat : i \in S
    <3>1. S \in SUBSET Nat
      BY DEF S
    <3> QED
      BY <2>3, <2>4, <3>1, NatSetInduction
  <2>6. \A i \in Nat : i < queueCount => ListNode'[i] = ListNode[i]
    BY <2>5 DEF S
  <2>7. ListNode'[queueCount] = n
    <3>1. /\ queueCount - 1 \in Nat /\ queueCount - 1 < queueCount
          /\ (queueCount - 1) + 1 = queueCount
      BY <1>1, <1>3
    <3>2. ListNode'[queueCount - 1] = lastItem
      BY <2>1, <2>6, <3>1
    <3>3. ListNode'[queueCount] = next'[lastItem]
      BY <3>1, <3>2, ListNodeStepsAfter
    <3> QED
      BY <1>1, <2>1, <2>2, <3>3
  <2>8. next'[n] = NULL
    BY <1>1, <2>1, <2>2
  <2> QED
    BY <1>1, <2>6, <2>7, <2>8
<1> QED
  BY <1>2, <1>3

\* A pop moves the chain up by one.
LEMMA UnlinkChain ==
    ASSUME ChainInv, NEW t \in Threads, Unlink(t), queueCount # 0
    PROVE  /\ queueCount' = queueCount - 1 /\ allocated' = allocated \ {rootItem}
           /\ \A i \in Nat : ListNode'[i] = ListNode[i + 1] \/ queueCount = 1
           /\ queueCount = 1 => rootItem' = NULL /\ lastItem' = NULL
           /\ queueCount # 1 => lastItem' = lastItem
           /\ next' = next /\ theItem' = theItem
<1>1. /\ queueCount' = queueCount - 1 /\ allocated' = allocated \ {rootItem}
      /\ next' = next /\ theItem' = theItem
  BY DEF Unlink
<1>2. CASE queueCount = 1
  BY <1>1, <1>2, EndsOfChain DEF Unlink
<1>3. CASE queueCount # 1
  <2>1. rootItem' = next[rootItem] /\ lastItem' = lastItem
    BY <1>3, EndsOfChain DEF Unlink
  <2> DEFINE S == {i \in Nat : ListNode'[i] = ListNode[i + 1]}
  <2>2. 0 \in S
    BY <2>1, ListNodeSteps, ListNodeStepsAfter
  <2>3. ASSUME NEW i \in S PROVE i + 1 \in S
    <3>1. i \in Nat /\ i + 1 \in Nat /\ ListNode'[i] = ListNode[i + 1]
      OBVIOUS
    <3>2. ListNode'[i + 1] = next[ListNode[i + 1]]
      BY <1>1, <3>1, ListNodeStepsAfter
    <3>3. ListNode[(i + 1) + 1] = next[ListNode[i + 1]]
      BY <3>1, ListNodeSteps
    <3> QED
      BY <3>1, <3>2, <3>3
  <2> HIDE DEF S
  <2>4. \A i \in Nat : i \in S
    <3>1. S \in SUBSET Nat
      BY DEF S
    <3> QED
      BY <2>2, <2>3, <3>1, NatSetInduction
  <2> QED
    BY <1>1, <1>3, <2>1, <2>4 DEF S
<1> QED
  BY <1>2, <1>3

\* The empty list is a chain.
LEMMA ChainInit == QueueInit => ChainInv
BY QueueAssumption DEF QueueInit, ChainInv, QueueTypeOK

\* A push appends an unused node to the chain.
LEMMA PushChain ==
    ASSUME ChainInv, NEW x \in Items, Push(x)
    PROVE  ChainInv'
<1>1. PICK n \in Nodes \ allocated : Link(n, x)
  BY DEF Push
<1>2. QueueTypeOK'
  <2>1. /\ theItem' = [theItem EXCEPT ![n] = x] /\ lastItem' = n
        /\ allocated' = allocated \cup {n} /\ queueCount' = queueCount + 1
        /\ rootItem' \in {n, rootItem}
        /\ next' = [next EXCEPT ![n] = NULL]
           \/ next' = [next EXCEPT ![n] = NULL, ![lastItem] = n]
    BY <1>1 DEF Link
  <2>2. next' \in [Nodes -> Nodes \cup {NULL}]
    BY <2>1 DEF ChainInv, QueueTypeOK
  <2>3. waiting' \subseteq waiting /\ woken' \subseteq woken \cup waiting
        /\ UNCHANGED <<counted, popped>>
    BY DEF Push, Signal
  <2> QED
    BY <2>1, <2>2, <2>3 DEF ChainInv, QueueTypeOK
<1>3. /\ queueCount \in Nat /\ queueCount' = queueCount + 1
      /\ allocated' = allocated \cup {n}
      /\ \A i \in Nat : i < queueCount => ListNode'[i] = ListNode[i]
      /\ ListNode'[queueCount] = n /\ lastItem' = n /\ next'[n] = NULL
  BY <1>1, LinkChain DEF ChainInv, QueueTypeOK
<1>4. \A i \in Nat : i < queueCount' <=> i < queueCount \/ i = queueCount
  BY <1>3
<1>5. \A i \in Nat : i < queueCount => ListNode[i] # n
  BY <1>1 DEF ChainInv
<1>6. \A i \in Nat : i < queueCount' => ListNode'[i] \in allocated'
  BY <1>3, <1>4 DEF ChainInv
<1>7. \A m \in allocated' : \E i \in Nat : i < queueCount' /\ ListNode'[i] = m
  BY <1>3, <1>4 DEF ChainInv
<1>8. \A i, j \in Nat : i < queueCount' /\ j < queueCount' /\ ListNode'[i] = ListNode'[j]
          => i = j
  BY <1>3, <1>4, <1>5 DEF ChainInv
<1>9. queueCount' # 0 /\ queueCount' - 1 = queueCount
  BY <1>3
<1> QED
  BY <1>2, <1>3, <1>6, <1>7, <1>8, <1>9 DEF ChainInv

\* Taking the first node leaves a chain of the others.
LEMMA UnlinkKeepsChain ==
    ASSUME ChainInv, NEW t \in Threads, Unlink(t), queueCount # 0,
           waiting' \subseteq waiting, woken' \subseteq woken, counted' \subseteq counted
    PROVE  ChainInv'
<1>1. /\ queueCount \in Nat /\ queueCount' = queueCount - 1
      /\ allocated' = allocated \ {rootItem}
      /\ \A i \in Nat : ListNode'[i] = ListNode[i + 1] \/ queueCount = 1
      /\ queueCount = 1 => rootItem' = NULL /\ lastItem' = NULL
      /\ queueCount # 1 => lastItem' = lastItem
      /\ next' = next /\ theItem' = theItem
  BY UnlinkChain DEF ChainInv, QueueTypeOK
<1>2. QueueTypeOK'
  <2>1. rootItem \in Nodes
    BY EndsOfChain DEF ChainInv, QueueTypeOK
  <2>2. popped' = [popped EXCEPT ![t] = theItem[rootItem]]
        /\ rootItem' \in {NULL, next[rootItem]} /\ lastItem' \in {NULL, lastItem}
    BY DEF Unlink
  <2>3. queueCount' \in Nat
    BY <1>1
  <2>4. rootItem' \in Nodes \cup {NULL} /\ lastItem' \in Nodes \cup {NULL}
    BY <2>1, <2>2 DEF ChainInv, QueueTypeOK
  <2> QED
    BY <1>1, <2>1, <2>2, <2>3, <2>4 DEF ChainInv, QueueTypeOK
<1>3. CASE queueCount = 1
  <2>1. allocated = {rootItem}
    <3>1. \A n \in allocated : n = rootItem
      <4> TAKE n \in allocated
      <4>1. PICK i \in Nat : i < queueCount /\ ListNode[i] = n
        BY DEF ChainInv
      <4>2. i = 0
        BY <1>3, <4>1
      <4> QED
        BY <4>1, <4>2, ListNodeSteps
    <3> QED
      BY <3>1, EndsOfChain
  <2>2. queueCount' = 0 /\ allocated' = {} /\ \A i \in Nat : ~(i < 0)
    BY <1>1, <1>3, <2>1
  <2> QED
    BY <1>1, <1>2, <1>3, <2>2 DEF ChainInv
<1>4. CASE queueCount # 1
  <2>1. /\ \A i \in Nat : ListNode'[i] = ListNode[i + 1]
        /\ \A i \in Nat : i < queueCount' <=> i + 1 < queueCount
        /\ \A i \in Nat : i + 1 \in Nat /\ i + 1 # 0
    BY <1>1, <1>4
  <2>2. \A i \in Nat : i < queueCount' => ListNode'[i] \in allocated'
    <3>1. \A i \in Nat : i < queueCount /\ i # 0 => ListNode[i] # rootItem
      BY <1>1, ListNodeSteps DEF ChainInv
    <3> QED
      BY <1>1, <2>1, <3>1 DEF ChainInv
  <2>3. ASSUME NEW n \in allocated'
        PROVE  \E i \in Nat : i < queueCount' /\ ListNode'[i] = n
    <3>1. n \in allocated /\ n # rootItem
      BY <1>1
    <3>2. PICK i \in Nat : i < queueCount /\ ListNode[i] = n
      BY <3>1 DEF ChainInv
    <3>3. i # 0
      BY <3>1, <3>2, ListNodeSteps
    <3>4. i - 1 \in Nat /\ (i - 1) + 1 = i
      BY <3>3
    <3> QED
      BY <2>1, <3>2, <3>4
  <2>4. ASSUME NEW i \in Nat, NEW j \in Nat, i < queueCount', j < queueCount',
               ListNode'[i] = ListNode'[j]
        PROVE  i = j
    <3>1. i + 1 = j + 1
      BY <2>1, <2>4 DEF ChainInv
    <3> QED
      BY <3>1
  <2>5. /\ queueCount' # 0 /\ ListNode'[queueCount' - 1] = lastItem'
        /\ next'[lastItem'] = NULL
    <3>1. queueCount' # 0 /\ queueCount' - 1 \in Nat /\ (queueCount' - 1) + 1 = queueCount - 1
      BY <1>1, <1>4
    <3> QED
      BY <1>1, <1>4, <2>1, <3>1 DEF ChainInv
  <2> QED
    BY <1>2, <2>2, <2>3, <2>4, <2>5 DEF ChainInv
<1> QED
  BY <1>3, <1>4

\* Other steps leave the list alone.
LEMMA ChainStep == ChainInv /\ [QueueNext]_qvars => ChainInv'
<1> SUFFICES ASSUME ChainInv, [QueueNext]_qvars PROVE ChainInv'
  OBVIOUS
<1>1. ASSUME UNCHANGED listVars, waiting' \subseteq Consumers \cup Counters,
             woken' \subseteq Consumers \cup Counters, counted' \subseteq Counters,
             popped' \in [Threads -> Items \cup {None}]
      PROVE  ChainInv'
  <2>1. ListNode' = ListNode
    BY <1>1, Zenon DEF ListNode, listVars
  <2>2. /\ rootItem' = rootItem /\ lastItem' = lastItem /\ queueCount' = queueCount
        /\ next' = next /\ theItem' = theItem /\ allocated' = allocated
    BY <1>1 DEF listVars
  <2>3. QueueTypeOK'
    BY <1>1, <2>2 DEF ChainInv, QueueTypeOK
  <2> QED
    BY <2>1, <2>2, <2>3 DEF ChainInv
<1>2. /\ waiting \subseteq Consumers \cup Counters /\ woken \subseteq Consumers \cup Counters
      /\ counted \subseteq Counters /\ popped \in [Threads -> Items \cup {None}]
      /\ queueCount \in Nat
  BY DEF ChainInv, QueueTypeOK
<1>3. CASE UNCHANGED qvars
  BY <1>1, <1>2, <1>3 DEF qvars, waitVars
<1>4. ASSUME NEW t \in Threads, Pop(t) PROVE ChainInv'
  BY <1>4, UnlinkKeepsChain DEF Pop
<1>5. ASSUME NEW t \in Threads, WaitForItem(t) PROVE ChainInv'
  <2>1. t \in Consumers \cup Counters
    BY <1>2, <1>5 DEF WaitForItem, InPop, MayCallPop
  <2> QED
    BY <1>1, <1>2, <1>5, <2>1 DEF WaitForItem
<1>6. ASSUME NEW t \in Threads, SpuriousWakeup(t) \/ Count(t) PROVE ChainInv'
  BY <1>1, <1>2, <1>6 DEF SpuriousWakeup, Count
<1>7. ASSUME NEW t \in Threads, PopIfPossible(t) PROVE ChainInv'
  <2>1. CASE queueCount > 0
    BY <1>2, <1>7, <2>1, UnlinkKeepsChain DEF PopIfPossible, waitVars
  <2>2. CASE ~(queueCount > 0)
    BY <1>1, <1>2, <1>7, <2>2 DEF PopIfPossible, waitVars
  <2> QED
    BY <2>1, <2>2
<1> QED
  BY <1>3, <1>4, <1>5, <1>6, <1>7, PushChain DEF QueueNext, Take

\* The list is a chain in every state.
LEMMA ChainInvariant == QueueSpec => []ChainInv
BY ChainInit, ChainStep, PTL DEF QueueSpec

\* No push and no pop leaks an item, links it twice or leaves a freed one in
\* the list, and lastItem is where the next push continues it.
THEOREM ListStaysWellFormed == QueueSpec => []ListIsWellFormed
<1>1. ASSUME ChainInv PROVE ListIsWellFormed
  <2> DEFINE nodes == {ListNode[i] : i \in 0 .. queueCount - 1}
  <2>1. queueCount \in Nat /\ QueueTypeOK
    BY <1>1 DEF ChainInv, QueueTypeOK
  <2>2. \A i : i \in 0 .. queueCount - 1 <=> i \in Nat /\ i < queueCount
    BY <2>1
  <2>3. nodes = allocated
    BY <1>1, <2>2 DEF ChainInv
  <2>4. Cardinality(nodes) = queueCount
    <3> DEFINE f == [i \in 0 .. queueCount - 1 |-> ListNode[i]]
    <3>1. f \in Bijection(0 .. queueCount - 1, nodes)
      <4>1. \A i, j \in 0 .. queueCount - 1 : ListNode[i] = ListNode[j] => i = j
        BY <1>1, <2>2 DEF ChainInv
      <4> QED
        BY <4>1, Zenon DEF Bijection, Injection, Surjection, IsInjective
    <3>2. ExistsBijection(0 .. queueCount - 1, nodes)
      BY <3>1 DEF ExistsBijection
    <3>3. IsFiniteSet(0 .. queueCount - 1) /\ Cardinality(0 .. queueCount - 1) = queueCount
      BY <2>1, FS_Interval
    <3> QED
      BY <3>2, <3>3, FS_Bijection
  <2>5. CASE queueCount = 0
    <3>1. allocated = {}
      BY <2>2, <2>5, <1>1 DEF ChainInv
    <3> QED
      BY <1>1, <2>1, <2>5, <3>1 DEF ListIsWellFormed, ChainInv
  <2>6. CASE queueCount # 0
    BY <1>1, <2>1, <2>3, <2>4, <2>6 DEF ListIsWellFormed, ChainInv
  <2> QED
    BY <2>5, <2>6
<1> QED
  BY <1>1, ChainInvariant, PTL

-----------------------------------------------------------------------------
(* The refinement *)

\* The items of the list are a sequence; a push appends to it, and a pop takes
\* its head, which is the item returned.
ListIsRead ==
    /\ ListedItems \in Seq(Items \cup {None}) /\ Len(ListedItems) = queueCount
    /\ ListedItems = <<>> <=> queueCount = 0
    /\ \A i \in 1 .. queueCount : ListedItems[i] = theItem[ListNode[i - 1]]

\* What is read along the chain is such a sequence.
LEMMA ListedItemsAre == ChainInv => ListIsRead
<1> SUFFICES ASSUME ChainInv PROVE ListIsRead
  OBVIOUS
<1>1. /\ queueCount \in Nat /\ theItem \in [Nodes -> Items \cup {None}]
      /\ allocated \subseteq Nodes
  BY DEF ChainInv, QueueTypeOK
<1>2. \A i \in 1 .. queueCount : theItem[ListNode[i - 1]] \in Items \cup {None}
  <2> TAKE i \in 1 .. queueCount
  <2>1. i - 1 \in Nat /\ i - 1 < queueCount
    BY <1>1
  <2> QED
    BY <1>1, <2>1 DEF ChainInv
<1>3. ListedItems \in [1 .. queueCount -> Items \cup {None}]
  BY <1>2 DEF ListedItems
<1>4. ListedItems \in Seq(Items \cup {None}) /\ Len(ListedItems) = queueCount
  BY <1>1, <1>3
<1>5. \A i \in 1 .. queueCount : ListedItems[i] = theItem[ListNode[i - 1]]
  BY DEF ListedItems
<1>6. ListedItems = <<>> <=> queueCount = 0
  BY <1>1, <1>4, EmptySeq
<1> QED
  BY <1>4, <1>5, <1>6 DEF ListIsRead

\* A push appends its item to what the list reads.
LEMMA PushAppends ==
    ASSUME ChainInv, NEW x \in Items, Push(x)
    PROVE  ListedItems' = Append(ListedItems, x)
<1> DEFINE I == Items \cup {None}
           new == Append(ListedItems, x)
<1>1. PICK n \in Nodes \ allocated : Link(n, x)
  BY DEF Push
<1>2. /\ queueCount \in Nat /\ queueCount' = queueCount + 1
      /\ \A i \in Nat : i < queueCount => ListNode'[i] = ListNode[i]
      /\ ListNode'[queueCount] = n
  BY <1>1, LinkChain DEF ChainInv, QueueTypeOK
<1>3. theItem' = [theItem EXCEPT ![n] = x] /\ theItem'[n] = x
  BY <1>1 DEF Link, ChainInv, QueueTypeOK
<1>4. /\ ListedItems' \in Seq(I) /\ Len(ListedItems') = queueCount'
      /\ \A i \in 1 .. queueCount' : ListedItems'[i] = theItem'[ListNode'[i - 1]]
  <2>1. ChainInv'
    BY PushChain
  <2>2. ListIsRead'
    BY <2>1, ListedItemsAre, PTL
  <2> QED
    BY <2>2 DEF ListIsRead
<1>5. /\ ListedItems \in Seq(I) /\ Len(ListedItems) = queueCount
      /\ \A i \in 1 .. queueCount : ListedItems[i] = theItem[ListNode[i - 1]]
  BY ListedItemsAre DEF ListIsRead
<1>6. /\ new \in Seq(I) /\ Len(new) = queueCount + 1 /\ new[queueCount + 1] = x
      /\ \A i \in 1 .. queueCount : new[i] = ListedItems[i]
  BY <1>5, AppendProperties
<1>7. ASSUME NEW i \in 1 .. queueCount + 1 PROVE ListedItems'[i] = new[i]
  <2>1. CASE i = queueCount + 1
    <3>1. i - 1 = queueCount
      BY <1>2, <2>1
    <3> QED
      BY <1>2, <1>3, <1>4, <1>6, <2>1, <3>1
  <2>2. CASE i # queueCount + 1
    <3>1. i \in 1 .. queueCount /\ i - 1 \in Nat /\ i - 1 < queueCount
      BY <1>2, <2>2
    <3>2. ListNode'[i - 1] = ListNode[i - 1] /\ ListNode[i - 1] \in allocated
      BY <1>2, <3>1 DEF ChainInv
    <3>3. theItem'[ListNode[i - 1]] = theItem[ListNode[i - 1]]
      BY <1>1, <1>3, <3>2 DEF ChainInv, QueueTypeOK
    <3> QED
      BY <1>2, <1>4, <1>5, <1>6, <3>1, <3>2, <3>3
  <2> QED
    BY <2>1, <2>2
<1> HIDE DEF new, I
<1> QED
  BY <1>2, <1>4, <1>6, <1>7, SeqEqual DEF new

\* A pop returns the head of what the list reads, and leaves its tail.
LEMMA UnlinkTakesHead ==
    ASSUME ChainInv, ChainInv', NEW t \in Threads, Unlink(t), queueCount # 0
    PROVE  /\ ListedItems # <<>> /\ ListedItems' = Tail(ListedItems)
           /\ popped' = [popped EXCEPT ![t] = Head(ListedItems)]
<1> DEFINE I == Items \cup {None}
           new == Tail(ListedItems)
<1>1. /\ queueCount \in Nat /\ queueCount' = queueCount - 1 /\ theItem' = theItem
      /\ \A i \in Nat : ListNode'[i] = ListNode[i + 1] \/ queueCount = 1
  BY UnlinkChain DEF ChainInv, QueueTypeOK
<1>2. /\ ListedItems' \in Seq(I) /\ Len(ListedItems') = queueCount'
      /\ \A i \in 1 .. queueCount' : ListedItems'[i] = theItem'[ListNode'[i - 1]]
  <2>1. ListIsRead'
    BY ListedItemsAre, PTL
  <2> QED
    BY <2>1 DEF ListIsRead
<1>3. /\ ListedItems \in Seq(I) /\ Len(ListedItems) = queueCount /\ ListedItems # <<>>
      /\ \A i \in 1 .. queueCount : ListedItems[i] = theItem[ListNode[i - 1]]
  BY ListedItemsAre DEF ListIsRead
<1>4. Head(ListedItems) = theItem[rootItem]
  <2>1. Head(ListedItems) = ListedItems[1] /\ 1 \in 1 .. queueCount /\ 1 - 1 = 0
    BY <1>1, <1>3
  <2> QED
    BY <1>3, <2>1, ListNodeSteps
<1>5. /\ new \in Seq(I) /\ Len(new) = queueCount - 1
      /\ \A i \in 1 .. queueCount - 1 : new[i] = ListedItems[i + 1]
  BY <1>3, HeadTailProperties
<1>6. ASSUME NEW i \in 1 .. queueCount - 1 PROVE ListedItems'[i] = new[i]
  <2>1. /\ queueCount # 1 /\ i - 1 \in Nat /\ (i - 1) + 1 = i /\ i \in 1 .. queueCount'
        /\ i + 1 \in 1 .. queueCount /\ (i + 1) - 1 = i
    BY <1>1
  <2>2. ListNode'[i - 1] = ListNode[i]
    BY <1>1, <2>1
  <2>3. ListedItems'[i] = theItem[ListNode[i]]
    BY <1>1, <1>2, <2>1, <2>2
  <2>4. ListedItems[i + 1] = theItem[ListNode[(i + 1) - 1]]
    BY <1>3, <2>1
  <2>5. new[i] = ListedItems[i + 1]
    BY <1>5
  <2> QED
    BY <2>1, <2>3, <2>4, <2>5
<1>7. popped' = [popped EXCEPT ![t] = theItem[rootItem]]
  BY DEF Unlink
<1> HIDE DEF new, I
<1>8. ListedItems' = new
  BY <1>1, <1>2, <1>5, <1>6, SeqEqual
<1> QED
  BY <1>3, <1>4, <1>7, <1>8 DEF new

\* The linked list, however pushes, pops, waits and polls interleave, is the
\* abstract queue: each of its steps is one of the queue's, or no step.
LEMMA FifoStep == ChainInv /\ ChainInv' /\ [QueueNext]_qvars
                      => [Fifo!FifoNext]_<<ListedItems, popped>>
<1> SUFFICES ASSUME ChainInv, ChainInv', [QueueNext]_qvars
             PROVE  [Fifo!FifoNext]_<<ListedItems, popped>>
  OBVIOUS
<1>1. ASSUME UNCHANGED listVars PROVE ListedItems' = ListedItems
  <2>1. ListNode' = ListNode
    BY <1>1, Zenon DEF ListNode, listVars
  <2> QED
    BY <1>1, <2>1 DEF ListedItems, listVars
<1>2. CASE UNCHANGED qvars
  BY <1>1, <1>2 DEF qvars
<1>3. ASSUME NEW x \in Items, Push(x) PROVE Fifo!FifoPush(x)
  BY <1>3, PushAppends DEF Push, Fifo!FifoPush
<1>4. ASSUME NEW t \in Threads, Pop(t) PROVE Fifo!FifoPop(t)
  BY <1>4, UnlinkTakesHead DEF Pop, Fifo!FifoPop
<1>5. ASSUME NEW t \in Threads, WaitForItem(t) \/ SpuriousWakeup(t) \/ Count(t)
      PROVE  UNCHANGED <<ListedItems, popped>>
  BY <1>1, <1>5 DEF WaitForItem, SpuriousWakeup, Count
<1>6. ASSUME NEW t \in Threads, PopIfPossible(t)
      PROVE  Fifo!FifoPop(t) \/ Fifo!FifoNothing(t)
  <2>1. CASE queueCount > 0
    <3>1. Unlink(t) /\ queueCount # 0
      BY <1>6, <2>1 DEF PopIfPossible
    <3> QED
      BY <3>1, UnlinkTakesHead DEF Fifo!FifoPop
  <2>2. CASE ~(queueCount > 0)
    <3>1. queueCount = 0 /\ UNCHANGED listVars
          /\ popped' = [popped EXCEPT ![t] = None]
      BY <1>6, <2>2 DEF PopIfPossible, ChainInv, QueueTypeOK
    <3>2. ListedItems = <<>>
      BY <3>1, ListedItemsAre DEF ListIsRead
    <3> QED
      BY <1>1, <3>1, <3>2 DEF Fifo!FifoNothing
  <2> QED
    BY <2>1, <2>2
<1> QED
  BY <1>2, <1>3, <1>4, <1>5, <1>6 DEF QueueNext, Take, Fifo!FifoNext

\* Items come out once, to one thread, in the order they were pushed.
THEOREM QueueImplementsFifo == QueueSpec => IsFifo
<1>1. QueueInit => Fifo!FifoInit
  <2> SUFFICES ASSUME QueueInit PROVE Fifo!FifoInit
    OBVIOUS
  <2>1. ChainInv /\ queueCount = 0 /\ popped = [t \in Threads |-> None]
    BY ChainInit DEF QueueInit
  <2>2. ListedItems = <<>>
    BY <2>1, ListedItemsAre DEF ListIsRead
  <2> QED
    BY <2>1, <2>2 DEF Fifo!FifoInit
<1> QED
  BY <1>1, FifoStep, ChainInvariant, PTL DEF QueueSpec, IsFifo, Fifo!FifoSpec
=============================================================================
