------------------------------ MODULE FifoQueue ------------------------------
(***************************************************************************)
(* What the concurrent queue promises: the items in the order they were    *)
(* pushed, each handed to exactly one thread, no thread waiting in the     *)
(* queue's state.                                                          *)
(***************************************************************************)
EXTENDS Sequences

CONSTANTS Items, Threads, None

VARIABLES
    queue,      \* the items pushed and not popped, oldest first
    popped      \* per thread, the result of its last pop

FifoInit == /\ queue = <<>>
            /\ popped = [t \in Threads |-> None]

FifoPush(x) == /\ queue' = Append(queue, x)
               /\ UNCHANGED popped

FifoPop(t) == /\ queue # <<>>
              /\ popped' = [popped EXCEPT ![t] = Head(queue)]
              /\ queue' = Tail(queue)

\* popifpossible on an empty queue.
FifoNothing(t) == /\ queue = <<>>
                  /\ popped' = [popped EXCEPT ![t] = None]
                  /\ UNCHANGED queue

FifoNext == \/ \E x \in Items : FifoPush(x)
            \/ \E t \in Threads : FifoPop(t) \/ FifoNothing(t)

FifoSpec == FifoInit /\ [][FifoNext]_<<queue, popped>>
=============================================================================
