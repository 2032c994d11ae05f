--------------------------- MODULE ElementSequence ---------------------------
(***************************************************************************)
(* What dlinkedlist.h promises: a sequence of elements, in which positions *)
(* count from 0, with the value that each call returns.                    *)
(***************************************************************************)
EXTENDS Naturals, Sequences, SequencesExt

CONSTANTS Data, Absent, NotFound, MaxCount

VARIABLES elements, call        \* the last call, its argument and its result

SequenceInit == elements = <<>> /\ call = <<>>

Inserted(e) == /\ elements' = Append(elements, e)
               /\ call' = <<"insertElement", e, 1>>

ElementDeleted(e) ==
    /\ elements' = RemoveFirst(elements, e)
    /\ call' = <<"deleteElement", e, IF e \in Range(elements) THEN 1 ELSE 0>>

PositionDeleted(p) ==
    IF p < Len(elements)
    THEN elements' = RemoveAt(elements, p + 1) /\ call' = <<"deletePosition", p, 1>>
    ELSE UNCHANGED elements /\ call' = <<"deletePosition", p, 0>>

PositionRead(p) ==
    /\ call' = <<"getPosition", p,
                 IF p < Len(elements) THEN elements[p + 1] ELSE Absent>>
    /\ UNCHANGED elements

ElementSought(e) ==
    /\ call' = <<"getCustomElement", e,
                 IF e \in Range(elements) THEN e ELSE Absent>>
    /\ UNCHANGED elements

\* The position of the element: the first one that holds it.
PositionSought(e) ==
    /\ IF e \in Range(elements)
       THEN \E p \in 0 .. Len(elements) - 1 :
                /\ elements[p + 1] = e
                /\ \A q \in 0 .. p - 1 : elements[q + 1] # e
                /\ call' = <<"checkExists", e, p>>
       ELSE call' = <<"checkExists", e, NotFound>>
    /\ UNCHANGED elements

ElementCounted(e) ==
    /\ call' = <<"getCustomCount", e,
                 Cardinality({i \in DOMAIN elements : elements[i] = e})>>
    /\ UNCHANGED elements

Destroyed == elements' = <<>> /\ call' = <<"destroyList", Absent, 1>>

SequenceNext ==
    \/ \E e \in Data : \/ Inserted(e) \/ ElementDeleted(e)
                       \/ ElementSought(e) \/ PositionSought(e) \/ ElementCounted(e)
    \/ \E p \in 0 .. MaxCount : PositionDeleted(p) \/ PositionRead(p)
    \/ Destroyed

SequenceSpec == SequenceInit /\ [][SequenceNext]_<<elements, call>>
=============================================================================
