----------------------------- MODULE DLinkedList -----------------------------
(***************************************************************************)
(* The doubly linked list (dlinkedlist.c) as operators on a list record:   *)
(* elements holds the fields of the allocated elements by address.  An     *)
(* operation that the code does in place returns the changed record.       *)
(***************************************************************************)
EXTENDS Naturals, Sequences, SequencesExt, TLC

CONSTANTS NULL, NotFound        \* NotFound is UINT64_MAX

CreateList == [elements |-> <<>>, startElement |-> NULL, endElement |-> NULL,
               elementCount |-> 0]

\* The addresses a loop along nextElement visits, from the start to NULL.
Walk(list) ==
    LET from[a \in DOMAIN list.elements \cup {NULL}] ==
            IF a = NULL THEN <<>>
            ELSE <<a>> \o from[list.elements[a].nextElement]
    IN  from[list.startElement]

ElementData(list) ==
    LET chain == Walk(list)
    IN  [i \in DOMAIN chain |-> list.elements[chain[i]].elementData]

\* A new element at the end.  Its previousElement is endElement, which in a
\* list that was emptied is the address of a freed element.
InsertElement(data, list, address) ==
    LET empty == list.elementCount = 0
        new == [elementData |-> data, previousElement |-> list.endElement,
                nextElement |-> NULL]
    IN  [elements |-> [a \in DOMAIN list.elements \cup {address} |->
             IF a = address THEN new
             ELSE IF ~empty /\ a = list.endElement
             THEN [list.elements[a] EXCEPT !.nextElement = address]
             ELSE list.elements[a]],
         startElement |-> IF empty THEN address ELSE list.startElement,
         endElement |-> address,
         elementCount |-> list.elementCount + 1]

Free(a, list) == [list EXCEPT !.elements = Restrict(@, DOMAIN @ \ {a}),
                              !.elementCount = @ - 1]

\* Operators named Mutant... are slips of the definition that follows: each
\* one breaks a property, which shows that the property depends on the code.
MutantUnlink(a, list) ==
    LET next == list.elements[a].nextElement
        previous == list.elements[a].previousElement
        rest == Free(a, list)
    IN  IF a = list.startElement
        THEN IF next # NULL
             THEN [rest EXCEPT !.startElement = next]
             ELSE [rest EXCEPT !.startElement = NULL]
        ELSE IF a = list.endElement
        THEN [rest EXCEPT !.endElement = previous,
                          !.elements[previous].nextElement = NULL]
        ELSE [rest EXCEPT !.elements[previous].nextElement = next]

\* Take the element at address a out and free it: the first, the last, or one
\* with two neighbours.  Deleting the only element leaves endElement as it was.
Unlink(a, list) ==
    LET next == list.elements[a].nextElement
        previous == list.elements[a].previousElement
        rest == Free(a, list)
    IN  IF a = list.startElement
        THEN IF next # NULL
             THEN [rest EXCEPT !.startElement = next,
                               !.elements[next].previousElement = NULL]
             ELSE [rest EXCEPT !.startElement = NULL]
        ELSE IF a = list.endElement
        THEN IF previous # NULL
             THEN [rest EXCEPT !.endElement = previous,
                               !.elements[previous].nextElement = NULL]
             ELSE [rest EXCEPT !.endElement = NULL]
        ELSE [rest EXCEPT !.elements[previous].nextElement = next,
                          !.elements[next].previousElement = previous]

\* The position of the first element that matches, from 1, or 0.  A custom
\* equals function is the set of the data it accepts.
First(list, matching) == SelectInSeq(ElementData(list), LAMBDA e : e \in matching)

MutantDeleteElement(data, list) ==
    LET i == SelectLastInSeq(ElementData(list), LAMBDA e : e = data)
    IN  IF i = 0 THEN list ELSE Unlink(Walk(list)[i], list)

\* Only the first of several elements with the data is deleted.
DeleteElement(data, list) ==
    LET i == First(list, {data})
    IN  IF i = 0 THEN list ELSE Unlink(Walk(list)[i], list)

DeletePosition(position, list) ==
    IF position >= list.elementCount THEN list
    ELSE Unlink(Walk(list)[position + 1], list)

\* The return value of a deletion.
Deleted(before, after) == IF before = after THEN 0 ELSE 1

GetCustomElement(list, matching) ==
    LET i == First(list, matching)
    IN  IF i = 0 THEN NULL ELSE ElementData(list)[i]

GetPosition(position, list) ==
    IF position >= list.elementCount THEN NULL
    ELSE ElementData(list)[position + 1]

GetCustomCount(list, matching) ==
    Cardinality({i \in DOMAIN ElementData(list) : ElementData(list)[i] \in matching})

CheckExists(list, matching) ==
    LET i == First(list, matching) IN IF i = 0 THEN NotFound ELSE i - 1

\* Delete position 0 until the count is 0.
Destroy(list) ==
    LET after[n \in 0 .. list.elementCount] ==
            IF n = 0 THEN list ELSE DeletePosition(0, after[n - 1])
    IN  after[list.elementCount]
=============================================================================
