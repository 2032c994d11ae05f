-------------------------- MODULE DLinkedListProofs --------------------------
(***************************************************************************)
(* Lemmas about the linked list: a list whose pointers form a chain is     *)
(* walked along that chain, and every operation leaves a chain, with the   *)
(* element appended or taken out.                                          *)
(***************************************************************************)
EXTENDS DLinkedList, SequenceTheorems, WellFoundedInduction, NaturalsInduction,
        TLAPS

ElementsOf(D, A) ==
    [elementData : D, previousElement : A \cup {NULL}, nextElement : A \cup {NULL}]

\* A list of data from D, its elements at addresses from A.
IsListOf(list, D, A) ==
    /\ list \in [elements : {list.elements}, startElement : A \cup {NULL},
                 endElement : A \cup {NULL}, elementCount : Nat]
    /\ DOMAIN list.elements \subseteq A
    /\ list.elements \in [DOMAIN list.elements -> ElementsOf(D, A)]

\* The addresses c are those of the list, each once, in the order of its pointers.
\* The pointer back from the first element, and the one to the last element of an
\* empty list, may be stale.
IsChain(list, c) ==
    LET n == Len(c)
        e == list.elements
    IN  /\ c \in Seq(DOMAIN e)
        /\ NULL \notin DOMAIN e
        /\ \A i, j \in 1 .. n : c[i] = c[j] => i = j
        /\ \A a \in DOMAIN e : \E i \in 1 .. n : c[i] = a
        /\ list.elementCount = n
        /\ list.startElement = IF n = 0 THEN NULL ELSE c[1]
        /\ n # 0 => list.endElement = c[n]
        /\ \A i \in 1 .. n : e[c[i]].nextElement = IF i = n THEN NULL ELSE c[i + 1]
        /\ \A i \in 2 .. n : e[c[i]].previousElement = c[i - 1]

\* Induction on the naturals, for a set in place of a predicate.
LEMMA NatSetInduction ==
    ASSUME NEW S \in SUBSET Nat, 0 \in S, \A n \in S : n + 1 \in S
    PROVE  \A n \in Nat : n \in S
<1> DEFINE less == {ss \in Nat \X Nat : ss[1] < ss[2]}
           T == Nat \ S
<1>1. IsWellFoundedOn(less, Nat)
  BY NatLessThanWellFounded, Zenon DEF OpToRel
<1>2. \A m, n \in Nat : m < n => <<m, n>> \in less
  OBVIOUS
<1>3. SUFFICES ASSUME T # {} PROVE FALSE
  OBVIOUS
<1>4. PICK t \in T : \A u \in T : ~(<<u, t>> \in less)
  <2> T \in SUBSET Nat
    OBVIOUS
  <2> HIDE DEF less, T
  <2> QED
    BY <1>1, <1>3, WFMin
<1> HIDE DEF less
<1>5. t \in Nat /\ t # 0 /\ t - 1 \in Nat /\ t - 1 < t /\ (t - 1) + 1 = t
  OBVIOUS
<1>6. t - 1 \in S
  BY <1>2, <1>4, <1>5
<1> QED
  BY <1>5, <1>6

\* A set of numbers that is not empty has a least one.
LEMMA LeastNumber ==
    ASSUME NEW I \in SUBSET Nat, I # {}
    PROVE  \E x \in I : \A y \in I : x <= y
<1> DEFINE B == {x \in Nat : \A y \in I : x <= y}
<1>1. SUFFICES ASSUME \A x \in I : \E y \in I : ~(x <= y) PROVE FALSE
  OBVIOUS
<1>2. 0 \in B
  OBVIOUS
<1>3. \A x \in B : x + 1 \in B
  <2> TAKE x \in B
  <2>1. x \in Nat /\ \A y \in I : x <= y
    OBVIOUS
  <2>2. x \notin I
    BY <1>1, <2>1
  <2>3. \A y \in I : x + 1 <= y
    BY <2>1, <2>2
  <2> QED
    BY <2>1, <2>3
<1>4. \A x \in Nat : x \in B
  <2> B \in SUBSET Nat
    OBVIOUS
  <2> HIDE DEF B
  <2> QED
    BY <1>2, <1>3, NatSetInduction
<1>5. PICK y \in I : TRUE
  OBVIOUS
<1>6. y \in Nat /\ y + 1 \in Nat
  OBVIOUS
<1>7. y + 1 \in B
  BY <1>4, <1>6, Zenon
<1> QED
  BY <1>6, <1>7

-----------------------------------------------------------------------------
(* Walking the chain *)

WalkFrom(f, list) ==
    f = [a \in DOMAIN list.elements \cup {NULL} |->
            IF a = NULL THEN <<>>
            ELSE <<a>> \o f[list.elements[a].nextElement]]

\* What is left of a chain is its element and what is left after it.
LEMMA RestOfChain ==
    ASSUME NEW S, NEW c \in Seq(S), NEW i \in 1 .. Len(c)
    PROVE  SubSeq(c, i, Len(c)) = <<c[i]>> \o SubSeq(c, i + 1, Len(c))
<1>1. Len(c) \in Nat
  BY LenProperties
<1>2. Len(c) \in i .. Len(c)
  BY <1>1
<1> QED
  BY <1>2, SubSeqRecursiveFirst, Zenon

\* The function by which the list is walked exists.
LEMMA WalkExists ==
    ASSUME NEW list, NEW c, IsChain(list, c)
    PROVE  \E f : WalkFrom(f, list)
<1> DEFINE n == Len(c)
           place(a) == CHOOSE i \in 1 .. n : c[i] = a
           F == [a \in DOMAIN list.elements \cup {NULL} |->
                    IF a = NULL THEN <<>> ELSE SubSeq(c, place(a), n)]
<1>0. c \in Seq(DOMAIN list.elements) /\ n \in Nat
  BY LenProperties DEF IsChain
<1>1. /\ NULL \notin DOMAIN list.elements
      /\ \A i, j \in 1 .. n : c[i] = c[j] => i = j
      /\ \A a \in DOMAIN list.elements : \E i \in 1 .. n : c[i] = a
      /\ \A i \in 1 .. n : list.elements[c[i]].nextElement = IF i = n THEN NULL ELSE c[i + 1]
  BY DEF IsChain
<1>2. \A i \in 1 .. n : place(c[i]) = i /\ c[i] \in DOMAIN list.elements
  BY <1>0, <1>1, ElementOfSeq
<1>3. ASSUME NEW i \in 1 .. n PROVE F[c[i]] = SubSeq(c, i, n)
  <2>1. c[i] \in DOMAIN list.elements \cup {NULL} /\ c[i] # NULL /\ place(c[i]) = i
    BY <1>1, <1>2
  <2> HIDE DEF place
  <2> QED
    BY <2>1
<1>4. F[NULL] = <<>>
  OBVIOUS
<1>5. ASSUME NEW a \in DOMAIN list.elements
      PROVE  F[a] = <<a>> \o F[list.elements[a].nextElement]
  <2>1. PICK i \in 1 .. n : c[i] = a
    BY <1>1
  <2>2. F[a] = <<a>> \o SubSeq(c, i + 1, n)
    <3>1. F[c[i]] = SubSeq(c, i, n)
      BY <1>3
    <3>2. SubSeq(c, i, n) = <<c[i]>> \o SubSeq(c, i + 1, n)
      BY <1>0, RestOfChain, Zenon
    <3> HIDE DEF F
    <3> QED
      BY <2>1, <3>1, <3>2
  <2>3. F[list.elements[a].nextElement] = SubSeq(c, i + 1, n)
    <3>1. CASE i = n
      <4>1. SubSeq(c, n + 1, n) = <<>>
        BY <1>0, SubSeqEmpty
      <4> QED
        BY <1>1, <1>4, <2>1, <3>1, <4>1
    <3>2. CASE i # n
      <4>1. i + 1 \in 1 .. n
        BY <1>0, <3>2
      <4> HIDE DEF F
      <4> QED
        BY <1>1, <1>3, <2>1, <3>2, <4>1
    <3> QED
      BY <3>1, <3>2
  <2> QED
    BY <2>2, <2>3
<1> DEFINE G(f) == [a \in DOMAIN list.elements \cup {NULL} |->
                       IF a = NULL THEN <<>>
                       ELSE <<a>> \o f[list.elements[a].nextElement]]
<1>6. F = [a \in DOMAIN list.elements \cup {NULL} |-> F[a]]
  OBVIOUS
<1> HIDE DEF F
<1>7. \A a \in DOMAIN list.elements \cup {NULL} : F[a] = G(F)[a]
  BY <1>1, <1>4, <1>5
<1>8. F = G(F)
  BY <1>6, <1>7
<1>9. WalkFrom(F, list)
  BY <1>8 DEF WalkFrom
<1> QED
  BY <1>9

\* A loop along nextElement visits the chain.
LEMMA WalkIsChain ==
    ASSUME NEW list, NEW c, IsChain(list, c)
    PROVE  Walk(list) = c
<1> DEFINE n == Len(c)
           f == CHOOSE g : WalkFrom(g, list)
<1>1. WalkFrom(f, list)
  BY WalkExists
<1>2. Walk(list) = f[list.startElement]
  BY Zenon DEF Walk, WalkFrom
<1>0. c \in Seq(DOMAIN list.elements) /\ n \in Nat
  BY LenProperties DEF IsChain
<1>3. /\ NULL \notin DOMAIN list.elements
      /\ list.startElement = IF n = 0 THEN NULL ELSE c[1]
      /\ \A i \in 1 .. n : list.elements[c[i]].nextElement = IF i = n THEN NULL ELSE c[i + 1]
      /\ \A i \in 1 .. n : c[i] \in DOMAIN list.elements
  BY LenProperties, ElementOfSeq DEF IsChain
<1> HIDE DEF f
<1>4. f[NULL] = <<>>
  BY <1>1 DEF WalkFrom
<1>5. \A i \in 1 .. n : f[c[i]] = <<c[i]>> \o f[list.elements[c[i]].nextElement]
  <2> TAKE i \in 1 .. n
  <2>1. c[i] \in DOMAIN list.elements /\ c[i] # NULL
    BY <1>3
  <2> QED
    BY <1>1, <2>1, Zenon DEF WalkFrom
<1> DEFINE S == {k \in Nat : k < n => f[c[n - k]] = SubSeq(c, n - k, n)}
<1>6. ASSUME NEW i \in 1 .. n, i # n => f[c[i + 1]] = SubSeq(c, i + 1, n)
      PROVE  f[c[i]] = SubSeq(c, i, n)
  <2>1. f[list.elements[c[i]].nextElement] = SubSeq(c, i + 1, n)
    <3>1. CASE i = n
      <4>1. SubSeq(c, n + 1, n) = <<>>
        BY <1>0, SubSeqEmpty
      <4> QED
        BY <1>3, <1>4, <3>1, <4>1
    <3>2. CASE i # n
      BY <1>3, <1>6, <3>2, Zenon
    <3> QED
      BY <3>1, <3>2
  <2> QED
    BY <1>0, <1>5, <2>1, RestOfChain, Zenon
<1>7. 0 \in S
  <2>1. 0 < n => n - 0 \in 1 .. n /\ n - 0 = n
    BY <1>0
  <2> QED
    BY <1>6, <2>1
<1>8. ASSUME NEW k \in Nat, k \in S PROVE k + 1 \in S
  <2> SUFFICES ASSUME k + 1 < n PROVE f[c[n - (k + 1)]] = SubSeq(c, n - (k + 1), n)
    BY <1>0
  <2>0. n \in Nat /\ k \in Nat /\ k + 1 < n
    BY <1>0
  <2> HIDE DEF n, S
  <2>1. /\ k \in Nat /\ k < n /\ n - (k + 1) \in 1 .. n /\ (n - (k + 1)) + 1 = n - k
        /\ n - (k + 1) # n
    BY <2>0
  <2> USE DEF n, S
  <2> DEFINE i == n - (k + 1)
             rest(j) == SubSeq(c, j, n)
  <2>2. k < n => f[c[n - k]] = rest(n - k)
    BY <1>8, Zenon
  <2> HIDE DEF rest, S
  <2>3. i \in 1 .. n /\ f[c[i + 1]] = rest(i + 1)
    BY <2>1, <2>2, Zenon
  <2> USE DEF rest
  <2> HIDE DEF i
  <2>4. f[c[i]] = SubSeq(c, i, n)
    BY <1>6, <2>3, Zenon
  <2> QED
    BY <2>4 DEF i
<1>9. \A k \in Nat : k \in S
  <2> S \in SUBSET Nat
    OBVIOUS
  <2> HIDE DEF S
  <2> QED
    BY <1>7, <1>8, NatSetInduction
<1>10. CASE n = 0
  <2>1. c = <<>>
    BY <1>0, <1>10, EmptySeq
  <2> QED
    BY <1>2, <1>3, <1>4, <1>10, <2>1
<1>11. CASE n # 0
  <2>1. n - 1 \in S /\ n - 1 < n /\ n - (n - 1) = 1
    BY <1>0, <1>9, <1>11
  <2>2. f[c[1]] = SubSeq(c, 1, n)
    BY <2>1
  <2>3. SubSeq(c, 1, n) = c
    BY <1>0, SubSeqFull
  <2> QED
    BY <1>2, <1>3, <1>11, <2>2, <2>3
<1> QED
  BY <1>10, <1>11

\* The data of the list, in the order of its chain.
LEMMA DataOfChain ==
    ASSUME NEW list, NEW c, NEW D, NEW A, IsListOf(list, D, A), IsChain(list, c)
    PROVE  /\ ElementData(list) = [i \in 1 .. Len(c) |-> list.elements[c[i]].elementData]
           /\ ElementData(list) \in Seq(D)
           /\ Len(ElementData(list)) = Len(c)
<1>1. c \in Seq(DOMAIN list.elements) /\ Len(c) \in Nat /\ DOMAIN c = 1 .. Len(c)
      /\ \A i \in 1 .. Len(c) : c[i] \in DOMAIN list.elements
  BY LenProperties, ElementOfSeq DEF IsChain
<1>2. ElementData(list) = [i \in 1 .. Len(c) |-> list.elements[c[i]].elementData]
  BY <1>1, WalkIsChain, Zenon DEF ElementData
<1>3. \A i \in 1 .. Len(c) : list.elements[c[i]].elementData \in D
  BY <1>1 DEF IsListOf, ElementsOf
<1>4. ElementData(list) \in [1 .. Len(c) -> D]
  BY <1>2, <1>3
<1> QED
  BY <1>1, <1>2, <1>4, SeqDef

-----------------------------------------------------------------------------
(* The operations *)

\* A created list is the empty chain.
LEMMA CreateIsChain ==
    ASSUME NEW D, NEW A, NULL \notin A
    PROVE  IsListOf(CreateList, D, A) /\ IsChain(CreateList, <<>>)
<1>1. DOMAIN CreateList.elements = {} /\ CreateList.elements = <<>>
  BY DEF CreateList
<1>2. IsListOf(CreateList, D, A)
  BY <1>1 DEF CreateList, IsListOf, ElementsOf
<1>3. <<>> \in Seq({}) /\ Len(<<>>) = 0
  BY EmptySeq
<1>4. IsChain(CreateList, <<>>)
  BY <1>1, <1>3 DEF CreateList, IsChain
<1> QED
  BY <1>2, <1>4

\* An insertion appends its address to the chain and leaves the other data.
LEMMA InsertExtendsChain ==
    ASSUME NEW list, NEW c, NEW D, NEW A, IsListOf(list, D, A), IsChain(list, c),
           NULL \notin A, NEW data \in D, NEW address \in A \ DOMAIN list.elements
    PROVE  LET new == InsertElement(data, list, address)
           IN  /\ IsListOf(new, D, A)
               /\ IsChain(new, Append(c, address))
               /\ new.elements[address].elementData = data
               /\ \A a \in DOMAIN list.elements :
                      new.elements[a].elementData = list.elements[a].elementData
<1> DEFINE new == InsertElement(data, list, address)
           e == list.elements
           n == Len(c)
           d == Append(c, address)
           empty == list.elementCount = 0
           fresh == [elementData |-> data, previousElement |-> list.endElement,
                     nextElement |-> NULL]
           ne == [a \in DOMAIN e \cup {address} |->
                    IF a = address THEN fresh
                    ELSE IF ~empty /\ a = list.endElement
                    THEN [e[a] EXCEPT !.nextElement = address]
                    ELSE e[a]]
<1>1. /\ new.elements = ne
      /\ new.startElement = IF empty THEN address ELSE list.startElement
      /\ new.endElement = address
      /\ new.elementCount = list.elementCount + 1
      /\ new = [elements |-> new.elements, startElement |-> new.startElement,
                endElement |-> new.endElement, elementCount |-> new.elementCount]
  BY DEF InsertElement
<1>2. /\ list.startElement \in A \cup {NULL} /\ list.endElement \in A \cup {NULL}
      /\ list.elementCount \in Nat /\ DOMAIN e \subseteq A
      /\ \A a \in DOMAIN e : e[a] \in ElementsOf(D, A)
  BY DEF IsListOf
<1>3. /\ n \in Nat /\ NULL \notin DOMAIN e
      /\ \A i \in 1 .. n : c[i] \in DOMAIN e
      /\ \A i, j \in 1 .. n : c[i] = c[j] => i = j
      /\ \A a \in DOMAIN e : \E i \in 1 .. n : c[i] = a
      /\ list.elementCount = n
      /\ list.startElement = IF n = 0 THEN NULL ELSE c[1]
      /\ n # 0 => list.endElement = c[n]
      /\ \A i \in 1 .. n : e[c[i]].nextElement = IF i = n THEN NULL ELSE c[i + 1]
      /\ \A i \in 2 .. n : e[c[i]].previousElement = c[i - 1]
  BY LenProperties, ElementOfSeq DEF IsChain
<1>4a. /\ d \in Seq(DOMAIN e \cup {address}) /\ Len(d) = n + 1
       /\ \A i \in 1 .. n : d[i] = c[i]
       /\ d[n + 1] = address
  <2>1. c \in Seq(DOMAIN e \cup {address})
    BY SeqMonotonic DEF IsChain
  <2> QED
    BY <2>1, AppendProperties
<1>4. (\A i \in 1 .. n : d[i] = c[i]) /\ d[n + 1] = address
  BY <1>4a
<1>5. ne[address] = fresh
  OBVIOUS
<1>6. ASSUME NEW a \in DOMAIN e
      PROVE  /\ ne[a] \in ElementsOf(D, A)
             /\ ne[a].elementData = e[a].elementData
             /\ ne[a].previousElement = e[a].previousElement
             /\ ne[a].nextElement = IF ~empty /\ a = list.endElement THEN address
                                    ELSE e[a].nextElement
  <2>1. a # address /\ address \in A /\ e[a] \in ElementsOf(D, A)
    BY <1>2
  <2>2. ne[a] = IF ~empty /\ a = list.endElement
                THEN [e[a] EXCEPT !.nextElement = address] ELSE e[a]
    BY <2>1
  <2> HIDE DEF ne
  <2> QED
    BY <2>1, <2>2 DEF ElementsOf
<1>7. fresh \in ElementsOf(D, A)
  BY <1>2 DEF ElementsOf
<1>8. DOMAIN ne = DOMAIN e \cup {address} /\ ne = [a \in DOMAIN ne |-> ne[a]]
  OBVIOUS
<1> HIDE DEF new, ne, d, n
<1>9. IsListOf(new, D, A)
  <2>1. ne \in [DOMAIN ne -> ElementsOf(D, A)]
    BY <1>5, <1>6, <1>7, <1>8
  <2> QED
    BY <1>1, <1>2, <1>8, <2>1 DEF IsListOf
<1>10. IsChain(new, d)
  <2>1. NULL \notin DOMAIN ne
    BY <1>3, <1>8
  <2>2. \A i, j \in 1 .. n + 1 : d[i] = d[j] => i = j
    <3>1. \A i \in 1 .. n : d[i] # address
      BY <1>3, <1>4
    <3>2. \A i \in 1 .. n + 1 : i \in 1 .. n \/ i = n + 1
      BY <1>3
    <3> QED
      BY <1>3, <1>4, <3>1, <3>2
  <2>3. \A a \in DOMAIN ne : \E i \in 1 .. n + 1 : d[i] = a
    <3>1. n + 1 \in 1 .. n + 1 /\ \A i \in 1 .. n : i \in 1 .. n + 1
      BY <1>3
    <3> QED
      BY <1>3, <1>4, <1>8, <3>1
  <2>4. new.startElement = d[1]
    <3>1. CASE n = 0
      BY <1>1, <1>3, <1>4, <3>1
    <3>2. CASE n # 0
      BY <1>1, <1>3, <1>4, <3>2
    <3> QED
      BY <3>1, <3>2
  <2>5. \A i \in 1 .. n + 1 : ne[d[i]].nextElement = IF i = n + 1 THEN NULL ELSE d[i + 1]
    <3> SUFFICES ASSUME NEW i \in 1 .. n + 1
                 PROVE  ne[d[i]].nextElement = IF i = n + 1 THEN NULL ELSE d[i + 1]
      OBVIOUS
    <3>1. CASE i = n + 1
      BY <1>4, <1>5, <3>1
    <3>2. CASE i = n /\ i # n + 1
      BY <1>3, <1>4, <1>6, <3>2
    <3>3. CASE i < n
      <4>1. i \in 1 .. n /\ i + 1 \in 1 .. n /\ n \in 1 .. n /\ i # n /\ i # n + 1
        BY <1>3, <3>3
      <4>2. n # 0
        BY <4>1
      <4>4. c[i] # c[n] /\ c[n] = list.endElement /\ c[i] \in DOMAIN e
        BY <1>3, <4>1, <4>2, Zenon
      <4>5. d[i] = c[i] /\ d[i + 1] = c[i + 1] /\ e[c[i]].nextElement = c[i + 1]
        BY <1>3, <1>4, <4>1, Zenon
      <4>3. ne[c[i]].nextElement = e[c[i]].nextElement
        BY <1>6, <4>4
      <4> QED
        BY <4>1, <4>3, <4>5
    <3> QED
      BY <1>3, <3>1, <3>2, <3>3
  <2>6. \A i \in 2 .. n + 1 : ne[d[i]].previousElement = d[i - 1]
    <3> SUFFICES ASSUME NEW i \in 2 .. n + 1
                 PROVE  ne[d[i]].previousElement = d[i - 1]
      OBVIOUS
    <3>1. CASE i = n + 1
      <4>1. n \in 1 .. n /\ n # 0 /\ i - 1 = n
        BY <1>3, <3>1
      <4> QED
        BY <1>3, <1>4, <1>5, <3>1, <4>1
    <3>2. CASE i # n + 1
      <4>1. n \in Nat
        BY <1>3
      <4>2. i \in 2 .. n /\ i \in 1 .. n /\ i - 1 \in 1 .. n
        BY <3>2, <4>1
      <4>3. /\ c[i] \in DOMAIN e /\ e[c[i]].previousElement = c[i - 1]
            /\ d[i] = c[i] /\ d[i - 1] = c[i - 1]
        BY <1>3, <1>4, <4>2
      <4>4. ne[c[i]].previousElement = e[c[i]].previousElement
        BY <1>6, <4>3
      <4> QED
        BY <4>3, <4>4
    <3> QED
      BY <3>1, <3>2
  <2>7. /\ new.elementCount = Len(d) /\ Len(d) # 0 /\ Len(d) = n + 1
        /\ new.endElement = d[Len(d)] /\ d \in Seq(DOMAIN ne)
    BY <1>1, <1>3, <1>4, <1>4a, <1>8
  <2> QED
    BY <1>1, <2>1, <2>2, <2>3, <2>4, <2>5, <2>6, <2>7 DEF IsChain
<1>11. new.elements[address].elementData = data
  BY <1>1, <1>5
<1>12. \A a \in DOMAIN e : new.elements[a].elementData = e[a].elementData
  BY <1>1, <1>6
<1> QED
  BY <1>9, <1>10, <1>11, <1>12 DEF new, d

\* What is left of a list with chain c without the element at c[k].
IsWithout(new, list, c, k, D, A) ==
    LET n == Len(c)
        e == list.elements
        ne == new.elements
        before == IF k = 1 THEN NULL ELSE c[k - 1]
        after == IF k = n THEN NULL ELSE c[k + 1]
    IN  /\ new \in [elements : {ne}, startElement : A \cup {NULL},
                   endElement : A \cup {NULL}, elementCount : Nat]
        /\ DOMAIN ne = DOMAIN e \ {c[k]}
        /\ ne \in [DOMAIN ne -> ElementsOf(D, A)]
        /\ new.elementCount = n - 1
        /\ new.startElement = IF k = 1 THEN after ELSE list.startElement
        /\ new.endElement = IF k = n /\ k # 1 THEN before ELSE list.endElement
        /\ \A b \in DOMAIN ne :
               /\ ne[b].elementData = e[b].elementData
               /\ ne[b].nextElement = IF b = before THEN after ELSE e[b].nextElement
               /\ ne[b].previousElement = IF b = after THEN before
                                         ELSE e[b].previousElement

\* Each of the four cases of an unlinking leaves the list without the element.
LEMMA UnlinkFields ==
    ASSUME NEW list, NEW c, NEW D, NEW A, IsListOf(list, D, A), IsChain(list, c),
           NULL \notin A, NEW k \in 1 .. Len(c)
    PROVE  IsWithout(Unlink(c[k], list), list, c, k, D, A)
<1> DEFINE n == Len(c)
           e == list.elements
           a == c[k]
           next == e[a].nextElement
           previous == e[a].previousElement
           kept == [b \in DOMAIN e \ {a} |-> e[b]]
           rest == [elements |-> kept, startElement |-> list.startElement,
                    endElement |-> list.endElement, elementCount |-> n - 1]
           before == IF k = 1 THEN NULL ELSE c[k - 1]
           after == IF k = n THEN NULL ELSE c[k + 1]
           new == Unlink(a, list)
<1>1. /\ n \in Nat /\ k \in 1 .. n
      /\ \A i \in 1 .. n : c[i] \in DOMAIN e
      /\ \A i, j \in 1 .. n : c[i] = c[j] => i = j
      /\ list.elementCount = n /\ n # 0 /\ n - 1 \in Nat
      /\ list.startElement = c[1] /\ list.endElement = c[n]
      /\ \A i \in 1 .. n : e[c[i]].nextElement = IF i = n THEN NULL ELSE c[i + 1]
      /\ \A i \in 2 .. n : e[c[i]].previousElement = c[i - 1]
      /\ NULL \notin DOMAIN e
  BY LenProperties, ElementOfSeq DEF IsChain
<1>2. /\ list = [elements |-> e, startElement |-> list.startElement,
                endElement |-> list.endElement, elementCount |-> list.elementCount]
      /\ list.startElement \in A \cup {NULL} /\ list.endElement \in A \cup {NULL}
      /\ DOMAIN e \subseteq A
      /\ \A b \in DOMAIN e : e[b] \in ElementsOf(D, A)
  BY DEF IsListOf
<1>3. Free(a, list) = rest
  <2>1. Restrict(e, DOMAIN e \ {a}) = kept
    BY DEF Restrict
  <2>2. Free(a, list) = [list EXCEPT !.elements = kept,
                                     !.elementCount = n - 1]
    BY <1>1, <2>1, Zenon DEF Free
  <2> HIDE DEF kept, n, e
  <2> QED
    BY <1>2, <2>2 DEF e
<1>4. /\ a \in DOMAIN e
      /\ next = after
      /\ k # 1 => previous = before
      /\ a = list.startElement <=> k = 1
      /\ a = list.endElement <=> k = n
  <2> HIDE DEF n, e
  <2>1. 1 \in 1 .. n /\ n \in 1 .. n /\ (k # 1 => k \in 2 .. n)
    BY <1>1
  <2> QED
    BY <1>1, <2>1
<1>5. /\ k # 1 => before \in DOMAIN kept
      /\ k # n => after \in DOMAIN kept
      /\ k # 1 /\ k # n => before # after
      /\ after \in A \cup {NULL} /\ before \in A \cup {NULL}
      /\ NULL \notin DOMAIN kept
  <2> HIDE DEF n, e
  <2>1. k # 1 => k - 1 \in 1 .. n /\ k - 1 # k
    BY <1>1
  <2>2. k # n => k + 1 \in 1 .. n /\ k + 1 # k /\ k + 1 # k - 1
    BY <1>1
  <2>3. DOMAIN kept = DOMAIN e \ {a}
    OBVIOUS
  <2> HIDE DEF kept
  <2>4. k # 1 => before \in DOMAIN e /\ before # a
    BY <1>1, <2>1
  <2>5. k # n => after \in DOMAIN e /\ after # a
    BY <1>1, <2>2
  <2>6. k # 1 /\ k # n => before # after
    BY <1>1, <2>1, <2>2
  <2> HIDE DEF before, after
  <2>7. k = 1 => before = NULL
    BY DEF before
  <2>8. k = n => after = NULL
    BY DEF after
  <2> QED
    BY <1>1, <1>2, <2>3, <2>4, <2>5, <2>6, <2>7, <2>8
<1>6. new = IF k = 1
            THEN IF next # NULL
                 THEN [rest EXCEPT !.startElement = next,
                                   !.elements[next].previousElement = NULL]
                 ELSE [rest EXCEPT !.startElement = NULL]
            ELSE IF k = n
            THEN IF previous # NULL
                 THEN [rest EXCEPT !.endElement = previous,
                                   !.elements[previous].nextElement = NULL]
                 ELSE [rest EXCEPT !.endElement = NULL]
            ELSE [rest EXCEPT !.elements[previous].nextElement = next,
                              !.elements[next].previousElement = previous]
  <2> HIDE DEF rest
  <2> QED
    BY <1>3, <1>4, ZenonT(30) DEF Unlink
<1>7. \A b \in DOMAIN kept : kept[b] = e[b] /\ kept[b] \in ElementsOf(D, A)
  BY <1>2
<1>8. DOMAIN kept = DOMAIN e \ {a}
  OBVIOUS
<1>9. /\ kept = [b \in DOMAIN kept |-> kept[b]]
      /\ rest.elements = kept /\ rest.startElement = list.startElement
      /\ rest.endElement = list.endElement /\ rest.elementCount = n - 1
  OBVIOUS
<1> DEFINE Goal == IsWithout(new, list, c, k, D, A)
<1>10. ASSUME NEW ne, DOMAIN ne = DOMAIN kept, ne = [b \in DOMAIN ne |-> ne[b]],
              new = [elements |-> ne,
                     startElement |-> IF k = 1 THEN after ELSE list.startElement,
                     endElement |-> IF k = n /\ k # 1 THEN before ELSE list.endElement,
                     elementCount |-> n - 1],
              \A b \in DOMAIN kept :
                  ne[b] = [elementData |-> e[b].elementData,
                           previousElement |-> IF b = after THEN before
                                               ELSE e[b].previousElement,
                           nextElement |-> IF b = before THEN after
                                           ELSE e[b].nextElement]
       PROVE  Goal
  <2> HIDE DEF new, kept, before, after, n
  <2>1. \A b \in DOMAIN ne : ne[b] \in ElementsOf(D, A)
    BY <1>5, <1>7, <1>10 DEF ElementsOf
  <2>2. ne \in [DOMAIN ne -> ElementsOf(D, A)]
    BY <1>10, <2>1
  <2>3. new \in [elements : {ne}, startElement : A \cup {NULL},
                endElement : A \cup {NULL}, elementCount : Nat]
    BY <1>1, <1>2, <1>5, <1>10
  <2>4. /\ new.elements = ne /\ new.elementCount = n - 1
        /\ new.startElement = IF k = 1 THEN after ELSE list.startElement
        /\ new.endElement = IF k = n /\ k # 1 THEN before ELSE list.endElement
    BY <1>10
  <2>5. \A b \in DOMAIN ne :
           /\ ne[b].elementData = e[b].elementData
           /\ ne[b].nextElement = IF b = before THEN after ELSE e[b].nextElement
           /\ ne[b].previousElement = IF b = after THEN before
                                     ELSE e[b].previousElement
    BY <1>10
  <2> QED
    BY <1>8, <1>10, <2>2, <2>3, <2>4, <2>5, Zenon DEF IsWithout, n, before, after, new
<1>11. \A b \in DOMAIN kept : kept[b] = [elementData |-> e[b].elementData,
                                       previousElement |-> e[b].previousElement,
                                       nextElement |-> e[b].nextElement]
  BY <1>7 DEF ElementsOf
<1>12. CASE k = 1 /\ k = n
  <2>1. before = NULL /\ after = NULL /\ next = NULL
    BY <1>4, <1>12
  <2> HIDE DEF new, kept, before, after, next, previous, n, Goal
  <2>2. new = [elements |-> kept, startElement |-> after,
               endElement |-> list.endElement, elementCount |-> n - 1]
    BY <1>6, <1>12, <2>1
  <2>7. new = [elements |-> kept,
               startElement |-> IF k = 1 THEN after ELSE list.startElement,
               endElement |-> IF k = n /\ k # 1 THEN before ELSE list.endElement,
               elementCount |-> n - 1]
    BY <1>12, <2>2, <2>1
  <2>8. Goal
    BY <1>5, <1>9, <1>10, <1>11, <1>12, <2>1, <2>2, <2>7
  <2> QED
    BY <2>8 DEF Goal, new
<1>13. CASE k = 1 /\ k # n
  <2> DEFINE ne == [kept EXCEPT ![after].previousElement = NULL]
  <2>1. before = NULL /\ next = after /\ next # NULL /\ after \in DOMAIN kept
    BY <1>4, <1>5, <1>13
  <2> HIDE DEF new, kept, before, after, next, previous, n, Goal
  <2>2. new = [elements |-> ne, startElement |-> after,
               endElement |-> list.endElement, elementCount |-> n - 1]
    BY <1>6, <1>13, <2>1
  <2>3. \A b \in DOMAIN kept :
           ne[b] = [elementData |-> e[b].elementData,
                    previousElement |-> IF b = after THEN before
                                        ELSE e[b].previousElement,
                    nextElement |-> IF b = before THEN after ELSE e[b].nextElement]
    BY <1>5, <1>11, <2>1
  <2>4. DOMAIN ne = DOMAIN kept /\ ne = [b \in DOMAIN ne |-> ne[b]]
    OBVIOUS
  <2> HIDE DEF ne
  <2>7. new = [elements |-> ne,
               startElement |-> IF k = 1 THEN after ELSE list.startElement,
               endElement |-> IF k = n /\ k # 1 THEN before ELSE list.endElement,
               elementCount |-> n - 1]
    BY <1>13, <2>2
  <2>8. Goal
    BY <1>10, <1>13, <2>2, <2>3, <2>4, <2>7
  <2> QED
    BY <2>8 DEF Goal, new
<1>14. CASE k # 1 /\ k = n
  <2> DEFINE ne == [kept EXCEPT ![before].nextElement = NULL]
  <2>1. /\ after = NULL /\ previous = before /\ before # NULL
        /\ before \in DOMAIN kept
    BY <1>4, <1>5, <1>14
  <2> HIDE DEF new, kept, before, after, next, previous, n, Goal
  <2>2. new = [elements |-> ne, startElement |-> list.startElement,
               endElement |-> before, elementCount |-> n - 1]
    BY <1>6, <1>14, <2>1
  <2>3. \A b \in DOMAIN kept :
           ne[b] = [elementData |-> e[b].elementData,
                    previousElement |-> IF b = after THEN before
                                        ELSE e[b].previousElement,
                    nextElement |-> IF b = before THEN after ELSE e[b].nextElement]
    BY <1>5, <1>11, <2>1
  <2>4. DOMAIN ne = DOMAIN kept /\ ne = [b \in DOMAIN ne |-> ne[b]]
    OBVIOUS
  <2> HIDE DEF ne
  <2>7. new = [elements |-> ne,
               startElement |-> IF k = 1 THEN after ELSE list.startElement,
               endElement |-> IF k = n /\ k # 1 THEN before ELSE list.endElement,
               elementCount |-> n - 1]
    BY <1>14, <2>2, <2>1
  <2>8. Goal
    BY <1>10, <1>14, <2>2, <2>3, <2>4, <2>7
  <2> QED
    BY <2>8 DEF Goal, new
<1>15. CASE k # 1 /\ k # n
  <2> DEFINE half == [kept EXCEPT ![before].nextElement = after]
             ne == [half EXCEPT ![after].previousElement = before]
  <2>1. /\ next = after /\ previous = before /\ before # after
        /\ before \in DOMAIN kept /\ after \in DOMAIN kept
    BY <1>4, <1>5, <1>15
  <2> HIDE DEF new, kept, before, after, next, previous, n, Goal
  <2>2. new = [elements |-> ne, startElement |-> list.startElement,
               endElement |-> list.endElement, elementCount |-> n - 1]
    BY <1>6, <1>15, <2>1
  <2>3. \A b \in DOMAIN kept :
           half[b] = [elementData |-> e[b].elementData,
                      previousElement |-> e[b].previousElement,
                      nextElement |-> IF b = before THEN after ELSE e[b].nextElement]
    BY <1>11, <2>1
  <2>4. DOMAIN half = DOMAIN kept
    OBVIOUS
  <2> HIDE DEF half
  <2>5. \A b \in DOMAIN kept :
           ne[b] = [elementData |-> e[b].elementData,
                    previousElement |-> IF b = after THEN before
                                        ELSE e[b].previousElement,
                    nextElement |-> IF b = before THEN after ELSE e[b].nextElement]
    BY <2>1, <2>3, <2>4
  <2>6. DOMAIN ne = DOMAIN kept /\ ne = [b \in DOMAIN ne |-> ne[b]]
    BY <2>4
  <2> HIDE DEF ne
  <2>7. new = [elements |-> ne,
               startElement |-> IF k = 1 THEN after ELSE list.startElement,
               endElement |-> IF k = n /\ k # 1 THEN before ELSE list.endElement,
               elementCount |-> n - 1]
    BY <1>15, <2>2
  <2>8. Goal
    BY <1>10, <1>15, <2>2, <2>5, <2>6, <2>7
  <2> QED
    BY <2>8 DEF Goal, new
<1> QED
  BY <1>12, <1>13, <1>14, <1>15

\* The elements before position k stay where they are and the others move down.
LEMMA RemoveAtProperties ==
    ASSUME NEW S, NEW c \in Seq(S), NEW k \in 1 .. Len(c)
    PROVE  /\ RemoveAt(c, k) \in Seq(S)
           /\ Len(RemoveAt(c, k)) = Len(c) - 1
           /\ \A j \in 1 .. Len(c) - 1 :
                  RemoveAt(c, k)[j] = IF j < k THEN c[j] ELSE c[j + 1]
<1> DEFINE n == Len(c)
           left == SubSeq(c, 1, k - 1)
           right == SubSeq(c, k + 1, n)
<1>1. n \in Nat /\ k \in 1 .. n /\ k \in Int /\ k - 1 \in Int /\ k + 1 \in Int /\ n \in Int
      /\ 1 \in Int
  BY LenProperties
<1>2. \A i \in 1 .. n : c[i] \in S
  BY ElementOfSeq
<1> HIDE DEF n
<1>3. (\A i \in 1 .. k - 1 : c[i] \in S) /\ (\A i \in k + 1 .. n : c[i] \in S)
  BY <1>1, <1>2
<1>4. /\ left \in Seq(S) /\ Len(left) = IF 1 <= k - 1 THEN (k - 1) - 1 + 1 ELSE 0
      /\ \A j \in 1 .. (k - 1) - 1 + 1 : left[j] = c[1 + j - 1]
  BY <1>1, <1>3, SubSeqProperties
<1>5. /\ right \in Seq(S) /\ Len(right) = IF k + 1 <= n THEN n - (k + 1) + 1 ELSE 0
      /\ \A j \in 1 .. n - (k + 1) + 1 : right[j] = c[(k + 1) + j - 1]
  BY <1>1, <1>3, SubSeqProperties
<1> HIDE DEF left, right
<1>6. Len(left) = k - 1 /\ Len(right) = n - k
  BY <1>1, <1>4, <1>5
<1>7. \A j \in 1 .. k - 1 : left[j] = c[j]
  BY <1>1, <1>4
<1>8. \A j \in 1 .. n - k : right[j] = c[k + j]
  <2> TAKE j \in 1 .. n - k
  <2>1. j \in 1 .. n - (k + 1) + 1 /\ (k + 1) + j - 1 = k + j
    BY <1>1
  <2> QED
    BY <1>5, <2>1
<1>9. /\ left \o right \in Seq(S) /\ Len(left \o right) = (k - 1) + (n - k)
      /\ \A j \in 1 .. (k - 1) + (n - k) :
             (left \o right)[j] = IF j <= k - 1 THEN left[j] ELSE right[j - (k - 1)]
  <2>1. /\ left \o right \in Seq(S) /\ Len(left \o right) = Len(left) + Len(right)
        /\ \A j \in 1 .. Len(left) + Len(right) :
               (left \o right)[j] = IF j <= Len(left) THEN left[j]
                                   ELSE right[j - Len(left)]
    BY <1>4, <1>5, ConcatProperties
  <2> QED
    BY <1>6, <2>1, Zenon
<1>10. RemoveAt(c, k) = left \o right
  BY DEF RemoveAt, left, right, n
<1>11. (k - 1) + (n - k) = n - 1
  BY <1>1
<1>12. ASSUME NEW j \in 1 .. n - 1
       PROVE  (left \o right)[j] = IF j < k THEN c[j] ELSE c[j + 1]
  <2>1. CASE j < k
    <3>1. j \in 1 .. k - 1 /\ j <= k - 1
      BY <1>1, <2>1
    <3> QED
      BY <1>7, <1>9, <1>11, <2>1, <3>1
  <2>2. CASE ~(j < k)
    <3>1. ~(j <= k - 1) /\ j - (k - 1) \in 1 .. n - k /\ k + (j - (k - 1)) = j + 1
      BY <1>1, <2>2
    <3> QED
      BY <1>8, <1>9, <1>11, <2>2, <3>1
  <2> QED
    BY <2>1, <2>2
<1> QED
  BY <1>9, <1>10, <1>11, <1>12, Zenon DEF n

\* What is left of the list is a list whose chain lacks the element.
LEMMA WithoutIsChain ==
    ASSUME NEW list, NEW c, NEW D, NEW A, IsListOf(list, D, A), IsChain(list, c),
           NULL \notin A, NEW k \in 1 .. Len(c), NEW new,
           IsWithout(new, list, c, k, D, A)
    PROVE  IsListOf(new, D, A) /\ IsChain(new, RemoveAt(c, k))
<1> DEFINE n == Len(c)
           m == n - 1
           e == list.elements
           ne == new.elements
           d == RemoveAt(c, k)
           before == IF k = 1 THEN NULL ELSE c[k - 1]
           after == IF k = n THEN NULL ELSE c[k + 1]
           old(j) == IF j < k THEN j ELSE j + 1
<1>0. n \in Nat /\ k \in 1 .. n
  BY LenProperties DEF IsChain
<1>1. /\ n \in Nat /\ k \in 1 .. n /\ NULL \notin DOMAIN e
      /\ \A i \in 1 .. n : c[i] \in DOMAIN e
      /\ \A i, j \in 1 .. n : c[i] = c[j] => i = j
      /\ \A a \in DOMAIN e : \E i \in 1 .. n : c[i] = a
      /\ list.startElement = IF n = 0 THEN NULL ELSE c[1]
      /\ n # 0 => list.endElement = c[n]
      /\ \A i \in 1 .. n : e[c[i]].nextElement = IF i = n THEN NULL ELSE c[i + 1]
      /\ \A i \in 2 .. n : e[c[i]].previousElement = c[i - 1]
  BY LenProperties, ElementOfSeq DEF IsChain
<1>2. /\ new \in [elements : {ne}, startElement : A \cup {NULL},
                endElement : A \cup {NULL}, elementCount : Nat]
      /\ DOMAIN ne = DOMAIN e \ {c[k]}
      /\ ne \in [DOMAIN ne -> ElementsOf(D, A)]
      /\ new.elementCount = m
      /\ new.startElement = IF k = 1 THEN after ELSE list.startElement
      /\ new.endElement = IF k = n /\ k # 1 THEN before ELSE list.endElement
      /\ \A b \in DOMAIN ne :
             /\ ne[b].nextElement = IF b = before THEN after ELSE e[b].nextElement
             /\ ne[b].previousElement = IF b = after THEN before
                                       ELSE e[b].previousElement
  BY DEF IsWithout
<1>3. DOMAIN e \subseteq A
  BY DEF IsListOf
<1>4. IsListOf(new, D, A)
  BY <1>2, <1>3 DEF IsListOf
<1>5a. /\ d \in Seq(DOMAIN e) /\ Len(d) = m
       /\ \A j \in 1 .. m : d[j] = c[old(j)]
  <2>0. c \in Seq(DOMAIN e) /\ k \in 1 .. Len(c)
    BY DEF IsChain
  <2>1. /\ RemoveAt(c, k) \in Seq(DOMAIN e) /\ Len(RemoveAt(c, k)) = Len(c) - 1
        /\ \A j \in 1 .. Len(c) - 1 :
               RemoveAt(c, k)[j] = IF j < k THEN c[j] ELSE c[j + 1]
    BY <2>0, RemoveAtProperties, Zenon
  <2> QED
    BY <2>1
<1> HIDE DEF n, e, ne, d
<1>5. \A j \in 1 .. m : d[j] = c[old(j)]
  BY <1>5a
<1>6. m \in Nat /\ \A j \in 1 .. m : old(j) \in 1 .. n /\ old(j) # k
  BY <1>0
<1>7. \A j \in 1 .. m : d[j] \in DOMAIN ne
  <2> HIDE DEF old, m
  <2> QED
    BY <1>1, <1>2, <1>5, <1>6
<1>8. d \in Seq(DOMAIN ne)
  <2>1. d \in [1 .. m -> DOMAIN ne]
    <3>1. d \in [1 .. m -> DOMAIN e]
      BY <1>5a, LenProperties
    <3> HIDE DEF m
    <3> QED
      BY <1>7, <3>1
  <2> QED
    BY <1>6, <2>1, SeqDef
<1>9. \A i, j \in 1 .. m : d[i] = d[j] => i = j
  <2> TAKE i, j \in 1 .. m
  <2>1. old(i) = old(j) => i = j
    BY <1>0
  <2> HIDE DEF old, m
  <2> QED
    <3>1. /\ d[i] = c[old(i)] /\ d[j] = c[old(j)]
          /\ old(i) \in 1 .. n /\ old(j) \in 1 .. n
      BY <1>5, <1>6, Zenon
    <3> QED
      BY <1>1, <2>1, <3>1, Zenon
<1>10. \A a \in DOMAIN ne : \E j \in 1 .. m : d[j] = a
  <2> TAKE a \in DOMAIN ne
  <2>1. PICK i \in 1 .. n : c[i] = a /\ i # k
    BY <1>1, <1>2
  <2>2. \E j \in 1 .. m : old(j) = i
    <3>1. CASE i < k
      <4>1. i \in 1 .. m /\ old(i) = i
        BY <1>1, <3>1
      <4> QED
        BY <4>1
    <3>2. CASE ~(i < k)
      <4>1. i - 1 \in 1 .. m /\ old(i - 1) = i
        BY <1>1, <2>1, <3>2
      <4> QED
        BY <4>1
    <3> QED
      BY <3>1, <3>2
  <2> HIDE DEF old, m
  <2> QED
    BY <1>5, <2>1, <2>2
<1>11. new.startElement = IF m = 0 THEN NULL ELSE d[1]
  <2>1. CASE k = 1
    <3>1. k = n <=> m = 0
      BY <1>1, <2>1
    <3>2. m # 0 => 1 \in 1 .. m /\ old(1) = k + 1
      BY <1>1, <2>1
    <3> HIDE DEF old, m
    <3> QED
      BY <1>2, <1>5, <2>1, <3>1, <3>2
  <2>2. CASE k # 1
    <3>1. m # 0 /\ 1 \in 1 .. m /\ old(1) = 1 /\ n # 0
      BY <1>0, <2>2
    <3> HIDE DEF old, m
    <3>2. d[1] = c[1]
      BY <1>5, <3>1
    <3>3. new.startElement = list.startElement /\ list.startElement = c[1]
      BY <1>1, <1>2, <2>2, <3>1, Zenon
    <3> QED
      BY <3>1, <3>2, <3>3, Zenon
  <2> QED
    BY <2>1, <2>2
<1>12. m # 0 => new.endElement = d[m]
  <2> SUFFICES ASSUME m # 0 PROVE new.endElement = d[m]
    OBVIOUS
  <2>1. m \in 1 .. m /\ n # 0
    BY <1>1
  <2>2. CASE k = n
    <3>1. k # 1 /\ old(m) = k - 1
      BY <1>1, <2>2
    <3> HIDE DEF old, m
    <3> QED
      BY <1>2, <1>5, <2>1, <2>2, <3>1
  <2>3. CASE k # n
    <3>1. old(m) = n
      BY <1>0, <2>3
    <3> HIDE DEF old, m
    <3> QED
      BY <1>1, <1>2, <1>5, <2>1, <2>3, <3>1
  <2> QED
    BY <2>2, <2>3
<1>13. \A j \in 1 .. m : ne[d[j]].nextElement = IF j = m THEN NULL ELSE d[j + 1]
  <2> TAKE j \in 1 .. m
  <2>1. /\ old(j) \in 1 .. n /\ d[j] = c[old(j)] /\ d[j] \in DOMAIN ne
        /\ e[d[j]].nextElement = IF old(j) = n THEN NULL ELSE c[old(j) + 1]
    <3> HIDE DEF old, m
    <3>1. old(j) \in 1 .. n /\ d[j] = c[old(j)] /\ d[j] \in DOMAIN ne
      BY <1>5, <1>6, <1>7, Zenon
    <3>2. e[c[old(j)]].nextElement = IF old(j) = n THEN NULL ELSE c[old(j) + 1]
      BY <1>1, <3>1, Zenon
    <3> QED
      BY <3>1, <3>2
  <2>2. CASE k # 1 /\ old(j) = k - 1
    <3>1. j = k - 1 /\ (k = n <=> j = m) /\ (j # m => j + 1 \in 1 .. m /\ old(j + 1) = k + 1)
      BY <1>0, <2>2
    <3>2. d[j] = before
      BY <2>1, <2>2
    <3>3. ne[d[j]].nextElement = after
      BY <1>2, <2>1, <3>2
    <3> HIDE DEF old, m
    <3> QED
      BY <1>5, <3>1, <3>3
  <2>3. CASE ~(k # 1 /\ old(j) = k - 1)
    <3>1. d[j] # before
      <4>1. k # 1 => k - 1 \in 1 .. n
        BY <1>0
      <4> HIDE DEF old
      <4> QED
        <5>1. d[j] \in DOMAIN e
          BY <1>2, <2>1
        <5>2. k # 1 => d[j] # c[k - 1]
          BY <1>1, <2>1, <2>3, <4>1, Zenon
        <5> QED
          BY <1>1, <5>1, <5>2
    <3>2. ne[d[j]].nextElement = e[d[j]].nextElement
      BY <1>2, <2>1, <3>1
    <3>3. /\ old(j) = n <=> j = m
          /\ j # m => j + 1 \in 1 .. m /\ old(j + 1) = old(j) + 1
      BY <1>0, <2>3
    <3> HIDE DEF old, m
    <3> QED
      BY <1>5, <2>1, <3>2, <3>3
  <2> QED
    BY <2>2, <2>3
<1>14. \A j \in 2 .. m : ne[d[j]].previousElement = d[j - 1]
  <2> TAKE j \in 2 .. m
  <2>0. j \in 1 .. m /\ j - 1 \in 1 .. m /\ old(j) \in 2 .. n
    BY <1>0
  <2>1. /\ d[j] = c[old(j)] /\ d[j] \in DOMAIN ne /\ d[j - 1] = c[old(j - 1)]
        /\ e[d[j]].previousElement = c[old(j) - 1]
    <3> HIDE DEF old, m
    <3>1. d[j] = c[old(j)] /\ d[j] \in DOMAIN ne /\ d[j - 1] = c[old(j - 1)]
      BY <1>5, <1>7, <2>0, Zenon
    <3>2. e[c[old(j)]].previousElement = c[old(j) - 1]
      BY <1>1, <2>0, Zenon
    <3> QED
      BY <3>1, <3>2
  <2>2. CASE k # n /\ old(j) = k + 1
    <3>1. k # 1 /\ old(j - 1) = k - 1
      BY <1>0, <2>2
    <3>2. d[j] = after
      BY <2>1, <2>2
    <3>3. ne[d[j]].previousElement = before
      BY <1>2, <2>1, <3>2
    <3> QED
      BY <2>1, <3>1, <3>3
  <2>3. CASE ~(k # n /\ old(j) = k + 1)
    <3>1. d[j] # after
      <4>1. (k # n => k + 1 \in 1 .. n) /\ old(j) \in 1 .. n
        BY <1>0, <2>0
      <4> HIDE DEF old
      <4> QED
        <5>1. d[j] \in DOMAIN e
          BY <1>2, <2>1
        <5>2. k # n => d[j] # c[k + 1]
          BY <1>1, <2>1, <2>3, <4>1, Zenon
        <5> QED
          BY <1>1, <5>1, <5>2
    <3>2. ne[d[j]].previousElement = e[d[j]].previousElement
      BY <1>2, <2>1, <3>1
    <3>3. old(j - 1) = old(j) - 1
      BY <1>0, <2>3
    <3> HIDE DEF old
    <3> QED
      BY <2>1, <3>2, <3>3
  <2> QED
    BY <2>2, <2>3
<1>15. NULL \notin DOMAIN ne
  BY <1>1, <1>2
<1>16. /\ d \in Seq(DOMAIN new.elements)
       /\ NULL \notin DOMAIN new.elements
       /\ \A i, j \in 1 .. Len(d) : d[i] = d[j] => i = j
       /\ \A a \in DOMAIN new.elements : \E i \in 1 .. Len(d) : d[i] = a
       /\ new.elementCount = Len(d)
       /\ new.startElement = IF Len(d) = 0 THEN NULL ELSE d[1]
       /\ Len(d) # 0 => new.endElement = d[Len(d)]
       /\ \A i \in 1 .. Len(d) :
              new.elements[d[i]].nextElement = IF i = Len(d) THEN NULL ELSE d[i + 1]
       /\ \A i \in 2 .. Len(d) : new.elements[d[i]].previousElement = d[i - 1]
  <2> HIDE DEF m
  <2> QED
    BY <1>2, <1>5a, <1>8, <1>9, <1>10, <1>11, <1>12, <1>13, <1>14, <1>15 DEF ne
<1>17. IsChain(new, d)
  BY <1>16, Zenon DEF IsChain
<1> QED
  BY <1>4, <1>17 DEF d

-----------------------------------------------------------------------------
(* The list as a sequence of data *)

IsList(list, D, A) == IsListOf(list, D, A) /\ \E c : IsChain(list, c)

\* A new list is the empty sequence.
LEMMA CreateIsEmpty ==
    ASSUME NEW D, NEW A, NULL \notin A
    PROVE  IsList(CreateList, D, A) /\ ElementData(CreateList) = <<>>
<1>1. IsListOf(CreateList, D, A) /\ IsChain(CreateList, <<>>)
  BY CreateIsChain
<1>2. ElementData(CreateList) \in Seq(D) /\ Len(ElementData(CreateList)) = 0
  <2>1. Len(ElementData(CreateList)) = Len(<<>>) /\ ElementData(CreateList) \in Seq(D)
    BY <1>1, DataOfChain, Zenon
  <2> QED
    BY <2>1, EmptySeq
<1>3. ElementData(CreateList) = <<>>
  BY <1>2, EmptySeq
<1> QED
  BY <1>1, <1>3 DEF IsList

\* The count is the length.
LEMMA CountIsLength ==
    ASSUME NEW list, NEW D, NEW A, IsList(list, D, A)
    PROVE  /\ ElementData(list) \in Seq(D)
           /\ list.elementCount = Len(ElementData(list))
           /\ Len(ElementData(list)) \in Nat
<1>1. PICK c : IsChain(list, c)
  BY DEF IsList
<1>2. ElementData(list) \in Seq(D) /\ Len(ElementData(list)) = Len(c)
  BY <1>1, DataOfChain DEF IsList
<1> QED
  BY <1>1, <1>2, LenProperties DEF IsChain

\* An insertion appends the data.
LEMMA InsertAppends ==
    ASSUME NEW list, NEW D, NEW A, IsList(list, D, A),
           NULL \notin A, NEW data \in D, NEW address \in A \ DOMAIN list.elements
    PROVE  LET new == InsertElement(data, list, address)
           IN  /\ IsList(new, D, A)
               /\ ElementData(new) = Append(ElementData(list), data)
<1> DEFINE new == InsertElement(data, list, address)
           s == ElementData(list)
           t == ElementData(new)
<1>1. PICK c : IsChain(list, c)
  BY DEF IsList
<1> DEFINE n == Len(c)
           d == Append(c, address)
<1>2. /\ IsListOf(new, D, A) /\ IsChain(new, d)
      /\ new.elements[address].elementData = data
      /\ \A a \in DOMAIN list.elements :
             new.elements[a].elementData = list.elements[a].elementData
  BY <1>1, InsertExtendsChain DEF IsList
<1> HIDE DEF new
<1>3. /\ s = [i \in 1 .. n |-> list.elements[c[i]].elementData]
      /\ s \in Seq(D) /\ Len(s) = n
  BY <1>1, DataOfChain DEF IsList
<1>4. /\ t = [i \in 1 .. Len(d) |-> new.elements[d[i]].elementData]
      /\ t \in Seq(D) /\ Len(t) = Len(d)
  BY <1>2, DataOfChain
<1>5. /\ c \in Seq(DOMAIN list.elements) /\ n \in Nat
      /\ \A i \in 1 .. n : c[i] \in DOMAIN list.elements
  BY <1>1, LenProperties, ElementOfSeq DEF IsChain
<1>6. Len(d) = n + 1 /\ (\A i \in 1 .. n : d[i] = c[i]) /\ d[n + 1] = address
  <2>1. c \in Seq(DOMAIN list.elements \cup {address})
    BY <1>5, SeqMonotonic
  <2> QED
    BY <2>1, AppendProperties
<1>7. /\ Append(s, data) \in Seq(D) /\ Len(Append(s, data)) = n + 1
      /\ \A i \in 1 .. n : Append(s, data)[i] = s[i]
      /\ Append(s, data)[n + 1] = data
  BY <1>3, AppendProperties
<1> HIDE DEF s, t, n, d
<1>8. \A i \in 1 .. n + 1 : t[i] = Append(s, data)[i]
  <2> TAKE i \in 1 .. n + 1
  <2>1. t[i] = new.elements[d[i]].elementData
    BY <1>4, <1>6
  <2>2. CASE i = n + 1
    BY <1>2, <1>6, <1>7, <2>1, <2>2
  <2>3. CASE i # n + 1
    <3>1. n \in Nat
      BY <1>5
    <3>2. i \in 1 .. n
      BY <2>3, <3>1
    <3>3. s[i] = list.elements[c[i]].elementData /\ c[i] \in DOMAIN list.elements
      BY <1>3, <1>5, <3>2
    <3> QED
      BY <1>2, <1>6, <1>7, <2>1, <3>2, <3>3, Zenon
  <2> QED
    BY <2>2, <2>3
<1>9. t = Append(s, data)
  BY <1>4, <1>6, <1>7, <1>8, SeqEqual
<1> QED
  BY <1>2, <1>9 DEF IsList, s, t, new

\* Unlinking the element at a position takes its data out.
LEMMA UnlinkRemoves ==
    ASSUME NEW list, NEW D, NEW A, IsList(list, D, A), NULL \notin A,
           NEW k \in 1 .. Len(ElementData(list))
    PROVE  LET new == Unlink(Walk(list)[k], list)
           IN  /\ IsList(new, D, A)
               /\ ElementData(new) = RemoveAt(ElementData(list), k)
               /\ new # list
<1>1. PICK c : IsChain(list, c)
  BY DEF IsList
<1> DEFINE new == Unlink(c[k], list)
           s == ElementData(list)
           t == ElementData(new)
           n == Len(c)
           d == RemoveAt(c, k)
<1>2. /\ s = [i \in 1 .. n |-> list.elements[c[i]].elementData]
      /\ s \in Seq(D) /\ Len(s) = n
  BY <1>1, DataOfChain DEF IsList
<1>3. /\ c \in Seq(DOMAIN list.elements) /\ n \in Nat
      /\ \A i \in 1 .. n : c[i] \in DOMAIN list.elements
      /\ list.elementCount = n
  BY <1>1, LenProperties, ElementOfSeq DEF IsChain
<1>4. k \in 1 .. n
  BY <1>2
<1>5. IsWithout(new, list, c, k, D, A)
  BY <1>1, <1>4, UnlinkFields, Zenon DEF IsList
<1> HIDE DEF new
<1>6. IsListOf(new, D, A) /\ IsChain(new, d)
  BY <1>1, <1>4, <1>5, WithoutIsChain, Zenon DEF IsList
<1>7. /\ t = [i \in 1 .. Len(d) |-> new.elements[d[i]].elementData]
      /\ t \in Seq(D) /\ Len(t) = Len(d)
  BY <1>6, DataOfChain
<1>8. /\ d \in Seq(DOMAIN list.elements) /\ Len(d) = n - 1
      /\ \A j \in 1 .. n - 1 : d[j] = IF j < k THEN c[j] ELSE c[j + 1]
  BY <1>3, <1>4, RemoveAtProperties, Zenon
<1>9. /\ RemoveAt(s, k) \in Seq(D) /\ Len(RemoveAt(s, k)) = n - 1
      /\ \A j \in 1 .. n - 1 : RemoveAt(s, k)[j] = IF j < k THEN s[j] ELSE s[j + 1]
  <2>1. /\ RemoveAt(s, k) \in Seq(D) /\ Len(RemoveAt(s, k)) = Len(s) - 1
        /\ \A j \in 1 .. Len(s) - 1 :
               RemoveAt(s, k)[j] = IF j < k THEN s[j] ELSE s[j + 1]
    BY <1>2, RemoveAtProperties, Zenon
  <2> QED
    BY <1>2, <2>1, Zenon
<1>10. \A a \in DOMAIN new.elements :
           new.elements[a].elementData = list.elements[a].elementData
  BY <1>5 DEF IsWithout
<1>11. \A j \in 1 .. Len(d) : d[j] \in DOMAIN new.elements
  BY <1>6, ElementOfSeq DEF IsChain
<1>12. new.elementCount = Len(d)
  BY <1>6 DEF IsChain
<1> HIDE DEF s, t, n, d
<1>13. \A j \in 1 .. n - 1 : t[j] = RemoveAt(s, k)[j]
  <2> TAKE j \in 1 .. n - 1
  <2>1. t[j] = list.elements[d[j]].elementData
    BY <1>7, <1>8, <1>10, <1>11
  <2>2. /\ n \in Nat
        /\ \A i \in 1 .. n : s[i] = list.elements[c[i]].elementData
    BY <1>2, <1>3
  <2>3. j \in 1 .. n /\ j + 1 \in 1 .. n
    BY <2>2
  <2> QED
    BY <1>8, <1>9, <2>1, <2>2, <2>3, Zenon
<1>14. t = RemoveAt(s, k)
  <2>1. Len(t) = Len(RemoveAt(s, k)) /\ \A j \in 1 .. Len(t) : t[j] = RemoveAt(s, k)[j]
    BY <1>7, <1>8, <1>9, <1>13, Zenon
  <2> QED
    BY <1>7, <1>9, <2>1, SeqEqual, Zenon
<1>15. new # list
  <2>1. n \in Nat /\ list.elementCount = n /\ new.elementCount = n - 1
    BY <1>3, <1>8, <1>12
  <2> QED
    BY <2>1
<1>16. Walk(list) = c
  BY <1>1, WalkIsChain
<1> QED
  BY <1>6, <1>14, <1>15, <1>16, Zenon DEF IsList, s, t, new

\* The first position that matches, or 0.
IsFirst(i, s, matching) ==
    \/ /\ i = 0 /\ \A j \in 1 .. Len(s) : s[j] \notin matching
    \/ /\ i \in 1 .. Len(s) /\ s[i] \in matching
       /\ \A j \in 1 .. Len(s) : s[j] \in matching => i <= j

\* The search stops at the first element that matches.
LEMMA FirstIsFirst ==
    ASSUME NEW list, NEW matching, Len(ElementData(list)) \in Nat
    PROVE  IsFirst(First(list, matching), ElementData(list), matching)
<1> DEFINE s == ElementData(list)
           I == {i \in 1 .. Len(s) : s[i] \in matching}
           i == First(list, matching)
<1>1. i = IF I # {} THEN Min(I) ELSE 0
  BY Zenon DEF First, SelectInSeq
<1>2. ASSUME I # {} PROVE Min(I) \in I /\ \A j \in I : Min(I) <= j
  <2>1. \E x \in I : \A y \in I : x <= y
    <3>1. I \in SUBSET Nat
      OBVIOUS
    <3> HIDE DEF I
    <3> QED
      BY <1>2, <3>1, LeastNumber
  <2> HIDE DEF I
  <2> QED
    BY <2>1 DEF Min
<1> HIDE DEF i
<1>3. CASE I = {}
  BY <1>1, <1>3 DEF IsFirst, i
<1>4. CASE I # {}
  <2>1. i \in I /\ \A j \in I : i <= j
    BY <1>1, <1>2, <1>4
  <2> QED
    BY <2>1 DEF IsFirst, i
<1> QED
  BY <1>3, <1>4

-----------------------------------------------------------------------------
(* What the calls do and answer *)

\* The first element with the data is taken out, if there is one.
LEMMA DeleteElementRemoves ==
    ASSUME NEW list, NEW D, NEW A, IsList(list, D, A), NULL \notin A, NEW data
    PROVE  LET new == DeleteElement(data, list)
               s == ElementData(list)
           IN  /\ IsList(new, D, A)
               /\ ElementData(new) = RemoveFirst(s, data)
               /\ Deleted(list, new) = IF data \in Range(s) THEN 1 ELSE 0
<1> DEFINE new == DeleteElement(data, list)
           s == ElementData(list)
           i == First(list, {data})
<1>1. s \in Seq(D) /\ Len(s) \in Nat /\ DOMAIN s = 1 .. Len(s)
  BY CountIsLength, LenProperties
<1>2. IsFirst(i, s, {data})
  BY <1>1, FirstIsFirst
<1>3. data \in Range(s) <=> \E j \in 1 .. Len(s) : s[j] = data
  BY <1>1 DEF Range
<1>4. new = IF i = 0 THEN list ELSE Unlink(Walk(list)[i], list)
  BY Zenon DEF DeleteElement
<1>5. RemoveFirst(s, data) = IF \E j \in 1 .. Len(s) : s[j] = data
                             THEN RemoveAt(s, i) ELSE s
  <2>1. i = IF {j \in 1 .. Len(s) : s[j] \in {data}} # {}
            THEN Min({j \in 1 .. Len(s) : s[j] \in {data}}) ELSE 0
    BY Zenon DEF First, SelectInSeq
  <2>2. RemoveFirst(s, data) =
            IF \E j \in 1 .. Len(s) : s[j] = data
            THEN RemoveAt(s, IF {j \in 1 .. Len(s) : s[j] = data} # {}
                             THEN Min({j \in 1 .. Len(s) : s[j] = data}) ELSE 0)
            ELSE s
    BY Zenon DEF RemoveFirst, SelectInSeq
  <2>3. {j \in 1 .. Len(s) : s[j] \in {data}} = {j \in 1 .. Len(s) : s[j] = data}
    OBVIOUS
  <2> HIDE DEF i, s
  <2> QED
    BY <2>1, <2>2, <2>3, Zenon
<1> HIDE DEF new, s, i
<1>6. CASE i = 0
  <2>1. ~ \E j \in 1 .. Len(s) : s[j] = data
    BY <1>2, <1>6 DEF IsFirst
  <2> QED
    BY <1>3, <1>4, <1>5, <1>6, <2>1, Zenon DEF Deleted, new, s
<1>7. CASE i # 0
  <2>1. i \in 1 .. Len(s) /\ s[i] = data
    BY <1>2, <1>7 DEF IsFirst
  <2>2. new = Unlink(Walk(list)[i], list)
    BY <1>4, <1>7
  <2>3. IsList(new, D, A) /\ ElementData(new) = RemoveAt(s, i) /\ new # list
    BY <2>1, <2>2, UnlinkRemoves, Zenon DEF s
  <2> QED
    BY <1>3, <1>5, <2>1, <2>3, Zenon DEF Deleted, new, s
<1> QED
  BY <1>6, <1>7

\* The element at a position of the list, counted from 0, is taken out.
LEMMA DeletePositionRemoves ==
    ASSUME NEW list, NEW D, NEW A, IsList(list, D, A), NULL \notin A,
           NEW position \in Nat
    PROVE  LET new == DeletePosition(position, list)
               s == ElementData(list)
           IN  /\ IsList(new, D, A)
               /\ position < Len(s) => /\ ElementData(new) = RemoveAt(s, position + 1)
                                       /\ Deleted(list, new) = 1
               /\ ~(position < Len(s)) => new = list /\ Deleted(list, new) = 0
<1> DEFINE new == DeletePosition(position, list)
           s == ElementData(list)
<1>1. Len(s) \in Nat /\ list.elementCount = Len(s)
  BY CountIsLength
<1> HIDE DEF new, s
<1>2. CASE position < Len(s)
  <2>1. position + 1 \in 1 .. Len(s) /\ ~(position >= list.elementCount)
    BY <1>1, <1>2
  <2>2. new = Unlink(Walk(list)[position + 1], list)
    BY <2>1, Zenon DEF DeletePosition, new
  <2>3. /\ IsList(new, D, A) /\ ElementData(new) = RemoveAt(s, position + 1)
        /\ new # list
    BY <2>1, <2>2, UnlinkRemoves, Zenon DEF s
  <2> QED
    BY <1>2, <2>3, Zenon DEF Deleted, new, s
<1>3. CASE ~(position < Len(s))
  <2>1. position >= list.elementCount
    BY <1>1, <1>3
  <2>2. new = list
    BY <2>1, Zenon DEF DeletePosition, new
  <2> QED
    BY <1>3, <2>2, Zenon DEF Deleted, new, s
<1> QED
  BY <1>2, <1>3

\* The element at a position, the first that matches, and where it is.
LEMMA QueriesAnswer ==
    ASSUME NEW list, NEW D, NEW A, IsList(list, D, A), NEW matching
    PROVE  LET s == ElementData(list)
               i == First(list, matching)
           IN  /\ IsFirst(i, s, matching)
               /\ GetCustomElement(list, matching) = IF i = 0 THEN NULL ELSE s[i]
               /\ CheckExists(list, matching) = IF i = 0 THEN NotFound ELSE i - 1
               /\ \A p \in Nat : GetPosition(p, list) =
                                     IF p < Len(s) THEN s[p + 1] ELSE NULL
<1> DEFINE s == ElementData(list)
           i == First(list, matching)
<1>1. Len(s) \in Nat /\ list.elementCount = Len(s)
  BY CountIsLength
<1>2. IsFirst(i, s, matching)
  BY <1>1, FirstIsFirst
<1>3. GetCustomElement(list, matching) = IF i = 0 THEN NULL ELSE s[i]
  BY Zenon DEF GetCustomElement
<1>4. CheckExists(list, matching) = IF i = 0 THEN NotFound ELSE i - 1
  BY Zenon DEF CheckExists
<1>5. ASSUME NEW p \in Nat
      PROVE  GetPosition(p, list) = IF p < Len(s) THEN s[p + 1] ELSE NULL
  <2>1. GetPosition(p, list) = IF p >= list.elementCount THEN NULL ELSE s[p + 1]
    BY Zenon DEF GetPosition
  <2> HIDE DEF s
  <2> QED
    BY <1>1, <2>1
<1> QED
  BY <1>2, <1>3, <1>4, <1>5, Zenon

\* Deleting position 0 over and over, for some number of times.
Deletions(f, n, list) ==
    f = [i \in 0 .. n |-> IF i = 0 THEN list ELSE DeletePosition(0, f[i - 1])]

\* Deleting can be repeated any number of times.
LEMMA DeletionsExist == \A list : \A n \in Nat : \E f : Deletions(f, n, list)
<1> TAKE list
<1> DEFINE S == {n \in Nat : \E f : Deletions(f, n, list)}
<1>1. 0 \in S
  <2> DEFINE f == [i \in {0} |-> list]
  <2>1. f = [i \in 0 .. 0 |-> IF i = 0 THEN list ELSE DeletePosition(0, f[i - 1])]
    OBVIOUS
  <2> HIDE DEF f
  <2>2. Deletions(f, 0, list)
    BY <2>1 DEF Deletions
  <2> QED
    BY <2>2
<1>2. ASSUME NEW n \in Nat, n \in S PROVE n + 1 \in S
  <2>1. PICK g : Deletions(g, n, list)
    BY <1>2
  <2>2. /\ DOMAIN g = 0 .. n
        /\ \A i \in 0 .. n : g[i] = IF i = 0 THEN list ELSE DeletePosition(0, g[i - 1])
    BY <2>1, Zenon DEF Deletions
  <2> DEFINE h == [i \in 0 .. n + 1 |->
                      IF i = n + 1 THEN DeletePosition(0, g[n]) ELSE g[i]]
             Body(k) == [i \in 0 .. n + 1 |->
                            IF i = 0 THEN list ELSE DeletePosition(0, k[i - 1])]
  <2>3. ASSUME NEW i \in 0 .. n + 1 PROVE h[i] = Body(h)[i]
    <3>1. CASE i = n + 1
      <4>1. i # 0 /\ i - 1 = n /\ i - 1 \in 0 .. n + 1 /\ n # n + 1
        BY <3>1
      <4> QED
        BY <3>1, <4>1
    <3>2. CASE i # n + 1 /\ i # 0
      <4>1. i \in 0 .. n /\ i - 1 \in 0 .. n + 1 /\ i - 1 # n + 1
        BY <3>2
      <4>2. h[i] = g[i] /\ h[i - 1] = g[i - 1]
        BY <3>2, <4>1
      <4> HIDE DEF h
      <4> QED
        BY <2>2, <3>2, <4>1, <4>2
    <3>3. CASE i = 0 /\ i # n + 1
      BY <2>2, <3>3
    <3> QED
      BY <3>1, <3>2, <3>3
  <2>4. h = [i \in 0 .. n + 1 |-> h[i]]
    OBVIOUS
  <2> HIDE DEF h
  <2>5. Deletions(h, n + 1, list)
    <3>1. h = Body(h)
      BY <2>3, <2>4
    <3> QED
      BY <3>1 DEF Deletions
  <2> QED
    BY <2>5
<1>3. S \in SUBSET Nat
  OBVIOUS
<1> HIDE DEF S
<1>4. \A n \in Nat : n \in S
  BY <1>1, <1>2, <1>3, NatSetInduction
<1> QED
  BY <1>4 DEF S

\* When the list is destroyed, nothing is left of it.
LEMMA DestroyEmpties ==
    ASSUME NEW list, NEW D, NEW A, IsList(list, D, A), NULL \notin A
    PROVE  Destroy(list).elementCount = 0
<1> DEFINE n == list.elementCount
           f == CHOOSE g : Deletions(g, n, list)
<1>1. n \in Nat /\ n = Len(ElementData(list))
  BY CountIsLength
<1>2. Deletions(f, n, list)
  BY <1>1, DeletionsExist
<1>3. Destroy(list) = f[n]
  BY Zenon DEF Destroy, Deletions
<1> HIDE DEF f
<1> DEFINE S == {i \in Nat : i <= n => IsList(f[i], D, A) /\ f[i].elementCount = n - i}
<1>4. 0 \in S
  <2>1. f[0] = list
    BY <1>1, <1>2 DEF Deletions
  <2> QED
    BY <1>1, <2>1
<1>5. ASSUME NEW i \in Nat, i \in S PROVE i + 1 \in S
  <2> SUFFICES ASSUME i + 1 <= n
               PROVE  IsList(f[i + 1], D, A) /\ f[i + 1].elementCount = n - (i + 1)
    OBVIOUS
  <2> DEFINE s == ElementData(f[i])
             new == DeletePosition(0, f[i])
  <2>1. IsList(f[i], D, A) /\ f[i].elementCount = n - i
    BY <1>1, <1>5
  <2>2. f[i + 1] = new
    <3>1. i + 1 \in 0 .. n /\ i + 1 # 0 /\ (i + 1) - 1 = i
      BY <1>1
    <3> QED
      BY <1>2, <3>1 DEF Deletions
  <2>3. s \in Seq(D) /\ Len(s) = n - i
    BY <2>1, CountIsLength
  <2>4. 0 < Len(s) /\ 0 + 1 \in 1 .. Len(s)
    BY <1>1, <2>3
  <2>5. IsList(new, D, A) /\ ElementData(new) = RemoveAt(s, 0 + 1)
    <3>1. 0 \in Nat
      OBVIOUS
    <3> QED
      BY <2>1, <2>4, <3>1, DeletePositionRemoves, Zenon
  <2>6. Len(RemoveAt(s, 0 + 1)) = Len(s) - 1
    BY <2>3, <2>4, RemoveAtProperties, Zenon
  <2>7. new.elementCount = Len(ElementData(new))
    BY <2>5, CountIsLength
  <2> HIDE DEF s, new
  <2>8. new.elementCount = (n - i) - 1
    BY <2>3, <2>5, <2>6, <2>7
  <2> QED
    BY <1>1, <2>2, <2>5, <2>8
<1>6. S \in SUBSET Nat
  OBVIOUS
<1>7. n \in S
  <2> HIDE DEF S
  <2> QED
    BY <1>1, <1>4, <1>5, <1>6, NatSetInduction
<1> QED
  BY <1>1, <1>3, <1>7
=============================================================================
