--------------------------- MODULE ContainersProofs ---------------------------
(***************************************************************************)
(* Proofs of the containers: through any sequence of calls the pointers of *)
(* the list form a chain, and the list implements a sequence.  For any     *)
(* data and any addresses that malloc may return.                          *)
(***************************************************************************)
EXTENDS Containers, DLinkedListProofs, FiniteSetTheorems

ListInv == IsList(theList, Data, Addresses)

\* A created list is well formed.
LEMMA ListInvInit == theList = CreateList => ListInv
  BY ContainersAssumption, CreateIsEmpty DEF ListInv

\* Every call keeps the chain.
LEMMA ListInvStep == ListInv /\ [ListNext]_listVars => ListInv'
<1> SUFFICES ASSUME ListInv, [ListNext]_listVars PROVE ListInv'
  OBVIOUS
<1>1. NULL \notin Addresses /\ IsList(theList, Data, Addresses)
  BY ContainersAssumption DEF ListInv
<1>2. ASSUME NEW e \in Data, ListInsert(e) PROVE ListInv'
  <2>1. PICK a \in Addresses \ DOMAIN theList.elements :
            theList' = InsertElement(e, theList, a)
    BY <1>2, Zenon DEF ListInsert, Unused
  <2>2. IsList(InsertElement(e, theList, a), Data, Addresses)
    BY <1>1, InsertAppends, Zenon
  <2> QED
    BY <2>1, <2>2 DEF ListInv
<1>3. ASSUME NEW e \in Data, ListDelete("deleteElement", e, DeleteElement(e, theList))
      PROVE  ListInv'
  <2>1. IsList(DeleteElement(e, theList), Data, Addresses)
    BY <1>1, DeleteElementRemoves, Zenon
  <2> QED
    BY <1>3, <2>1 DEF ListDelete, ListInv
<1>4. ASSUME NEW p \in 0 .. Cardinality(Addresses),
             ListDelete("deletePosition", p, DeletePosition(p, theList))
      PROVE  ListInv'
  <2>1. p \in Nat
    OBVIOUS
  <2>2. IsList(DeletePosition(p, theList), Data, Addresses)
    BY <1>1, <2>1, DeletePositionRemoves, Zenon
  <2> QED
    BY <1>4, <2>2 DEF ListDelete, ListInv
<1>5. ASSUME ListDestroy PROVE ListInv'
  <2>1. IsList(CreateList, Data, Addresses)
    BY <1>1, CreateIsEmpty
  <2> QED
    BY <1>5, <2>1 DEF ListDestroy, ListInv
<1>6. ASSUME NEW name, NEW argument, NEW answer, ListQuery(name, argument, answer)
      PROVE  ListInv'
  BY <1>1, <1>6 DEF ListQuery, ListInv
<1>7. ASSUME UNCHANGED listVars PROVE ListInv'
  BY <1>1, <1>7 DEF listVars, ListInv
<1> QED
  BY <1>2, <1>3, <1>4, <1>5, <1>6, <1>7, Zenon DEF ListNext

\* The pointers of the list always form a chain.
THEOREM ListInvariant == ListSpec => []ListInv
  BY ListInvInit, ListInvStep, PTL DEF ListSpec

\* A chain is what ChainIsIntact asks for.
LEMMA ChainImpliesIntact == ListInv => ChainIsIntact
<1> SUFFICES ASSUME ListInv PROVE ChainIsIntact
  OBVIOUS
<1>1. PICK c : IsChain(theList, c)
  BY DEF ListInv, IsList
<1>2. Walk(theList) = c
  BY <1>1, WalkIsChain
<1> DEFINE e == theList.elements
           n == Len(c)
<1>3. /\ c \in Seq(DOMAIN e) /\ n \in Nat /\ DOMAIN c = 1 .. n
      /\ \A i \in 1 .. n : c[i] \in DOMAIN e
  BY <1>1, LenProperties, ElementOfSeq DEF IsChain
<1>4. /\ \A i, j \in 1 .. n : c[i] = c[j] => i = j
      /\ \A a \in DOMAIN e : \E i \in 1 .. n : c[i] = a
      /\ theList.elementCount = n
      /\ n # 0 => theList.endElement = c[n]
      /\ \A i \in 2 .. n : e[c[i]].previousElement = c[i - 1]
  BY <1>1 DEF IsChain
<1>5. e \in [DOMAIN e -> [elementData : Data, previousElement : Addresses \cup {NULL},
                          nextElement : Addresses \cup {NULL}]]
  BY DEF ListInv, IsList, IsListOf, ElementsOf
<1>6. Range(c) = DOMAIN e
  <2>1. Range(c) = {c[i] : i \in 1 .. n}
    BY <1>3, Zenon DEF Range
  <2>2. (\A i \in 1 .. n : c[i] \in DOMAIN e) /\ \A a \in DOMAIN e : \E i \in 1 .. n : c[i] = a
    BY <1>3, <1>4
  <2> HIDE DEF e, n
  <2> QED
    BY <2>1, <2>2
<1>7. Cardinality(Range(c)) = n
  <2>1. c \in Bijection(1 .. n, DOMAIN e)
    <3>1. c \in [1 .. n -> DOMAIN e]
      BY <1>3, LenProperties
    <3> QED
      BY <1>4, <3>1 DEF Bijection, Injection, Surjection, IsInjective
  <2>2. IsFiniteSet(1 .. n) /\ Cardinality(1 .. n) = n
    BY <1>3, FS_Interval
  <2>3. Cardinality(DOMAIN e) = Cardinality(1 .. n)
    <3>1. ExistsBijection(1 .. n, DOMAIN e)
      BY <2>1 DEF ExistsBijection
    <3> QED
      BY <2>2, <3>1, FS_Bijection
  <2> QED
    BY <1>6, <2>2, <2>3
<1>8. c # <<>> => theList.endElement = Last(c)
  BY <1>3, <1>4, EmptySeq DEF Last
<1> HIDE DEF e, n
<1> QED
  BY <1>2, <1>4, <1>5, <1>6, <1>7, <1>8, Zenon DEF ChainIsIntact, e, n

\* The elements of the list are linked into one chain in both directions, none
\* lost and none twice, through any sequence of calls of the library.
THEOREM ListChainIsIntact == ListSpec => []ChainIsIntact
  BY ListInvariant, ChainImpliesIntact, PTL

-----------------------------------------------------------------------------
(* The list implements a sequence *)

elements == ElementData(theList)

\* A created list is the empty sequence.
LEMMA SequenceInitHolds ==
    theList = CreateList /\ listCall = <<>> => Sequence!SequenceInit
<1> SUFFICES ASSUME theList = CreateList, listCall = <<>> PROVE Sequence!SequenceInit
  OBVIOUS
<1>1. ElementData(CreateList) = <<>>
  BY ContainersAssumption, CreateIsEmpty
<1> QED
  BY <1>1, Zenon DEF Sequence!SequenceInit

\* The helpers of the instance are those of this module.
LEMMA SequenceHelpers ==
    /\ \A q : Sequence!Range(q) = Range(q)
    /\ \A q, i : Sequence!RemoveAt(q, i) = RemoveAt(q, i)
    /\ \A q, d : Sequence!RemoveFirst(q, d) = RemoveFirst(q, d)
    /\ \A S : Sequence!Cardinality(S) = Cardinality(S)
<1>1. \A q : Sequence!Range(q) = Range(q)
  BY Zenon DEF Range, Sequence!Range
<1>2. \A q, i : Sequence!RemoveAt(q, i) = RemoveAt(q, i)
  BY Zenon DEF RemoveAt, Sequence!RemoveAt
<1>3. \A q, d : Sequence!RemoveFirst(q, d) = RemoveFirst(q, d)
  <2> TAKE q, d
  <2> DEFINE I == {j \in 1 .. Len(q) : q[j] = d}
  <2>1. RemoveFirst(q, d) = IF \E j \in 1 .. Len(q) : q[j] = d
                            THEN RemoveAt(q, IF I # {} THEN Min(I) ELSE 0) ELSE q
    BY Zenon DEF RemoveFirst, SelectInSeq
  <2>2. Sequence!RemoveFirst(q, d) =
            IF \E j \in 1 .. Len(q) : q[j] = d
            THEN Sequence!RemoveAt(q, IF I # {} THEN Sequence!Min(I) ELSE 0) ELSE q
    BY Zenon DEF Sequence!RemoveFirst, Sequence!SelectInSeq
  <2>3. Sequence!Min(I) = Min(I)
    BY Zenon DEF Min, Sequence!Min
  <2>4. \A j : Sequence!RemoveAt(q, j) = RemoveAt(q, j)
    BY <1>2
  <2> HIDE DEF I
  <2> QED
    BY <2>1, <2>2, <2>3, <2>4
<1>4. \A S : Sequence!Cardinality(S) = Cardinality(S)
  BY Zenon DEF Cardinality, Sequence!Cardinality
<1> QED
  BY <1>1, <1>2, <1>3, <1>4

\* Every call is one of the calls of a sequence, with its answer.
LEMMA SequenceStepHolds ==
    ListInv /\ [ListNext]_listVars => [Sequence!SequenceNext]_<<elements, listCall>>
<1> SUFFICES ASSUME ListInv, [ListNext]_listVars
             PROVE  [Sequence!SequenceNext]_<<elements, listCall>>
  OBVIOUS
<1> DEFINE s == ElementData(theList)
<1>1. NULL \notin Addresses /\ NULL \notin Data /\ IsList(theList, Data, Addresses)
  BY ContainersAssumption DEF ListInv
<1>2. s \in Seq(Data) /\ Len(s) \in Nat /\ DOMAIN s = 1 .. Len(s)
  BY <1>1, CountIsLength, LenProperties
<1>3. \A d : d \in Range(s) <=> \E j \in 1 .. Len(s) : s[j] = d
  BY <1>2, Zenon DEF Range
<1> HIDE DEF s
<1>4. ASSUME NEW e \in Data, ListInsert(e) PROVE Sequence!Inserted(e)
  <2>1. PICK a \in Addresses \ DOMAIN theList.elements :
            theList' = InsertElement(e, theList, a)
    BY <1>4, Zenon DEF ListInsert, Unused
  <2>2. ElementData(InsertElement(e, theList, a)) = Append(s, e)
    BY <1>1, InsertAppends, Zenon DEF s
  <2>3. ElementData(theList') = Append(s, e)
    BY <2>1, <2>2, Zenon
  <2> QED
    BY <1>4, <2>3, Zenon DEF ListInsert, Sequence!Inserted, s
<1>5. ASSUME NEW e \in Data, ListDelete("deleteElement", e, DeleteElement(e, theList))
      PROVE  Sequence!ElementDeleted(e)
  <2>1. /\ ElementData(DeleteElement(e, theList)) = RemoveFirst(s, e)
        /\ Deleted(theList, DeleteElement(e, theList)) = IF e \in Range(s) THEN 1 ELSE 0
    BY <1>1, DeleteElementRemoves, Zenon DEF s
  <2>2. theList' = DeleteElement(e, theList)
    BY <1>5, Zenon DEF ListDelete
  <2>3. ElementData(theList') = RemoveFirst(s, e)
    BY <2>1, <2>2, Zenon
  <2> QED
    BY <1>5, <2>1, <2>3, SequenceHelpers, Zenon DEF ListDelete, Sequence!ElementDeleted, s
<1>6. ASSUME NEW p \in 0 .. Cardinality(Addresses),
             ListDelete("deletePosition", p, DeletePosition(p, theList))
      PROVE  Sequence!PositionDeleted(p)
  <2>0. p \in Nat
    OBVIOUS
  <2> DEFINE new == DeletePosition(p, theList)
  <2>1. /\ p < Len(s) => /\ ElementData(new) = RemoveAt(s, p + 1)
                         /\ Deleted(theList, new) = 1
        /\ ~(p < Len(s)) => new = theList /\ Deleted(theList, new) = 0
    BY <1>1, <2>0, DeletePositionRemoves, Zenon DEF s
  <2>2. theList' = new /\ listCall' = <<"deletePosition", p, Deleted(theList, new)>>
    BY <1>6, Zenon DEF ListDelete
  <2> HIDE DEF new
  <2>3. CASE p < Len(s)
    <3>1. ElementData(theList') = RemoveAt(s, p + 1)
      BY <2>1, <2>2, <2>3, Zenon
    <3> QED
      BY <2>1, <2>2, <2>3, <3>1, SequenceHelpers, Zenon DEF Sequence!PositionDeleted, s
  <2>4. CASE ~(p < Len(s))
    <3>1. ElementData(theList') = s
      BY <2>1, <2>2, <2>4, Zenon DEF s
    <3> QED
      BY <2>1, <2>2, <2>4, <3>1, SequenceHelpers, Zenon DEF Sequence!PositionDeleted, s
  <2> QED
    BY <2>3, <2>4
<1>7. ASSUME NEW p \in 0 .. Cardinality(Addresses),
             ListQuery("getPosition", p, GetPosition(p, theList))
      PROVE  Sequence!PositionRead(p)
  <2>0. p \in Nat
    OBVIOUS
  <2>1. GetPosition(p, theList) = IF p < Len(s) THEN s[p + 1] ELSE NULL
    BY <1>1, <2>0, QueriesAnswer, Zenon DEF s
  <2> QED
    BY <1>7, <2>1, Zenon DEF ListQuery, Sequence!PositionRead, s
<1>8. ASSUME NEW e \in Data
      PROVE  /\ IsFirst(First(theList, {e}), s, {e})
             /\ GetCustomElement(theList, {e}) =
                    IF First(theList, {e}) = 0 THEN NULL ELSE s[First(theList, {e})]
             /\ CheckExists(theList, {e}) =
                    IF First(theList, {e}) = 0 THEN NotFound ELSE First(theList, {e}) - 1
  BY <1>1, QueriesAnswer, Zenon DEF s
<1>9. ASSUME NEW e \in Data,
             ListQuery("getCustomElement", e, GetCustomElement(theList, {e}))
      PROVE  Sequence!ElementSought(e)
  <2> DEFINE i == First(theList, {e})
  <2>1. /\ i = 0 => e \notin Range(s)
        /\ i # 0 => e \in Range(s) /\ s[i] = e
    <3> HIDE DEF i
    <3>1. IsFirst(i, s, {e})
      BY <1>8 DEF i
    <3> QED
      BY <1>3, <3>1 DEF IsFirst
  <2>2. GetCustomElement(theList, {e}) = IF e \in Range(s) THEN e ELSE NULL
    BY <1>8, <2>1, Zenon
  <2> QED
    BY <1>9, <2>2, SequenceHelpers, Zenon DEF ListQuery, Sequence!ElementSought, s
<1>10. ASSUME NEW e \in Data, ListQuery("checkExists", e, CheckExists(theList, {e}))
       PROVE  Sequence!PositionSought(e)
  <2> DEFINE i == First(theList, {e})
  <2>1. /\ i = 0 => e \notin Range(s)
        /\ i # 0 => /\ e \in Range(s) /\ i - 1 \in 0 .. Len(s) - 1 /\ (i - 1) + 1 = i
                    /\ s[i] = e
                    /\ \A q \in 0 .. (i - 1) - 1 : s[q + 1] # e
    <3> HIDE DEF i
    <3>1. IsFirst(i, s, {e})
      BY <1>8 DEF i
    <3>2. i = 0 => e \notin Range(s)
      BY <1>3, <3>1 DEF IsFirst
    <3>3. i # 0 => i \in 1 .. Len(s) /\ s[i] = e
                   /\ \A j \in 1 .. Len(s) : s[j] = e => i <= j
      BY <3>1 DEF IsFirst
    <3>4. i # 0 => \A q \in 0 .. (i - 1) - 1 : s[q + 1] # e
      <4> SUFFICES ASSUME i # 0, NEW q \in 0 .. (i - 1) - 1, s[q + 1] = e PROVE FALSE
        OBVIOUS
      <4>1. q + 1 \in 1 .. Len(s) /\ ~(i <= q + 1)
        BY <1>2, <3>3
      <4> QED
        BY <3>3, <4>1
    <3> QED
      BY <1>2, <1>3, <3>2, <3>3, <3>4
  <2>2. listCall' = <<"checkExists", e, IF i = 0 THEN NotFound ELSE i - 1>>
        /\ UNCHANGED theList
    BY <1>8, <1>10, Zenon DEF ListQuery
  <2>3. ElementData(theList') = s
    BY <2>2, Zenon DEF s
  <2> HIDE DEF i
  <2>4. CASE i = 0
    BY <2>1, <2>2, <2>3, <2>4, SequenceHelpers, Zenon DEF Sequence!PositionSought, s
  <2>5. CASE i # 0
    <3> DEFINE p == i - 1
    <3>1. /\ e \in Range(s) /\ p \in 0 .. Len(s) - 1 /\ s[p + 1] = e
          /\ \A q \in 0 .. p - 1 : s[q + 1] # e
          /\ listCall' = <<"checkExists", e, p>>
      BY <2>1, <2>2, <2>5
    <3> HIDE DEF p
    <3> QED
      BY <2>3, <3>1, SequenceHelpers, Zenon DEF Sequence!PositionSought, s
  <2> QED
    BY <2>4, <2>5
<1>11. ASSUME NEW e \in Data,
              ListQuery("getCustomCount", e, GetCustomCount(theList, {e}))
       PROVE  Sequence!ElementCounted(e)
  <2>1. {i \in DOMAIN s : s[i] \in {e}} = {i \in DOMAIN s : s[i] = e}
    OBVIOUS
  <2>2. GetCustomCount(theList, {e}) = Cardinality({i \in DOMAIN s : s[i] = e})
    BY <2>1, Zenon DEF GetCustomCount, s
  <2> QED
    BY <1>11, <2>2, SequenceHelpers, Zenon DEF ListQuery, Sequence!ElementCounted, s
<1>12. ASSUME ListDestroy PROVE Sequence!Destroyed
  <2>1. Emptied(Destroy(theList)) = 1
    BY <1>1, DestroyEmpties, Zenon DEF Emptied
  <2>2. ElementData(CreateList) = <<>>
    BY <1>1, CreateIsEmpty
  <2>3. ElementData(theList') = <<>>
    BY <1>12, <2>2, Zenon DEF ListDestroy
  <2> QED
    BY <1>12, <2>1, <2>3, Zenon DEF ListDestroy, Sequence!Destroyed
<1>13. ASSUME UNCHANGED listVars PROVE UNCHANGED <<elements, listCall>>
  BY <1>13, Zenon DEF listVars, elements
<1>14. ASSUME ListNext PROVE Sequence!SequenceNext
  BY <1>4, <1>5, <1>6, <1>7, <1>9, <1>10, <1>11, <1>12, <1>14, Zenon
     DEF ListNext, Sequence!SequenceNext
<1> QED
  BY <1>13, <1>14, Zenon

\* The list is a sequence: through any sequence of calls, each one changes it
\* and answers as dlinkedlist.h says.
THEOREM ListImplementsSequence == ListSpec => IsSequence
  BY SequenceInitHolds, ListInvariant, SequenceStepHolds, PTL
     DEF ListSpec, IsSequence, Sequence!SequenceSpec, elements

-----------------------------------------------------------------------------
(* The map implements a partial function *)

\* The list holds the address of every entry once, and no key has two entries.
IsMap(map) ==
    LET list == map.underlyingList
        entries == map.entries
        s == ElementData(list)
    IN  /\ map = [underlyingList |-> list, entries |-> entries]
        /\ IsList(list, Addresses, Addresses)
        /\ DOMAIN entries \subseteq Addresses
        /\ entries \in [DOMAIN entries -> [theKey : Data, theValue : Data]]
        /\ \A i, j \in 1 .. Len(s) : s[i] = s[j] => i = j
        /\ Range(s) = DOMAIN entries
        /\ \A d, e \in DOMAIN entries : entries[d].theKey = entries[e].theKey => d = e

MapInv == IsMap(theMap)

\* What can be used of a map.
LEMMA MapFacts ==
    ASSUME NEW map, IsMap(map)
    PROVE  LET s == ElementData(map.underlyingList)
           IN  /\ NULL \notin Addresses /\ NULL \notin DOMAIN map.entries
               /\ s \in Seq(Addresses) /\ Len(s) \in Nat
               /\ \A i \in 1 .. Len(s) : s[i] \in DOMAIN map.entries
               /\ \A e \in DOMAIN map.entries : \E i \in 1 .. Len(s) : s[i] = e
               /\ \A e \in DOMAIN map.entries :
                      map.entries[e].theKey \in Data /\ map.entries[e].theValue \in Data
<1> DEFINE s == ElementData(map.underlyingList)
<1>1. NULL \notin Addresses /\ NULL \notin DOMAIN map.entries
  BY ContainersAssumption DEF IsMap
<1>2. s \in Seq(Addresses) /\ Len(s) \in Nat /\ DOMAIN s = 1 .. Len(s)
  BY CountIsLength, LenProperties DEF IsMap
<1>3. Range(s) = DOMAIN map.entries
  BY DEF IsMap
<1>4. Range(s) = {s[i] : i \in 1 .. Len(s)}
  BY <1>2, Zenon DEF Range
<1>5. \A e \in DOMAIN map.entries :
          map.entries[e].theKey \in Data /\ map.entries[e].theValue \in Data
  BY DEF IsMap
<1> HIDE DEF s
<1>6. \A i \in 1 .. Len(s) : s[i] \in DOMAIN map.entries
  BY <1>3, <1>4
<1>7. \A e \in DOMAIN map.entries : \E i \in 1 .. Len(s) : s[i] = e
  BY <1>3, <1>4
<1> QED
  BY <1>1, <1>2, <1>5, <1>6, <1>7 DEF s

\* A key is found if and only if an entry has it.
LEMMA GetEntryFinds ==
    ASSUME NEW map, IsMap(map), NEW k
    PROVE  LET e == GetEntry(k, map)
           IN  \/ e = NULL /\ \A d \in DOMAIN map.entries : map.entries[d].theKey # k
               \/ /\ e \in DOMAIN map.entries /\ e # NULL /\ map.entries[e].theKey = k
                  /\ \A d \in DOMAIN map.entries : map.entries[d].theKey = k => d = e
<1> DEFINE s == ElementData(map.underlyingList)
           matching == {d \in DOMAIN map.entries : map.entries[d].theKey = k}
           i == First(map.underlyingList, matching)
           e == GetEntry(k, map)
<1>1. IsList(map.underlyingList, Addresses, Addresses)
  BY DEF IsMap
<1>2. IsFirst(i, s, matching)
      /\ GetCustomElement(map.underlyingList, matching) = IF i = 0 THEN NULL ELSE s[i]
  BY <1>1, QueriesAnswer, Zenon
<1>3. e = IF i = 0 THEN NULL ELSE s[i]
  BY <1>2, Zenon DEF GetEntry
<1>4. /\ NULL \notin DOMAIN map.entries
      /\ \A d \in DOMAIN map.entries : \E j \in 1 .. Len(s) : s[j] = d
  BY MapFacts, Zenon
<1>5. \A d, x \in DOMAIN map.entries :
          map.entries[d].theKey = map.entries[x].theKey => d = x
  BY DEF IsMap
<1> HIDE DEF i, s, e
<1>6. CASE i = 0
  BY <1>2, <1>3, <1>4, <1>6 DEF IsFirst, e
<1>7. CASE i # 0
  <2>1. s[i] \in matching
    BY <1>2, <1>7 DEF IsFirst
  <2> QED
    BY <1>3, <1>4, <1>5, <1>7, <2>1 DEF e
<1> QED
  BY <1>6, <1>7

\* The partial function that a map stands for.
ValuesOf(map) ==
    [k \in {map.entries[e].theKey : e \in DOMAIN map.entries} |-> Get(k, map)]

\* That function has a value for every entry, and for no other key.
LEMMA ValuesOfMap ==
    ASSUME NEW map, IsMap(map)
    PROVE  /\ DOMAIN ValuesOf(map) = {map.entries[e].theKey : e \in DOMAIN map.entries}
           /\ \A e \in DOMAIN map.entries :
                  ValuesOf(map)[map.entries[e].theKey] = map.entries[e].theValue
           /\ \A k : k \in DOMAIN ValuesOf(map) <=> GetEntry(k, map) # NULL
           /\ \A k : Get(k, map) = IF k \in DOMAIN ValuesOf(map)
                                   THEN ValuesOf(map)[k] ELSE NULL
<1>1. DOMAIN ValuesOf(map) = {map.entries[e].theKey : e \in DOMAIN map.entries}
      /\ \A k \in DOMAIN ValuesOf(map) : ValuesOf(map)[k] = Get(k, map)
  BY DEF ValuesOf
<1>2. ASSUME NEW k PROVE k \in DOMAIN ValuesOf(map) <=> GetEntry(k, map) # NULL
  <2> DEFINE e == GetEntry(k, map)
  <2>1. \/ e = NULL /\ \A d \in DOMAIN map.entries : map.entries[d].theKey # k
        \/ e \in DOMAIN map.entries /\ e # NULL /\ map.entries[e].theKey = k
    BY GetEntryFinds, Zenon
  <2> HIDE DEF e
  <2> QED
    BY <1>1, <2>1 DEF e
<1>3. ASSUME NEW k
      PROVE  Get(k, map) = IF k \in DOMAIN ValuesOf(map) THEN ValuesOf(map)[k] ELSE NULL
  BY <1>1, <1>2, Zenon DEF Get
<1>4. ASSUME NEW e \in DOMAIN map.entries
      PROVE  ValuesOf(map)[map.entries[e].theKey] = map.entries[e].theValue
  <2> DEFINE k == map.entries[e].theKey
             d == GetEntry(k, map)
  <2>1. d = e /\ d # NULL
    BY GetEntryFinds, Zenon
  <2>2. Get(k, map) = map.entries[d].theValue
    BY <2>1, Zenon DEF Get
  <2>3. k \in DOMAIN ValuesOf(map)
    BY <1>1
  <2> QED
    BY <1>1, <2>1, <2>2, <2>3, Zenon
<1> QED
  BY <1>1, <1>2, <1>3, <1>4, Zenon

\* The values that the refinement shows are those of the map.
ValuesAreShown == MapValues = ValuesOf(theMap)

\* The refinement mapping and that function are the same.
LEMMA MapValuesAreValues == MapInv => ValuesAreShown
<1> SUFFICES ASSUME MapInv PROVE MapValues = ValuesOf(theMap)
  BY DEF ValuesAreShown
<1>1. Range(ElementData(theMap.underlyingList)) = DOMAIN theMap.entries
  BY DEF MapInv, IsMap
<1> QED
  BY <1>1, Zenon DEF MapValues, ValuesOf

\* What a map stands for is a function.
LEMMA ValuesOfIsFunction ==
    \A map : ValuesOf(map) = [k \in DOMAIN ValuesOf(map) |-> ValuesOf(map)[k]]
  BY DEF ValuesOf

WithValue(values, k, v) ==
    [x \in DOMAIN values \cup {k} |-> IF x = k THEN v ELSE values[x]]

\* A put gives the key its value, whether or not it had one.
LEMMA PutSetsValue ==
    ASSUME NEW map, IsMap(map), NEW k \in Data, NEW v \in Data,
           NEW entry \in Addresses \ DOMAIN map.entries,
           NEW a \in Addresses \ DOMAIN map.underlyingList.elements
    PROVE  LET new == Put(k, v, map, entry, a)
               values == ValuesOf(map)
           IN  /\ IsMap(new)
               /\ ValuesOf(new) = WithValue(values, k, v)
<1> DEFINE new == Put(k, v, map, entry, a)
           values == ValuesOf(map)
           list == map.underlyingList
           entries == map.entries
           s == ElementData(list)
           found == GetEntry(k, map)
<1>1. /\ map = [underlyingList |-> list, entries |-> entries]
      /\ IsList(list, Addresses, Addresses)
      /\ DOMAIN entries \subseteq Addresses
      /\ entries \in [DOMAIN entries -> [theKey : Data, theValue : Data]]
      /\ \A i, j \in 1 .. Len(s) : s[i] = s[j] => i = j
      /\ Range(s) = DOMAIN entries
      /\ \A d, e \in DOMAIN entries : entries[d].theKey = entries[e].theKey => d = e
  BY Zenon DEF IsMap
<1>2. /\ NULL \notin Addresses /\ s \in Seq(Addresses) /\ Len(s) \in Nat
      /\ \A i \in 1 .. Len(s) : s[i] \in DOMAIN entries
      /\ \A e \in DOMAIN entries : \E i \in 1 .. Len(s) : s[i] = e
  BY MapFacts, Zenon
<1>3. /\ DOMAIN values = {entries[e].theKey : e \in DOMAIN entries}
      /\ \A e \in DOMAIN entries : values[entries[e].theKey] = entries[e].theValue
  BY ValuesOfMap, Zenon
<1>4. \/ found = NULL /\ \A d \in DOMAIN entries : entries[d].theKey # k
      \/ /\ found \in DOMAIN entries /\ found # NULL /\ entries[found].theKey = k
         /\ \A d \in DOMAIN entries : entries[d].theKey = k => d = found
  BY GetEntryFinds, Zenon
<1>5. ASSUME IsMap(new), DOMAIN entries \subseteq DOMAIN new.entries,
             NEW f \in DOMAIN new.entries, new.entries[f].theKey = k,
             new.entries[f].theValue = v,
             \A e \in DOMAIN new.entries :
                 e # f => e \in DOMAIN entries /\ new.entries[e] = entries[e],
             \A e \in DOMAIN entries : new.entries[e].theKey = entries[e].theKey
      PROVE  ValuesOf(new) = [x \in DOMAIN values \cup {k} |->
                                 IF x = k THEN v ELSE values[x]]
  <2> DEFINE vals == ValuesOf(new)
  <2>1. /\ DOMAIN vals = {new.entries[e].theKey : e \in DOMAIN new.entries}
        /\ \A e \in DOMAIN new.entries :
               vals[new.entries[e].theKey] = new.entries[e].theValue
    BY <1>5, ValuesOfMap, Zenon
  <2>2. vals = [x \in DOMAIN vals |-> vals[x]]
    BY ValuesOfIsFunction
  <2> HIDE DEF vals, new, values
  <2>3. DOMAIN vals = DOMAIN values \cup {k}
    <3>1. ASSUME NEW x \in DOMAIN vals PROVE x \in DOMAIN values \cup {k}
      <4>1. PICK e \in DOMAIN new.entries : new.entries[e].theKey = x
        BY <2>1
      <4> QED
        BY <1>3, <1>5, <4>1
    <3>2. ASSUME NEW x \in DOMAIN values PROVE x \in DOMAIN vals
      <4>1. PICK e \in DOMAIN entries : entries[e].theKey = x
        BY <1>3
      <4> QED
        BY <1>5, <2>1, <4>1
    <3>3. k \in DOMAIN vals
      BY <1>5, <2>1
    <3> QED
      BY <3>1, <3>2, <3>3
  <2>4. ASSUME NEW x \in DOMAIN vals PROVE vals[x] = IF x = k THEN v ELSE values[x]
    <3>1. CASE x = k
      BY <1>5, <2>1, <3>1
    <3>2. CASE x # k
      <4>1. PICK e \in DOMAIN new.entries : new.entries[e].theKey = x
        BY <2>1
      <4>2. e # f /\ e \in DOMAIN entries /\ new.entries[e] = entries[e]
        BY <1>5, <3>2, <4>1
      <4> QED
        BY <1>3, <2>1, <3>2, <4>1, <4>2
    <3> QED
      BY <3>1, <3>2
  <2> QED
    BY <2>2, <2>3, <2>4 DEF vals
<1>6. CASE found # NULL
  <2> DEFINE ne == [entries EXCEPT ![found].theValue = v]
  <2>1. new = [map EXCEPT !.entries[found].theValue = v]
    BY <1>6, Zenon DEF Put
  <2>2. found \in DOMAIN entries /\ entries[found].theKey = k
    BY <1>4, <1>6
  <2> HIDE DEF new, found, entries, list
  <2>3. new = [underlyingList |-> list, entries |-> ne]
    BY <1>1, <2>1 DEF entries
  <2>4. DOMAIN ne = DOMAIN entries /\ ne = [e \in DOMAIN ne |-> ne[e]]
    OBVIOUS
  <2>5. /\ ne[found].theKey = k /\ ne[found].theValue = v
        /\ ne[found] \in [theKey : Data, theValue : Data]
    BY <1>1, <2>2
  <2>6. \A e \in DOMAIN entries : e # found => ne[e] = entries[e]
    OBVIOUS
  <2>7. /\ \A e \in DOMAIN entries : ne[e].theKey = entries[e].theKey
        /\ ne \in [DOMAIN entries -> [theKey : Data, theValue : Data]]
    <3> HIDE DEF ne
    <3>1. \A e \in DOMAIN entries : ne[e].theKey = entries[e].theKey
      BY <2>2, <2>5, <2>6
    <3>2. \A e \in DOMAIN entries : ne[e] \in [theKey : Data, theValue : Data]
      BY <1>1, <2>5, <2>6
    <3> QED
      BY <2>4, <3>1, <3>2
  <2> HIDE DEF ne
  <2>8. new.underlyingList = list /\ new.entries = ne
    BY <2>3
  <2>9. IsMap(new)
    <3>1. /\ IsList(new.underlyingList, Addresses, Addresses)
          /\ ElementData(new.underlyingList) = s
          /\ new = [underlyingList |-> new.underlyingList, entries |-> new.entries]
      BY <1>1, <2>3, <2>8 DEF list
    <3>2. /\ DOMAIN new.entries \subseteq Addresses /\ Range(s) = DOMAIN new.entries
          /\ new.entries \in [DOMAIN new.entries -> [theKey : Data, theValue : Data]]
      BY <1>1, <2>4, <2>7, <2>8
    <3>3. \A d, e \in DOMAIN new.entries :
              new.entries[d].theKey = new.entries[e].theKey => d = e
      BY <1>1, <2>4, <2>7, <2>8
    <3> HIDE DEF s
    <3> QED
      BY <1>1, <3>1, <3>2, <3>3 DEF IsMap
  <2>10. ValuesOf(new) = [x \in DOMAIN values \cup {k} |->
                             IF x = k THEN v ELSE values[x]]
    <3> HIDE DEF values
    <3> QED
      BY <1>5, <2>2, <2>4, <2>5, <2>6, <2>7, <2>8, <2>9 DEF entries
  <2> QED
    BY <2>9, <2>10, Zenon DEF new, WithValue
<1>7. CASE found = NULL
  <2> DEFINE nl == InsertElement(entry, list, a)
             ne == [e \in DOMAIN entries \cup {entry} |->
                       IF e = entry THEN [theKey |-> k, theValue |-> v] ELSE entries[e]]
             t == ElementData(nl)
  <2>1. new = [underlyingList |-> nl, entries |-> ne]
    BY <1>7, Zenon DEF Put
  <2>2. IsList(nl, Addresses, Addresses) /\ t = Append(s, entry)
    <3>1. /\ IsList(list, Addresses, Addresses) /\ NULL \notin Addresses
          /\ entry \in Addresses /\ a \in Addresses \ DOMAIN list.elements
      BY <1>1, <1>2
    <3> HIDE DEF list
    <3> QED
      BY <3>1, InsertAppends
  <2>3. /\ Len(t) = Len(s) + 1 /\ t[Len(s) + 1] = entry
        /\ \A i \in 1 .. Len(s) : t[i] = s[i]
    BY <1>2, <2>2, AppendProperties
  <2>4. t \in Seq(Addresses) /\ DOMAIN t = 1 .. Len(t)
    BY <2>2, CountIsLength, LenProperties
  <2>5. /\ ne[entry] = [theKey |-> k, theValue |-> v]
        /\ \A e \in DOMAIN entries : ne[e] = entries[e]
        /\ DOMAIN ne = DOMAIN entries \cup {entry}
        /\ ne = [e \in DOMAIN ne |-> ne[e]]
    OBVIOUS
  <2> HIDE DEF new, found, entries, list, ne, nl, s, t
  <2>6. \A i, j \in 1 .. Len(t) : t[i] = t[j] => i = j
    <3>1. \A i \in 1 .. Len(t) : i = Len(s) + 1 \/ i \in 1 .. Len(s)
      BY <1>2, <2>3
    <3>2. entry \notin DOMAIN entries
      BY DEF entries
    <3>3. ASSUME NEW i \in 1 .. Len(s) PROVE t[i] = s[i] /\ t[i] # entry
      BY <1>2, <2>3, <3>2
    <3> QED
      BY <1>1, <2>3, <3>1, <3>3
  <2>7. Range(t) = DOMAIN ne
    <3>1. Range(t) = {t[i] : i \in 1 .. Len(t)}
      BY <2>4, Zenon DEF Range
    <3>2. \A i \in 1 .. Len(t) : i = Len(s) + 1 \/ i \in 1 .. Len(s)
      BY <1>2, <2>3
    <3>3. \A i \in 1 .. Len(t) : t[i] \in DOMAIN ne
      BY <1>2, <2>3, <2>5, <3>2
    <3>4. Len(s) + 1 \in 1 .. Len(t) /\ \A i \in 1 .. Len(s) : i \in 1 .. Len(t)
      BY <1>2, <2>3
    <3>5. \A e \in DOMAIN ne : \E i \in 1 .. Len(t) : t[i] = e
      BY <1>2, <2>3, <2>5, <3>4, Zenon
    <3> QED
      BY <3>1, <3>3, <3>5
  <2>8. ne \in [DOMAIN ne -> [theKey : Data, theValue : Data]]
    BY <1>1, <2>5
  <2>9. \A d, e \in DOMAIN ne : ne[d].theKey = ne[e].theKey => d = e
    <3>1. \A d \in DOMAIN entries : ne[d].theKey # k /\ ne[entry].theKey = k
      BY <1>4, <1>7, <2>5
    <3> QED
      BY <1>1, <2>5, <3>1
  <2>10. DOMAIN ne \subseteq Addresses
    BY <1>1, <2>5
  <2>11. new.underlyingList = nl /\ new.entries = ne
    BY <2>1
  <2>12. IsMap(new)
    BY <2>1, <2>2, <2>6, <2>7, <2>8, <2>9, <2>10, <2>11, ZenonT(30) DEF IsMap, t
  <2>13. ValuesOf(new) = [x \in DOMAIN values \cup {k} |->
                             IF x = k THEN v ELSE values[x]]
    <3>1. /\ entry \in DOMAIN ne /\ ne[entry].theKey = k /\ ne[entry].theValue = v
          /\ DOMAIN entries \subseteq DOMAIN ne
          /\ \A e \in DOMAIN ne : e # entry => e \in DOMAIN entries /\ ne[e] = entries[e]
          /\ \A e \in DOMAIN entries : ne[e].theKey = entries[e].theKey
      BY <2>5
    <3> HIDE DEF values
    <3> QED
      BY <1>5, <2>11, <2>12, <3>1 DEF entries
  <2> QED
    BY <2>12, <2>13, Zenon DEF new, WithValue
<1> QED
  BY <1>6, <1>7

\* Taking an entry out takes its key out.
LEMMA FreeEntryRemovesKey ==
    ASSUME NEW map, IsMap(map), NEW found \in DOMAIN map.entries
    PROVE  LET new == FreeEntry(found, map)
               values == ValuesOf(map)
           IN  /\ IsMap(new)
               /\ new # map
               /\ ValuesOf(new) = Restrict(values,
                                      DOMAIN values \ {map.entries[found].theKey})
<1> DEFINE new == FreeEntry(found, map)
           values == ValuesOf(map)
           list == map.underlyingList
           entries == map.entries
           k == entries[found].theKey
           s == ElementData(list)
           nl == DeleteElement(found, list)
           t == ElementData(nl)
           ne == [e \in DOMAIN entries \ {found} |-> entries[e]]
           i == First(list, {found})
<1>1. /\ map = [underlyingList |-> list, entries |-> entries]
      /\ IsList(list, Addresses, Addresses)
      /\ DOMAIN entries \subseteq Addresses
      /\ entries \in [DOMAIN entries -> [theKey : Data, theValue : Data]]
      /\ \A j, l \in 1 .. Len(s) : s[j] = s[l] => j = l
      /\ Range(s) = DOMAIN entries
      /\ \A d, e \in DOMAIN entries : entries[d].theKey = entries[e].theKey => d = e
  BY Zenon DEF IsMap
<1>2. /\ NULL \notin Addresses /\ s \in Seq(Addresses) /\ Len(s) \in Nat
      /\ \A j \in 1 .. Len(s) : s[j] \in DOMAIN entries
      /\ \A e \in DOMAIN entries : \E j \in 1 .. Len(s) : s[j] = e
  BY MapFacts, Zenon
<1>3. /\ DOMAIN values = {entries[e].theKey : e \in DOMAIN entries}
      /\ \A e \in DOMAIN entries : values[entries[e].theKey] = entries[e].theValue
  BY ValuesOfMap, Zenon
<1>4. new = [underlyingList |-> nl, entries |-> ne]
  BY Zenon DEF FreeEntry, Restrict
<1>5. IsList(nl, Addresses, Addresses)
  BY <1>1, <1>2, DeleteElementRemoves, Zenon
<1>6. PICK p \in 1 .. Len(s) : s[p] = found
  BY <1>2
<1>7. i \in 1 .. Len(s) /\ s[i] = found /\ t = RemoveAt(s, i)
  <2>1. IsFirst(i, s, {found})
    BY <1>1, QueriesAnswer, Zenon
  <2>2. nl = IF i = 0 THEN list ELSE Unlink(Walk(list)[i], list)
    BY Zenon DEF DeleteElement
  <2> HIDE DEF i, nl, s
  <2>3. i \in 1 .. Len(s) /\ s[i] = found /\ i # 0
    BY <1>6, <2>1 DEF IsFirst
  <2>4. nl = Unlink(Walk(list)[i], list)
    BY <2>2, <2>3
  <2>5. ElementData(nl) = RemoveAt(s, i)
    BY <1>1, <1>2, <2>3, <2>4, UnlinkRemoves, Zenon DEF s
  <2> QED
    BY <2>3, <2>5
<1>8. /\ t \in Seq(Addresses) /\ Len(t) = Len(s) - 1 /\ DOMAIN t = 1 .. Len(t)
      /\ \A j \in 1 .. Len(t) : t[j] = IF j < i THEN s[j] ELSE s[j + 1]
  <2> HIDE DEF i, s, t
  <2>1. /\ RemoveAt(s, i) \in Seq(Addresses) /\ Len(RemoveAt(s, i)) = Len(s) - 1
        /\ \A j \in 1 .. Len(s) - 1 :
               RemoveAt(s, i)[j] = IF j < i THEN s[j] ELSE s[j + 1]
    BY <1>2, <1>7, RemoveAtProperties, Zenon
  <2>2. /\ t \in Seq(Addresses) /\ Len(t) = Len(s) - 1
        /\ \A j \in 1 .. Len(t) : t[j] = IF j < i THEN s[j] ELSE s[j + 1]
    BY <1>7, <2>1, Zenon
  <2> QED
    BY <2>2, LenProperties
<1>9. /\ DOMAIN ne = DOMAIN entries \ {found}
      /\ \A e \in DOMAIN ne : ne[e] = entries[e]
      /\ ne = [e \in DOMAIN ne |-> ne[e]]
  OBVIOUS
<1> DEFINE m == Len(t)
           old(j) == IF j < i THEN j ELSE j + 1
<1> HIDE DEF new, values, list, entries, s, nl, t, ne, i
<1>10. /\ Len(s) \in Nat /\ m \in Nat /\ m = Len(s) - 1 /\ i \in 1 .. Len(s)
       /\ \A j \in 1 .. m : t[j] = s[old(j)]
  <2>1. Len(s) \in Nat /\ i \in 1 .. Len(s) /\ Len(t) = Len(s) - 1
    BY <1>2, <1>7, <1>8
  <2>2. \A j \in 1 .. Len(t) : t[j] = IF j < i THEN s[j] ELSE s[j + 1]
    BY <1>8
  <2>3. Len(t) \in Nat
    BY <2>1
  <2> QED
    BY <2>1, <2>2, <2>3
<1> HIDE DEF m
<1>11. \A j \in 1 .. m : old(j) \in 1 .. Len(s) /\ old(j) # i
  BY <1>10
<1>12. \A j, l \in 1 .. m : old(j) = old(l) => j = l
  BY <1>10
<1>13. \A j \in 1 .. Len(s) : j # i => \E l \in 1 .. m : old(l) = j
  <2> SUFFICES ASSUME NEW j \in 1 .. Len(s), j # i PROVE \E l \in 1 .. m : old(l) = j
    OBVIOUS
  <2>1. CASE j < i
    <3>1. j \in 1 .. m /\ old(j) = j
      BY <1>10, <2>1
    <3> QED
      BY <3>1
  <2>2. CASE ~(j < i)
    <3>1. j - 1 \in 1 .. m /\ old(j - 1) = j
      BY <1>10, <2>2
    <3> QED
      BY <3>1
  <2> QED
    BY <2>1, <2>2
<1> HIDE DEF old
<1>14. \A j, l \in 1 .. m : t[j] = t[l] => j = l
  <2> TAKE j, l \in 1 .. m
  <2>1. /\ t[j] = s[old(j)] /\ t[l] = s[old(l)]
        /\ old(j) \in 1 .. Len(s) /\ old(l) \in 1 .. Len(s)
    BY <1>10, <1>11
  <2> QED
    BY <1>1, <1>12, <2>1, Zenon
<1>15. \A j \in 1 .. m : t[j] \in DOMAIN ne
  <2> TAKE j \in 1 .. m
  <2>1. t[j] = s[old(j)] /\ old(j) \in 1 .. Len(s) /\ old(j) # i
    BY <1>10, <1>11
  <2>2. s[old(j)] # found
    BY <1>1, <1>7, <2>1, Zenon
  <2>3. s[old(j)] \in DOMAIN entries
    BY <1>2, <2>1
  <2> QED
    BY <1>9, <2>1, <2>2, <2>3
<1>16. \A e \in DOMAIN ne : \E j \in 1 .. m : t[j] = e
  <2> TAKE e \in DOMAIN ne
  <2>1. PICK j \in 1 .. Len(s) : s[j] = e
    BY <1>2, <1>9
  <2>2. j # i
    BY <1>7, <1>9, <2>1
  <2>3. PICK l \in 1 .. m : old(l) = j
    BY <1>13, <2>2
  <2> QED
    BY <1>10, <2>1, <2>3
<1>17. Range(t) = DOMAIN ne
  <2>1. Range(t) = {t[j] : j \in 1 .. m}
    BY <1>8, Zenon DEF Range, m
  <2> QED
    BY <1>15, <1>16, <2>1
<1>18. /\ ne \in [DOMAIN ne -> [theKey : Data, theValue : Data]]
       /\ DOMAIN ne \subseteq Addresses
       /\ \A d, e \in DOMAIN ne : ne[d].theKey = ne[e].theKey => d = e
  BY <1>1, <1>9
<1>19. new.underlyingList = nl /\ new.entries = ne
  BY <1>4
<1>20. IsMap(new)
  <2>1. /\ IsList(new.underlyingList, Addresses, Addresses)
        /\ ElementData(new.underlyingList) = t
        /\ new = [underlyingList |-> new.underlyingList, entries |-> new.entries]
    BY <1>4, <1>5, <1>19 DEF t
  <2> QED
    BY <1>14, <1>17, <1>18, <1>19, <2>1 DEF IsMap, m
<1>21. new # map
  <2>1. found \in DOMAIN map.entries /\ found \notin DOMAIN new.entries
    BY <1>9, <1>19
  <2> QED
    BY <2>1
<1> DEFINE vals == ValuesOf(new)
<1>22. /\ DOMAIN vals = {ne[e].theKey : e \in DOMAIN ne}
       /\ \A e \in DOMAIN ne : vals[ne[e].theKey] = ne[e].theValue
       /\ vals = [x \in DOMAIN vals |-> vals[x]]
  <2>1. /\ DOMAIN vals = {new.entries[e].theKey : e \in DOMAIN new.entries}
        /\ \A e \in DOMAIN new.entries :
               vals[new.entries[e].theKey] = new.entries[e].theValue
    BY <1>20, ValuesOfMap, Zenon
  <2>2. vals = [x \in DOMAIN vals |-> vals[x]]
    BY ValuesOfIsFunction
  <2> HIDE DEF vals
  <2> QED
    BY <1>19, <2>1, <2>2
<1> HIDE DEF vals
<1>23. DOMAIN vals = DOMAIN values \ {k}
  <2>1. ASSUME NEW x \in DOMAIN vals PROVE x \in DOMAIN values \ {k}
    <3>1. PICK e \in DOMAIN ne : ne[e].theKey = x
      BY <1>22
    <3>2. e \in DOMAIN entries /\ e # found /\ entries[e].theKey = x
      BY <1>9, <3>1
    <3>3. found \in DOMAIN entries
      BY DEF entries
    <3> QED
      BY <1>1, <1>3, <3>2, <3>3
  <2>2. ASSUME NEW x \in DOMAIN values \ {k} PROVE x \in DOMAIN vals
    <3>1. PICK e \in DOMAIN entries : entries[e].theKey = x
      BY <1>3
    <3>2. e \in DOMAIN ne /\ ne[e].theKey = x
      BY <1>9, <3>1
    <3> QED
      BY <1>22, <3>2
  <2> QED
    BY <2>1, <2>2
<1>24. ASSUME NEW x \in DOMAIN vals PROVE vals[x] = values[x]
  <2>1. PICK e \in DOMAIN ne : ne[e].theKey = x
    BY <1>22
  <2>2. e \in DOMAIN entries /\ ne[e] = entries[e]
    BY <1>9
  <2> QED
    BY <1>3, <1>22, <2>1, <2>2
<1>25. vals = Restrict(values, DOMAIN values \ {k})
  <2>1. Restrict(values, DOMAIN values \ {k}) = [x \in DOMAIN values \ {k} |-> values[x]]
    BY Zenon DEF Restrict
  <2> HIDE DEF k
  <2> QED
    BY <1>22, <1>23, <1>24, <2>1
<1> QED
  BY <1>20, <1>21, <1>25 DEF vals, new, values, entries

\* Freeing the first entry over and over, for some number of times.
Freeings(f, n, map) ==
    f = [i \in 0 .. n |-> IF i = 0 THEN map ELSE FreeFirst(f[i - 1])]

\* Freeing can be repeated any number of times.
LEMMA FreeingsExist == \A map : \A n \in Nat : \E f : Freeings(f, n, map)
<1> TAKE map
<1> DEFINE S == {n \in Nat : \E f : Freeings(f, n, map)}
<1>1. 0 \in S
  <2> DEFINE f == [i \in {0} |-> map]
  <2>1. f = [i \in 0 .. 0 |-> IF i = 0 THEN map ELSE FreeFirst(f[i - 1])]
    OBVIOUS
  <2> HIDE DEF f
  <2>2. Freeings(f, 0, map)
    BY <2>1 DEF Freeings
  <2> QED
    BY <2>2
<1>2. ASSUME NEW n \in Nat, n \in S PROVE n + 1 \in S
  <2>1. PICK g : Freeings(g, n, map)
    BY <1>2
  <2>2. /\ DOMAIN g = 0 .. n
        /\ \A i \in 0 .. n : g[i] = IF i = 0 THEN map ELSE FreeFirst(g[i - 1])
    BY <2>1, Zenon DEF Freeings
  <2> DEFINE h == [i \in 0 .. n + 1 |-> IF i = n + 1 THEN FreeFirst(g[n]) ELSE g[i]]
             Body(k) == [i \in 0 .. n + 1 |->
                            IF i = 0 THEN map ELSE FreeFirst(k[i - 1])]
  <2>3. ASSUME NEW i \in 0 .. n + 1 PROVE h[i] = Body(h)[i]
    <3>1. CASE i = n + 1
      <4>1. i # 0 /\ i - 1 = n /\ i - 1 \in 0 .. n + 1 /\ n # n + 1
        BY <3>1
      <4> QED
        BY <3>1, <4>1
    <3>2. CASE i # n + 1 /\ i # 0
      <4>1. i \in 0 .. n /\ i - 1 \in 0 .. n + 1 /\ i - 1 # n + 1
        BY <3>2
      <4>2. h[i] = g[i] /\ h[i - 1] = g[i - 1]
        BY <3>2, <4>1
      <4> HIDE DEF h
      <4> QED
        BY <2>2, <3>2, <4>1, <4>2
    <3>3. CASE i = 0 /\ i # n + 1
      BY <2>2, <3>3
    <3> QED
      BY <3>1, <3>2, <3>3
  <2>4. h = [i \in 0 .. n + 1 |-> h[i]]
    OBVIOUS
  <2> HIDE DEF h
  <2>5. Freeings(h, n + 1, map)
    <3>1. h = Body(h)
      BY <2>3, <2>4
    <3> QED
      BY <3>1 DEF Freeings
  <2> QED
    BY <2>5
<1>3. S \in SUBSET Nat
  OBVIOUS
<1> HIDE DEF S
<1>4. \A n \in Nat : n \in S
  BY <1>1, <1>2, <1>3, NatSetInduction
<1> QED
  BY <1>4 DEF S

\* When the map is destroyed, nothing is left of its list.
LEMMA DestroyMapEmpties ==
    ASSUME NEW map, IsMap(map)
    PROVE  DestroyMap(map).underlyingList.elementCount = 0
<1> DEFINE n == map.underlyingList.elementCount
           f == CHOOSE g : Freeings(g, n, map)
           A == Addresses
<1>0. NULL \notin A /\ IsList(map.underlyingList, A, A)
  BY MapFacts DEF IsMap
<1>1. n \in Nat /\ n = Len(ElementData(map.underlyingList))
  BY <1>0, CountIsLength
<1>2. Freeings(f, n, map)
  BY <1>1, FreeingsExist
<1>3. DestroyMap(map) = f[n]
  BY Zenon DEF DestroyMap, Freeings
<1> HIDE DEF f
<1> DEFINE left(i) == f[i].underlyingList
           S == {i \in Nat : i <= n => IsList(left(i), A, A) /\ left(i).elementCount = n - i}
<1>4. 0 \in S
  <2>1. f[0] = map
    BY <1>1, <1>2 DEF Freeings
  <2> QED
    BY <1>0, <1>1, <2>1
<1>5. ASSUME NEW i \in Nat, i \in S PROVE i + 1 \in S
  <2> SUFFICES ASSUME i + 1 <= n
               PROVE  IsList(left(i + 1), A, A) /\ left(i + 1).elementCount = n - (i + 1)
    OBVIOUS
  <2> DEFINE s == ElementData(left(i))
             new == DeletePosition(0, left(i))
  <2>1. IsList(left(i), A, A) /\ left(i).elementCount = n - i
    BY <1>1, <1>5
  <2>2. left(i + 1) = new
    <3>1. i + 1 \in 0 .. n /\ i + 1 # 0 /\ (i + 1) - 1 = i
      BY <1>1
    <3>2. f[i + 1] = FreeFirst(f[i])
      BY <1>2, <3>1 DEF Freeings
    <3> QED
      BY <3>2 DEF FreeFirst
  <2> HIDE DEF left
  <2>3. s \in Seq(A) /\ Len(s) = n - i
    BY <2>1, CountIsLength
  <2>4. 0 < Len(s) /\ 0 + 1 \in 1 .. Len(s)
    BY <1>1, <2>3
  <2>5. IsList(new, A, A) /\ ElementData(new) = RemoveAt(s, 0 + 1)
    <3>1. 0 \in Nat
      OBVIOUS
    <3> QED
      BY <1>0, <2>1, <2>4, <3>1, DeletePositionRemoves, Zenon
  <2>6. Len(RemoveAt(s, 0 + 1)) = Len(s) - 1
    BY <2>3, <2>4, RemoveAtProperties, Zenon
  <2>7. new.elementCount = Len(ElementData(new))
    BY <2>5, CountIsLength
  <2> HIDE DEF s, new
  <2>8. new.elementCount = (n - i) - 1
    BY <2>3, <2>5, <2>6, <2>7
  <2> QED
    BY <1>1, <2>2, <2>5, <2>8
<1>6. S \in SUBSET Nat
  OBVIOUS
<1>7. n \in S
  <2> HIDE DEF S
  <2> QED
    BY <1>1, <1>4, <1>5, <1>6, NatSetInduction
<1> QED
  BY <1>1, <1>3, <1>7

\* A new map has no key.
LEMMA CreateMapIsEmpty == IsMap(CreateMap) /\ ValuesOf(CreateMap) = <<>>
<1>1. CreateMap.underlyingList = CreateList /\ CreateMap.entries = <<>>
      /\ CreateMap = [underlyingList |-> CreateMap.underlyingList,
                      entries |-> CreateMap.entries]
      /\ DOMAIN CreateMap.entries = {}
  BY DEF CreateMap
<1>2. IsList(CreateList, Addresses, Addresses) /\ ElementData(CreateList) = <<>>
  BY ContainersAssumption, CreateIsEmpty
<1>3. Range(<<>>) = {} /\ Len(<<>>) = 0
  BY DEF Range
<1>4. IsMap(CreateMap)
  BY <1>1, <1>2, <1>3 DEF IsMap
<1>5. ValuesOf(CreateMap) = <<>>
  BY <1>1 DEF ValuesOf
<1> QED
  BY <1>4, <1>5

\* A created map is well formed and holds no value.
LEMMA MapInitHolds ==
    theMap = CreateMap /\ mapCall = <<>> => MapInv /\ Mapping!ValuesInit
<1> SUFFICES ASSUME theMap = CreateMap, mapCall = <<>>
             PROVE  MapInv /\ Mapping!ValuesInit
  OBVIOUS
<1>1. MapInv /\ ValuesOf(theMap) = <<>>
  BY CreateMapIsEmpty DEF MapInv
<1>2. MapValues = <<>>
  BY <1>1, MapValuesAreValues DEF ValuesAreShown
<1> QED
  BY <1>1, <1>2, Zenon DEF Mapping!ValuesInit

\* Every call keeps the map and is one of the calls of a partial function, with
\* its answer.
LEMMA MapStepHolds ==
    MapInv /\ [MapNext]_mapVars
        => MapInv' /\ [Mapping!ValuesNext]_<<MapValues, mapCall>>
<1> SUFFICES ASSUME MapInv, [MapNext]_mapVars
             PROVE  MapInv' /\ [Mapping!ValuesNext]_<<MapValues, mapCall>>
  OBVIOUS
<1>1. IsMap(theMap)
  BY DEF MapInv
<1> DEFINE values == ValuesOf(theMap)
<1>2. /\ \A k : k \in DOMAIN values <=> GetEntry(k, theMap) # NULL
      /\ \A k : Get(k, theMap) = IF k \in DOMAIN values THEN values[k] ELSE NULL
  BY <1>1, ValuesOfMap, Zenon
<1>3. MapValues = values
  BY MapValuesAreValues DEF ValuesAreShown
<1>4. ASSUME IsMap(theMap') PROVE MapInv' /\ MapValues' = ValuesOf(theMap')
  <2>1. MapInv'
    BY <1>4 DEF MapInv
  <2>2. MapInv' => ValuesAreShown'
    BY MapValuesAreValues, PTL
  <2> QED
    BY <2>1, <2>2 DEF ValuesAreShown
<1> HIDE DEF values
<1>5. ASSUME NEW k \in Data, NEW v \in Data, MapPut(k, v)
      PROVE  MapInv' /\ Mapping!PutKey(k, v)
  <2>1. PICK entry \in Addresses \ DOMAIN theMap.entries,
             a \in Addresses \ DOMAIN theMap.underlyingList.elements :
                 theMap' = Put(k, v, theMap, entry, a)
    BY <1>5, Zenon DEF MapPut, Unused
  <2>2. /\ IsMap(theMap')
        /\ ValuesOf(theMap') = [x \in DOMAIN values \cup {k} |->
                                   IF x = k THEN v ELSE values[x]]
    <3> DEFINE new == Put(k, v, theMap, entry, a)
    <3>1. /\ IsMap(new)
          /\ ValuesOf(new) = WithValue(ValuesOf(theMap), k, v)
      BY <1>1, PutSetsValue, Zenon
    <3> HIDE DEF new
    <3> QED
      BY <2>1, <3>1, Zenon DEF values, new, WithValue
  <2>3. mapCall' = <<"put", <<k, v>>, IF k \in DOMAIN values THEN 2 ELSE 1>>
    BY <1>2, <1>5, Zenon DEF MapPut, PutResult
  <2> QED
    BY <1>3, <1>4, <2>2, <2>3, Zenon DEF Mapping!PutKey
<1>6. ASSUME NEW k \in Data, MapGet(k) PROVE MapInv' /\ Mapping!GotKey(k)
  <2>1. theMap' = theMap /\ mapCall' = <<"get", k, Get(k, theMap)>>
    BY <1>6, Zenon DEF MapGet
  <2>2. MapInv' /\ MapValues' = values
    BY <1>1, <1>4, <2>1, Zenon DEF values
  <2> QED
    BY <1>2, <1>3, <2>1, <2>2, Zenon DEF Mapping!GotKey
<1>7. ASSUME NEW k \in Data, MapRemove(k) PROVE MapInv' /\ Mapping!RemovedKey(k)
  <2> DEFINE found == GetEntry(k, theMap)
  <2>1. /\ theMap' = IF found = NULL THEN theMap ELSE FreeEntry(found, theMap)
        /\ mapCall' = <<"remove", k, Deleted(theMap, theMap')>>
    BY <1>7, Zenon DEF MapRemove, RemoveKey
  <2>2. found # NULL => found \in DOMAIN theMap.entries
                        /\ theMap.entries[found].theKey = k
    BY <1>1, GetEntryFinds, Zenon
  <2>3. k \in DOMAIN values <=> found # NULL
    BY <1>2
  <2> HIDE DEF found
  <2>4. CASE found = NULL
    <3>1. theMap' = theMap /\ mapCall' = <<"remove", k, 0>>
      BY <2>1, <2>4, Zenon DEF Deleted
    <3>2. MapInv' /\ MapValues' = values
      BY <1>1, <1>4, <3>1, Zenon DEF values
    <3>3. Restrict(values, DOMAIN values \ {k}) = values
      <4>1. DOMAIN values \ {k} = DOMAIN values
        BY <2>3, <2>4
      <4>2. values = [x \in DOMAIN values |-> values[x]]
        BY ValuesOfIsFunction DEF values
      <4> QED
        BY <4>1, <4>2, Zenon DEF Restrict
    <3>4. Mapping!Restrict(values, DOMAIN values \ {k})
              = Restrict(values, DOMAIN values \ {k})
      BY Zenon DEF Restrict, Mapping!Restrict
    <3> QED
      BY <1>3, <2>3, <2>4, <3>1, <3>2, <3>3, <3>4, Zenon DEF Mapping!RemovedKey
  <2>5. CASE found # NULL
    <3>1. theMap' = FreeEntry(found, theMap)
      BY <2>1, <2>5
    <3>2. /\ IsMap(theMap') /\ theMap' # theMap
          /\ ValuesOf(theMap') = Restrict(values, DOMAIN values \ {k})
      BY <1>1, <2>2, <2>5, <3>1, FreeEntryRemovesKey, Zenon DEF values
    <3>3. mapCall' = <<"remove", k, 1>>
      BY <2>1, <3>2, Zenon DEF Deleted
    <3> QED
      BY <1>3, <1>4, <2>3, <2>5, <3>2, <3>3, Zenon
         DEF Mapping!RemovedKey, Restrict, Mapping!Restrict
  <2> QED
    BY <2>4, <2>5
<1>8. ASSUME MapDestroy PROVE MapInv' /\ Mapping!DestroyedKeys
  <2>1. theMap' = CreateMap
    BY <1>8 DEF MapDestroy
  <2>2. MapInv' /\ MapValues' = <<>>
    BY <1>4, <2>1, CreateMapIsEmpty, Zenon
  <2>3. mapCall' = <<"destroyMap", NULL, 1>>
    BY <1>1, <1>8, DestroyMapEmpties, Zenon DEF MapDestroy, Emptied
  <2> QED
    BY <2>2, <2>3, Zenon DEF Mapping!DestroyedKeys
<1>9. ASSUME UNCHANGED mapVars PROVE MapInv' /\ UNCHANGED <<MapValues, mapCall>>
  <2>1. theMap' = theMap /\ mapCall' = mapCall
    BY <1>9 DEF mapVars
  <2>2. MapInv' /\ MapValues' = values
    BY <1>1, <1>4, <2>1, Zenon DEF values
  <2> QED
    BY <1>3, <2>1, <2>2
<1>10. ASSUME MapNext PROVE MapInv' /\ Mapping!ValuesNext
  BY <1>5, <1>6, <1>7, <1>8, <1>10, Zenon DEF MapNext, Mapping!ValuesNext
<1> QED
  BY <1>9, <1>10, Zenon

\* The list of a map holds the address of every entry exactly once, and no two
\* entries have the same key.
THEOREM MapInvariant == MapSpec => []MapInv
  BY MapInitHolds, MapStepHolds, PTL DEF MapSpec

\* The map holds one value per key, and every call changes it and answers as
\* dlinkedmap.h says.
THEOREM MapImplementsKeyedValues == MapSpec => IsMapping
  BY MapInitHolds, MapStepHolds, PTL DEF MapSpec, IsMapping, Mapping!ValuesSpec
=============================================================================
