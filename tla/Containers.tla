----------------------------- MODULE Containers ------------------------------
(***************************************************************************)
(* A caller that uses one linked list, or one map, by any sequence of      *)
(* calls.  The library has no locks: each of its callers holds one.        *)
(***************************************************************************)
EXTENDS DLinkedMap

CONSTANTS
    Data,           \* what is stored: element pointers, keys and values
    Addresses       \* what malloc may return, for elements and for entries

ASSUME ContainersAssumption == NULL \notin Data \cup Addresses

VARIABLES
    theList, theMap,
    listCall, mapCall       \* the last call, its arguments and its result

listVars == <<theList, listCall>>
mapVars == <<theMap, mapCall>>

ContainersInit == /\ theList = CreateList /\ listCall = <<>>
                  /\ theMap = CreateMap /\ mapCall = <<>>

Unused(allocated) == Addresses \ DOMAIN allocated

ListInsert(e) ==
    /\ \E a \in Unused(theList.elements) : theList' = InsertElement(e, theList, a)
    /\ listCall' = <<"insertElement", e, 1>>

ListDelete(name, argument, deleted) ==
    /\ theList' = deleted
    /\ listCall' = <<name, argument, Deleted(theList, deleted)>>

ListQuery(name, argument, answer) == /\ listCall' = <<name, argument, answer>>
                                     /\ UNCHANGED theList

Emptied(list) == IF list.elementCount = 0 THEN 1 ELSE 0

\* The list is destroyed and a new one is created in its place.
ListDestroy == /\ listCall' = <<"destroyList", NULL, Emptied(Destroy(theList))>>
               /\ theList' = CreateList

ListNext ==
    \/ \E e \in Data :
          \/ ListInsert(e)
          \/ ListDelete("deleteElement", e, DeleteElement(e, theList))
          \/ ListQuery("getCustomElement", e, GetCustomElement(theList, {e}))
          \/ ListQuery("checkExists", e, CheckExists(theList, {e}))
          \/ ListQuery("getCustomCount", e, GetCustomCount(theList, {e}))
    \/ \E p \in 0 .. Cardinality(Addresses) :
          \/ ListDelete("deletePosition", p, DeletePosition(p, theList))
          \/ ListQuery("getPosition", p, GetPosition(p, theList))
    \/ ListDestroy

MapPut(k, v) ==
    /\ \E entry \in Unused(theMap.entries),
          a \in Unused(theMap.underlyingList.elements) :
              theMap' = Put(k, v, theMap, entry, a)
    /\ mapCall' = <<"put", <<k, v>>, PutResult(k, theMap)>>

MapGet(k) == /\ mapCall' = <<"get", k, Get(k, theMap)>>
             /\ UNCHANGED theMap

MapRemove(k) == /\ theMap' = RemoveKey(k, theMap)
                /\ mapCall' = <<"remove", k, Deleted(theMap, theMap')>>

MapDestroy ==
    /\ mapCall' = <<"destroyMap", NULL, Emptied(DestroyMap(theMap).underlyingList)>>
    /\ theMap' = CreateMap

MapNext == \/ \E k, v \in Data : MapPut(k, v)
           \/ \E k \in Data : MapGet(k) \/ MapRemove(k)
           \/ MapDestroy

ListSpec == theList = CreateList /\ listCall = <<>> /\ [][ListNext]_listVars

MapSpec == theMap = CreateMap /\ mapCall = <<>> /\ [][MapNext]_mapVars

-----------------------------------------------------------------------------
(* Properties *)

Sequence == INSTANCE ElementSequence WITH
    elements <- ElementData(theList), call <- listCall,
    Absent <- NULL, MaxCount <- Cardinality(Addresses)

MapValues ==
    LET map == theMap
        entries == ElementData(map.underlyingList)
    IN  [k \in {map.entries[e].theKey : e \in Range(entries)} |-> Get(k, map)]

Mapping == INSTANCE KeyedValues WITH
    values <- MapValues, call <- mapCall,
    Keys <- Data, Values <- Data, Absent <- NULL

\* The pointers of the list form one chain of elementCount elements that can
\* be walked in both directions and reaches every element that is allocated.
\* Two pointers may refer to a freed element, and nothing follows them: the
\* endElement of an emptied list, and the previousElement of the first element.
ChainIsIntact ==
    LET chain == Walk(theList)
        at(i) == theList.elements[chain[i]]
    IN  /\ theList.elements \in
             [DOMAIN theList.elements ->
                [elementData : Data, previousElement : Addresses \cup {NULL},
                 nextElement : Addresses \cup {NULL}]]
        /\ theList.elementCount = Len(chain)
        /\ Range(chain) = DOMAIN theList.elements
        /\ Cardinality(Range(chain)) = Len(chain)
        /\ chain # <<>> => theList.endElement = Last(chain)
        /\ \A i \in 2 .. Len(chain) : at(i).previousElement = chain[i - 1]

\* Through all insertions and deletions at any place the list is a sequence:
\* every call changes it, and answers, as dlinkedlist.h says.
IsSequence == Sequence!SequenceSpec

\* The map holds one value per key, the last one put, until it is removed.
IsMapping == Mapping!ValuesSpec
=============================================================================
