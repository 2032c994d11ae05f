----------------------------- MODULE DLinkedMap ------------------------------
(***************************************************************************)
(* The map on top of the linked list (dlinkedmap.c): a list of pointers to *)
(* entries, which are allocated of their own.                              *)
(***************************************************************************)
EXTENDS DLinkedList

CreateMap == [underlyingList |-> CreateList, entries |-> <<>>]

\* The entry with the key, or NULL.
GetEntry(key, map) ==
    GetCustomElement(map.underlyingList,
        {e \in DOMAIN map.entries : map.entries[e].theKey = key})

MutantPut(key, value, map, entry, address) ==
    [underlyingList |-> InsertElement(entry, map.underlyingList, address),
     entries |-> (entry :> [theKey |-> key, theValue |-> value]) @@ map.entries]

\* A new entry, and its element of the list, get the given addresses.
Put(key, value, map, entry, address) ==
    LET found == GetEntry(key, map)
    IN  IF found # NULL
        THEN [map EXCEPT !.entries[found].theValue = value]
        ELSE [underlyingList |-> InsertElement(entry, map.underlyingList, address),
              entries |-> [e \in DOMAIN map.entries \cup {entry} |->
                  IF e = entry THEN [theKey |-> key, theValue |-> value]
                  ELSE map.entries[e]]]

\* The return value of a put: 2 when it overwrote a value.
PutResult(key, map) == IF GetEntry(key, map) # NULL THEN 2 ELSE 1

Get(key, map) ==
    LET found == GetEntry(key, map)
    IN  IF found = NULL THEN NULL ELSE map.entries[found].theValue

FreeEntry(entry, map) ==
    [underlyingList |-> DeleteElement(entry, map.underlyingList),
     entries |-> Restrict(map.entries, DOMAIN map.entries \ {entry})]

RemoveKey(key, map) ==
    LET found == GetEntry(key, map)
    IN  IF found = NULL THEN map ELSE FreeEntry(found, map)

FreeFirst(map) ==
    [underlyingList |-> DeletePosition(0, map.underlyingList),
     entries |-> Restrict(map.entries,
                     DOMAIN map.entries \ {GetPosition(0, map.underlyingList)})]

\* Free the entry at position 0 and delete the position, until none is left.
DestroyMap(map) ==
    LET after[n \in 0 .. map.underlyingList.elementCount] ==
            IF n = 0 THEN map ELSE FreeFirst(after[n - 1])
    IN  after[map.underlyingList.elementCount]
=============================================================================
