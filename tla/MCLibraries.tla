----------------------------- MODULE MCLibraries -----------------------------
(***************************************************************************)
(* The sequential libraries of the repository, one at a time: the linked   *)
(* list, the map on top of it, and the bencode reader.                     *)
(***************************************************************************)
EXTENDS Containers, Bencode

VARIABLE library

\* Addresses are alike.
AddressSymmetry == Permutations(Addresses)

Integer(n) == [type |-> "INTEGER", data |-> n]
String(s) == [type |-> "BYTE_STRING", data |-> s]
List(values) == [type |-> "LIST", data |-> values]
Dictionary(pairs) == [type |-> "DICTIONARY", data |-> pairs]
Pair(key, value) == [key |-> key, value |-> value]

\* Numbers with a sign and with several digits, and byte strings that are
\* empty, longer than nine, or made of the characters that mean something, of
\* which NUL is one to strcmp.
Leaves == {Integer(0), Integer(7), Integer(105), Integer(-12), String(<<>>),
           String(<<"e">>), String(<<"NUL", ":", "1">>),
           String(<<"a", "b", "c", "d", "e", "f", "g", "h", "i", "j", "k">>)}

Lists(values) == {List(<<>>)} \cup {List(<<v>>) : v \in values}
                   \cup {List(<<v, w>>) : v, w \in values}

Dictionaries(values) ==
    {Dictionary(<<>>)} \cup {Dictionary(<<Pair(<<"d", "NUL">>, v)>>) : v \in values}
      \cup {Dictionary(<<Pair(<<"1", "2">>, v), Pair(<<>>, w)>>) : v, w \in values}

Flat == Leaves \cup Lists({Integer(-12), String(<<"e">>)})
               \cup Dictionaries({Integer(105), String(<<"i", ":", "1">>)})

Nested == Lists(Flat) \cup Dictionaries(Flat)

MCDocuments ==
    [values : {<<v>> : v \in Nested} \cup {<<v, w>> : v, w \in Flat},
     trailer : {<<>>, <<"LF">>}]

NoDocument == [values |-> <<>>, trailer |-> <<>>]

LibrariesInit ==
    /\ library \in {"list", "map", "bencode"}
    /\ ContainersInit
    /\ IF library = "bencode"
       THEN BencodeInit
       ELSE document = NoDocument /\ currentOffset = 0 /\ elementsRead = <<>>

UseList == library = "list" /\ ListNext /\ UNCHANGED <<library, mapVars, bencodeVars>>
UseMap == library = "map" /\ MapNext /\ UNCHANGED <<library, listVars, bencodeVars>>
UseReader == library = "bencode" /\ ReadElement
             /\ UNCHANGED <<library, listVars, mapVars>>

LibrariesNext == UseList \/ UseMap \/ UseReader

LibrariesSpec ==
    LibrariesInit /\ [][LibrariesNext]_<<library, listVars, mapVars, bencodeVars>>
=============================================================================
