------------------------------- MODULE Bencode -------------------------------
(***************************************************************************)
(* The bencode reader (bencode_internal.c) over a text, a sequence of      *)
(* characters whose offsets count from 0.  An element is what bencode_et   *)
(* holds; reading one leaves the offset just after its dataEndOffset.      *)
(***************************************************************************)
EXTENDS Integers, Sequences, SequencesExt

Digits == <<"0", "1", "2", "3", "4", "5", "6", "7", "8", "9">>

DigitValue(c) == SelectInSeq(Digits, LAMBDA d : d = c) - 1

ReadData(text, offset) == text[offset + 1]

ProbeType(text, offset) ==
    CASE ReadData(text, offset) = "i" -> "INTEGER"
      [] ReadData(text, offset) = "l" -> "LIST"
      [] ReadData(text, offset) = "d" -> "DICTIONARY"
      [] ReadData(text, offset) = "e" -> "TERMINATOR"
      [] ReadData(text, offset) = ":" -> "SEPARATOR"
      [] OTHER -> "BYTE_STRING"

AtEndOfNumber(text, offset) ==
    ProbeType(text, offset) \in {"TERMINATOR", "SEPARATOR"}

\* The number at the offset, its sign before it, and the offset after its end.
ReadInteger(text, offset) ==
    LET signed == ReadData(text, offset) = "-"
        from[o \in Nat, n \in Nat] ==
            IF AtEndOfNumber(text, o)
            THEN [number |-> IF signed THEN -n ELSE n, next |-> o + 1]
            ELSE from[o + 1, 10 * n + DigitValue(ReadData(text, o))]
    IN  from[IF signed THEN offset + 1 ELSE offset, 0]

Element(type, data, start, end) ==
    [bencodeType |-> type, bencodeSubData |-> data,
     dataStartOffset |-> start, dataEndOffset |-> end]

RECURSIVE ReadNext(_, _), ReadList(_, _), ReadPairs(_, _)

ReadIntegerElement(text, offset) ==
    LET read == ReadInteger(text, offset + 1)
    IN  Element("INTEGER", read.number, offset, read.next - 1)

ReadString(text, offset) ==
    LET length == ReadInteger(text, offset)
        end == length.next + length.number
    IN  Element("BYTE_STRING", SubSeq(text, length.next + 1, end), offset, end - 1)

\* Operators named Mutant... are slips of the definition that follows: each
\* one breaks a property, which shows that the property depends on the code.
MutantReadList(text, offset) ==
    IF ProbeType(text, offset) = "TERMINATOR"
    THEN [contents |-> <<>>, end |-> offset]
    ELSE LET element == ReadNext(text, offset)
             rest == ReadList(text, element.dataEndOffset + 1)
         IN  [rest EXCEPT !.contents = @ \o <<element>>]

\* The elements from the offset to the terminator, in order.
ReadList(text, offset) ==
    IF ProbeType(text, offset) = "TERMINATOR"
    THEN [contents |-> <<>>, end |-> offset]
    ELSE LET element == ReadNext(text, offset)
             rest == ReadList(text, element.dataEndOffset + 1)
         IN  [rest EXCEPT !.contents = <<element>> \o @]

\* The pairs from the offset to the terminator.  A key that is not a byte
\* string is skipped without its value.
ReadPairs(text, offset) ==
    IF ProbeType(text, offset) = "TERMINATOR"
    THEN [contents |-> <<>>, end |-> offset]
    ELSE LET key == ReadNext(text, offset)
             value == ReadNext(text, key.dataEndOffset + 1)
         IN  IF key.bencodeType # "BYTE_STRING"
             THEN ReadPairs(text, key.dataEndOffset + 1)
             ELSE LET rest == ReadPairs(text, value.dataEndOffset + 1)
                  IN  [rest EXCEPT !.contents =
                         <<[dictionaryKey |-> key, dictionaryValue |-> value]>> \o @]

Gathered(type, read, offset) == Element(type, read.contents, offset, read.end)

ReadNext(text, offset) ==
    LET type == ProbeType(text, offset)
    IN  CASE type = "INTEGER" -> ReadIntegerElement(text, offset)
          [] type = "BYTE_STRING" -> ReadString(text, offset)
          [] type = "LIST" -> Gathered(type, ReadList(text, offset + 1), offset)
          [] type = "DICTIONARY" -> Gathered(type, ReadPairs(text, offset + 1), offset)
          [] OTHER -> Element(type, <<>>, offset, offset - 1)   \* nothing is consumed

CanRead(text, offset) == offset < Len(text) - 1

\* What strcmp compares of a byte string: all up to its first NUL.
UpToNul(s) == SubSeq(s, 1, SelectInSeq(Append(s, "NUL"), LAMBDA c : c = "NUL") - 1)

\* The value of the first pair with the key, as readStringDictKey finds it.
ReadStringDictKey(key, dictionary) ==
    LET pairs == dictionary.bencodeSubData
        i == SelectInSeq(pairs, LAMBDA p :
                 UpToNul(p.dictionaryKey.bencodeSubData) = UpToNul(key))
    IN  IF i = 0 THEN <<>> ELSE <<pairs[i].dictionaryValue>>

-----------------------------------------------------------------------------
(* A caller that reads a whole document, as BitfiltrateBencode/test.c does. *)

CONSTANT Documents      \* sequences of values, each a document

VARIABLES document, currentOffset, elementsRead

bencodeVars == <<document, currentOffset, elementsRead>>

\* The reference: how bencode writes a value.
RECURSIVE Encode(_)

RECURSIVE DecimalDigits(_)
DecimalDigits(n) ==
    (IF n < 10 THEN <<>> ELSE DecimalDigits(n \div 10)) \o <<Digits[(n % 10) + 1]>>

EncodeString(s) == DecimalDigits(Len(s)) \o <<":">> \o s

Encode(value) ==
    CASE value.type = "INTEGER" ->
            <<"i">> \o (IF value.data < 0 THEN <<"-">> ELSE <<>>)
            \o DecimalDigits(IF value.data < 0 THEN -value.data ELSE value.data)
            \o <<"e">>
      [] value.type = "BYTE_STRING" -> EncodeString(value.data)
      [] value.type = "LIST" ->
            <<"l">> \o FlattenSeq([i \in DOMAIN value.data |-> Encode(value.data[i])])
            \o <<"e">>
      [] value.type = "DICTIONARY" ->
            <<"d">>
            \o FlattenSeq([i \in DOMAIN value.data |->
                   EncodeString(value.data[i].key) \o Encode(value.data[i].value)])
            \o <<"e">>

\* A document is written with or without a character after its last value.
Text(d) == FlattenSeq([i \in DOMAIN d.values |-> Encode(d.values[i])]) \o d.trailer

BencodeInit == /\ document \in Documents
               /\ currentOffset = 0
               /\ elementsRead = <<>>

ReadElement ==
    /\ CanRead(Text(document), currentOffset)
    /\ LET element == ReadNext(Text(document), currentOffset)
       IN  /\ elementsRead' = Append(elementsRead, element)
           /\ currentOffset' = element.dataEndOffset + 1
    /\ UNCHANGED document

\* The element stands for the value, and its offsets delimit the encoding of
\* the value, which is what the hash of the info dictionary is taken over; so
\* do those of everything inside it, and every key of a dictionary is found.
RECURSIVE Represents(_, _)
Represents(element, value) ==
    /\ element.bencodeType = value.type
    /\ SubSeq(Text(document), element.dataStartOffset + 1, element.dataEndOffset + 1)
         = Encode(value)
    /\ CASE value.type \in {"INTEGER", "BYTE_STRING"} ->
              element.bencodeSubData = value.data
         [] value.type = "LIST" ->
              /\ Len(element.bencodeSubData) = Len(value.data)
              /\ \A i \in DOMAIN value.data :
                     Represents(element.bencodeSubData[i], value.data[i])
         [] value.type = "DICTIONARY" ->
              /\ Len(element.bencodeSubData) = Len(value.data)
              /\ \A i \in DOMAIN value.data :
                     LET found == ReadStringDictKey(value.data[i].key, element)
                     IN  found # <<>> /\ Represents(found[1], value.data[i].value)

\* A document reads back as the values it was written from, in order and none
\* left out, whatever is nested in them and whatever a byte string contains; but
\* the keys of a dictionary differ before their first NUL.
DocumentReadsBack ==
    /\ \A i \in DOMAIN elementsRead : Represents(elementsRead[i], document.values[i])
    /\ ~CanRead(Text(document), currentOffset) =>
           Len(elementsRead) = Len(document.values)
=============================================================================
