------------------------------- MODULE TcpPeer -------------------------------
(***************************************************************************)
(* The bitfield of a peer (tcppeer.c): a list of bytes that grows as       *)
(* positions are written.  A byte is the set of its one bits; bit 7 of     *)
(* byte 0 is piece 0 (tcppeer.h:35).  Operators on a bitfield bf; the      *)
(* mutex and the threads are in PeerMessages.                              *)
(***************************************************************************)
EXTENDS Integers, FiniteSets

PIECES_PER_BYTE == 8
Bits == 0 .. PIECES_PER_BYTE - 1

\* A bitfield of count bytes.
BitfieldsOf(count) == [0 .. count - 1 -> SUBSET Bits]

ByteCount(bf) == Cardinality(DOMAIN bf)

ByteOf(piece) == piece \div PIECES_PER_BYTE
BitOf(piece) == PIECES_PER_BYTE - 1 - (piece % PIECES_PER_BYTE)

ByteAt(bf, i) == IF i \in DOMAIN bf THEN bf[i] ELSE {}

\* Operators named Mutant... are slips of the definition that follows: each
\* one breaks a property, which shows that the property depends on the code.
MutantSetBitfieldByte(bf, i, byte) ==
    [k \in 0 .. i |-> IF k = i THEN byte ELSE ByteAt(bf, k)]

\* Bytes missing before position i are appended as zeroes.
SetBitfieldByte(bf, i, byte) ==
    [k \in (DOMAIN bf) \cup (0 .. i) |-> IF k = i THEN byte ELSE ByteAt(bf, k)]

HasPiece(bf, piece) ==
    /\ ByteOf(piece) \in DOMAIN bf
    /\ BitOf(piece) \in bf[ByteOf(piece)]

MutantSetPiece(bf, piece) == SetBitfieldByte(bf, ByteOf(piece), {BitOf(piece)})

\* The mask is ORed into the byte; the argument __hasPiece is never read.
SetPiece(bf, piece) ==
    SetBitfieldByte(bf, ByteOf(piece),
                    ByteAt(bf, ByteOf(piece)) \cup {BitOf(piece)})

\* The scan goes from the last byte down to byte 1, in the first byte that is
\* not 0 from bit 7 down to bit 0: the lowest of its pieces, counted from 1.
\* Byte 0 is never looked at.
GetHighestBitfieldPiece(bf) ==
    LET nonzero == {i \in DOMAIN bf : i > 0 /\ bf[i] # {}}
        byte == CHOOSE i \in nonzero : \A k \in nonzero : k <= i
        j == CHOOSE b \in bf[byte] : \A k \in bf[byte] : k <= b
    IN  IF nonzero = {} THEN 0
        ELSE byte * PIECES_PER_BYTE + (PIECES_PER_BYTE - j)

\* The pieces a bitfield records.
Pieces(bf) == {p \in 0 .. ByteCount(bf) * PIECES_PER_BYTE - 1 : HasPiece(bf, p)}
=============================================================================
