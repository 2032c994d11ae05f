------------------------------- MODULE PeerFeed -------------------------------
(***************************************************************************)
(* Reading peers from a file (peerfeed.c): every turn of the loop seeks    *)
(* back to the start of a line and reads a chunk, in which it looks for    *)
(* the end of the line and the colon before the port.                      *)
(***************************************************************************)
EXTENDS Naturals, Sequences, SequencesExt

CONSTANTS
    MaxLineLen,     \* PEERFEED_MAX_LINE_LEN: an address, a colon and a port
    Files           \* contents of files, sequences of characters

VARIABLES file, fileOffset, aheadJump,
          feedResult,           \* "failed" is the return value 0, "done" is 1
          peerIngestionQueue, crashed

NewLines == {"CR", "LF"}
Digits == <<"0", "1", "2", "3", "4", "5", "6", "7", "8", "9">>

\* What inet_pton accepts, with a letter for every part of an address.
Letters == {"A", "B"}
IsAddress(text) == text # <<>> /\ Range(text) \subseteq Letters

\* atoi, up to the first character that is not a digit.
Number(text) ==
    LET isEnd(c) == c \notin Range(Digits)
        end == SelectInSeq(text, isEnd)
        digits == IF end = 0 THEN text ELSE SubSeq(text, 1, end - 1)
    IN  FoldLeft(LAMBDA n, c : 10 * n + SelectInSeq(Digits, LAMBDA d : d = c) - 1,
                 0, digits)

FeedInit == /\ file \in Files
            /\ fileOffset = 0 /\ aheadJump = 0
            /\ feedResult = "reading"

Smallest(S, default) ==
    IF S = {} THEN default ELSE CHOOSE i \in S : \A j \in S : i <= j

\* Where the line in the chunk ends, and where the next one starts; positions
\* count from 0.  A newline at position 0 is not seen as the end of a line.
LineEnd(chunk) ==
    Smallest({i \in 1 .. Len(chunk) - 1 : chunk[i + 1] \in NewLines}, 0)

NextLine(chunk) ==
    Smallest({i \in LineEnd(chunk) + 1 .. Len(chunk) - 1 : chunk[i + 1] \notin NewLines},
             LineEnd(chunk))

\* The buffer after the chunk was read into it and its line was terminated.
Buffer(chunk) ==
    [i \in 1 .. MaxLineLen + 3 |->
        IF i <= Len(chunk) /\ i # LineEnd(chunk) + 1 THEN chunk[i] ELSE "NUL"]

\* The text before the first NUL or colon, and the number after the last colon,
\* which may belong to the next line.
AddressText(buffer) ==
    SubSeq(buffer, 1, SelectInSeq(buffer, LAMBDA c : c \in {"NUL", ":"}) - 1)

LastColon(buffer) == SelectLastInSeq(buffer, LAMBDA c : c = ":")

Port(buffer) ==
    Number(SubSeq(buffer, LastColon(buffer) + 1, Len(buffer))) % 65536

MutantAheadJump(chunk) == Len(chunk) - LineEnd(chunk)

AheadJump(chunk) == Len(chunk) - NextLine(chunk)

\* One turn of the loop, which ends in one of four ways: at the end of the
\* file, with a chunk without a colon, with a bad address, or with a peer.
ReadLine ==
    /\ feedResult = "reading"
    /\ LET start == fileOffset - aheadJump
           readTo == IF start + MaxLineLen + 2 < Len(file)
                     THEN start + MaxLineLen + 2 ELSE Len(file)
           chunk == SubSeq(file, start + 1, readTo)
           buffer == Buffer(chunk)
       IN  /\ fileOffset' = readTo
           /\ IF Len(chunk) \in {1, NextLine(chunk)}
              THEN feedResult' = "done" /\ UNCHANGED <<aheadJump, peerIngestionQueue, crashed>>
              ELSE /\ aheadJump' = AheadJump(chunk)
                   /\ IF LastColon(buffer) = 0
                      THEN crashed' = TRUE /\ UNCHANGED <<feedResult, peerIngestionQueue>>
                      ELSE IF ~IsAddress(AddressText(buffer))
                      THEN feedResult' = "failed" /\ UNCHANGED <<peerIngestionQueue, crashed>>
                      ELSE /\ peerIngestionQueue' = Append(peerIngestionQueue,
                                  [ip |-> AddressText(buffer), port |-> Port(buffer)])
                           /\ UNCHANGED <<feedResult, crashed>>
    /\ UNCHANGED file
=============================================================================
