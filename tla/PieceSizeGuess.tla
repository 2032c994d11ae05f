---------------------------- MODULE PieceSizeGuess ----------------------------
(***************************************************************************)
(* How the swarm watchdog finds the piece size (watchdog_peerswarm.c, GUESS*)
(* and CONFIRM mode): it asks every connected peer for the last byte of a  *)
(* piece of the guessed size, waits 15 s, and takes the size if any peer   *)
(* is marked as having sent a PIECE; else it tries the next size down.     *)
(* The marks (packetsReceivedBitfield) are set by the peers' processing    *)
(* threads, without a lock, and are never cleared.                         *)
(*                                                                         *)
(* Peers come from the ingestion queue, connect and fail at any time; they *)
(* answer the probes they can, in any order, late or not at all.  Timers   *)
(* are nondeterministic.  After DOWNLOAD is entered PieceDownload goes on. *)
(***************************************************************************)
EXTENDS Integers

CONSTANTS
    Peers,
    SizeValues,             \* the values of swarmPieceSize, a uint8_t: 256
    ShiftWidth,             \* a shift by this many bits or more is undefined
    StartingPieceSizeLog2,
    TrueSize                \* the log2 piece size of the torrent

ASSUME GuessAssumption ==
    /\ SizeValues \in Nat /\ ShiftWidth \in 1 .. SizeValues - 1
    /\ StartingPieceSizeLog2 \in 0 .. ShiftWidth - 1
    /\ TrueSize \in 0 .. ShiftWidth - 1

VARIABLES
    swamExecutionMode, swarmPieceSize,
    pieceSize,      \* what the tracker was told, or -1
    status,         \* where a peer is: unknown, in the ingestion queue, or
                    \* ingested with its peerConnectionStatus
    asked,          \* per peer, the guesses it still may answer
    marked,         \* peers whose bit of received PIECEs is set
    answered,       \* history: per peer, the guesses whose answer set its mark
    probed,         \* history: the guesses that were sent to some peer
    late            \* history: a mark was set by an answer to an earlier guess

watchdogVars == <<swamExecutionMode, swarmPieceSize, pieceSize, probed>>
markVars == <<marked, answered, late>>
vars == <<watchdogVars, status, asked, markVars>>

Guesses == 0 .. SizeValues - 1

PeersIn(s) == {q \in Peers : status[q] = s}
Connected == PeersIn("CONNECTED")

-----------------------------------------------------------------------------
(* Peers *)

\* The UDP tracker's watchdog, or the peer file, pushes a peer.
PushPeer(q) ==
    /\ status[q] = "unknown"
    /\ status' = [status EXCEPT ![q] = "queued"]
    /\ UNCHANGED <<watchdogVars, asked, markVars>>

PeerConnects(q) ==
    /\ status[q] = "NEWBORN"
    /\ status' = [status EXCEPT ![q] = "CONNECTED"]
    /\ UNCHANGED <<watchdogVars, asked, markVars>>

PeerFails(q) ==
    /\ status[q] \in {"NEWBORN", "CONNECTED"}
    /\ status' = [status EXCEPT ![q] = "ERROR"]
    /\ asked' = [asked EXCEPT ![q] = {}]
    /\ UNCHANGED <<watchdogVars, markVars>>

\* Operators named Mutant... are slips of the definition that follows.
MutantProbeOffsets(guess) == {2^guess \div 2 - 1}

\* The offset of the byte asked for; with an undefined shift, one inside the
\* piece or one beyond it.
ProbeOffsets(guess) ==
    IF guess < ShiftWidth THEN {2^guess - 1} ELSE {0, 2^TrueSize}

\* A peer has the byte when it lies in the piece; its thread marks the PIECE.
ProbeAnswered(q, guess) ==
    /\ swamExecutionMode # "DOWNLOAD"
    /\ guess \in asked[q]
    /\ \E offset \in ProbeOffsets(guess) : offset < 2^TrueSize
    /\ asked' = [asked EXCEPT ![q] = @ \ {guess}]
    /\ marked' = marked \cup {q}
    /\ answered' = [answered EXCEPT ![q] = @ \cup {guess}]
    /\ late' = (late \/ guess # swarmPieceSize)
    /\ UNCHANGED <<watchdogVars, status>>

\* The thread of another packet writes back the marks it read before: the bit
\* is lost, or comes back.
OverwriteMarks(q, seen) ==
    /\ swamExecutionMode # "DOWNLOAD"
    /\ answered[q] # {}
    /\ marked' = IF seen THEN marked \cup {q} ELSE marked \ {q}
    /\ late' = \/ late
               \/ seen /\ q \notin marked /\ swarmPieceSize \notin answered[q]
    /\ UNCHANGED <<watchdogVars, status, asked, answered>>

-----------------------------------------------------------------------------
(* The watchdog's turn *)

\* Every turn begins by ingesting one queued peer, in every mode; in GUESS mode
\* it then ends, as fewer than 10 s passed since.
IngestPeer(q) ==
    /\ status[q] = "queued"
    /\ status' = [status EXCEPT ![q] = "NEWBORN"]
    /\ UNCHANGED <<watchdogVars, asked, markVars>>

MutantSomeoneToProbe == PeersIn("NEWBORN") \cup Connected # {}
SomeoneToProbe == Connected # {}

\* The queue was empty, and 10 s passed since the last peer was ingested.
Guess ==
    /\ swamExecutionMode = "GUESS"
    /\ PeersIn("queued") = {}
    /\ SomeoneToProbe
    /\ asked' = [q \in Peers |-> IF q \in Connected
                                 THEN asked[q] \cup {swarmPieceSize}
                                 ELSE asked[q]]
    /\ probed' = probed \cup {swarmPieceSize : q \in Connected}
    /\ swamExecutionMode' = "CONFIRM"
    /\ UNCHANGED <<swarmPieceSize, pieceSize, status, markVars>>

GuessNobody ==
    /\ swamExecutionMode = "GUESS"
    /\ ~SomeoneToProbe
    /\ UNCHANGED vars

MutantReceivedData == marked \cup {q \in Connected : asked[q] # {}}

\* The filter on the marks takes peers of every status.
ReceivedData == marked

MutantSizeBelow(size) == size - 1
SizeBelow(size) == IF size = 0 THEN SizeValues - 1 ELSE size - 1

\* 15 s after the probes no peer is marked.
DecreasePieceSize ==
    /\ swamExecutionMode = "CONFIRM"
    /\ ReceivedData = {}
    /\ swarmPieceSize' = SizeBelow(swarmPieceSize)
    /\ swamExecutionMode' = "GUESS"
    /\ UNCHANGED <<pieceSize, probed, status, asked, markVars>>

\* The tracker is told the size, and the marked peers are drained of their
\* blocks (what is left in the queues is in PieceDownload!ConfirmPieceSize).
ConfirmPieceSize ==
    /\ swamExecutionMode = "CONFIRM"
    /\ ReceivedData # {}
    /\ pieceSize' = swarmPieceSize
    /\ swamExecutionMode' = "DOWNLOAD"
    /\ UNCHANGED <<swarmPieceSize, probed, status, asked, markVars>>

Download ==
    /\ swamExecutionMode = "DOWNLOAD"
    /\ UNCHANGED vars

-----------------------------------------------------------------------------

Init ==
    /\ swamExecutionMode = "GUESS"
    /\ swarmPieceSize = StartingPieceSizeLog2
    /\ pieceSize = -1
    /\ status = [q \in Peers |-> "unknown"]
    /\ asked = [q \in Peers |-> {}]
    /\ marked = {}
    /\ answered = [q \in Peers |-> {}]
    /\ probed = {}
    /\ late = FALSE

PeerStep ==
    \E q \in Peers :
        \/ PushPeer(q) \/ PeerConnects(q) \/ PeerFails(q)
        \/ \E guess \in Guesses : ProbeAnswered(q, guess)
        \/ \E seen \in BOOLEAN : OverwriteMarks(q, seen)

Turn == Guess \/ GuessNobody \/ DecreasePieceSize \/ ConfirmPieceSize \/ Download

Next == PeerStep \/ (\E q \in Peers : IngestPeer(q)) \/ Turn

Spec == Init /\ [][Next]_vars

-----------------------------------------------------------------------------
(* Properties *)

\* The watchdog's and the peers' variables have their types.
GuessTypeOK ==
    /\ swamExecutionMode \in {"GUESS", "CONFIRM", "DOWNLOAD"}
    /\ swarmPieceSize \in Guesses /\ pieceSize \in {-1} \cup Guesses
    /\ status \in [Peers -> {"unknown", "queued", "NEWBORN", "CONNECTED", "ERROR"}]
    /\ asked \in [Peers -> SUBSET Guesses]
    /\ answered \in [Peers -> SUBSET Guesses]
    /\ marked \subseteq Peers /\ probed \subseteq Guesses /\ late \in BOOLEAN

\* The guesses went past zero, to sizes the shift is undefined for.
Wrapped == \E g \in probed \cup {swarmPieceSize} : g > StartingPieceSizeLog2

\* watchdog_peerswarm.c:103, "If it's received, means the piece size is valid":
\* however late the answers and whatever the threads do to the marks, the
\* tracker is never told a size larger than the torrent's, up to the wrap.
ConfirmedSizeIsValid == pieceSize # -1 /\ ~Wrapped => pieceSize <= TrueSize

\* Unless an answer to an earlier guess comes after its 15 s, the tracker is
\* told a size whose probe some peer answered.  (With one it is told a smaller
\* size, as the marks do not say which guess was answered.)
ConfirmedSizeWasAnswered ==
    pieceSize # -1 /\ ~late => \E q \in Peers : pieceSize \in answered[q]

\* A size is given up only after it was sent to a connected peer: no size is
\* skipped while the peers are still connecting, so in the end a size is
\* guessed that every peer can answer.
NoGuessIsSkipped ==
    LET above == swarmPieceSize + 1 .. StartingPieceSizeLog2
    IN  (IF Wrapped THEN 0 .. StartingPieceSizeLog2 ELSE above) \subseteq probed
=============================================================================
