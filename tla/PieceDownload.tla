---------------------------- MODULE PieceDownload ---------------------------
(***************************************************************************)
(* Downloading through the piece tracker: the peer swarm watchdog in       *)
(* CONFIRM, DOWNLOAD and COMPLETE mode (watchdog_peerswarm.c) fills the    *)
(* pieces, the disk watchdog (watchdog_diskio.c) writes them out.  The two *)
(* threads share nothing but the tracker.  The swarm thread gives the      *)
(* tracker's mutex up between its calls, the disk thread works on the      *)
(* exported piece without it; each such point is a value of swarmPc or a   *)
(* state of the disk thread.                                               *)
(*                                                                         *)
(* Peers are the environment: a request is answered, late or not at all;   *)
(* the answer's bytes are those of the requested block.  Timers are        *)
(* nondeterministic: "more than 10 s passed" may hold at any test.         *)
(***************************************************************************)
EXTENDS PieceTracker

CONSTANTS
    Peers,
    ConnectedSets,  \* what filterPeer may find connected: a set of sets of Peers
    DiskIO,         \* the disk watchdog's thread
    TrueSize,       \* the log2 piece size that was confirmed
    AnswersRepeat,  \* whether requests of several turns are all answered
    MaxDiskFaults   \* bound: how many blocks may fail to reach their place

ASSUME DownloadAssumption ==
    /\ Exporters = {DiskIO}
    /\ TrueSize \in PieceSizes
    /\ {1, BlockSize} \subseteq BlockLengths
    /\ ConnectedSets \subseteq SUBSET Peers
    /\ AnswersRepeat \in BOOLEAN
    /\ MaxDiskFaults \in Nat

VARIABLES
    swarmPc, wishedBlock, lastWishedBlock, areWeWishing,
    wishTimed,      \* timeWishLastFulfilled # 0
    unvisited,      \* filtered peers the turn has still to iterate
    currentPeer,
    asked,          \* per peer, the blocks that are requested and not drained
    exported,       \* the piece the disk thread holds, or -1
    blockIterator,
    torrent_dump,   \* the bytes of the file that were ever written
    fileOffset,     \* the current position of theFileDescriptor
    failedWrites,   \* history: the blocks that did not all reach their place
    stray,          \* history: the offsets last written without their seek
    freed           \* pieces whose theBlocks and theBlockFillment are freed

turnVars == <<wishedBlock, lastWishedBlock, areWeWishing, wishTimed,
              unvisited, currentPeer>>
swarmVars == <<swarmPc, turnVars>>
fileVars  == <<torrent_dump, fileOffset, failedWrites, stray>>
diskVars  == <<exported, blockIterator, fileVars, freed>>
vars == <<trackerVars, swarmVars, asked, diskVars>>

-----------------------------------------------------------------------------
(* Requests and answers *)

\* What a peer sends for block b of piece p.
Answer(p, b) == [thePieceIndex |-> p, theOffsetWithinPiece |-> b * BlockSize,
                 theDataLength |-> BlockSize]

\* The answer to the request of GUESS mode, which may come in DOWNLOAD mode.
Probe == [thePieceIndex |-> 0, theOffsetWithinPiece |-> 2^TrueSize - 1,
          theDataLength |-> 1]

MutantRequested(wish) ==
    {Answer(wish.wishedPieceIndex, b) :
         b \in wish.wishedBlockIndexStart .. wish.wishedBlockIndexEnd + 1}

Requested(wish) == {Answer(wish.wishedPieceIndex, b) : b \in WishedBlocks(wish)}

\* The peer chokes us, or the connection ends: the request has no answer.
PeerIgnores(q, block) ==
    /\ block \in asked[q]
    /\ asked' = [asked EXCEPT ![q] = @ \ {block}]
    /\ UNCHANGED <<trackerVars, swarmVars, diskVars>>

-----------------------------------------------------------------------------
(* The swarm watchdog's turn *)

\* CONFIRM mode with at least one answered probe; late are the peers whose
\* answer comes after the queues are drained.
ConfirmPieceSize(late) ==
    /\ swarmPc = "confirm"
    /\ SetPieceSize(TrueSize)
    /\ asked' = [q \in Peers |-> IF q \in late THEN {Probe} ELSE {}]
    /\ swarmPc' = "start"
    /\ UNCHANGED <<turnVars, diskVars>>

\* A turn in DOWNLOAD mode begins by filtering the connected peers.
StartTurn(connected) ==
    /\ swarmPc = "start"
    /\ unvisited' = connected
    /\ areWeWishing' = FALSE
    /\ wishedBlock' = NoWish
    /\ swarmPc' = IF thePieceTrackerStatus = "OPERATIONAL" THEN "wish"
                                                           ELSE "peers"
    /\ UNCHANGED <<lastWishedBlock, wishTimed, currentPeer,
                   trackerVars, asked, diskVars>>

MutantComplete ==
    /\ swarmPc = "start"
    /\ thePieceTrackerStatus = "OPERATIONAL"
    /\ swarmPc' = "complete"
    /\ UNCHANGED <<turnVars, trackerVars, asked, diskVars>>

\* All counted pieces are used, and no bitfield grew for 60 s.
Complete ==
    /\ swarmPc = "start"
    /\ thePieceTrackerStatus = "OPERATIONAL"
    /\ AreAllPiecesUsed
    /\ swarmPc' = "complete"
    /\ UNCHANGED <<turnVars, trackerVars, asked, diskVars>>

FirstWish ==
    /\ swarmPc = "wish"
    /\ lastWishedBlock = NoWish
    /\ wishedBlock' = GetWish
    /\ lastWishedBlock' = GetWish
    /\ areWeWishing' = TRUE
    /\ swarmPc' = "peers"
    /\ UNCHANGED <<wishTimed, unvisited, currentPeer,
                   trackerVars, asked, diskVars>>

MutantRenewWish ==
    /\ swarmPc = "wish"
    /\ lastWishedBlock # NoWish /\ ~wishTimed
    /\ wishTimed' = TRUE
    /\ wishedBlock' = GetWish
    /\ lastWishedBlock' = GetWish
    /\ areWeWishing' = TRUE
    /\ swarmPc' = "peers"
    /\ UNCHANGED <<unvisited, currentPeer, trackerVars, asked, diskVars>>

\* The last wish is replaced at once if it never was timed, and after 10 s.
RenewWish ==
    /\ swarmPc = "wish"
    /\ lastWishedBlock # NoWish
    /\ wishTimed' = TRUE
    /\ wishedBlock' = GetWish
    /\ lastWishedBlock' = GetWish
    /\ areWeWishing' = TRUE
    /\ swarmPc' = "peers"
    /\ UNCHANGED <<unvisited, currentPeer, trackerVars, asked, diskVars>>

\* Otherwise the wish is taken, and the tracker asked, in a second call,
\* whether the last one is fulfilled.
HoldWish ==
    /\ swarmPc = "wish"
    /\ lastWishedBlock # NoWish
    /\ wishTimed
    /\ wishedBlock' = GetWish
    /\ swarmPc' = "check"
    /\ UNCHANGED <<lastWishedBlock, areWeWishing, wishTimed, unvisited,
                   currentPeer, trackerVars, asked, diskVars>>

\* isWishFulfilled reads theBlockFillment of the wished piece, whatever the
\* piece's status: once that is freed the answer is indeterminate.
FulfilmentRead ==
    IF lastWishedBlock.wishedPieceIndex \in freed
    THEN BOOLEAN ELSE {IsWishFulfilled(lastWishedBlock)}

CheckWish(fulfilled) ==
    /\ swarmPc = "check"
    /\ fulfilled \in FulfilmentRead
    /\ lastWishedBlock' = IF fulfilled THEN wishedBlock ELSE lastWishedBlock
    /\ areWeWishing' = fulfilled
    /\ swarmPc' = "peers"
    /\ UNCHANGED <<wishedBlock, wishTimed, unvisited, currentPeer,
                   trackerVars, asked, diskVars>>

\* The next filtered peer: its bitfield gives the count (CountTaken of
\* PeerMessages, which may be one too many), and it is sent the requests.
VisitPeer(q, count) ==
    /\ swarmPc = "peers"
    /\ q \in unvisited
    /\ unvisited' = unvisited \ {q}
    /\ currentPeer' = q
    /\ SetMaximumPieceCount(count)
    /\ asked' = IF areWeWishing /\ wishedBlock # NoWish
                THEN [asked EXCEPT ![q] = @ \cup Requested(wishedBlock)]
                ELSE asked
    /\ swarmPc' = "drain"
    /\ UNCHANGED <<wishedBlock, lastWishedBlock, areWeWishing, wishTimed,
                   diskVars>>

\* An answer of the peer is in its queue when it is drained, or not yet; the
\* block stays asked for when it was requested in several turns, and comes again.
DrainPiece(block) ==
    /\ swarmPc = "drain"
    /\ block \in asked[currentPeer]
    /\ \/ asked' = [asked EXCEPT ![currentPeer] = @ \ {block}]
       \/ AnswersRepeat /\ UNCHANGED asked
    /\ IngestSwarmBlock(block)
    /\ UNCHANGED <<swarmVars, diskVars>>

PeerDrained ==
    /\ swarmPc = "drain"
    /\ swarmPc' = "peers"
    /\ UNCHANGED <<turnVars, trackerVars, asked, diskVars>>

EndTurn ==
    /\ swarmPc = "peers"
    /\ unvisited = {}
    /\ swarmPc' = "start"
    /\ UNCHANGED <<turnVars, trackerVars, asked, diskVars>>

-----------------------------------------------------------------------------
(* The disk watchdog *)

\* Byte k of block b of piece p.
Byte(p, b, k) == <<p, b, k>>

Offset(p, b) == p * 2^pieceSize + b * BlockSize

DiskWait ==
    /\ exported = -1
    /\ ConsumeWait(DiskIO)
    /\ UNCHANGED <<swarmVars, asked, diskVars>>

DiskWakeup ==
    /\ SpuriousWakeup(DiskIO)
    /\ UNCHANGED <<swarmVars, asked, diskVars>>

DiskConsume(p) ==
    /\ ConsumePiece(DiskIO, p)
    /\ exported' = p
    /\ blockIterator' = 0
    /\ UNCHANGED <<fileVars, freed, swarmVars, asked>>

DiskConsumeNothing ==
    /\ ConsumeNothing(DiskIO)
    /\ UNCHANGED <<swarmVars, asked, diskVars>>

MutantMoreBlocks == blockIterator <= thePieces[exported].filledBlocks
MutantMoreBlocksEarly == blockIterator + 1 < thePieces[exported].filledBlocks

\* The loop over the blocks of the exported piece.
MoreBlocks == blockIterator < thePieces[exported].filledBlocks

\* One turn of the loop.  lseek finds the block's place or fails; write then
\* stores the block, its first n bytes, or nothing (n = 0, also for -1), from
\* the current position on.  Every failure is reported and none is handled: the
\* write follows a failed seek all the same, and the data is freed in any case.
WriteBlock(seeks, n) ==
    LET place   == Offset(exported, blockIterator)
        start   == IF seeks THEN place ELSE fileOffset
        written == start .. start + n - 1
        whole   == start = place /\ n = BlockSize
    IN  /\ exported # -1
        /\ MoreBlocks
        /\ whole \/ Cardinality(failedWrites) < MaxDiskFaults
        /\ blockIterator' = blockIterator + 1
        /\ fileOffset' = start + n
        /\ torrent_dump' = [o \in DOMAIN torrent_dump \cup written |->
               IF o \in written THEN Byte(exported, blockIterator, o - start)
                                ELSE torrent_dump[o]]
        /\ failedWrites' = IF whole THEN failedWrites
               ELSE failedWrites \cup {<<exported, blockIterator>>}
        /\ stray' = IF start = place THEN stray \ written ELSE stray \cup written
        /\ UNCHANGED <<exported, freed, trackerVars, swarmVars, asked>>

FreePiece ==
    /\ exported # -1
    /\ ~MoreBlocks
    /\ freed' = freed \cup {exported}
    /\ exported' = -1
    /\ UNCHANGED <<blockIterator, fileVars, trackerVars, swarmVars, asked>>

-----------------------------------------------------------------------------

Init ==
    /\ TrackerInit
    /\ swarmPc = "confirm"
    /\ wishedBlock = NoWish
    /\ lastWishedBlock = NoWish
    /\ areWeWishing = FALSE
    /\ wishTimed = FALSE
    /\ unvisited = {}
    /\ currentPeer \in Peers        \* meaningless before the first visit
    /\ asked = [q \in Peers |-> {Probe}]
    /\ exported = -1
    /\ blockIterator = 0
    /\ torrent_dump = [o \in {} |-> Byte(0, 0, 0)]    \* O_TRUNC
    /\ fileOffset = 0
    /\ failedWrites = {}
    /\ stray = {}
    /\ freed = {}

SwarmStep ==
    \/ \E late \in SUBSET Peers : ConfirmPieceSize(late)
    \/ \E connected \in ConnectedSets : StartTurn(connected)
    \/ Complete
    \/ FirstWish \/ RenewWish \/ HoldWish
    \/ \E fulfilled \in BOOLEAN : CheckWish(fulfilled)
    \/ \E q \in unvisited, count \in 1 .. MaxPieces : VisitPeer(q, count)
    \/ \E block \in asked[currentPeer] : DrainPiece(block)
    \/ PeerDrained \/ EndTurn

DiskStep ==
    \/ DiskWait
    \/ \E p \in Indices : DiskConsume(p)
    \/ DiskConsumeNothing
    \/ \E seeks \in BOOLEAN, n \in 0 .. BlockSize : WriteBlock(seeks, n)
    \/ FreePiece

PeerStep == \E q \in Peers : \E block \in asked[q] : PeerIgnores(q, block)

Next == SwarmStep \/ DiskStep \/ DiskWakeup \/ PeerStep

Spec == Init /\ [][Next]_vars

\* Both watchdogs loop for ever; the 10 s of a wish pass while the swarm thread
\* loops, and a block asked for again and again is answered in the end.
\* Spurious wakeups are possible and never owed.
Fairness ==
    /\ WF_vars(SwarmStep)
    /\ WF_vars(DiskStep)
    /\ SF_vars(RenewWish)
    /\ \A p \in 0 .. MaxPieces - 1, b \in 0 .. BlocksIn(TrueSize) - 1 :
           SF_vars(DrainPiece(Answer(p, b)))

FairSpec == Spec /\ Fairness

-----------------------------------------------------------------------------
(* Properties *)

SwarmPcs == {"confirm", "start", "wish", "check", "peers", "drain", "complete"}

\* The two threads' variables have their types.
DownloadTypeOK ==
    /\ TrackerTypeOK
    /\ swarmPc \in SwarmPcs
    /\ areWeWishing \in BOOLEAN /\ wishTimed \in BOOLEAN
    /\ unvisited \subseteq Peers /\ currentPeer \in Peers
    /\ asked \in [Peers -> SUBSET SwarmBlock]
    /\ exported \in {-1} \cup Indices
    /\ blockIterator \in 0 .. BlocksIn(TrueSize)
    /\ fileOffset \in Nat
    /\ freed \subseteq Indices

\* The swarm thread's calls respect the tracker's protocol, and the disk thread
\* leaves the tracker's fields to its operations: what is proved of TrackerSpec
\* holds of the download.
UsesTrackerProperly == TrackerSpec

\* What the file has of the pieces, however their writes failed.  The place of
\* every byte of every block holds that byte or nothing, and holds it only when
\* the disk thread is through with the block; then it is missing only if a
\* write of the block failed.  The exception are the bytes in stray: a block
\* whose seek failed is written over whatever follows the one before it, and
\* stays there until the block that belongs there is written.
UsedPiecesOnDisk ==
    \A p \in Indices, b \in Blocks, k \in 0 .. BlockSize - 1 :
        LET o == Offset(p, b) + k
            done == thePieces[p].thePieceStatus = "USED"
                        /\ (p = exported => b < blockIterator)
        IN  o \notin stray =>
                /\ o \in DOMAIN torrent_dump =>
                       done /\ torrent_dump[o] = Byte(p, b, k)
                /\ done /\ <<p, b>> \notin failedWrites =>
                       o \in DOMAIN torrent_dump

\* COMPLETE is entered only when every piece of the count was handed to the disk
\* thread, and all of them but the one being written were written and freed.
CompleteMeansExported ==
    swarmPc = "complete" =>
        \A p \in 0 .. maximumPieceCount - 1 :
            /\ p \in Indices /\ thePieces[p].thePieceStatus = "USED"
            /\ p # exported => p \in freed

\* The exporter reads filledBlocks and the blocks of its piece without the
\* mutex: no step of any thread changes the piece while it is held, and no
\* piece is exported a second time.
ExportedPieceIsStable ==
    [][/\ exported # -1 /\ exported' # -1 =>
              thePieces'[exported] = thePieces[exported]
       /\ exported' # exported /\ exported' # -1 =>
              exported' \notin freed]_vars

\* Every piece of the count is filled in the end: lost answers, duplicates and
\* wishes dropped in favour of the last one only delay it.  Fairness lets every
\* piece of the count be answered; for one that no peer has it does not hold.
EveryPieceFills ==
    \A p \in 0 .. MaxPieces - 1 :
        p < maximumPieceCount ~> p \in Indices /\ ~Open(thePieces[p])

\* piecetracker.h:139, "if there exists a piece which is FULL and therefore
\* pending to be flushed to the disk, this function returns it": a full piece
\* is exported in the end.
FullPieceIsExported ==
    \A p \in 0 .. MaxPieces - 1 :
        (p \in Indices /\ thePieces[p].thePieceStatus = "FULL")
            ~> (p \in Indices /\ thePieces[p].thePieceStatus = "USED")
=============================================================================
