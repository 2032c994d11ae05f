---------------------------- MODULE PieceTracker ----------------------------
(***************************************************************************)
(* The piece tracker (piecetracker.c): a monitor that collects the blocks  *)
(* of a torrent into pieces and hands every full piece to an exporter.     *)
(* Every operation holds theSynchronizationMutex from its first line to    *)
(* its last, so an operation is one atomic action; the exception is        *)
(* consumeExportPieceIfAny, which gives the mutex up in pthread_cond_wait  *)
(* and is therefore two actions, ConsumeWait and ConsumePiece/Nothing.     *)
(*                                                                         *)
(* The list of pieces is a function from piece index to piece, its         *)
(* elementCount kept beside it as in dlinkedlist.h; the fillment array of  *)
(* a piece is the set of the block numbers marked 1.                       *)
(***************************************************************************)
EXTENDS Integers, FiniteSets

CONSTANTS
    MaxPieces,           \* bound: the largest number of pieces it is told of
    PieceSizes,          \* log2 piece sizes the tracker may be told
    PIECE_MAX_BLOCK_SIZE,\* log2 block size (14 in piecetracker.h)
    BlockLengths,        \* lengths of the blocks peers send
    Exporters            \* threads calling consumeExportPieceIfAny

BlockSize == 2^PIECE_MAX_BLOCK_SIZE

\* Blocks in a piece of the given log2 size: the shift of setPieceSize.
BlocksIn(log2PieceSize) == 2^(log2PieceSize - PIECE_MAX_BLOCK_SIZE)

ASSUME SizesAssumption ==
    /\ MaxPieces \in Nat \ {0}
    /\ BlockLengths \subseteq Nat
    /\ BlockSize \in Nat \ {0}
    /\ PieceSizes \subseteq Nat
    /\ \A s \in PieceSizes : /\ BlocksIn(s) \in Nat \ {0}
                             /\ 2^s = BlocksIn(s) * BlockSize

VARIABLES
    blocksPerPiece, pieceSize, maximumPieceCount, usedPieces,
    thePieceTrackerStatus,
    thePieces,           \* [0 .. elementCount - 1 -> Piece]
    elementCount,
    waiting,             \* exporters blocked on theExportConditionalVariable
    woken                \* exporters released from it, about to take the mutex

pieceVars == <<usedPieces, thePieces, elementCount>>
sizeVars  == <<blocksPerPiece, pieceSize, maximumPieceCount,
               thePieceTrackerStatus>>
condVars  == <<waiting, woken>>
trackerVars == <<pieceVars, sizeVars, condVars>>

PieceStatus == {"EMPTY", "FILLING", "FULL", "USED"}
Open(piece) == piece.thePieceStatus \in {"EMPTY", "FILLING"}

Indices == 0 .. elementCount - 1
Blocks  == 0 .. blocksPerPiece - 1

Piece == [theBlockFillment : SUBSET Nat,
          filledBlocks     : Nat,
          thePieceStatus   : PieceStatus]

SwarmBlock == [thePieceIndex : Nat, theOffsetWithinPiece : Nat,
               theDataLength : Nat]

-----------------------------------------------------------------------------

TrackerInit ==
    /\ blocksPerPiece = 0
    /\ pieceSize = 0                 \* not set by constructTracker, nor read
    /\ maximumPieceCount = 0
    /\ usedPieces = 0
    /\ thePieceTrackerStatus = "UNINITIALIZED"
    /\ thePieces = [q \in {} |-> {}]
    /\ elementCount = 0
    /\ waiting = {}
    /\ woken = {}

\* Operators named Mutant... are slips of the definition that follows: each
\* one breaks a property, which shows that the property depends on the code.
MutantAttemptOperational(bpp, count) ==
    IF bpp # 0 \/ count # 0 THEN "OPERATIONAL" ELSE thePieceTrackerStatus

\* The status after the sizes become bpp and count.
AttemptOperational(bpp, count) ==
    IF bpp # 0 /\ count # 0 THEN "OPERATIONAL" ELSE thePieceTrackerStatus

SetPieceSize(log2PieceSize) ==
    /\ blocksPerPiece' = BlocksIn(log2PieceSize)
    /\ pieceSize' = log2PieceSize
    /\ thePieceTrackerStatus' =
           AttemptOperational(BlocksIn(log2PieceSize), maximumPieceCount)
    /\ UNCHANGED <<maximumPieceCount, pieceVars, condVars>>

MutantRaisesMaximum(count) == count # maximumPieceCount

\* Only a larger count is taken: the operation returns 1 just then.
RaisesMaximum(count) == count > maximumPieceCount

MutantSetMaximumPieceCount(count) ==
    /\ maximumPieceCount' = count + 1
    /\ thePieceTrackerStatus' = AttemptOperational(blocksPerPiece, count)
    /\ UNCHANGED <<blocksPerPiece, pieceSize, pieceVars, condVars>>

SetMaximumPieceCount(count) ==
    /\ IF RaisesMaximum(count)
       THEN /\ maximumPieceCount' = count
            /\ thePieceTrackerStatus' = AttemptOperational(blocksPerPiece, count)
       ELSE UNCHANGED <<maximumPieceCount, thePieceTrackerStatus>>
    /\ UNCHANGED <<blocksPerPiece, pieceSize, pieceVars, condVars>>

-----------------------------------------------------------------------------
(* Ingesting a block *)

Accepts(block) == /\ block.theDataLength \div BlockSize = 1
                  /\ block.theOffsetWithinPiece % BlockSize = 0

BlockNumber(block) == block.theOffsetWithinPiece \div BlockSize

NewPiece == [theBlockFillment |-> {}, filledBlocks |-> 0,
             thePieceStatus |-> "EMPTY"]

\* Pieces up to the wanted one are generated before it is looked up.
PieceAt(p) == IF p \in Indices THEN thePieces[p] ELSE NewPiece

MutantFillUncounted(piece, b) ==
    [piece EXCEPT !.theBlockFillment = @ \cup {b}, !.thePieceStatus = "FILLING"]

MutantFillEarly(piece, b) ==
    [theBlockFillment |-> piece.theBlockFillment \cup {b},
     filledBlocks     |-> piece.filledBlocks + 1,
     thePieceStatus   |-> IF piece.filledBlocks + 1 >= blocksPerPiece - 1
                          THEN "FULL" ELSE "FILLING"]

Fill(piece, b) ==
    [theBlockFillment |-> piece.theBlockFillment \cup {b},
     filledBlocks     |-> piece.filledBlocks + 1,
     thePieceStatus   |-> IF piece.filledBlocks + 1 = blocksPerPiece
                          THEN "FULL" ELSE "FILLING"]

\* pthread_cond_broadcast on theExportConditionalVariable.
Broadcast == /\ woken' = woken \cup waiting
             /\ waiting' = {}

\* A block is dropped when refused, a duplicate, or late for its piece.
IngestDropped(block) ==
    /\ \/ ~Accepts(block)
       \/ ~Open(PieceAt(block.thePieceIndex))
       \/ BlockNumber(block) \in PieceAt(block.thePieceIndex).theBlockFillment
    /\ UNCHANGED trackerVars

IngestStored(block) ==
    LET p      == block.thePieceIndex
        count  == IF p \in Indices THEN elementCount ELSE p + 1
        filled == Fill(PieceAt(p), BlockNumber(block))
    IN  /\ Accepts(block)
        /\ Open(PieceAt(p))
        /\ BlockNumber(block) \notin PieceAt(p).theBlockFillment
        /\ elementCount' = count
        /\ thePieces' = [q \in 0 .. count - 1 |->
                             IF q = p THEN filled ELSE PieceAt(q)]
        /\ IF filled.thePieceStatus = "FULL" THEN Broadcast
                                             ELSE UNCHANGED condVars
        /\ UNCHANGED <<usedPieces, sizeVars>>

IngestSwarmBlock(block) == IngestDropped(block) \/ IngestStored(block)

-----------------------------------------------------------------------------
(* Exporting a full piece *)

PiecesIn(statuses) == {p \in Indices : thePieces[p].thePieceStatus \in statuses}

Least(S) == CHOOSE x \in S : \A y \in S : x <= y

\* The mutex is taken and given up again in pthread_cond_wait at once, without
\* a look at the pieces.
ConsumeWait(t) ==
    /\ t \notin waiting \cup woken
    /\ waiting' = waiting \cup {t}
    /\ UNCHANGED <<woken, pieceVars, sizeVars>>

SpuriousWakeup(t) ==
    /\ t \in waiting
    /\ waiting' = waiting \ {t}
    /\ woken' = woken \cup {t}
    /\ UNCHANGED <<pieceVars, sizeVars>>

MutantConsumePiece(t, p) ==
    /\ t \in woken
    /\ PiecesIn({"FULL"}) # {}
    /\ p = Least(PiecesIn({"FULL"}))
    /\ usedPieces' = usedPieces + 1
    /\ woken' = woken \ {t}
    /\ UNCHANGED <<thePieces, elementCount, waiting, sizeVars>>

\* The woken exporter t has the mutex back and returns the first full piece.
ConsumePiece(t, p) ==
    /\ t \in woken
    /\ PiecesIn({"FULL"}) # {}
    /\ p = Least(PiecesIn({"FULL"}))
    /\ usedPieces' = usedPieces + 1
    /\ thePieces' = [thePieces EXCEPT ![p].thePieceStatus = "USED"]
    /\ woken' = woken \ {t}
    /\ UNCHANGED <<elementCount, waiting, sizeVars>>

ConsumeNothing(t) ==
    /\ t \in woken
    /\ PiecesIn({"FULL"}) = {}
    /\ woken' = woken \ {t}
    /\ UNCHANGED <<waiting, pieceVars, sizeVars>>

AreAllPiecesUsed == usedPieces = maximumPieceCount

-----------------------------------------------------------------------------
(* Wishes: what the tracker wants requested next *)

NoWish == [wishedPieceIndex |-> -1, wishedBlockIndexStart |-> 0,
           wishedBlockIndexEnd |-> 0]

Wish(p, first, last) == [wishedPieceIndex |-> p,
                         wishedBlockIndexStart |-> first,
                         wishedBlockIndexEnd |-> last]

EmptyBlocks(p) == Blocks \ thePieces[p].theBlockFillment

Greatest(S) == CHOOSE x \in S : \A y \in S : y <= x

MutantGetWish ==
    LET open == PiecesIn({"EMPTY", "FILLING"})
    IN  IF open # {}
        THEN Wish(Least(open), Least(EmptyBlocks(Least(open))), blocksPerPiece - 1)
        ELSE IF elementCount < maximumPieceCount
        THEN Wish(elementCount, 0, blocksPerPiece - 1)
        ELSE NoWish

GetWish ==
    LET open  == PiecesIn({"EMPTY", "FILLING"})
        empty == EmptyBlocks(Least(open))
    IN  IF Cardinality(PiecesIn({"FULL", "USED"})) = maximumPieceCount
        THEN NoWish
        ELSE IF elementCount < maximumPieceCount
        THEN Wish(elementCount, 0, blocksPerPiece - 1)
        ELSE IF open # {}
        THEN Wish(Least(open), Least(empty), Greatest(empty))
        ELSE NoWish

WishedBlocks(wish) == wish.wishedBlockIndexStart .. wish.wishedBlockIndexEnd

IsWishFulfilled(wish) ==
    /\ wish.wishedPieceIndex < elementCount
    /\ WishedBlocks(wish) \subseteq thePieces[wish.wishedPieceIndex].theBlockFillment

-----------------------------------------------------------------------------
(* The tracker under calls that respect its protocol: the piece size is    *)
(* set once and first (piecetracker.h:127), and only blocks of pieces      *)
(* already counted, of the set piece size, are ingested.                   *)

IngestibleBlocks ==
    {block \in [thePieceIndex : 0 .. maximumPieceCount - 1,
                theOffsetWithinPiece : 0 .. 2^pieceSize - 1,
                theDataLength : BlockLengths] :
        BlockNumber(block) \in Blocks}

TrackerNext ==
    \/ \E s \in PieceSizes : blocksPerPiece = 0 /\ SetPieceSize(s)
    \/ \E n \in 1 .. MaxPieces : SetMaximumPieceCount(n)
    \/ \E block \in IngestibleBlocks :
           thePieceTrackerStatus = "OPERATIONAL" /\ IngestSwarmBlock(block)
    \/ \E t \in Exporters :
           \/ ConsumeWait(t)
           \/ SpuriousWakeup(t)
           \/ ConsumeNothing(t)
           \/ \E p \in Indices : ConsumePiece(t, p)

TrackerSpec == TrackerInit /\ [][TrackerNext]_trackerVars

-----------------------------------------------------------------------------
(* Properties *)

\* The tracker's fields have their types.
TrackerTypeOK ==
    /\ blocksPerPiece \in {0} \cup {BlocksIn(s) : s \in PieceSizes}
    /\ pieceSize \in {0} \cup PieceSizes
    /\ maximumPieceCount \in 0 .. MaxPieces
    /\ usedPieces \in Nat
    /\ thePieceTrackerStatus \in {"UNINITIALIZED", "OPERATIONAL"}
    /\ elementCount \in Nat
    /\ thePieces \in [Indices -> Piece]
    /\ waiting \subseteq Exporters
    /\ woken \subseteq Exporters

\* The redundant counters agree with what they count: usedPieces with the
\* pieces that are USED, filledBlocks with the fillment array of its piece.
\* areAllPiecesUsed, the FULL test of ingestSwarmBlock and the disk writer's
\* loop rely on the counters alone.
CountersAgree ==
    /\ usedPieces = Cardinality(PiecesIn({"USED"}))
    /\ \A p \in Indices :
           thePieces[p].filledBlocks = Cardinality(thePieces[p].theBlockFillment)

\* A piece is offered for export (FULL), or was exported (USED), exactly when
\* every block of it has arrived; a piece nobody touched is EMPTY.
StatusMatchesFillment ==
    \A p \in Indices :
        LET piece == thePieces[p]
        IN  /\ piece.theBlockFillment \subseteq Blocks
            /\ piece.thePieceStatus \in {"FULL", "USED"}
                   <=> piece.theBlockFillment = Blocks
            /\ piece.thePieceStatus = "EMPTY" <=> piece.theBlockFillment = {}

\* The tracker knows of no piece beyond those it was told of, reports itself
\* operational just when both the piece size and the piece count are known,
\* and made no piece before that: every fillment array has the final length.
OperationalMatchesSizes ==
    /\ elementCount <= maximumPieceCount
    /\ thePieceTrackerStatus = "OPERATIONAL"
           <=> blocksPerPiece # 0 /\ maximumPieceCount # 0
    /\ elementCount # 0 => thePieceTrackerStatus = "OPERATIONAL"
    /\ blocksPerPiece # 0 =>
           pieceSize \in PieceSizes /\ blocksPerPiece = BlocksIn(pieceSize)

\* No wish is left out and none is wasted: while some piece of the count still
\* misses a block, getWish names such a piece, with a range whose first and
\* last block are missing and which holds all that is missing; when nothing is
\* missing it names none.
WishNamesMissingBlocks ==
    thePieceTrackerStatus = "OPERATIONAL" =>
        LET missing == {p \in 0 .. maximumPieceCount - 1 : Open(PieceAt(p))}
            p       == GetWish.wishedPieceIndex
            empty   == Blocks \ PieceAt(p).theBlockFillment
        IN  IF missing = {}
            THEN GetWish = NoWish
            ELSE /\ p \in missing
                 /\ {GetWish.wishedBlockIndexStart,
                     GetWish.wishedBlockIndexEnd} \subseteq empty
                 /\ empty \subseteq WishedBlocks(GetWish)

\* A block that arrived is never forgotten, a piece only moves forward from
\* EMPTY over FILLING and FULL to USED, and once FULL its blocks are fixed:
\* the exporter reads them without the mutex.
Rank == [EMPTY |-> 0, FILLING |-> 1, FULL |-> 2, USED |-> 3]

PieceGrows(old, new) ==
    /\ old.theBlockFillment \subseteq new.theBlockFillment
    /\ Rank[old.thePieceStatus] <= Rank[new.thePieceStatus]
    /\ old.thePieceStatus \in {"FULL", "USED"} =>
           new.theBlockFillment = old.theBlockFillment

PiecesOnlyGrow ==
    [][/\ Indices \subseteq Indices'
       /\ maximumPieceCount <= maximumPieceCount'
       /\ \A p \in Indices : PieceGrows(thePieces[p], thePieces'[p])]_trackerVars

=============================================================================
