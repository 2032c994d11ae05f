-------------------------- MODULE PieceDownloadProofs --------------------------
(***************************************************************************)
(* Proofs of the piece tracker alone and in the download.                  *)
(*                                                                         *)
(* First the tracker, under any calls that respect its protocol: its four  *)
(* invariants are inductive only together, as that filledBlocks reaches    *)
(* blocksPerPiece exactly when the last block arrives needs the counter to *)
(* be the size of the fillment, and the fillment to have the length the    *)
(* piece size gives it.                                                    *)
(*                                                                         *)
(* Then the download: the two watchdog threads use the piece tracker       *)
(* as its protocol asks, so that what is proved of the tracker holds here; *)
(* and the disk thread, which works on a piece without the tracker's       *)
(* mutex, puts every used piece where it belongs in the file.  For any     *)
(* number of peers, pieces and blocks.                                     *)
(***************************************************************************)
EXTENDS PieceDownload, FiniteSetTheorems, WellFoundedInduction, TLAPS

(* The piece tracker alone *)

TrackerInv == /\ TrackerTypeOK
              /\ CountersAgree
              /\ StatusMatchesFillment
              /\ OperationalMatchesSizes

\* What the invariants say of one piece of bpp blocks.
PieceOK(piece, bpp) ==
    /\ piece \in Piece
    /\ piece.theBlockFillment \subseteq 0 .. bpp - 1
    /\ piece.filledBlocks = Cardinality(piece.theBlockFillment)
    /\ piece.thePieceStatus \in {"FULL", "USED"}
           <=> piece.theBlockFillment = 0 .. bpp - 1
    /\ piece.thePieceStatus = "EMPTY" <=> piece.theBlockFillment = {}

-----------------------------------------------------------------------------

\* The scan of the list for the first piece of a status is well defined.
LEMMA LeastExists ==
    ASSUME NEW S \in SUBSET Nat, S # {}
    PROVE  /\ Least(S) \in S
           /\ \A y \in S : Least(S) <= y
<1> DEFINE less == {ss \in Nat \X Nat : ss[1] < ss[2]}
<1>1. IsWellFoundedOn(less, Nat)
  BY NatLessThanWellFounded, Zenon DEF OpToRel
<1> HIDE DEF less
<1>2. PICK x \in S : \A y \in S : ~(<<y, x>> \in less)
  BY <1>1, WFMin
<1>3. ASSUME NEW y \in S PROVE x <= y
  <2>1. <<y, x>> \in Nat \X Nat /\ <<y, x>>[1] = y /\ <<y, x>>[2] = x
    OBVIOUS
  <2>2. <<y, x>> \in less <=> <<y, x>>[1] < <<y, x>>[2]
    BY <2>1, Zenon DEF less
  <2>3. ~(y < x)
    BY <1>2, <2>1, <2>2
  <2> QED
    BY <2>3
<1> QED
  BY <1>3 DEF Least

\* So is the scan for the last block of a bounded range.
LEMMA GreatestExists ==
    ASSUME NEW n \in Nat, NEW S \in SUBSET (0 .. n), S # {}
    PROVE  /\ Greatest(S) \in S
           /\ \A y \in S : y <= Greatest(S)
<1> DEFINE T == {n - y : y \in S}
<1>1. T \in SUBSET Nat /\ T # {}
  <2>1. \A y \in S : n - y \in Nat
    OBVIOUS
  <2>2. PICK y \in S : TRUE
    OBVIOUS
  <2>3. n - y \in T
    OBVIOUS
  <2> QED
    BY <2>1, <2>3
<1>2. Least(T) \in T /\ \A y \in T : Least(T) <= y
  BY <1>1, LeastExists
<1> HIDE DEF T
<1>3. PICK x \in S : Least(T) = n - x
  BY <1>2 DEF T
<1>4. \A y \in S : n - y \in T
  BY DEF T
<1>5. \A y \in S : y <= x
  BY <1>2, <1>3, <1>4
<1> QED
  BY <1>5 DEF Greatest

\* The invariant, seen piece by piece.
LEMMA InvByPiece ==
    ASSUME elementCount \in Nat,
           thePieces \in [Indices -> Piece]
    PROVE  (/\ \A p \in Indices : thePieces[p].filledBlocks =
                                     Cardinality(thePieces[p].theBlockFillment)
            /\ StatusMatchesFillment)
              <=> \A p \in Indices : PieceOK(thePieces[p], blocksPerPiece)
  BY DEF StatusMatchesFillment, PieceOK, Blocks

\* A piece just generated has no block and is EMPTY (generateNewPiece).
LEMMA NewPieceOK ==
    ASSUME NEW bpp \in Nat \ {0}
    PROVE  PieceOK(NewPiece, bpp)
<1>1. 0 \in 0 .. bpp - 1
  OBVIOUS
<1>2. Cardinality({}) = 0
  BY FS_EmptySet
<1> QED
  BY <1>1, <1>2 DEF PieceOK, NewPiece, Piece, PieceStatus

\* Filling a missing block of an open piece keeps counter, fillment and status
\* together; the piece becomes FULL just with its last block.
LEMMA FillOK ==
    ASSUME blocksPerPiece \in Nat \ {0},
           NEW piece, PieceOK(piece, blocksPerPiece), Open(piece),
           NEW b \in Blocks, b \notin piece.theBlockFillment
    PROVE  /\ PieceOK(Fill(piece, b), blocksPerPiece)
           /\ Fill(piece, b).thePieceStatus \in {"FILLING", "FULL"}
<1> DEFINE old == piece.theBlockFillment
           new == old \cup {b}
<1>1. /\ IsFiniteSet(Blocks)
      /\ Cardinality(Blocks) = blocksPerPiece
  <2> DEFINE last == blocksPerPiece - 1
  <2>1. last \in Int /\ ~(0 > last) /\ last - 0 + 1 = blocksPerPiece
    OBVIOUS
  <2> HIDE DEF last
  <2>2. IsFiniteSet(0 .. last) /\ Cardinality(0 .. last) = last - 0 + 1
    BY <2>1, FS_Interval
  <2> QED
    BY <2>1, <2>2 DEF Blocks, last
<1>2. old \subseteq Blocks /\ new \subseteq Blocks
  BY DEF PieceOK, Blocks
<1>3. IsFiniteSet(old) /\ IsFiniteSet(new)
  BY <1>1, <1>2, FS_Subset
<1>4. Cardinality(new) = Cardinality(old) + 1
  BY <1>3, FS_AddElement
<1>5. Cardinality(new) = blocksPerPiece <=> new = Blocks
  BY <1>1, <1>2, FS_Subset
<1>6. piece.filledBlocks = Cardinality(old) /\ Cardinality(old) \in Nat
  BY <1>3, FS_CardinalityType DEF PieceOK
<1>7. /\ Fill(piece, b).theBlockFillment = new
      /\ Fill(piece, b).filledBlocks = Cardinality(new)
      /\ Fill(piece, b).thePieceStatus =
             IF new = Blocks THEN "FULL" ELSE "FILLING"
  BY <1>4, <1>5, <1>6 DEF Fill
<1>8. Fill(piece, b) \in Piece
  BY <1>2, <1>6 DEF Fill, Piece, PieceStatus, Blocks
<1> QED
  BY <1>2, <1>7, <1>8 DEF PieceOK, Blocks

-----------------------------------------------------------------------------

\* The invariant holds when the tracker is created.
LEMMA TrackerInvInit == TrackerInit => TrackerInv
<1> SUFFICES ASSUME TrackerInit PROVE TrackerInv
  OBVIOUS
<1> USE SizesAssumption DEF TrackerInit
<1>1. Indices = {}
  BY DEF Indices
<1>2. TrackerTypeOK
  BY <1>1 DEF TrackerTypeOK
<1>3. PiecesIn({"USED"}) = {}
  BY <1>1 DEF PiecesIn
<1>4. CountersAgree
  BY <1>1, <1>3, FS_EmptySet DEF CountersAgree
<1> QED
  BY <1>1, <1>2, <1>4 DEF TrackerInv, StatusMatchesFillment,
                          OperationalMatchesSizes

\* Only the sizes and the condition variable change: the pieces stay right as
\* long as the block count of existing pieces stays.
LEMMA PiecesUntouched ==
    ASSUME TrackerInv, UNCHANGED pieceVars,
           elementCount = 0 \/ blocksPerPiece' = blocksPerPiece
    PROVE  CountersAgree' /\ StatusMatchesFillment'
<1>1. Indices' = Indices /\ PiecesIn({"USED"})' = PiecesIn({"USED"})
  BY DEF pieceVars, Indices, PiecesIn
<1>2. CountersAgree'
  BY <1>1 DEF TrackerInv, CountersAgree, pieceVars
<1>3. Indices = {} \/ Blocks' = Blocks
  BY DEF Indices, Blocks
<1> QED
  BY <1>1, <1>2, <1>3 DEF TrackerInv, StatusMatchesFillment, pieceVars

\* Learning the piece size keeps it.
LEMMA SetPieceSizeInv ==
    ASSUME TrackerInv, NEW s \in PieceSizes, blocksPerPiece = 0, SetPieceSize(s)
    PROVE  TrackerInv'
<1> USE SizesAssumption DEF SetPieceSize, pieceVars, condVars
<1>1. elementCount = 0
  BY DEF TrackerInv, OperationalMatchesSizes, TrackerTypeOK
<1>2. CountersAgree' /\ StatusMatchesFillment'
  BY <1>1, PiecesUntouched
<1>3. TrackerTypeOK'
  BY DEF TrackerInv, TrackerTypeOK, Indices, AttemptOperational
<1>4. OperationalMatchesSizes'
  BY <1>1 DEF TrackerInv, TrackerTypeOK, OperationalMatchesSizes,
              AttemptOperational
<1> QED
  BY <1>2, <1>3, <1>4 DEF TrackerInv

\* Learning the number of pieces keeps it.
LEMMA SetMaximumPieceCountInv ==
    ASSUME TrackerInv, NEW n \in 1 .. MaxPieces, SetMaximumPieceCount(n)
    PROVE  TrackerInv'
<1> USE SizesAssumption DEF SetMaximumPieceCount, RaisesMaximum, pieceVars,
                            condVars
<1>1. CountersAgree' /\ StatusMatchesFillment'
  BY PiecesUntouched
<1>2. TrackerTypeOK'
  BY DEF TrackerInv, TrackerTypeOK, Indices, AttemptOperational
<1>3. OperationalMatchesSizes'
  BY DEF TrackerInv, TrackerTypeOK, OperationalMatchesSizes, AttemptOperational
<1> QED
  BY <1>1, <1>2, <1>3 DEF TrackerInv

\* Nothing but the condition variable's waiting set changes.
LEMMA CondVarInv ==
    ASSUME TrackerInv, UNCHANGED <<pieceVars, sizeVars>>,
           waiting' \subseteq Exporters, woken' \subseteq Exporters
    PROVE  TrackerInv'
<1> USE DEF pieceVars, sizeVars
<1>1. CountersAgree' /\ StatusMatchesFillment'
  BY PiecesUntouched
<1>2. TrackerTypeOK' /\ OperationalMatchesSizes'
  BY DEF TrackerInv, TrackerTypeOK, OperationalMatchesSizes, Indices
<1> QED
  BY <1>1, <1>2 DEF TrackerInv

\* What a stored block does: pieces up to its own exist, its own is filled,
\* every other known piece is as before, and the rest is new.
LEMMA IngestStoredEffect ==
    ASSUME TrackerInv, thePieceTrackerStatus = "OPERATIONAL",
           NEW block \in IngestibleBlocks, IngestStored(block)
    PROVE  LET p == block.thePieceIndex
           IN  /\ p \in Indices' /\ Indices \subseteq Indices'
               /\ elementCount' \in Nat
               /\ elementCount' <= maximumPieceCount
               /\ thePieces' = [q \in Indices' |->
                      IF q = p THEN Fill(PieceAt(p), BlockNumber(block))
                               ELSE PieceAt(q)]
               /\ PieceOK(Fill(PieceAt(p), BlockNumber(block)), blocksPerPiece)
               /\ Fill(PieceAt(p), BlockNumber(block)).thePieceStatus
                      \in {"FILLING", "FULL"}
               /\ Open(PieceAt(p))
               /\ \A q \in Indices' : PieceOK(PieceAt(q), blocksPerPiece)
<1> DEFINE p == block.thePieceIndex
<1>1. p \in 0 .. maximumPieceCount - 1 /\ BlockNumber(block) \in Blocks
  BY DEF IngestibleBlocks
<1>2. /\ maximumPieceCount \in Nat /\ elementCount \in Nat
      /\ blocksPerPiece \in Nat \ {0}
      /\ elementCount <= maximumPieceCount
  BY SizesAssumption DEF TrackerInv, TrackerTypeOK, OperationalMatchesSizes
<1>3. elementCount' = IF p \in Indices THEN elementCount ELSE p + 1
  BY DEF IngestStored
<1>4. /\ p \in Indices' /\ Indices \subseteq Indices'
      /\ elementCount' \in Nat /\ elementCount' <= maximumPieceCount
  BY <1>1, <1>2, <1>3 DEF Indices
<1>5. \A q \in Indices : PieceOK(thePieces[q], blocksPerPiece)
  BY InvByPiece DEF TrackerInv, TrackerTypeOK, CountersAgree
<1>6. \A q : PieceOK(PieceAt(q), blocksPerPiece)
  BY <1>2, <1>5, NewPieceOK DEF PieceAt
<1>7. Open(PieceAt(p)) /\ BlockNumber(block) \notin PieceAt(p).theBlockFillment
  BY DEF IngestStored
<1>8. /\ PieceOK(Fill(PieceAt(p), BlockNumber(block)), blocksPerPiece)
      /\ Fill(PieceAt(p), BlockNumber(block)).thePieceStatus
             \in {"FILLING", "FULL"}
  BY <1>1, <1>2, <1>6, <1>7, FillOK
<1>9. thePieces' = [q \in Indices' |->
                      IF q = p THEN Fill(PieceAt(p), BlockNumber(block))
                               ELSE PieceAt(q)]
  BY DEF IngestStored, Indices
<1> QED
  BY <1>4, <1>6, <1>7, <1>8, <1>9

\* Storing a block keeps it: the piece becomes FULL with its last block.
LEMMA IngestStoredInv ==
    ASSUME TrackerInv, thePieceTrackerStatus = "OPERATIONAL",
           NEW block \in IngestibleBlocks, IngestStored(block)
    PROVE  TrackerInv'
<1> DEFINE p == block.thePieceIndex
           filled == Fill(PieceAt(p), BlockNumber(block))
<1>1. /\ p \in Indices' /\ Indices \subseteq Indices'
      /\ elementCount' \in Nat
      /\ elementCount' <= maximumPieceCount
      /\ thePieces' = [q \in Indices' |-> IF q = p THEN filled ELSE PieceAt(q)]
      /\ PieceOK(filled, blocksPerPiece)
      /\ filled.thePieceStatus \in {"FILLING", "FULL"}
      /\ Open(PieceAt(p))
      /\ \A q \in Indices' : PieceOK(PieceAt(q), blocksPerPiece)
  BY IngestStoredEffect
<1>2. UNCHANGED <<usedPieces, sizeVars>>
  BY DEF IngestStored
<1>3. \A q \in Indices' : PieceOK(thePieces'[q], blocksPerPiece')
  BY <1>1, <1>2 DEF sizeVars
<1>4. thePieces' \in [Indices' -> Piece]
  BY <1>1 DEF PieceOK
<1>5. PiecesIn({"USED"})' = PiecesIn({"USED"})
  BY <1>1 DEF PiecesIn, PieceAt, NewPiece, Open
<1>6. waiting' \subseteq Exporters /\ woken' \subseteq Exporters
  BY DEF IngestStored, Broadcast, condVars, TrackerInv, TrackerTypeOK
<1>7. TrackerTypeOK'
  BY <1>1, <1>2, <1>4, <1>6 DEF sizeVars, TrackerInv, TrackerTypeOK
<1>8. CountersAgree'
  BY <1>2, <1>3, <1>5 DEF CountersAgree, TrackerInv, PieceOK
<1>9. StatusMatchesFillment'
  BY <1>3 DEF StatusMatchesFillment, PieceOK, Blocks
<1>10. OperationalMatchesSizes'
  BY <1>1, <1>2 DEF OperationalMatchesSizes, TrackerInv, sizeVars
<1> QED
  BY <1>7, <1>8, <1>9, <1>10 DEF TrackerInv

\* Exporting a piece keeps it: one more piece is USED.
LEMMA ConsumePieceInv ==
    ASSUME TrackerInv, NEW t \in Exporters, NEW p \in Indices,
           ConsumePiece(t, p)
    PROVE  TrackerInv'
<1> DEFINE piece == [thePieces[p] EXCEPT !.thePieceStatus = "USED"]
<1>1. /\ usedPieces' = usedPieces + 1
      /\ thePieces' = [thePieces EXCEPT ![p] = piece]
      /\ woken' \subseteq Exporters
      /\ UNCHANGED <<elementCount, waiting, sizeVars>>
  BY DEF ConsumePiece, TrackerInv, TrackerTypeOK
<1>2. thePieces \in [Indices -> Piece] /\ elementCount \in Nat
  BY DEF TrackerInv, TrackerTypeOK
<1>3. thePieces[p].thePieceStatus = "FULL"
  <2>1. PiecesIn({"FULL"}) \subseteq Nat /\ PiecesIn({"FULL"}) # {}
    BY <1>2 DEF PiecesIn, Indices, ConsumePiece
  <2> QED
    BY <2>1, LeastExists DEF ConsumePiece, PiecesIn
<1>4. Indices' = Indices
  BY <1>1 DEF Indices
<1>5. \A q \in Indices : PieceOK(thePieces[q], blocksPerPiece)
  BY <1>2, InvByPiece DEF TrackerInv, CountersAgree
<1>6. PieceOK(piece, blocksPerPiece)
  BY <1>2, <1>3, <1>5 DEF PieceOK, Piece, PieceStatus
<1>7. \A q \in Indices' : PieceOK(thePieces'[q], blocksPerPiece')
  BY <1>1, <1>2, <1>4, <1>5, <1>6 DEF sizeVars
<1>8. PiecesIn({"USED"})' = PiecesIn({"USED"}) \cup {p}
  BY <1>1, <1>2, <1>4 DEF PiecesIn, Piece
<1>9. p \notin PiecesIn({"USED"})
  BY <1>3 DEF PiecesIn
<1>10. IsFiniteSet(PiecesIn({"USED"}))
  <2>1. IsFiniteSet(Indices)
    BY <1>2, FS_Interval DEF Indices
  <2> QED
    BY <2>1, FS_Subset DEF PiecesIn
<1>11. usedPieces' = Cardinality(PiecesIn({"USED"})')
  BY <1>1, <1>8, <1>9, <1>10, FS_AddElement DEF TrackerInv, CountersAgree
<1>12. CountersAgree'
  BY <1>7, <1>11 DEF CountersAgree, PieceOK
<1>13. StatusMatchesFillment'
  BY <1>7 DEF StatusMatchesFillment, PieceOK, Blocks
<1>14. TrackerTypeOK'
  BY <1>1, <1>2, <1>4, <1>6 DEF TrackerInv, TrackerTypeOK, sizeVars, PieceOK
<1>15. OperationalMatchesSizes'
  BY <1>1 DEF TrackerInv, OperationalMatchesSizes, sizeVars
<1> QED
  BY <1>12, <1>13, <1>14, <1>15 DEF TrackerInv

\* Every step of the tracker keeps it.
LEMMA TrackerInvStep ==
    TrackerInv /\ [TrackerNext]_trackerVars => TrackerInv'
<1> SUFFICES ASSUME TrackerInv, [TrackerNext]_trackerVars PROVE TrackerInv'
  OBVIOUS
<1>1. ASSUME NEW s \in PieceSizes, blocksPerPiece = 0, SetPieceSize(s)
      PROVE  TrackerInv'
  BY <1>1, SetPieceSizeInv
<1>2. ASSUME NEW n \in 1 .. MaxPieces, SetMaximumPieceCount(n)
      PROVE  TrackerInv'
  BY <1>2, SetMaximumPieceCountInv
<1>3. ASSUME UNCHANGED trackerVars PROVE TrackerInv'
  BY <1>3, CondVarInv DEF trackerVars, condVars, TrackerInv, TrackerTypeOK
<1>4. ASSUME NEW block \in IngestibleBlocks,
             thePieceTrackerStatus = "OPERATIONAL", IngestSwarmBlock(block)
      PROVE  TrackerInv'
  BY <1>3, <1>4, IngestStoredInv DEF IngestSwarmBlock, IngestDropped
<1>5. ASSUME NEW t \in Exporters,
             ConsumeWait(t) \/ SpuriousWakeup(t) \/ ConsumeNothing(t)
      PROVE  TrackerInv'
  BY <1>5, CondVarInv DEF ConsumeWait, SpuriousWakeup, ConsumeNothing,
                          TrackerInv, TrackerTypeOK
<1>6. ASSUME NEW t \in Exporters, NEW p \in Indices, ConsumePiece(t, p)
      PROVE  TrackerInv'
  BY <1>6, ConsumePieceInv
<1> QED
  BY <1>1, <1>2, <1>3, <1>4, <1>5, <1>6 DEF TrackerNext

-----------------------------------------------------------------------------

\* The invariant holds in every reachable state of the tracker.
THEOREM TrackerInvariant == TrackerSpec => []TrackerInv
<1> QED
  BY TrackerInvInit, TrackerInvStep, PTL DEF TrackerSpec

\* The tracker's fields always have their types.
THEOREM TrackerTypeCorrect == TrackerSpec => []TrackerTypeOK
<1>1. TrackerInv => TrackerTypeOK
  BY DEF TrackerInv
<1> QED
  BY <1>1, TrackerInvariant, PTL

\* The redundant counters of piecetracker.c (usedPieces, filledBlocks) always
\* agree with what they count, whatever the order of calls and exporters.
THEOREM TrackerCountersAgree == TrackerSpec => []CountersAgree
<1>1. TrackerInv => CountersAgree
  BY DEF TrackerInv
<1> QED
  BY <1>1, TrackerInvariant, PTL

\* A piece is FULL or USED exactly when every block of it has arrived.
THEOREM TrackerStatusMatchesFillment == TrackerSpec => []StatusMatchesFillment
<1>1. TrackerInv => StatusMatchesFillment
  BY DEF TrackerInv
<1> QED
  BY <1>1, TrackerInvariant, PTL

\* The tracker is operational exactly when both sizes are known, and makes no
\* piece before that or beyond the advertised ones.
THEOREM TrackerOperational == TrackerSpec => []OperationalMatchesSizes
<1>1. TrackerInv => OperationalMatchesSizes
  BY DEF TrackerInv
<1> QED
  BY <1>1, TrackerInvariant, PTL

-----------------------------------------------------------------------------
(* Pieces only grow *)

\* A piece that stays as it is has grown.
LEMMA GrowsReflexive ==
    ASSUME NEW piece \in Piece PROVE PieceGrows(piece, piece)
BY DEF PieceGrows, Piece, PieceStatus, Rank

\* Steps that leave the pieces alone, and raise the maximum if they touch it.
LEMMA UntouchedGrow ==
    ASSUME TrackerInv, UNCHANGED pieceVars,
           maximumPieceCount <= maximumPieceCount'
    PROVE  /\ Indices \subseteq Indices'
           /\ maximumPieceCount <= maximumPieceCount'
           /\ \A p \in Indices : PieceGrows(thePieces[p], thePieces'[p])
BY GrowsReflexive DEF pieceVars, Indices, TrackerInv, TrackerTypeOK

\* A step of the tracker only lets the pieces grow.
LEMMA GrowStep ==
    ASSUME TrackerInv, [TrackerNext]_trackerVars
    PROVE  /\ Indices \subseteq Indices'
           /\ maximumPieceCount <= maximumPieceCount'
           /\ \A p \in Indices : PieceGrows(thePieces[p], thePieces'[p])
<1> DEFINE Grows ==
        /\ Indices \subseteq Indices'
        /\ maximumPieceCount <= maximumPieceCount'
        /\ \A p \in Indices : PieceGrows(thePieces[p], thePieces'[p])
<1> USE DEF TrackerInv, TrackerTypeOK
<1>1. maximumPieceCount \in Int /\ maximumPieceCount <= maximumPieceCount
  BY SizesAssumption
<1>2. ASSUME NEW s \in PieceSizes, SetPieceSize(s) PROVE Grows
  BY <1>1, <1>2, UntouchedGrow DEF SetPieceSize
<1>3. ASSUME NEW n \in 1 .. MaxPieces, SetMaximumPieceCount(n) PROVE Grows
  BY <1>1, <1>3, SizesAssumption, UntouchedGrow
     DEF SetMaximumPieceCount, RaisesMaximum
<1>4. ASSUME UNCHANGED trackerVars PROVE Grows
  BY <1>1, <1>4, UntouchedGrow DEF trackerVars, sizeVars
<1>5. ASSUME NEW block \in IngestibleBlocks,
             thePieceTrackerStatus = "OPERATIONAL", IngestStored(block)
      PROVE  Grows
  <2> DEFINE p == block.thePieceIndex
             filled == Fill(PieceAt(p), BlockNumber(block))
  <2>1. /\ Indices \subseteq Indices'
        /\ thePieces' = [q \in Indices' |->
                             IF q = p THEN filled ELSE PieceAt(q)]
        /\ filled.thePieceStatus \in {"FILLING", "FULL"}
        /\ Open(PieceAt(p))
    BY <1>5, IngestStoredEffect
  <2>2. PieceGrows(PieceAt(p), filled)
    BY <2>1 DEF PieceGrows, Fill, Open, Rank
  <2>3. maximumPieceCount' = maximumPieceCount
    BY <1>5 DEF IngestStored, sizeVars
  <2>4. \A q \in Indices : PieceGrows(thePieces[q], thePieces'[q])
    BY <2>1, <2>2, GrowsReflexive DEF PieceAt
  <2> QED
    BY <1>1, <2>1, <2>3, <2>4
<1>6. ASSUME NEW t \in Exporters,
             ConsumeWait(t) \/ SpuriousWakeup(t) \/ ConsumeNothing(t)
      PROVE  Grows
  BY <1>1, <1>6, UntouchedGrow
     DEF ConsumeWait, SpuriousWakeup, ConsumeNothing, sizeVars
<1>7. ASSUME NEW t \in Exporters, NEW p \in Indices, ConsumePiece(t, p)
      PROVE  Grows
  <2>1. /\ Indices' = Indices
        /\ maximumPieceCount' = maximumPieceCount
        /\ thePieces' = [thePieces EXCEPT ![p].thePieceStatus = "USED"]
    BY <1>7 DEF ConsumePiece, Indices, sizeVars
  <2>2. \A q \in Indices : PieceGrows(thePieces[q], thePieces'[q])
    BY <2>1, GrowsReflexive DEF PieceGrows, Piece, PieceStatus, Rank
  <2> QED
    BY <1>1, <2>1, <2>2
<1> HIDE DEF TrackerInv, TrackerTypeOK
<1> QED
  BY <1>2, <1>3, <1>4, <1>5, <1>6, <1>7
     DEF TrackerNext, IngestSwarmBlock, IngestDropped

\* No call ever forgets a block, moves a piece back, or touches the blocks of
\* a piece that was offered for export: the disk thread may read them without
\* theSynchronizationMutex.
THEOREM TrackerPiecesOnlyGrow == TrackerSpec => PiecesOnlyGrow
<1>1. TrackerInv /\ [TrackerNext]_trackerVars =>
        [/\ Indices \subseteq Indices'
         /\ maximumPieceCount <= maximumPieceCount'
         /\ \A p \in Indices : PieceGrows(thePieces[p], thePieces'[p])]_trackerVars
  BY GrowStep
<1> QED
  BY <1>1, TrackerInvariant, PTL DEF TrackerSpec, PiecesOnlyGrow

-----------------------------------------------------------------------------
(* Wishes *)

\* getWish compares two counts to see whether anything is missing: it is right.
LEMMA NothingMissing ==
    ASSUME TrackerInv
    PROVE  Cardinality(PiecesIn({"FULL", "USED"})) = maximumPieceCount
              <=> \A p \in 0 .. maximumPieceCount - 1 : ~Open(PieceAt(p))
<1> DEFINE all == 0 .. maximumPieceCount - 1
           closed == PiecesIn({"FULL", "USED"})
<1>1. /\ maximumPieceCount \in Nat /\ elementCount \in Nat
      /\ elementCount <= maximumPieceCount
      /\ thePieces \in [Indices -> Piece]
  BY SizesAssumption DEF TrackerInv, TrackerTypeOK, OperationalMatchesSizes
<1>2. IsFiniteSet(all) /\ Cardinality(all) = maximumPieceCount
  BY <1>1, FS_Interval
<1>3. closed \subseteq all
  BY <1>1 DEF PiecesIn, Indices
<1>4. Cardinality(closed) = maximumPieceCount <=> closed = all
  BY <1>2, <1>3, FS_Subset
<1>5. \A p \in all : p \in closed <=> ~Open(PieceAt(p))
  BY <1>1 DEF PiecesIn, PieceAt, NewPiece, Open, Piece, PieceStatus
<1> QED
  BY <1>3, <1>4, <1>5

\* What is proved of open pieces holds in every state of the invariant.
LEMMA WishFromInv == TrackerInv => WishNamesMissingBlocks
<1> SUFFICES ASSUME TrackerInv, thePieceTrackerStatus = "OPERATIONAL"
             PROVE  WishNamesMissingBlocks
  BY DEF WishNamesMissingBlocks
<1> DEFINE missing == {q \in 0 .. maximumPieceCount - 1 : Open(PieceAt(q))}
           wished == GetWish.wishedPieceIndex
           start == GetWish.wishedBlockIndexStart
           end == GetWish.wishedBlockIndexEnd
           empty(q) == Blocks \ PieceAt(q).theBlockFillment
           open == PiecesIn({"EMPTY", "FILLING"})
           Good == /\ wished \in missing
                   /\ start \in empty(wished) /\ end \in empty(wished)
                   /\ empty(wished) \subseteq start .. end
<1>1. /\ maximumPieceCount \in Nat /\ elementCount \in Nat
      /\ blocksPerPiece \in Nat \ {0}
      /\ elementCount <= maximumPieceCount
      /\ thePieces \in [Indices -> Piece]
  BY SizesAssumption DEF TrackerInv, TrackerTypeOK, OperationalMatchesSizes
<1>2. missing = {} <=>
          Cardinality(PiecesIn({"FULL", "USED"})) = maximumPieceCount
  BY NothingMissing
<1>3. CASE missing = {}
  <2>1. GetWish = NoWish
    BY <1>2, <1>3 DEF GetWish
  <2> QED
    BY <1>3, <2>1 DEF WishNamesMissingBlocks
<1>4. ASSUME missing # {}, elementCount < maximumPieceCount
      PROVE  Good
  <2>1. GetWish = Wish(elementCount, 0, blocksPerPiece - 1)
    BY <1>2, <1>4 DEF GetWish
  <2>2. wished = elementCount /\ start = 0 /\ end = blocksPerPiece - 1
    BY <2>1 DEF Wish
  <2>3. PieceAt(elementCount) = NewPiece
    BY <1>1 DEF PieceAt, Indices
  <2>4. Open(NewPiece) /\ NewPiece.theBlockFillment = {}
    BY DEF Open, NewPiece
  <2> QED
    BY <1>1, <1>4, <2>2, <2>3, <2>4 DEF Blocks
<1>5. ASSUME missing # {}, ~(elementCount < maximumPieceCount)
      PROVE  Good
  <2>1. elementCount = maximumPieceCount
    BY <1>1, <1>5
  <2>2. open = missing
    BY <1>1, <2>1 DEF PiecesIn, Indices, PieceAt, Open
  <2>3. open \subseteq Nat /\ open # {}
    BY <1>1, <1>5, <2>2
  <2>4. Least(open) \in missing
    BY <2>2, <2>3, LeastExists
  <2>5. GetWish = Wish(Least(open), Least(EmptyBlocks(Least(open))),
                       Greatest(EmptyBlocks(Least(open))))
    BY <1>2, <1>5, <2>3 DEF GetWish
  <2>6. /\ wished = Least(open)
        /\ start = Least(EmptyBlocks(Least(open)))
        /\ end = Greatest(EmptyBlocks(Least(open)))
    BY <2>5 DEF Wish
  <2>7. Least(open) \in Indices
    BY <2>1, <2>4 DEF Indices
  <2>8. EmptyBlocks(Least(open)) = empty(Least(open))
    BY <2>7 DEF EmptyBlocks, PieceAt
  <2>9. EmptyBlocks(Least(open)) # {}
    <3>1. PieceOK(thePieces[Least(open)], blocksPerPiece)
      BY <1>1, <2>7, InvByPiece DEF TrackerInv, CountersAgree
    <3>2. Open(thePieces[Least(open)])
      BY <2>4, <2>7 DEF PieceAt
    <3> QED
      BY <3>1, <3>2 DEF PieceOK, Open, EmptyBlocks, Blocks
  <2>10. EmptyBlocks(Least(open)) \in SUBSET (0 .. blocksPerPiece - 1)
    BY DEF EmptyBlocks, Blocks
  <2>11. /\ start \in EmptyBlocks(Least(open))
         /\ \A b \in EmptyBlocks(Least(open)) : start <= b
    BY <1>1, <2>6, <2>9, <2>10, LeastExists
  <2>12. /\ end \in EmptyBlocks(Least(open))
         /\ \A b \in EmptyBlocks(Least(open)) : b <= end
    BY <1>1, <2>6, <2>9, <2>10, GreatestExists
  <2> QED
    BY <2>4, <2>6, <2>8, <2>10, <2>11, <2>12
<1>6. CASE missing # {}
  BY <1>4, <1>5, <1>6 DEF WishNamesMissingBlocks, WishedBlocks
<1> QED
  BY <1>3, <1>6

\* getWish asks for nothing exactly when nothing is missing; otherwise for a
\* range of one incomplete piece that begins and ends with a missing block and
\* leaves out none.
THEOREM TrackerWishes == TrackerSpec => []WishNamesMissingBlocks
BY WishFromInv, TrackerInvariant, PTL

-----------------------------------------------------------------------------
(* The download *)

TrueBlocks == 0 .. BlocksIn(TrueSize) - 1

\* The place of a block in the file, whether or not the size is known yet.
Place(p, b) == (p * BlocksIn(TrueSize) + b) * BlockSize

\* A wish is none, or is for blocks that exist of an advertised piece.
WishOK(wish) ==
    wish = NoWish \/ /\ wish.wishedPieceIndex \in 0 .. maximumPieceCount - 1
                     /\ wish.wishedBlockIndexStart \in Blocks
                     /\ wish.wishedBlockIndexEnd \in Blocks

\* What a peer may be about to answer.
Answers == {Answer(p, b) : p \in 0 .. maximumPieceCount - 1, b \in Blocks}

\* The swarm thread's part: the size is known from CONFIRM on, wishes and
\* requests stay within it, and answers are drained by an operational tracker.
CallsInv ==
    /\ swarmPc \in SwarmPcs
    /\ areWeWishing \in BOOLEAN /\ wishTimed \in BOOLEAN
    /\ unvisited \subseteq Peers /\ currentPeer \in Peers
    /\ swarmPc = "confirm" => blocksPerPiece = 0
    /\ swarmPc # "confirm" =>
           pieceSize = TrueSize /\ blocksPerPiece = BlocksIn(TrueSize)
    /\ swarmPc \in {"wish", "check", "drain"} =>
           thePieceTrackerStatus = "OPERATIONAL"
    /\ WishOK(wishedBlock)
    /\ asked \in [Peers -> SUBSET (Answers \cup {Probe})]

\* The disk thread's part: it holds at most one piece, a used one that it has
\* not freed; every other used piece is freed; it does not wait while it holds.
DiskInv ==
    /\ exported \in {-1} \cup Indices
    /\ blockIterator \in 0 .. BlocksIn(TrueSize)
    /\ freed \subseteq Indices
    /\ \A p \in Indices : thePieces[p].thePieceStatus = "USED"
                              <=> p = exported \/ p \in freed
    /\ exported \notin freed
    /\ DiskIO \in waiting \cup woken => exported = -1
    /\ DiskIO \notin waiting \cap woken

\* Block b of piece p has been through the disk thread's loop.
Done(p, b) == /\ p \in freed \/ p = exported
              /\ p = exported => b < blockIterator

\* A byte of the file that belongs to byte k of block b of piece p, and was not
\* last written by a block that missed its place.
ByteOK(p, b, k) ==
    LET o == Place(p, b) + k
    IN  o \notin stray =>
            /\ o \in DOMAIN torrent_dump =>
                   Done(p, b) /\ torrent_dump[o] = Byte(p, b, k)
            /\ Done(p, b) /\ <<p, b>> \notin failedWrites =>
                   o \in DOMAIN torrent_dump

\* The file, also where no piece is known yet.
DumpInv ==
    /\ fileOffset \in Nat
    /\ \A p \in 0 .. MaxPieces - 1, b \in TrueBlocks, k \in 0 .. BlockSize - 1 :
           ByteOK(p, b, k)

\* COMPLETE is never left, and the pieces it counted stay used.
CompleteInv ==
    swarmPc = "complete" =>
        \A p \in 0 .. maximumPieceCount - 1 :
            p \in Indices /\ thePieces[p].thePieceStatus = "USED"

DownloadInv == TrackerInv /\ CallsInv /\ DiskInv /\ DumpInv /\ CompleteInv

-----------------------------------------------------------------------------
(* Offsets *)

\* The confirmed size is a whole number of blocks.
LEMMA TrueSizes ==
    /\ BlocksIn(TrueSize) \in Nat \ {0} /\ BlockSize \in Nat \ {0}
    /\ 2^TrueSize = BlocksIn(TrueSize) * BlockSize
    /\ TrueSize \in Nat
BY SizesAssumption, DownloadAssumption

\* Division of an offset by the block size, when the offset lies in block b.
LEMMA DivisionByBlocks ==
    ASSUME NEW n \in Nat \ {0}, NEW b \in Nat, NEW c \in 0 .. n - 1
    PROVE  (b * n + c) \div n = b
<1> DEFINE x == b * n + c
           q == x \div n
           r == x % n
<1>1. b * n \in Nat /\ x \in Nat
  BY Z3
<1>2. q \in Int /\ r \in 0 .. n - 1 /\ x = n * q + r
  BY <1>1, Z3
<1> HIDE DEF q, r
<1>3. x = b * n + c
  OBVIOUS
<1> HIDE DEF x
<1>4. n * q + r = n * b + c
  BY <1>2, <1>3, Z3
<1>5. ~(q < b)
  <2> SUFFICES ASSUME q < b PROVE FALSE
    OBVIOUS
  <2>1. b - q >= 1
    BY <1>2
  <2>2. n * (b - q) >= n
    BY <1>2, <2>1, Z3
  <2>3. n * (b - q) = r - c
    BY <1>2, <1>4, Z3
  <2> QED
    BY <1>2, <2>2, <2>3
<1>6. ~(b < q)
  <2> SUFFICES ASSUME b < q PROVE FALSE
    OBVIOUS
  <2>1. q - b >= 1
    BY <1>2
  <2>2. n * (q - b) >= n
    BY <1>2, <2>1, Z3
  <2>3. n * (q - b) = c - r
    BY <1>2, <1>4, Z3
  <2> QED
    BY <1>2, <2>2, <2>3
<1> QED
  BY <1>2, <1>5, <1>6 DEF q

\* A requested block, and the probe, lie in the piece, in a block of it.
LEMMA AnswerFits ==
    ASSUME NEW p, NEW b \in TrueBlocks
    PROVE  /\ BlockNumber(Answer(p, b)) = b
           /\ b * BlockSize \in 0 .. 2^TrueSize - 1
<1> DEFINE N == BlocksIn(TrueSize)
<1>1. N \in Nat \ {0} /\ BlockSize \in Nat \ {0} /\ 2^TrueSize = N * BlockSize
  BY TrueSizes
<1>2. b \in Nat /\ b <= N - 1
  BY <1>1 DEF TrueBlocks
<1> HIDE DEF N
<1>3. (b * BlockSize + 0) \div BlockSize = b
  BY <1>1, <1>2, DivisionByBlocks
<1>4. b * BlockSize \in Nat /\ b * BlockSize + 0 = b * BlockSize
  BY <1>1, <1>2, Z3
<1>5. b * BlockSize <= (N - 1) * BlockSize
  BY <1>1, <1>2, Z3
<1>6. (N - 1) * BlockSize = N * BlockSize - BlockSize
  BY <1>1, Z3
<1>7. N * BlockSize \in Nat
  BY <1>1, Z3
<1> QED
  BY <1>1, <1>3, <1>4, <1>5, <1>6, <1>7 DEF BlockNumber, Answer

\* The probe of CONFIRM mode asks for the last byte of the first piece, which is
\* in a block of it.
LEMMA ProbeFits ==
    /\ BlockNumber(Probe) \in TrueBlocks
    /\ 2^TrueSize - 1 \in 0 .. 2^TrueSize - 1
<1> DEFINE N == BlocksIn(TrueSize)
<1>1. N \in Nat \ {0} /\ BlockSize \in Nat \ {0} /\ 2^TrueSize = N * BlockSize
  BY TrueSizes
<1>2. TrueBlocks = 0 .. N - 1
  BY DEF TrueBlocks
<1> HIDE DEF N
<1>3. ((N - 1) * BlockSize + (BlockSize - 1)) \div BlockSize = N - 1
  BY <1>1, DivisionByBlocks
<1>4. (N - 1) * BlockSize + (BlockSize - 1) = N * BlockSize - 1
  BY <1>1, Z3
<1>5. N * BlockSize \in Nat \ {0}
  BY <1>1, Z3
<1>6. BlockNumber(Probe) = (2^TrueSize - 1) \div BlockSize
  BY DEF BlockNumber, Probe
<1> QED
  BY <1>1, <1>2, <1>3, <1>4, <1>5, <1>6

\* Every byte of every block has its own place in the file.
LEMMA PlacesAreDistinct ==
    ASSUME NEW p \in Nat, NEW q \in Nat, NEW b \in TrueBlocks, NEW c \in TrueBlocks,
           NEW k \in 0 .. BlockSize - 1, NEW l \in 0 .. BlockSize - 1,
           Place(p, b) + k = Place(q, c) + l
    PROVE  p = q /\ b = c /\ k = l
<1> DEFINE N == BlocksIn(TrueSize)
<1>1. N \in Nat \ {0} /\ BlockSize \in Nat \ {0}
  BY TrueSizes
<1>2. b \in 0 .. N - 1 /\ c \in 0 .. N - 1
  BY DEF TrueBlocks
<1>3. (p * N + b) * BlockSize + k = (q * N + c) * BlockSize + l
  BY DEF Place
<1> HIDE DEF N
<1>4. p * N + b \in Nat /\ q * N + c \in Nat
  BY <1>1, <1>2, Z3
<1>5. /\ ((p * N + b) * BlockSize + k) \div BlockSize = p * N + b
      /\ ((q * N + c) * BlockSize + l) \div BlockSize = q * N + c
  BY <1>1, <1>4, DivisionByBlocks
<1>6. p * N + b = q * N + c
  BY <1>3, <1>5
<1>7. (p * N + b) \div N = p /\ (q * N + c) \div N = q
  BY <1>1, <1>2, DivisionByBlocks
<1>8. p = q
  BY <1>6, <1>7
<1>9. p * N \in Nat
  BY <1>1, Z3
<1>10. b = c
  BY <1>2, <1>6, <1>8, <1>9
<1>11. Place(p, b) \in Nat /\ Place(q, c) = Place(p, b)
  BY <1>1, <1>4, <1>8, <1>10, Z3 DEF Place, N
<1> QED
  BY <1>8, <1>10, <1>11

\* That place is where writing seeks to.
LEMMA PlaceInFile ==
    ASSUME NEW p \in 0 .. MaxPieces - 1, NEW b \in TrueBlocks
    PROVE  /\ Place(p, b) \in Nat
           /\ pieceSize = TrueSize => Offset(p, b) = Place(p, b)
<1> DEFINE N == BlocksIn(TrueSize)
<1>1. /\ N \in Nat \ {0} /\ BlockSize \in Nat \ {0} /\ MaxPieces \in Nat
      /\ 2^TrueSize = N * BlockSize
  BY TrueSizes, SizesAssumption
<1>2. b \in 0 .. N - 1
  BY DEF TrueBlocks
<1>3. Place(p, b) = (p * N + b) * BlockSize
  BY DEF Place
<1>4. Offset(p, b) = p * 2^pieceSize + b * BlockSize
  BY DEF Offset
<1> HIDE DEF N
<1>5. p * N + b \in Nat
  BY <1>1, <1>2, Z3
<1>6. (p * N + b) * BlockSize \in Nat
  BY <1>1, <1>5, Z3
<1>7. (p * N + b) * BlockSize = p * (N * BlockSize) + b * BlockSize
  BY <1>1, <1>2, Z3
<1> QED
  BY <1>1, <1>3, <1>4, <1>6, <1>7

-----------------------------------------------------------------------------
(* The two threads against the tracker's protocol *)

\* Whatever the peers answer, and whenever, is a block of an advertised piece
\* when it is drained: also the late answer to the probe of CONFIRM mode.
LEMMA AskedIsIngestible ==
    ASSUME TrackerInv, CallsInv, swarmPc = "drain",
           NEW block \in asked[currentPeer]
    PROVE  block \in IngestibleBlocks /\ thePieceTrackerStatus = "OPERATIONAL"
<1>1. /\ pieceSize = TrueSize /\ blocksPerPiece = BlocksIn(TrueSize)
      /\ thePieceTrackerStatus = "OPERATIONAL"
      /\ block \in Answers \cup {Probe}
  BY DEF CallsInv
<1>2. maximumPieceCount \in Nat /\ 0 \in 0 .. maximumPieceCount - 1
  BY <1>1, SizesAssumption
     DEF TrackerInv, TrackerTypeOK, OperationalMatchesSizes
<1>3. Blocks = TrueBlocks /\ {1, BlockSize} \subseteq BlockLengths
  BY <1>1, DownloadAssumption DEF Blocks, TrueBlocks
<1>4. CASE block = Probe
  <2>1. /\ Probe.thePieceIndex = 0 /\ Probe.theDataLength = 1
        /\ Probe.theOffsetWithinPiece = 2^TrueSize - 1
    BY DEF Probe
  <2>2. Probe \in [thePieceIndex : 0 .. maximumPieceCount - 1,
                   theOffsetWithinPiece : 0 .. 2^pieceSize - 1,
                   theDataLength : BlockLengths]
    BY <1>1, <1>2, <1>3, ProbeFits DEF Probe
  <2> QED
    BY <1>1, <1>3, <1>4, <2>2, ProbeFits DEF IngestibleBlocks
<1>5. CASE block \in Answers
  <2>1. PICK p \in 0 .. maximumPieceCount - 1, b \in Blocks : block = Answer(p, b)
    BY <1>5 DEF Answers
  <2>2. block \in [thePieceIndex : 0 .. maximumPieceCount - 1,
                   theOffsetWithinPiece : 0 .. 2^pieceSize - 1,
                   theDataLength : BlockLengths]
    BY <1>1, <1>3, <2>1, AnswerFits DEF Answer
  <2>3. BlockNumber(block) \in Blocks
    BY <1>3, <2>1, AnswerFits
  <2> QED
    BY <1>1, <2>2, <2>3 DEF IngestibleBlocks
<1> QED
  BY <1>1, <1>4, <1>5

\* Every step of the threads is a legal call of the tracker, or none.
LEMMA StepUsesTracker ==
    ASSUME TrackerInv, CallsInv, [Next]_vars
    PROVE  [TrackerNext]_trackerVars
<1> USE DEF vars
<1>1. CASE PeerStep
  BY <1>1 DEF PeerStep, PeerIgnores
<1>2. CASE DiskWakeup
  BY <1>2, DownloadAssumption DEF DiskWakeup, TrackerNext
<1>3. CASE DiskStep
  <2>1. CASE DiskWait
    BY <2>1, DownloadAssumption DEF DiskWait, TrackerNext
  <2>2. ASSUME NEW p \in Indices, DiskConsume(p) PROVE TrackerNext
    BY <2>2, DownloadAssumption DEF DiskConsume, TrackerNext
  <2>3. CASE DiskConsumeNothing
    BY <2>3, DownloadAssumption DEF DiskConsumeNothing, TrackerNext
  <2>4. CASE FreePiece \/ \E seeks \in BOOLEAN, n \in 0 .. BlockSize : WriteBlock(seeks, n)
    BY <2>4 DEF FreePiece, WriteBlock
  <2> QED
    BY <1>3, <2>1, <2>2, <2>3, <2>4 DEF DiskStep
<1>4. CASE SwarmStep
  <2>1. ASSUME NEW late \in SUBSET Peers, ConfirmPieceSize(late)
        PROVE  TrackerNext
    BY <2>1, DownloadAssumption DEF ConfirmPieceSize, CallsInv, TrackerNext
  <2>2. ASSUME NEW q \in unvisited, NEW count \in 1 .. MaxPieces,
               VisitPeer(q, count)
        PROVE  TrackerNext
    BY <2>2 DEF VisitPeer, TrackerNext
  <2>3. ASSUME NEW block \in asked[currentPeer], DrainPiece(block)
        PROVE  TrackerNext
    BY <2>3, AskedIsIngestible DEF DrainPiece, TrackerNext
  <2>4. CASE \/ \E connected \in ConnectedSets : StartTurn(connected)
             \/ Complete \/ FirstWish \/ RenewWish \/ HoldWish
             \/ \E fulfilled \in BOOLEAN : CheckWish(fulfilled)
             \/ PeerDrained \/ EndTurn
    BY <2>4 DEF StartTurn, Complete, FirstWish, RenewWish, HoldWish, CheckWish,
                PeerDrained, EndTurn
  <2> QED
    BY <1>4, <2>1, <2>2, <2>3, <2>4 DEF SwarmStep
<1> QED
  BY <1>1, <1>2, <1>3, <1>4 DEF Next

\* So the tracker's invariant and its monotonicity are at hand in every step.
LEMMA TrackerHere ==
    ASSUME TrackerInv, CallsInv, [Next]_vars
    PROVE  /\ TrackerInv' /\ Indices \subseteq Indices'
           /\ maximumPieceCount <= maximumPieceCount'
           /\ \A p \in Indices : PieceGrows(thePieces[p], thePieces'[p])
BY StepUsesTracker, TrackerInvStep, GrowStep

-----------------------------------------------------------------------------
(* The swarm thread *)

\* A wish, and an answer, stay good when the piece count is raised.
LEMMA WishesStayGood ==
    ASSUME TrackerInv, TrackerInv', maximumPieceCount <= maximumPieceCount',
           blocksPerPiece' = blocksPerPiece
    PROVE  /\ Answers \subseteq Answers'
           /\ \A wish : WishOK(wish) => WishOK(wish)'
<1>0. maximumPieceCount \in Nat /\ maximumPieceCount' \in Nat
  <2>1. TrackerTypeOK /\ TrackerTypeOK'
    BY DEF TrackerInv
  <2>2. maximumPieceCount \in 0 .. MaxPieces /\ maximumPieceCount' \in 0 .. MaxPieces
    BY <2>1 DEF TrackerTypeOK
  <2> QED
    BY <2>2, SizesAssumption
<1>1. \A m, n \in Nat : m <= n => 0 .. m - 1 \subseteq 0 .. n - 1
  OBVIOUS
<1>2. 0 .. maximumPieceCount - 1 \subseteq 0 .. maximumPieceCount' - 1
  BY <1>0, <1>1, Zenon
<1> QED
  BY <1>2 DEF Answers, WishOK, Blocks

\* getWish names existing blocks of an advertised piece, or nothing.
LEMMA GetWishIsGood ==
    ASSUME TrackerInv, thePieceTrackerStatus = "OPERATIONAL"
    PROVE  WishOK(GetWish)
<1>1. WishNamesMissingBlocks
  BY WishFromInv
<1> QED
  BY <1>1 DEF WishNamesMissingBlocks, WishOK

\* The requests of a turn are for blocks that exist.
LEMMA RequestedAreAnswers ==
    ASSUME NEW wish, WishOK(wish), wish # NoWish, blocksPerPiece \in Nat
    PROVE  Requested(wish) \subseteq Answers
<1>1. /\ wish.wishedPieceIndex \in 0 .. maximumPieceCount - 1
      /\ wish.wishedBlockIndexStart \in Blocks
      /\ wish.wishedBlockIndexEnd \in Blocks
  BY DEF WishOK
<1>2. WishedBlocks(wish) \subseteq Blocks
  BY <1>1 DEF WishedBlocks, Blocks
<1> QED
  BY <1>1, <1>2 DEF Requested, Answers

\* Each call of the swarm thread leaves the wish and the requests good.
LEMMA CallsStep ==
    ASSUME TrackerInv, CallsInv, [Next]_vars
    PROVE  CallsInv'
<1>0. /\ TrackerInv' /\ maximumPieceCount <= maximumPieceCount'
      /\ blocksPerPiece \in Nat
  BY TrackerHere, SizesAssumption DEF TrackerInv, TrackerTypeOK
<1>1. ASSUME NEW late \in SUBSET Peers, ConfirmPieceSize(late)
      PROVE  CallsInv'
  <2>1. /\ swarmPc = "confirm" /\ swarmPc' = "start" /\ UNCHANGED turnVars
        /\ blocksPerPiece' = BlocksIn(TrueSize) /\ pieceSize' = TrueSize
        /\ asked' = [q \in Peers |-> IF q \in late THEN {Probe} ELSE {}]
    BY <1>1 DEF ConfirmPieceSize, SetPieceSize
  <2>2. Blocks = {}
    BY <2>1 DEF CallsInv, Blocks
  <2>3. WishOK(wishedBlock)'
    BY <2>1, <2>2 DEF CallsInv, WishOK, turnVars
  <2>4. asked' \in [Peers -> SUBSET (Answers' \cup {Probe})]
    BY <2>1
  <2> QED
    BY <2>1, <2>3, <2>4 DEF CallsInv, turnVars, SwarmPcs
<1>2. ASSUME NEW q \in unvisited, NEW count \in 1 .. MaxPieces,
             VisitPeer(q, count)
      PROVE  CallsInv'
  <2>1. /\ swarmPc = "peers" /\ swarmPc' = "drain" /\ currentPeer' = q
        /\ unvisited' = unvisited \ {q}
        /\ UNCHANGED <<wishedBlock, areWeWishing, wishTimed, blocksPerPiece, pieceSize>>
    BY <1>2 DEF VisitPeer, SetMaximumPieceCount
  <2>2. maximumPieceCount' # 0
    BY <1>2, SizesAssumption
       DEF VisitPeer, SetMaximumPieceCount, RaisesMaximum, TrackerInv, TrackerTypeOK
  <2>3. thePieceTrackerStatus' = "OPERATIONAL"
    BY <1>0, <2>1, <2>2, TrueSizes
       DEF TrackerInv, OperationalMatchesSizes, CallsInv
  <2>4. Answers \subseteq Answers' /\ \A wish : WishOK(wish) => WishOK(wish)'
    BY <1>0, <2>1, WishesStayGood
  <2>5. areWeWishing /\ wishedBlock # NoWish => Requested(wishedBlock) \subseteq Answers
    BY <1>0, RequestedAreAnswers DEF CallsInv
  <2>6. asked' \in [Peers -> SUBSET (Answers' \cup {Probe})]
    <3>1. asked \in [Peers -> SUBSET (Answers \cup {Probe})] /\ q \in Peers
      BY DEF CallsInv
    <3>2. asked' = IF areWeWishing /\ wishedBlock # NoWish
                   THEN [asked EXCEPT ![q] = @ \cup Requested(wishedBlock)]
                   ELSE asked
      BY <1>2 DEF VisitPeer
    <3> QED
      BY <2>4, <2>5, <3>1, <3>2
  <2>7. WishOK(wishedBlock)'
    BY <2>1, <2>4 DEF CallsInv, WishOK
  <2> QED
    BY <2>1, <2>3, <2>6, <2>7 DEF CallsInv, SwarmPcs
<1>3. ASSUME UNCHANGED sizeVars, UNCHANGED turnVars,
             swarmPc' \in {swarmPc} \cup {"peers"},
             asked' \in [Peers -> SUBSET (Answers \cup {Probe})],
             swarmPc # "confirm" \/ swarmPc' = swarmPc
      PROVE  CallsInv'
  <2>1. Answers' = Answers /\ WishOK(wishedBlock)' = WishOK(wishedBlock)
    BY <1>3 DEF sizeVars, turnVars, Answers, WishOK, Blocks
  <2> QED
    BY <1>3, <2>1 DEF CallsInv, sizeVars, turnVars, SwarmPcs
<1>4. ASSUME NEW block \in asked[currentPeer], DrainPiece(block)
      PROVE  CallsInv'
  <2>1. UNCHANGED sizeVars /\ UNCHANGED swarmVars
    BY <1>4 DEF DrainPiece, IngestSwarmBlock, IngestDropped, IngestStored, trackerVars
  <2>2. asked' \in [Peers -> SUBSET (Answers \cup {Probe})]
    BY <1>4 DEF DrainPiece, CallsInv
  <2> QED
    BY <1>3, <2>1, <2>2 DEF swarmVars
<1>5. CASE PeerStep
  <2>1. PICK q \in Peers : \E block \in asked[q] : PeerIgnores(q, block)
    BY <1>5 DEF PeerStep
  <2>2. /\ UNCHANGED trackerVars /\ UNCHANGED swarmVars
        /\ asked' \in [Peers -> SUBSET (Answers \cup {Probe})]
    BY <2>1 DEF PeerIgnores, CallsInv
  <2> QED
    BY <1>3, <2>2 DEF swarmVars, trackerVars
<1>6. CASE DiskStep \/ DiskWakeup \/ UNCHANGED vars
  <2>1. UNCHANGED sizeVars /\ UNCHANGED swarmVars /\ UNCHANGED asked
    BY <1>6 DEF DiskStep, DiskWait, DiskConsume, DiskConsumeNothing, WriteBlock,
                FreePiece, DiskWakeup, ConsumeWait, ConsumePiece, ConsumeNothing,
                SpuriousWakeup, vars, trackerVars
  <2> QED
    BY <1>3, <2>1 DEF swarmVars, CallsInv
<1>7. CASE PeerDrained \/ EndTurn
  <2> SUFFICES ASSUME UNCHANGED <<turnVars, trackerVars, asked>>,
                      swarmPc \in {"drain", "peers"}, swarmPc' \in {"peers", "start"}
               PROVE  CallsInv'
    BY <1>7 DEF PeerDrained, EndTurn
  <2>1. Answers' = Answers /\ WishOK(wishedBlock)' = WishOK(wishedBlock)
    BY DEF trackerVars, sizeVars, turnVars, Answers, WishOK, Blocks
  <2> QED
    BY <2>1 DEF CallsInv, trackerVars, sizeVars, turnVars, SwarmPcs
<1>8. CASE \/ \E connected \in ConnectedSets : StartTurn(connected)
           \/ Complete \/ FirstWish \/ RenewWish \/ HoldWish
           \/ \E fulfilled \in BOOLEAN : CheckWish(fulfilled)
  <2>1. UNCHANGED trackerVars /\ UNCHANGED asked /\ UNCHANGED currentPeer
    BY <1>8 DEF StartTurn, Complete, FirstWish, RenewWish, HoldWish, CheckWish,
                turnVars
  <2>2. Answers' = Answers /\ \A wish : WishOK(wish)' = WishOK(wish)
    BY <2>1 DEF trackerVars, sizeVars, Answers, WishOK, Blocks
  <2>3. \/ wishedBlock' = wishedBlock \/ wishedBlock' = NoWish
        \/ swarmPc = "wish" /\ wishedBlock' = GetWish
    BY <1>8 DEF StartTurn, Complete, FirstWish, RenewWish, HoldWish, CheckWish,
                turnVars
  <2>4. WishOK(wishedBlock')
    BY <2>3, GetWishIsGood DEF CallsInv, WishOK
  <2>5. WishOK(wishedBlock)'
    BY <2>1, <2>4 DEF WishOK, Blocks, trackerVars, sizeVars
  <2>6. /\ swarmPc # "confirm" /\ swarmPc' \in SwarmPcs \ {"confirm", "drain"}
        /\ swarmPc' \in {"wish", "check"} => thePieceTrackerStatus = "OPERATIONAL"
        /\ areWeWishing' \in BOOLEAN /\ wishTimed' \in BOOLEAN
        /\ unvisited' \subseteq Peers
    BY <1>8, DownloadAssumption
       DEF StartTurn, Complete, FirstWish, RenewWish, HoldWish, CheckWish,
           turnVars, SwarmPcs, CallsInv
  <2> QED
    BY <2>1, <2>2, <2>5, <2>6 DEF CallsInv, trackerVars, sizeVars
<1> QED
  BY <1>1, <1>2, <1>4, <1>5, <1>6, <1>7, <1>8 DEF Next, SwarmStep

-----------------------------------------------------------------------------
(* The disk thread *)

\* A used piece has all its blocks, so the disk thread's loop runs over them.
LEMMA UsedIsWhole ==
    ASSUME TrackerInv, CallsInv, NEW p \in Indices,
           thePieces[p].thePieceStatus = "USED"
    PROVE  /\ thePieces[p].filledBlocks = BlocksIn(TrueSize)
           /\ pieceSize = TrueSize /\ Blocks = TrueBlocks
<1>1. elementCount \in Nat /\ elementCount # 0
  BY DEF TrackerInv, TrackerTypeOK, Indices
<1>2. blocksPerPiece # 0
  BY <1>1 DEF TrackerInv, OperationalMatchesSizes
<1>3. pieceSize = TrueSize /\ blocksPerPiece = BlocksIn(TrueSize)
  BY <1>2 DEF CallsInv
<1>4. thePieces[p].theBlockFillment = Blocks
  BY DEF TrackerInv, StatusMatchesFillment
<1>5. Blocks = TrueBlocks
  BY <1>3 DEF Blocks, TrueBlocks
<1>6. Cardinality(TrueBlocks) = BlocksIn(TrueSize)
  <2>1. BlocksIn(TrueSize) \in Nat
    BY TrueSizes
  <2> HIDE DEF TrackerInv
  <2> QED
    BY <2>1, FS_Interval DEF TrueBlocks
<1> QED
  BY <1>3, <1>4, <1>5, <1>6 DEF TrackerInv, CountersAgree

\* Ingesting leaves pieces that are no longer open as they are, and uses none.
LEMMA IngestKeepsUsed ==
    ASSUME TrackerInv, thePieceTrackerStatus = "OPERATIONAL",
           NEW block \in IngestibleBlocks, IngestSwarmBlock(block)
    PROVE  /\ \A p \in Indices : p \in Indices' /\
                  (~Open(thePieces[p]) => thePieces'[p] = thePieces[p])
           /\ \A p \in Indices' : thePieces'[p].thePieceStatus = "USED" =>
                  p \in Indices /\ thePieces[p].thePieceStatus = "USED"
           /\ waiting' \cup woken' = waiting \cup woken
           /\ DiskIO \notin waiting \cap woken => DiskIO \notin waiting' \cap woken'
<1>1. CASE IngestDropped(block)
  BY <1>1 DEF IngestDropped, trackerVars, pieceVars, condVars, Indices
<1>2. CASE IngestStored(block)
  <2> DEFINE q == block.thePieceIndex
             filled == Fill(PieceAt(q), BlockNumber(block))
  <2>1. /\ Indices \subseteq Indices'
        /\ thePieces' = [p \in Indices' |-> IF p = q THEN filled ELSE PieceAt(p)]
        /\ filled.thePieceStatus \in {"FILLING", "FULL"}
        /\ Open(PieceAt(q))
    BY <1>2, IngestStoredEffect
  <2>2. \A p \in Indices : ~Open(thePieces[p]) => thePieces'[p] = thePieces[p]
    BY <2>1 DEF PieceAt
  <2>3. \A p \in Indices' : thePieces'[p].thePieceStatus = "USED" =>
            p \in Indices /\ thePieces[p].thePieceStatus = "USED"
    BY <2>1 DEF PieceAt, NewPiece
  <2>4. /\ waiting' \cup woken' = waiting \cup woken
        /\ DiskIO \notin waiting \cap woken => DiskIO \notin waiting' \cap woken'
    BY <1>2 DEF IngestStored, Broadcast, condVars
  <2> QED
    BY <2>1, <2>2, <2>3, <2>4
<1> QED
  BY <1>1, <1>2 DEF IngestSwarmBlock

\* What every step but the disk thread's own leaves to the disk thread.
LEMMA OthersKeepUsed ==
    ASSUME TrackerInv, CallsInv, DiskIO \notin waiting \cap woken,
           SwarmStep \/ PeerStep \/ DiskWakeup \/ UNCHANGED vars
    PROVE  /\ UNCHANGED diskVars
           /\ \A p \in Indices : p \in Indices' /\
                  (~Open(thePieces[p]) => thePieces'[p] = thePieces[p])
           /\ \A p \in Indices' : thePieces'[p].thePieceStatus = "USED" =>
                  p \in Indices /\ thePieces[p].thePieceStatus = "USED"
           /\ waiting' \cup woken' = waiting \cup woken
           /\ DiskIO \notin waiting' \cap woken'
<1> DEFINE Kept ==
           /\ \A p \in Indices : p \in Indices' /\
                  (~Open(thePieces[p]) => thePieces'[p] = thePieces[p])
           /\ \A p \in Indices' : thePieces'[p].thePieceStatus = "USED" =>
                  p \in Indices /\ thePieces[p].thePieceStatus = "USED"
           /\ waiting' \cup woken' = waiting \cup woken
           /\ DiskIO \notin waiting' \cap woken'
<1>1. UNCHANGED diskVars
  BY DEF SwarmStep, ConfirmPieceSize, StartTurn, Complete, FirstWish, RenewWish,
         HoldWish, CheckWish, VisitPeer, DrainPiece, PeerDrained, EndTurn,
         PeerStep, PeerIgnores, DiskWakeup, vars
<1>2. ASSUME UNCHANGED pieceVars, UNCHANGED condVars PROVE Kept
  BY <1>2 DEF pieceVars, condVars, Indices
<1>3. ASSUME NEW block \in asked[currentPeer], DrainPiece(block) PROVE Kept
  <2>1. block \in IngestibleBlocks /\ thePieceTrackerStatus = "OPERATIONAL"
    BY <1>3, AskedIsIngestible DEF DrainPiece
  <2> QED
    BY <1>3, <2>1, IngestKeepsUsed DEF DrainPiece
<1>4. CASE DiskWakeup
  <2>1. UNCHANGED pieceVars /\ waiting' \cup woken' = waiting \cup woken
        /\ waiting' \cap woken' \subseteq waiting \cap woken
    BY <1>4 DEF DiskWakeup, SpuriousWakeup
  <2> QED
    BY <1>1, <2>1 DEF pieceVars, Indices
<1>5. CASE PeerStep \/ UNCHANGED vars
  BY <1>2, <1>5 DEF PeerStep, PeerIgnores, vars, trackerVars
<1>6. CASE SwarmStep /\ ~\E block \in asked[currentPeer] : DrainPiece(block)
  BY <1>2, <1>6
     DEF SwarmStep, ConfirmPieceSize, SetPieceSize, StartTurn, Complete,
         FirstWish, RenewWish, HoldWish, CheckWish, VisitPeer,
         SetMaximumPieceCount, PeerDrained, EndTurn, trackerVars
<1> QED
  BY <1>1, <1>3, <1>4, <1>5, <1>6

\* The disk thread takes a piece that was FULL, so one that it never held.
LEMMA ConsumeEffect ==
    ASSUME TrackerInv, NEW p \in Indices, DiskConsume(p)
    PROVE  /\ thePieces[p].thePieceStatus = "FULL"
           /\ Indices' = Indices /\ p \in 0 .. MaxPieces - 1
           /\ thePieces' = [thePieces EXCEPT ![p].thePieceStatus = "USED"]
           /\ exported' = p /\ blockIterator' = 0
           /\ UNCHANGED <<fileVars, freed, swarmVars, sizeVars>>
           /\ DiskIO \in woken /\ woken' = woken \ {DiskIO} /\ waiting' = waiting
<1>1. /\ elementCount \in Nat /\ thePieces \in [Indices -> Piece]
      /\ elementCount <= maximumPieceCount /\ maximumPieceCount \in 0 .. MaxPieces
      /\ MaxPieces \in Nat
  BY SizesAssumption DEF TrackerInv, TrackerTypeOK, OperationalMatchesSizes
<1>2. PiecesIn({"FULL"}) \subseteq Nat /\ PiecesIn({"FULL"}) # {}
  BY <1>1 DEF PiecesIn, Indices, DiskConsume, ConsumePiece
<1>3. p \in PiecesIn({"FULL"})
  BY <1>2, LeastExists DEF DiskConsume, ConsumePiece
<1>4. p \in 0 .. MaxPieces - 1
  BY <1>1 DEF Indices
<1> QED
  BY <1>3, <1>4 DEF DiskConsume, ConsumePiece, PiecesIn, Indices

\* The disk thread holds one used piece, and the others used are freed.
LEMMA DiskInvStep ==
    ASSUME TrackerInv, CallsInv, DiskInv, [Next]_vars
    PROVE  DiskInv'
<1> USE DEF DiskInv
<1>0. thePieces \in [Indices -> Piece] /\ BlocksIn(TrueSize) \in Nat
  BY TrueSizes DEF TrackerInv, TrackerTypeOK
<1>1. CASE SwarmStep \/ PeerStep \/ DiskWakeup \/ UNCHANGED vars
  <2>1. /\ UNCHANGED <<exported, blockIterator, freed>>
        /\ \A p \in Indices : p \in Indices' /\
               (~Open(thePieces[p]) => thePieces'[p] = thePieces[p])
        /\ \A p \in Indices' : thePieces'[p].thePieceStatus = "USED" =>
               p \in Indices /\ thePieces[p].thePieceStatus = "USED"
        /\ waiting' \cup woken' = waiting \cup woken
        /\ DiskIO \notin waiting' \cap woken'
    BY <1>1, OthersKeepUsed DEF diskVars
  <2>2. \A p \in Indices' : thePieces'[p].thePieceStatus = "USED"
                                <=> p = exported' \/ p \in freed'
    <3>1. \A p \in Indices' : p # -1
      BY DEF Indices
    <3> QED
      BY <2>1, <3>1 DEF Open
  <2> QED
    BY <2>1, <2>2
<1>2. ASSUME NEW p \in Indices, DiskConsume(p) PROVE DiskInv'
  <2>1. /\ thePieces[p].thePieceStatus = "FULL" /\ Indices' = Indices
        /\ thePieces' = [thePieces EXCEPT ![p].thePieceStatus = "USED"]
        /\ exported' = p /\ blockIterator' = 0 /\ freed' = freed
        /\ DiskIO \in woken /\ woken' = woken \ {DiskIO} /\ waiting' = waiting
    BY <1>2, ConsumeEffect
  <2>2. \A q \in Indices : thePieces'[q].thePieceStatus =
                               IF q = p THEN "USED" ELSE thePieces[q].thePieceStatus
    BY <1>0, <2>1 DEF Piece
  <2>3. exported = -1 /\ p \notin freed /\ \A q \in Indices : q # -1
    BY <2>1 DEF TrackerInv, TrackerTypeOK, Indices
  <2> QED
    BY <1>0, <2>1, <2>2, <2>3
<1>3. CASE DiskWait \/ DiskConsumeNothing
  BY <1>3 DEF DiskWait, DiskConsumeNothing, ConsumeWait, ConsumeNothing, diskVars,
              pieceVars, Indices
<1>4. ASSUME NEW seeks \in BOOLEAN, NEW n \in 0 .. BlockSize, WriteBlock(seeks, n)
      PROVE  DiskInv'
  <2>1. /\ exported \in Indices /\ thePieces[exported].thePieceStatus = "USED"
        /\ UNCHANGED <<exported, freed, trackerVars>>
        /\ blockIterator < thePieces[exported].filledBlocks
        /\ blockIterator' = blockIterator + 1
    BY <1>4 DEF WriteBlock, MoreBlocks
  <2>2. blockIterator < BlocksIn(TrueSize)
    BY <2>1, UsedIsWhole
  <2>3. blockIterator + 1 \in 0 .. BlocksIn(TrueSize)
    BY <1>0, <2>2
  <2> QED
    BY <2>1, <2>3 DEF trackerVars, pieceVars, condVars, Indices
<1>5. CASE FreePiece
  <2>1. -1 \notin Indices
    BY DEF TrackerInv, TrackerTypeOK, Indices
  <2> QED
    BY <1>5, <2>1 DEF FreePiece, trackerVars, pieceVars, condVars, Indices
<1> QED
  BY <1>1, <1>2, <1>3, <1>4, <1>5 DEF Next, DiskStep

\* A step that writes nothing keeps the file, as long as the blocks that went
\* through the disk thread's loop are the same.
LEMMA DumpUntouched ==
    ASSUME DumpInv, UNCHANGED fileVars,
           \A p \in 0 .. MaxPieces - 1, b \in TrueBlocks : Done(p, b)' <=> Done(p, b)
    PROVE  DumpInv'
BY DEF DumpInv, ByteOK, fileVars

\* A write changes the bytes of its block, which were not there, or is noted as
\* one that missed them.
LEMMA WriteEffect ==
    ASSUME TrackerInv, CallsInv, DiskInv, DumpInv,
           NEW seeks \in BOOLEAN, NEW n \in 0 .. BlockSize, WriteBlock(seeks, n)
    PROVE  DumpInv'
<1> DEFINE e == exported
           i == blockIterator
<1>1. /\ e \in Indices /\ thePieces[e].thePieceStatus = "USED" /\ e \notin freed
      /\ exported' = e /\ freed' = freed /\ blockIterator' = i + 1
      /\ i < thePieces[e].filledBlocks /\ i \in Nat
  BY TrueSizes DEF DiskInv, WriteBlock, MoreBlocks
<1>2. pieceSize = TrueSize /\ thePieces[e].filledBlocks = BlocksIn(TrueSize)
  BY <1>1, UsedIsWhole
<1>3. i \in TrueBlocks
  BY <1>1, <1>2, TrueSizes DEF TrueBlocks
<1>4. e \in 0 .. MaxPieces - 1
  BY <1>1, SizesAssumption
     DEF TrackerInv, TrackerTypeOK, OperationalMatchesSizes, Indices
<1>5. Place(e, i) \in Nat /\ Offset(e, i) = Place(e, i)
  BY <1>2, <1>3, <1>4, PlaceInFile
<1>6. \A p \in 0 .. MaxPieces - 1, b \in TrueBlocks :
          /\ Done(p, b)' <=> Done(p, b) \/ (p = e /\ b = i)
          /\ ~Done(e, i)
  BY <1>1 DEF Done, TrueBlocks
<1>7. PICK start, written :
          /\ start = IF seeks THEN Place(e, i) ELSE fileOffset
          /\ written = start .. start + n - 1
          /\ fileOffset' = start + n
          /\ torrent_dump' = [o \in DOMAIN torrent_dump \cup written |->
                 IF o \in written THEN Byte(e, i, o - start) ELSE torrent_dump[o]]
          /\ failedWrites' = IF start = Place(e, i) /\ n = BlockSize
                 THEN failedWrites ELSE failedWrites \cup {<<e, i>>}
          /\ stray' = IF start = Place(e, i) THEN stray \ written
                                             ELSE stray \cup written
  BY <1>5 DEF WriteBlock
<1> HIDE DEF e, i
<1>8. start \in Nat /\ n \in Nat /\ n <= BlockSize /\ BlockSize \in Nat \ {0}
  BY <1>5, <1>7, SizesAssumption DEF DumpInv
<1>9. fileOffset' \in Nat
  BY <1>7, <1>8
<1>10. ASSUME NEW p \in 0 .. MaxPieces - 1, NEW b \in TrueBlocks,
              NEW k \in 0 .. BlockSize - 1
       PROVE  ByteOK(p, b, k)'
  <2> DEFINE o == Place(p, b) + k
  <2>1. Place(p, b) \in Nat /\ k \in Nat /\ o \in Nat
    BY <1>8, PlaceInFile
  <2>2. ByteOK(p, b, k)
    BY DEF DumpInv
  <2>3. /\ Done(p, b)' <=> Done(p, b) \/ (p = e /\ b = i)
        /\ ~Done(e, i)
    BY <1>6
  <2> SUFFICES ASSUME o \notin stray'
               PROVE  /\ o \in DOMAIN torrent_dump' =>
                             Done(p, b)' /\ torrent_dump'[o] = Byte(p, b, k)
                      /\ Done(p, b)' /\ <<p, b>> \notin failedWrites' =>
                             o \in DOMAIN torrent_dump'
    BY DEF ByteOK
  <2>4. CASE o \in written
    <3>1. start = Place(e, i)
      BY <1>7, <2>4
    <3>2. o - start \in 0 .. BlockSize - 1 /\ Place(e, i) + (o - start) = o
      <4>1. o \in start .. start + n - 1
        BY <1>7, <2>4
      <4> HIDE DEF o
      <4>2. o - start \in 0 .. n - 1 /\ start + (o - start) = o
        BY <1>8, <2>1, <4>1
      <4> QED
        BY <1>8, <3>1, <4>2
    <3>3. PICK l \in 0 .. BlockSize - 1 : l = o - start /\ Place(e, i) + l = o
      BY <3>2
    <3>4. p = e /\ b = i /\ k = l
      <4>1. p \in Nat /\ e \in Nat
        BY <1>4
      <4>2. Place(p, b) + k = Place(e, i) + l
        BY <3>3
      <4> QED
        BY <1>3, <4>1, <4>2, PlacesAreDistinct
    <3>5. o \in DOMAIN torrent_dump' /\ torrent_dump'[o] = Byte(e, i, o - start)
      BY <1>7, <2>4
    <3> QED
      BY <2>3, <3>3, <3>4, <3>5
  <2>5. CASE o \notin written
    <3>1. /\ o \in DOMAIN torrent_dump' <=> o \in DOMAIN torrent_dump
          /\ o \in DOMAIN torrent_dump => torrent_dump'[o] = torrent_dump[o]
          /\ o \notin stray
      BY <1>7, <2>5
    <3>2. /\ o \in DOMAIN torrent_dump =>
                 Done(p, b) /\ torrent_dump[o] = Byte(p, b, k)
          /\ Done(p, b) /\ <<p, b>> \notin failedWrites =>
                 o \in DOMAIN torrent_dump
      BY <2>2, <3>1 DEF ByteOK
    <3>3. <<p, b>> \notin failedWrites' => <<p, b>> \notin failedWrites
      BY <1>7
    <3>4. p = e /\ b = i => <<p, b>> \in failedWrites'
      <4>1. SUFFICES ASSUME p = e, b = i, start = Place(e, i), n = BlockSize
                     PROVE  FALSE
        BY <1>7
      <4>2. o = start + k /\ k <= n - 1
        BY <1>8, <4>1
      <4>3. o \notin start .. start + n - 1
        BY <1>7, <2>5
      <4> HIDE DEF o
      <4> QED
        BY <1>8, <2>1, <4>2, <4>3
    <3> QED
      BY <2>3, <3>1, <3>2, <3>3, <3>4
  <2> QED
    BY <2>4, <2>5
<1> QED
  BY <1>9, <1>10 DEF DumpInv

\* Every step leaves in the file what it should hold.
LEMMA DumpInvStep ==
    ASSUME TrackerInv, CallsInv, DiskInv, DumpInv, [Next]_vars
    PROVE  DumpInv'
<1>1. CASE SwarmStep \/ PeerStep \/ DiskWakeup \/ UNCHANGED vars
  <2>1. UNCHANGED diskVars
    BY <1>1, OthersKeepUsed DEF DiskInv
  <2> QED
    BY <2>1, DumpUntouched DEF diskVars, Done
<1>2. ASSUME NEW p \in Indices, DiskConsume(p) PROVE DumpInv'
  <2>1. /\ thePieces[p].thePieceStatus = "FULL"
        /\ exported' = p /\ blockIterator' = 0 /\ freed' = freed
        /\ UNCHANGED fileVars /\ DiskIO \in woken
    BY <1>2, ConsumeEffect
  <2>2. exported = -1 /\ p \notin freed
    BY <2>1 DEF DiskInv
  <2>3. \A b \in TrueBlocks : ~(b < 0)
    BY TrueSizes DEF TrueBlocks
  <2>4. \A q \in 0 .. MaxPieces - 1, b \in TrueBlocks : Done(q, b)' <=> Done(q, b)
    BY <2>1, <2>2, <2>3 DEF Done
  <2> QED
    BY <2>1, <2>4, DumpUntouched
<1>3. CASE DiskWait \/ DiskConsumeNothing
  BY <1>3, DumpUntouched DEF DiskWait, DiskConsumeNothing, diskVars, Done
<1>4. ASSUME NEW seeks \in BOOLEAN, NEW n \in 0 .. BlockSize, WriteBlock(seeks, n)
      PROVE  DumpInv'
  BY <1>4, WriteEffect
<1>5. CASE FreePiece
  <2>1. /\ exported \in Indices /\ thePieces[exported].thePieceStatus = "USED"
        /\ exported \notin freed
        /\ ~(blockIterator < thePieces[exported].filledBlocks)
        /\ exported' = -1 /\ freed' = freed \cup {exported}
        /\ UNCHANGED <<blockIterator, fileVars>>
    BY <1>5 DEF FreePiece, MoreBlocks, DiskInv
  <2>2. thePieces[exported].filledBlocks = BlocksIn(TrueSize)
    BY <2>1, UsedIsWhole
  <2>3. \A b \in TrueBlocks : b < blockIterator
    BY <2>1, <2>2, TrueSizes DEF TrueBlocks, DiskInv
  <2>4. \A q \in 0 .. MaxPieces - 1, b \in TrueBlocks : Done(q, b)' <=> Done(q, b)
    BY <2>1, <2>3 DEF Done
  <2> QED
    BY <2>1, <2>4, DumpUntouched
<1> QED
  BY <1>1, <1>2, <1>3, <1>4, <1>5 DEF Next, DiskStep

-----------------------------------------------------------------------------
(* Completion *)

\* usedPieces reaches the number of pieces when all of them are used.
LEMMA AllUsed ==
    ASSUME TrackerInv, AreAllPiecesUsed
    PROVE  \A p \in 0 .. maximumPieceCount - 1 :
               p \in Indices /\ thePieces[p].thePieceStatus = "USED"
<1> DEFINE all == 0 .. maximumPieceCount - 1
           used == PiecesIn({"USED"})
<1>1. /\ maximumPieceCount \in Nat /\ elementCount \in Nat
      /\ elementCount <= maximumPieceCount
      /\ Cardinality(used) = maximumPieceCount
  BY SizesAssumption DEF TrackerInv, TrackerTypeOK, OperationalMatchesSizes,
                         CountersAgree, AreAllPiecesUsed
<1>2. IsFiniteSet(all) /\ Cardinality(all) = maximumPieceCount
  BY <1>1, FS_Interval
<1>3. used \subseteq all
  BY <1>1 DEF PiecesIn, Indices
<1>4. used = all
  BY <1>1, <1>2, <1>3, FS_Subset
<1> QED
  BY <1>4 DEF PiecesIn

\* What COMPLETE mode counted on stays so.
LEMMA CompleteStep ==
    ASSUME TrackerInv, CallsInv, CompleteInv, [Next]_vars
    PROVE  CompleteInv'
<1>1. CASE Complete
  <2>1. /\ \A p \in 0 .. maximumPieceCount - 1 :
               p \in Indices /\ thePieces[p].thePieceStatus = "USED"
        /\ UNCHANGED trackerVars
    BY <1>1, AllUsed DEF Complete
  <2> QED
    BY <2>1 DEF CompleteInv, trackerVars, sizeVars, pieceVars, Indices
<1>2. ASSUME ~Complete, swarmPc' = "complete" PROVE CompleteInv'
  <2>1. swarmPc = "complete" /\ maximumPieceCount' = maximumPieceCount
    BY <1>2 DEF Next, SwarmStep, ConfirmPieceSize, StartTurn, FirstWish, RenewWish,
           HoldWish, CheckWish, VisitPeer, DrainPiece, PeerDrained, EndTurn,
           PeerStep, PeerIgnores, DiskWakeup, SpuriousWakeup, DiskStep, DiskWait,
           ConsumeWait, DiskConsume, ConsumePiece, DiskConsumeNothing,
           ConsumeNothing, WriteBlock, FreePiece, IngestSwarmBlock,
           IngestDropped, IngestStored, trackerVars, swarmVars, sizeVars, vars
  <2>2. /\ TrackerInv' /\ Indices \subseteq Indices'
        /\ \A p \in Indices : PieceGrows(thePieces[p], thePieces'[p])
    BY TrackerHere
  <2>3. ASSUME NEW p \in Indices, thePieces[p].thePieceStatus = "USED"
        PROVE  thePieces'[p].thePieceStatus = "USED"
    <3>1. thePieces'[p].thePieceStatus \in PieceStatus
      BY <2>2 DEF TrackerInv, TrackerTypeOK, Piece
    <3>2. PieceGrows(thePieces[p], thePieces'[p])
      BY <2>2
    <3> QED
      BY <2>3, <3>1, <3>2 DEF PieceGrows, Rank, PieceStatus
  <2> QED
    BY <2>1, <2>2, <2>3 DEF CompleteInv
<1> QED
  BY <1>1, <1>2 DEF CompleteInv

-----------------------------------------------------------------------------
(* The theorems *)

\* The invariant holds when the download starts.
LEMMA DownloadInvInit == Init => DownloadInv
<1> SUFFICES ASSUME Init PROVE DownloadInv
  OBVIOUS
<1> USE DEF Init
<1>1. TrackerInv
  BY TrackerInvInit
<1>2. Indices = {}
  BY DEF TrackerInit, Indices
<1>3. CallsInv
  BY DEF TrackerInit, CallsInv, SwarmPcs, WishOK
<1>4. DiskInv
  BY <1>2, TrueSizes DEF TrackerInit, DiskInv
<1>5. DumpInv
  BY DEF DumpInv, ByteOK, Done
<1>6. CompleteInv
  BY DEF CompleteInv
<1> QED
  BY <1>1, <1>3, <1>4, <1>5, <1>6 DEF DownloadInv

\* Every step of either watchdog and of the peers keeps it.
LEMMA DownloadInvStep == DownloadInv /\ [Next]_vars => DownloadInv'
<1> SUFFICES ASSUME DownloadInv, [Next]_vars PROVE DownloadInv'
  OBVIOUS
<1>1. TrackerInv /\ CallsInv /\ DiskInv /\ DumpInv /\ CompleteInv
  BY DEF DownloadInv
<1>2. TrackerInv' /\ CallsInv' /\ DiskInv'
  BY <1>1, TrackerHere, CallsStep, DiskInvStep
<1>3. DumpInv' /\ CompleteInv'
  BY <1>1, DumpInvStep, CompleteStep
<1> QED
  BY <1>2, <1>3 DEF DownloadInv

\* The inductive invariant holds in every reachable state of the download.
THEOREM DownloadInvariant == Spec => []DownloadInv
BY DownloadInvInit, DownloadInvStep, PTL DEF Spec

\* The two watchdogs respect the tracker's protocol, also with late answers,
\* wishes kept over turns and the probes of CONFIRM mode: the download
\* implements the tracker's specification, and all that is proved of it holds.
THEOREM DownloadImplementsTracker == Spec => UsesTrackerProperly
<1>1. Init => TrackerInit
  BY DEF Init
<1>2. DownloadInv /\ [Next]_vars => [TrackerNext]_trackerVars
  BY StepUsesTracker DEF DownloadInv
<1> QED
  BY <1>1, <1>2, DownloadInvariant, PTL DEF Spec, UsesTrackerProperly, TrackerSpec

\* The variables of both threads keep their types.
THEOREM DownloadTypes == Spec => []DownloadTypeOK
<1>1. DownloadInv => DownloadTypeOK
  <2> SUFFICES ASSUME DownloadInv PROVE DownloadTypeOK
    OBVIOUS
  <2>1. /\ TrackerTypeOK /\ asked \in [Peers -> SUBSET (Answers \cup {Probe})]
        /\ maximumPieceCount \in Nat
    BY SizesAssumption DEF DownloadInv, TrackerInv, CallsInv, TrackerTypeOK
  <2>2. Answers \subseteq SwarmBlock
    <3>1. \A b \in Blocks : b * BlockSize \in Nat
      BY <2>1, TrueSizes, SizesAssumption DEF Blocks, TrackerTypeOK
    <3> QED
      BY <2>1, <3>1, TrueSizes DEF Answers, Answer, SwarmBlock
  <2>3. Probe \in SwarmBlock
    BY ProbeFits DEF Probe, SwarmBlock
  <2>4. asked \in [Peers -> SUBSET SwarmBlock]
    BY <2>1, <2>2, <2>3
  <2>5. fileOffset \in Nat
    BY DEF DownloadInv, DumpInv
  <2> QED
    BY <2>1, <2>4, <2>5 DEF DownloadInv, CallsInv, DiskInv, DownloadTypeOK
<1> QED
  BY <1>1, DownloadInvariant, PTL

\* Whatever the order of the threads, and whichever seeks and writes fail: each
\* byte of the file is that of the used block it belongs to, unless a block that
\* missed its place went there, and what is missing of a used block is missing
\* because its write failed or the disk thread has still to do it.
THEOREM DownloadUsedPiecesOnDisk == Spec => []UsedPiecesOnDisk
<1>1. DownloadInv => UsedPiecesOnDisk
  <2> SUFFICES ASSUME DownloadInv, NEW p \in Indices, NEW b \in Blocks,
                      NEW k \in 0 .. BlockSize - 1,
                      Offset(p, b) + k \notin stray
               PROVE  LET o == Offset(p, b) + k
                          done == thePieces[p].thePieceStatus = "USED"
                                      /\ (p = exported => b < blockIterator)
                      IN  /\ o \in DOMAIN torrent_dump =>
                                 done /\ torrent_dump[o] = Byte(p, b, k)
                          /\ done /\ <<p, b>> \notin failedWrites =>
                                 o \in DOMAIN torrent_dump
    BY DEF UsedPiecesOnDisk
  <2>1. TrackerInv /\ CallsInv /\ DiskInv /\ DumpInv
    BY DEF DownloadInv
  <2>2. swarmPc # "confirm"
    BY <2>1 DEF CallsInv, Blocks
  <2>3. pieceSize = TrueSize /\ Blocks = TrueBlocks
    BY <2>1, <2>2 DEF CallsInv, Blocks, TrueBlocks
  <2>4. p \in 0 .. MaxPieces - 1
    BY <2>1, SizesAssumption
       DEF TrackerInv, TrackerTypeOK, OperationalMatchesSizes, Indices
  <2>5. Offset(p, b) = Place(p, b)
    BY <2>3, <2>4, PlaceInFile
  <2>6. Done(p, b) <=> /\ thePieces[p].thePieceStatus = "USED"
                       /\ p = exported => b < blockIterator
    BY <2>1 DEF DiskInv, Done
  <2>7. ByteOK(p, b, k)
    BY <2>1, <2>3, <2>4 DEF DumpInv
  <2> QED
    BY <2>5, <2>6, <2>7 DEF ByteOK
<1> QED
  BY <1>1, DownloadInvariant, PTL

\* COMPLETE mode means that every advertised piece was handed to the disk
\* thread, and that it is done with all but the one it holds.
THEOREM DownloadCompleteMeansExported == Spec => []CompleteMeansExported
<1>1. DownloadInv => CompleteMeansExported
  BY DEF DownloadInv, DiskInv, CompleteInv, CompleteMeansExported
<1> QED
  BY <1>1, DownloadInvariant, PTL

\* The piece that the disk thread reads without the mutex does not change under
\* it, and no piece is handed out twice.
THEOREM DownloadExportedPieceIsStable == Spec => ExportedPieceIsStable
<1> DEFINE Stable == /\ exported # -1 /\ exported' # -1 =>
                            thePieces'[exported] = thePieces[exported]
                     /\ exported' # exported /\ exported' # -1 =>
                            exported' \notin freed
<1>1. DownloadInv /\ [Next]_vars => [Stable]_vars
  <2> SUFFICES ASSUME DownloadInv, [Next]_vars PROVE Stable
    OBVIOUS
  <2>0. TrackerInv /\ CallsInv /\ DiskInv
    BY DEF DownloadInv
  <2>1. CASE SwarmStep \/ PeerStep \/ DiskWakeup \/ UNCHANGED vars
    <3>1. /\ exported' = exported
          /\ \A p \in Indices : ~Open(thePieces[p]) => thePieces'[p] = thePieces[p]
      BY <2>0, <2>1, OthersKeepUsed DEF DiskInv, diskVars
    <3> QED
      BY <2>0, <3>1 DEF DiskInv, Open
  <2>2. ASSUME NEW p \in Indices, DiskConsume(p) PROVE Stable
    BY <2>0, <2>2, ConsumeEffect DEF DiskInv
  <2>3. CASE \/ DiskWait \/ DiskConsumeNothing \/ FreePiece
             \/ \E seeks \in BOOLEAN, n \in 0 .. BlockSize : WriteBlock(seeks, n)
    BY <2>3 DEF DiskWait, DiskConsumeNothing, FreePiece, WriteBlock, ConsumeWait,
                ConsumeNothing, diskVars, trackerVars, pieceVars
  <2> QED
    BY <2>1, <2>2, <2>3 DEF Next, DiskStep
<1> QED
  BY <1>1, DownloadInvariant, PTL DEF Spec, ExportedPieceIsStable
=============================================================================
