CONSTANTS
    MaxPieces = 3
    PieceSizes = {1, 2, 3}
    PIECE_MAX_BLOCK_SIZE = 1
    BlockLengths = {1, 2}
    Exporters = {d1, d2}
    Streams <- Conversations
SPECIFICATION MonitorsSpec
INVARIANTS
    TrackerTypeOK
    MessagesTypeOK
    CountersAgree
    StatusMatchesFillment
    OperationalMatchesSizes
    WishNamesMissingBlocks
    RecordedPiecesAreAdvertised
    HavesAreKept
    BlocksAreHandedOnOnce
PROPERTIES
    PiecesOnlyGrow
CHECK_DEADLOCK FALSE
