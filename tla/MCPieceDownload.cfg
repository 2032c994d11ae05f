CONSTANTS
    MaxPieces = 2
    PieceSizes <- OneSize
    PIECE_MAX_BLOCK_SIZE = 1
    BlockLengths = {1, 2}
    DiskIO = diskio
    Exporters <- OneExporter
    TrueSize = 2
    MaxDiskFaults = 1
    Peers = {p1}
    AnswersRepeat = TRUE
    ConnectedSets <- AnyConnected
SPECIFICATION Spec
INVARIANTS
    DownloadTypeOK
    UsedPiecesOnDisk
    CompleteMeansExported
PROPERTIES
    UsesTrackerProperly
    ExportedPieceIsStable
