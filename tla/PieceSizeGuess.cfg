CONSTANTS
    Peers = {p1, p2}
    SizeValues = 5
    ShiftWidth = 4
    StartingPieceSizeLog2 = 3
    TrueSize = 1
SPECIFICATION Spec
INVARIANTS
    GuessTypeOK
    ConfirmedSizeIsValid
    ConfirmedSizeWasAnswered
    NoGuessIsSkipped
