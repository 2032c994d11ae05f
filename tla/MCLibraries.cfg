CONSTANTS
    NULL = NULL
    NotFound = NotFound
    Data = {x, y}
    Addresses = {a1, a2, a3, a4}
    Documents <- MCDocuments
SPECIFICATION LibrariesSpec
INVARIANTS
    ChainIsIntact
    DocumentReadsBack
PROPERTIES
    IsSequence
    IsMapping
SYMMETRY AddressSymmetry
CHECK_DEADLOCK FALSE
