CONSTANTS
    Items = {x1, x2}
    Nodes = {n1, n2, n3}
    NULL = NULL
    None = None
    Consumers = {c1}
    Counters = {w1}
    Pollers = {q1}
SPECIFICATION FairQueueSpec
INVARIANTS
    ListIsWellFormed
    EveryItemHasATaker
PROPERTIES
    IsFifo
    EveryItemIsPopped
