SPECIFICATION AccountSpec
CONSTANTS
    Handles = {a, b, c}
    MaxRecords = 3
    MaxMoves = 1
    Objects = {x, y}
    Sizes = {2}
    MaxCalls = 3
SYMMETRY MCSymmetry
INVARIANTS
    NoDanglingPointer
    StackedOnce
    StackInOrder
    EveryByteHasOneOwner
    MetricsMatchStatistics
PROPERTIES
    FinishedEventsAreFinal
