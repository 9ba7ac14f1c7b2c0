SPECIFICATION FairSpec
CONSTANTS
    Dimension = 4
    Lower <- MCLower
    Upper <- MCUpper
    ForwardSchedule <- MCForwardSchedule
    BackwardSchedule <- MCBackwardSchedule
    Lanes = 2
    WarpsPerBlock = 1
    BlockLimit = 3
    Capacity = 2
    MaxSolves = 2
INVARIANTS
    TypeOK
    PublishedIsVisible
    HeldOrPublished
    LowestTaskRuns
    SolutionIsCurrent
PROPERTIES
    ImplementsTriangularSolve
    EverySolveReturns
