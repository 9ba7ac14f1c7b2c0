SPECIFICATION Spec
CONSTANTS
    Kinds = {"cuda", "reference", "klu"}
    Matrices = {a, b}
    NoMatrix = none
    FactorNonzeros <- MCFactorNonzeros
    Buffers = 4
    MaybeEmpty = {2}
    MaxExecutors = 4
INVARIANTS
    OnlyRepeatedAreOutlived
    LiveBytesAddUp
    NeverAnotherFactor
