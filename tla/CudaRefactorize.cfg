SPECIFICATION Spec
CONSTANTS
    Kinds = {"cuda"}
    Matrices = {a, b}
    NoMatrix = none
    FactorNonzeros <- MCFactorNonzeros
    Buffers = 4
    MaybeEmpty = {2}
    MaxExecutors = 3
INVARIANTS
    ExecutorOutlivesBuffers
