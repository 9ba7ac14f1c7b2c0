SPECIFICATION RunSpec
CONSTANTS
    Kinds = {"cuda", "reference", "klu"}
    Matrices = {a}
    NoMatrix = none
    FactorNonzeros <- MCFactorNonzeros
    Buffers = 24
    MaybeEmpty = {4, 5, 13, 15, 16}
    MaxExecutors = 2
    Request = a
INVARIANTS
    TeardownInOrder
    ExecutorOutlivesBuffers
    ReturnedIsSolved
