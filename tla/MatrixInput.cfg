SPECIFICATION InputSpec
CONSTANTS
    Headers <- MCHeaders
    Numbers <- MCNumbers
    Limit = 5
    IndexMax = 33
    Grids = {1, 2, 3, 4, 6}
    MaxLines = 3
INVARIANTS
    MatrixIsTheFile
    PoissonIsTheStencil
    RightHandSideIsTheFile
