SPECIFICATION Spec
CONSTANTS
    Dimension = 4
    TinySets = {{}, {0}, {1, 2}, {3}}
INVARIANTS
    NeverIncomplete
    ReportIsTrue
    LevelIsIndependent
PROPERTIES
    ImplementsElimination
