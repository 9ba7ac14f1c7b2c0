SPECIFICATION Spec
CONSTANTS
    Dimension = 4
    Workers <- MCWorkers
    Patterns <- MCPatterns
    TinySets = {{}, {1, 2}}
INVARIANTS
    StaleIsNeverRead
    OneBlockPerRow
PROPERTIES
    ImplementsElimination
