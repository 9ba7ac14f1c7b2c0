SPECIFICATION Spec
CONSTANTS
    Dimension = 4
    TinySets = {{}, {1, 2}}
INVARIANTS
    NoUpdateUnderDivision
PROPERTIES
    ImplementsElimination
