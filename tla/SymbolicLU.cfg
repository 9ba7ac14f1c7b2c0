SPECIFICATION Spec
CONSTANTS
    Dimension = 4
    MinimumEnvelope = 3
    Missing = {{}, {2}}
INVARIANTS
    FactorClosed
    FactorIsFill
    FlaggedBlocksMirror
    ParentIsFirstFill
    ShortcutsFollowTree
