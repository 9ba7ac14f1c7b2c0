SPECIFICATION Spec
CONSTANTS
    Dimension = 3
    ZeroRows = {{1}}
    Inputs <- MCInputs
    WorkClasses <- MCWorkClasses
INVARIANTS
    SelfChecksNeverFire
    ReleasePlanIsValid
    SystemIsTheInput
    RegionsShareTheWork
