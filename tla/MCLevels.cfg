SPECIFICATION Spec
CONSTANTS
    LevelDepth = 12
    CallDepth = 40
    Inputs <- Calls
    Values = {0, 1, 2, 7}
INVARIANTS
    LeqExact
    SimplifyExact
    SubstExact
