SPECIFICATION Spec
CONSTANTS
    LevelDepth = 12
    CallDepth = 40
    Env <- MCEnv
    DeclUparams = {"u"}
    NatExtension = TRUE
    StringExtension = TRUE
    Calls <- MCCalls
    Later <- MCLater
    MaxCalls = 2
INVARIANTS
    DefEqSound
    DefEqComplete
    InferExact
    WhnfExact
    DeclarExact
PROPERTIES
    CallsLeaveOnlyFacts
