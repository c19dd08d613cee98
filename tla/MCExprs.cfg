SPECIFICATION CachedSpec
CONSTANTS
    LevelDepth = 12
    CallDepth = 40
    ExprDepth = 12
    Start <- All
    Uparams <- TheUparams
    Value <- TheValue
    MaxSteps = 4
INVARIANTS
    Denotes
    InScope
PROPERTIES
    ImplementsBinders
CHECK_DEADLOCK FALSE
