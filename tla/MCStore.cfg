SPECIFICATION Spec
CONSTANTS
    Data <- MCData
    NoData = "none"
    Capacity = 2
    MaxFile = 4
    MaxOwn = 3
INVARIANTS
    Unique
    AnswerRight
    PointersAreTerms
CHECK_DEADLOCK FALSE
