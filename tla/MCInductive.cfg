SPECIFICATION Spec
CONSTANTS
    LevelDepth = 12
    CallDepth = 40
    Base <- MCBase
    Blocks <- MCBlocks
    MaxTypes = 6
INVARIANTS
    RulesPreserveTypes
    OwnNamesAreNew
PROPERTIES
    AcceptedIsWellFormed
    RecursorsAreTextbook
    WellFormedIsAccepted
    CheckEnds
