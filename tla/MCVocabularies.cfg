SPECIFICATION MCSpec
CONSTANTS
    Names <- AllNames
    Lines <- EveryLine
    Vocabularies <- ByVocabulary
    MaxLines = 3
    PermitAll = FALSE
    HardError = FALSE
    Permitted = {"a"}
    RequiredPp = {}
    RecName <- MCRecName
    AuxRecName <- MCAuxRecName
    Quots <- MCQuots
    Lift = "Quot.lift"
    Eq = "Eq"
    EqRefl = "Eq.refl"
INVARIANTS
    BlocksAreWindows
    EarlierUses
    SkippedAxiomsStayOut
    CtorsComeWithTheirType
    RecursorsAreDerived
    RecursorsFollowTheirTypes
    RecursorNamesComplete
    GroupsAreBlocks
