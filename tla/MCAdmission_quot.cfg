SPECIFICATION Spec
CONSTANTS
    Names <- AllNames
    Lines <- QuotLines
    MaxLines = 3
    PermitAll = FALSE
    HardError = TRUE
    Permitted = {"b"}
    RequiredPp = {"Quot"}
    RecName <- EqRecName
    AuxRecName <- EqAuxRecName
    Quots <- MCQuots
    Lift = "Quot.lift"
    Eq = "Eq"
    EqRefl = "Eq.refl"
INVARIANTS
    QuotRestsOnEq
