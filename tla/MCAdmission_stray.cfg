SPECIFICATION Spec
CONSTANTS
    Names <- AllNames
    Lines <- NestedLines
    MaxLines = 3
    PermitAll = FALSE
    HardError = FALSE
    Permitted = {"a"}
    RequiredPp = {}
    RecName <- MCRecName
    AuxRecName <- MCAuxRecName
    Quots <- MCQuots
    Lift = "Quot.lift"
    Eq = "Eq"
    EqRefl = "Eq.refl"
INVARIANTS
    DeclaredRecursorsAreChecked
