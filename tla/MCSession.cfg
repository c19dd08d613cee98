SPECIFICATION Spec
CONSTANTS
    Segments <- MCSegments
    Empty <- MCEmpty
    Numerals <- MCNumerals
    Canonical <- MCCanonical
    Configs <- MCConfigs
    Worlds <- MCWorlds
INVARIANTS
    SuccessMeansChecked
    ReportComplete
    RequestsAreFound
    MessageIsTrue
    AdmittedAreListed
