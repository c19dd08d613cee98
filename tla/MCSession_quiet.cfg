SPECIFICATION Spec
CONSTANTS
    Segments <- MCSegments
    Empty <- MCEmpty
    Numerals <- MCNumerals
    Canonical <- MCCanonical
    Configs <- MCConfigs
    Worlds <- MCWorlds
INVARIANT QuietOnSuccess
