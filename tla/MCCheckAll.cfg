SPECIFICATION MCSpec
CONSTANTS
    NumDeclars = 4
    NumThreads = 3
INVARIANTS
    NoDeclarTwice
    AcceptedMeansAllChecked
    OneSurvivorDrainsTheQueue
PROPERTIES
    ImplementsVerdict
    VerdictIsTheFiles
