\* Two copies of the script race, each run twice, with lost responses.
CONSTANTS
    p1 = p1
    p2 = p2
    NoOwner = NoOwner
    Tables <- MCTables
    Procs <- MCProcs
    MaxRuns = 2
    MaxFaults = 2
    LostResponses = TRUE
SPECIFICATION Spec
INVARIANT TypeOK
INVARIANT WorksOnOwnTable
SYMMETRY Symmetry
CHECK_DEADLOCK FALSE
