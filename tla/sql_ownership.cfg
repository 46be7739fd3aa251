\* Two MySQL harness processes racing for the same table names, with
\* faults, lost DDL responses, a crash and re-runs.
CONSTANTS
    p1 = p1
    p2 = p2
    p3 = p3
    NoOwner = NoOwner
    Procs <- MCTwoProcs
    Protocol <- MCTwoProtocol
    Tables <- MCTables
    MaxRuns = 2
    MaxFaults = 3
    MaxCrashes = 1
    LostResponses = TRUE
SPECIFICATION Spec
INVARIANT TypeOK
INVARIANT FlagMeansOwned
PROPERTY LeaseRefinement
SYMMETRY Symmetry
CHECK_DEADLOCK FALSE
