\* One MySQL client and one failing statement: a failed DROP in cleanup.
CONSTANTS
    p1 = p1
    p2 = p2
    p3 = p3
    NoOwner = NoOwner
    Procs <- MCOneProc
    Protocol <- MCOneProtocol
    Tables <- MCTables
    MaxRuns = 1
    MaxFaults = 1
    MaxCrashes = 0
    LostResponses = FALSE
SPECIFICATION Spec
INVARIANT CleanupAttemptsEveryFlaggedTable
CHECK_DEADLOCK FALSE
