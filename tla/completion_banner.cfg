\* One MySQL client and one failing statement: a failed statement
\* of cleanup surfaces as the run's exception.
CONSTANTS
    p1 = p1
    p2 = p2
    p3 = p3
    NoOwner = NoOwner
    Procs <- MCOneProc
    Protocol <- MCOneProtocol
    Tables <- MCTables
    MaxRuns = 1
    MaxFaults = 1
    MaxCrashes = 0
    LostResponses = FALSE
SPECIFICATION Spec
INVARIANT CompletionBannerAlwaysPrinted
CHECK_DEADLOCK FALSE
