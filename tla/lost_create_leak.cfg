\* One MySQL client; a CREATE TABLE may be applied and still raise.
CONSTANTS
    p1 = p1
    p2 = p2
    p3 = p3
    NoOwner = NoOwner
    Procs <- MCOneProc
    Protocol <- MCOneProtocol
    Tables <- MCTables
    MaxRuns = 2
    MaxFaults = 1
    MaxCrashes = 0
    LostResponses = TRUE
SPECIFICATION Spec
INVARIANT NoLeakOnCleanExit
CHECK_DEADLOCK FALSE
