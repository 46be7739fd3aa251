CONSTANTS
    FieldNames <- MCFieldNames
    MaxRows = 1
    MaxFields = 2
SPECIFICATION Spec
INVARIANTS
    TypeOK
    ExitStatusMatchesOutcome
\* The script runs once and ends.
CHECK_DEADLOCK FALSE
