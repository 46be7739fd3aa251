CONSTANTS
    FieldNames <- MCFieldNames
    Types <- MCTypes
    Expected <- MCExpected
    MaxRows = 1
    MaxFields = 2
SPECIFICATION Spec
INVARIANTS
    TypeOK
    SuccessOnlyIfConforming
\* A run of the script ends: after the third query, or on the first error.
CHECK_DEADLOCK FALSE
