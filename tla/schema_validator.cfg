\* Every tables listing of up to two rows, each schema of up to two fields.
CONSTANTS
    Null = Null
    TableNames <- MCTableNames
    FieldNames <- MCFieldNames
    Types <- MCTypes
    Expected <- MCExpected
    MaxRows = 2
    MaxFields = 2
SPECIFICATION Spec
INVARIANT TypeOK
INVARIANT ResultMatchesSpec
\* validate_table_schemas returns or raises: each behaviour ends there.
CHECK_DEADLOCK FALSE
