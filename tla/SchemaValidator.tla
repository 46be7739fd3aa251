--------------------------- MODULE SchemaValidator ---------------------------
(***************************************************************************)
(* validate_table_schemas (src/tests/test_schema.py): fetch the tables    *)
(* listing with embedded schemas, then for every row deserialize the IPC  *)
(* schema into a field -> type dict and diff it against the expected      *)
(* schema of that table name, in both directions; finally every expected  *)
(* table must have been seen.  The first failing check raises.            *)
(*                                                                         *)
(* The gateway's answer is the input: chosen in Init from every response  *)
(* of at most MaxRows rows over small sets of names, fields and types.    *)
(***************************************************************************)
EXTENDS Integers, Sequences, FiniteSets

CONSTANTS
    TableNames,    \* table_name values the gateway may list
    FieldNames,    \* field names inside schemas
    Types,         \* Arrow types
    Expected,      \* expected_schemas: table -> sequence of <<field, type>>
    MaxRows,       \* bound: rows in the tables listing
    MaxFields,     \* bound: fields in one serialized schema
    Null           \* model value: schema_bytes is None

VARIABLES
    resp,     \* the listing: [hasSchemaColumn, rows: Seq([name, schema])]
    i,        \* loop index over rows
    found,    \* DOMAIN of found_tables
    result    \* "running", "ok" or the kind of error raised

vars == <<resp, i, found, result>>

ErrorKinds == {"NoData", "MissingColumn", "NoSchema", "MissingField",
               "TypeMismatch", "UnexpectedField", "MissingTable"}

\* An IPC schema as ipc.read_schema returns it: an ordered list of fields.
Schemas == UNION {[1..n -> FieldNames \X Types] : n \in 0..MaxFields}

Rows == [name : TableNames, schema : Schemas \cup {Null}]

Responses ==
    [hasSchemaColumn : BOOLEAN,
     rows : UNION {[1..n -> Rows] : n \in 0..MaxRows}]

\* actual_schema[field.name] = field.type over the fields in order: a
\* repeated name keeps the type of its last occurrence.
AsDict(s) ==
    [f \in {s[j][1] : j \in DOMAIN s} |->
        s[CHOOSE j \in DOMAIN s : s[j][1] = f /\ \A l \in DOMAIN s : s[l][1] = f => l <= j][2]]

ExpectedDict(t) == AsDict(Expected[t])

\* The first error the expected-field loop meets, in expected.items() order.
RECURSIVE FirstFieldError(_, _, _)
FirstFieldError(exp, actual, j) ==
    IF j > Len(exp) THEN "none"
    ELSE IF exp[j][1] \notin DOMAIN actual THEN "MissingField"
    ELSE IF actual[exp[j][1]] # exp[j][2] THEN "TypeMismatch"
    ELSE FirstFieldError(exp, actual, j + 1)

\* Mutant of RowError: only the expected -> actual direction is checked.
RowErrorOneWay(row) ==
    IF row.schema = Null THEN "NoSchema"
    ELSE IF row.name \notin DOMAIN Expected THEN "none"
    ELSE FirstFieldError(Expected[row.name], AsDict(row.schema), 1)

\* The checks of one loop iteration over a row, in the order of the code.
RowError(row) ==
    IF row.schema = Null THEN "NoSchema"
    ELSE IF row.name \notin DOMAIN Expected THEN "none"
    ELSE LET actual == AsDict(row.schema)
             fe == FirstFieldError(Expected[row.name], actual, 1)
         IN  IF fe # "none" THEN fe
             ELSE IF DOMAIN actual \subseteq DOMAIN ExpectedDict(row.name)
                  THEN "none" ELSE "UnexpectedField"

Init ==
    /\ resp \in Responses
    /\ i = 0
    /\ found = {}
    /\ result = "running"

\* get_tables + do_get: an empty listing raises ValueError, a listing
\* without the table_schema column raises KeyError.
FetchTables ==
    /\ result = "running" /\ i = 0
    /\ \/ /\ Len(resp.rows) = 0
          /\ result' = "NoData" /\ UNCHANGED i
       \/ /\ Len(resp.rows) > 0 /\ ~resp.hasSchemaColumn
          /\ result' = "MissingColumn" /\ UNCHANGED i
       \/ /\ Len(resp.rows) > 0 /\ resp.hasSchemaColumn
          /\ i' = 1 /\ UNCHANGED result
    /\ UNCHANGED <<resp, found>>

\* Mutant of ValidateRow: found_tables keyed by full_table_name.
ValidateRowFullName ==
    /\ result = "running" /\ 1 <= i /\ i <= Len(resp.rows)
    /\ LET row == resp.rows[i] IN
       IF RowError(row) = "none"
          THEN /\ found' = found \cup {"campaigns.db1.schema." \o row.name}
               /\ i' = i + 1
               /\ UNCHANGED result
          ELSE /\ result' = RowError(row)
               /\ UNCHANGED <<i, found>>
    /\ UNCHANGED resp

\* One iteration of "for i in range(tables_table.num_rows)".
ValidateRow ==
    /\ result = "running" /\ 1 <= i /\ i <= Len(resp.rows)
    /\ LET row == resp.rows[i] IN
       IF RowError(row) = "none"
          THEN /\ found' = found \cup {row.name}
               /\ i' = i + 1
               /\ UNCHANGED result
          ELSE /\ result' = RowError(row)
               /\ UNCHANGED <<i, found>>
    /\ UNCHANGED resp

\* "for expected_table in expected_schemas.keys()": every one was found.
CheckFoundTables ==
    /\ result = "running" /\ i = Len(resp.rows) + 1 /\ i > 0
    /\ result' = IF DOMAIN Expected \subseteq found THEN "ok" ELSE "MissingTable"
    /\ UNCHANGED <<resp, i, found>>

Next == FetchTables \/ ValidateRow \/ CheckFoundTables

Spec == Init /\ [][Next]_vars /\ WF_vars(Next)

(***************************************************************************)
(* Properties                                                             *)
(***************************************************************************)
TypeOK ==
    /\ resp \in Responses
    /\ i \in 0..(MaxRows + 1)
    /\ found \subseteq TableNames
    /\ result \in ErrorKinds \cup {"running", "ok"}

\* Spec 4.4, stated over the whole listing: it is non-empty, carries the
\* schema column, every row has a schema, every row of an expected table has
\* exactly the expected fields with the expected types, and every expected
\* table is listed.
Conforms(r) ==
    /\ Len(r.rows) > 0
    /\ r.hasSchemaColumn
    /\ \A j \in DOMAIN r.rows :
          LET row == r.rows[j] IN
          /\ row.schema # Null
          /\ row.name \in DOMAIN Expected => AsDict(row.schema) = ExpectedDict(row.name)
    /\ DOMAIN Expected \subseteq {r.rows[j].name : j \in DOMAIN r.rows}

\* validate_table_schemas returns normally exactly for the listings that
\* conform to the spec: its loops are strict in both directions.
ResultMatchesSpec ==
    result # "running" => (result = "ok" <=> Conforms(resp))
=============================================================================
