------------------------- MODULE FederationValidator -------------------------
(***************************************************************************)
(* The federated query check (src/tests/test_client.py): main sends three *)
(* SELECTs through validate_by_request, each with its expected schema,    *)
(* and main_test prints the verdict.  validate_by_request exits the       *)
(* process on a missing or empty result, then walks the result's fields   *)
(* in order: an unexpected name raises KeyError, a wrong type TypeError,  *)
(* table[field_name] raises KeyError when the name occurs twice in the    *)
(* schema (pyarrow refuses an ambiguous column), and an empty column      *)
(* raises ValueError.  A missing expected column is only printed.         *)
(*                                                                         *)
(* The gateway's answer to each query is chosen when the query is sent.   *)
(* All columns of an Arrow table have the table's row count, so a result  *)
(* is its null flag, its row count and its ordered list of fields.        *)
(***************************************************************************)
EXTENDS Integers, Sequences, FiniteSets

CONSTANTS
    FieldNames,    \* column names results may carry
    Types,         \* Arrow types
    Expected,      \* Expected[j]: expected_schema of test_query_j (a function)
    MaxRows,       \* bound: rows in a result
    MaxFields      \* bound: fields in a result

VARIABLES
    pc,        \* index of the test_query sent next
    status,    \* "running", "Returned", "Raised" or "Exited"
    verdict,   \* banner of main_test: "none", "success" or "fail"
    resp,      \* the last result read_all returned
    specOk     \* ghost: every result so far passes the spec's checks

vars == <<pc, status, verdict, resp, specOk>>

Ended == {"Returned", "Raised", "Exited"}

Results ==
    [isNull : BOOLEAN, numRows : 0..MaxRows,
     fields : UNION {[1..n -> FieldNames \X Types] : n \in 0..MaxFields}]

NoResult == [isNull |-> TRUE, numRows |-> 0, fields |-> <<>>]

\* How many fields of the schema are called name.
Occurrences(fs, name) == Cardinality({k \in DOMAIN fs : fs[k][1] = name})

\* The field loop of validate_by_request from field j on: the first check
\* that fails, or "none".
RECURSIVE FieldLoop(_, _, _, _)
FieldLoop(fs, n, exp, j) ==
    IF j > Len(fs) THEN "none"
    ELSE IF fs[j][1] \notin DOMAIN exp THEN "UnexpectedField"
    ELSE IF fs[j][2] # exp[fs[j][1]] THEN "TypeMismatch"
    ELSE IF Occurrences(fs, fs[j][1]) > 1 THEN "AmbiguousColumn"
    ELSE IF n = 0 THEN "EmptyColumn"
    ELSE FieldLoop(fs, n, exp, j + 1)

\* Mutant of Outcome: the type comparison is left out of the field loop.
RECURSIVE FieldLoopNoType(_, _, _, _)
FieldLoopNoType(fs, n, exp, j) ==
    IF j > Len(fs) THEN "none"
    ELSE IF fs[j][1] \notin DOMAIN exp THEN "UnexpectedField"
    ELSE IF Occurrences(fs, fs[j][1]) > 1 THEN "AmbiguousColumn"
    ELSE IF n = 0 THEN "EmptyColumn"
    ELSE FieldLoopNoType(fs, n, exp, j + 1)

OutcomeNoType(r, exp) ==
    IF r.isNull \/ r.numRows = 0 THEN "exit"
    ELSE IF FieldLoopNoType(r.fields, r.numRows, exp, 1) = "none" THEN "next"
    ELSE "raise"

\* validate_by_request on result r: "exit" (sys.exit(1) raises SystemExit,
\* which main_test's "except Exception" does not catch), "raise" or "next".
\* The closing loop over expected_schema.keys() catches its own KeyError.
Outcome(r, exp) ==
    IF r.isNull \/ r.numRows = 0 THEN "exit"
    ELSE IF FieldLoop(r.fields, r.numRows, exp, 1) = "none" THEN "next"
    ELSE "raise"

\* Spec 4.5, the checks validate promises on one result: non-null and
\* non-empty, every field expected with exactly the expected type, every
\* column with at least one row.
SpecConformsFor(r, exp) ==
    /\ ~r.isNull
    /\ r.numRows > 0
    /\ \A k \in DOMAIN r.fields :
          r.fields[k][1] \in DOMAIN exp /\ r.fields[k][2] = exp[r.fields[k][1]]

\* Mutant of ValidateByRequest: main goes on past the last query.
ValidateByRequestPastEnd ==
    /\ status = "running"
    /\ \E r \in Results :
        /\ resp' = r
        /\ specOk' = (specOk /\ SpecConformsFor(r, Expected[pc]))
        /\ CASE Outcome(r, Expected[pc]) = "exit"  ->
                    status' = "Exited" /\ UNCHANGED <<pc, verdict>>
             [] Outcome(r, Expected[pc]) = "raise" ->
                    status' = "Raised" /\ verdict' = "fail" /\ UNCHANGED pc
             [] pc <= Len(Expected) ->
                    pc' = pc + 1 /\ UNCHANGED <<status, verdict>>
             [] OTHER ->
                    status' = "Returned" /\ verdict' = "success" /\ UNCHANGED pc

\* validate_by_request(client, test_query_pc, expected): the gateway
\* answers with some result r; main goes on to the next query, or after
\* the third main_test prints "Test success."; an Exception makes it print
\* "Test fails.", a SystemExit ends the process with no verdict.
ValidateByRequest ==
    /\ status = "running"
    /\ \E r \in Results :
        /\ resp' = r
        /\ specOk' = (specOk /\ SpecConformsFor(r, Expected[pc]))
        /\ CASE Outcome(r, Expected[pc]) = "exit"  ->
                    status' = "Exited" /\ UNCHANGED <<pc, verdict>>
             [] Outcome(r, Expected[pc]) = "raise" ->
                    status' = "Raised" /\ verdict' = "fail" /\ UNCHANGED pc
             [] pc < Len(Expected) ->
                    pc' = pc + 1 /\ UNCHANGED <<status, verdict>>
             [] OTHER ->
                    status' = "Returned" /\ verdict' = "success" /\ UNCHANGED pc

Init ==
    /\ pc = 1
    /\ status = "running"
    /\ verdict = "none"
    /\ resp = NoResult
    /\ specOk = TRUE

Next == ValidateByRequest

Spec == Init /\ [][Next]_vars

(***************************************************************************)
(* Properties                                                             *)
(***************************************************************************)
TypeOK ==
    /\ pc \in 1..Len(Expected)
    /\ status \in {"running"} \cup Ended
    /\ verdict \in {"none", "success", "fail"}
    /\ resp \in Results
    /\ specOk \in BOOLEAN

\* main_test prints "Test success." only when every one of the three
\* results passed every check the spec asks of validate: the field loop
\* lets no unexpected field, wrong type or empty result through.
SuccessOnlyIfConforming ==
    verdict = "success" => specOk

\* Spec 4.5 and 7: a run that ends without success met a result that fails
\* one of the spec's checks; a conforming gateway is never reported as
\* failing.
NoFalseFailure ==
    status \in {"Raised", "Exited"} => ~specOk
====
