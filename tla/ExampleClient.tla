---------------------------- MODULE ExampleClient ----------------------------
(***************************************************************************)
(* The one-shot Flight SQL client (src/client_example/client.py): read a  *)
(* statement from the file named by the single argument, send it with     *)
(* execute_update when its stripped, upper-cased text starts with UPDATE, *)
(* INSERT or DELETE, otherwise with execute + do_get + read_all, refuse a  *)
(* missing or empty result, and print every field of the result.          *)
(*                                                                         *)
(* The inputs are the states the script can start in: the argument count, *)
(* whether the file can be read, and the statement in it, abstracted to   *)
(* what it does and how its text begins.  The gateway's answer is chosen  *)
(* when the statement is sent.  An exception nothing catches ends the     *)
(* process with a traceback and exit status 1, as sys.exit(1) does.       *)
(***************************************************************************)
EXTENDS Integers, Sequences, FiniteSets

CONSTANTS
    FieldNames,    \* column names a result may carry
    MaxRows,       \* bound: rows in a result
    MaxFields      \* bound: fields in a result

VARIABLES
    pc,        \* the statement of main the process is at, or "done"
    argc,      \* len(sys.argv)
    readable,  \* open(query_file) and read() succeed
    stmt,      \* the statement in the file
    result,    \* the table read_all returned
    j,         \* index of the next field of the result schema
    exitCode,  \* exit status once pc = "done"
    applied    \* ghost: the gateway applied a statement that changes data

vars == <<pc, argc, readable, stmt, result, j, exitCode, applied>>

\* What a statement does, and how its text begins: with its own keyword
\* (in any case, after any whitespace), with a WITH clause, or with a
\* "--" comment line.
Statements ==
    [kind : {"select", "insert", "update", "delete", "create"},
     lead : {"keyword", "with", "comment"}]

Keyword == [select |-> "SELECT", insert |-> "INSERT", update |-> "UPDATE",
            delete |-> "DELETE", create |-> "CREATE"]

\* query.strip().upper(): its first word; upper() makes the test blind to
\* case, strip() to surrounding whitespace.
LeadingWord(s) ==
    CASE s.lead = "keyword" -> Keyword[s.kind]
      [] s.lead = "with"    -> "WITH"
      [] s.lead = "comment" -> "--"

\* .startswith(('UPDATE', 'INSERT', 'DELETE'))
IsUpdate(s) == LeadingWord(s) \in {"UPDATE", "INSERT", "DELETE"}

\* Statements other than SELECT change the gateway's data.
Changes(s) == s.kind # "select"

Results ==
    [isNull : BOOLEAN, numRows : 0..MaxRows,
     fields : UNION {[1..n -> FieldNames] : n \in 0..MaxFields}]

NoResult == [isNull |-> TRUE, numRows |-> 0, fields |-> <<>>]

Exit(code) ==
    /\ pc' = "done"
    /\ exitCode' = code

\* if len(sys.argv) != 2: print the usage and sys.exit(1).
ParseArgs ==
    /\ pc = "args"
    /\ IF argc # 2 THEN Exit(1) ELSE pc' = "read" /\ UNCHANGED exitCode
    /\ UNCHANGED <<argc, readable, stmt, result, j, applied>>

\* with open(query_file) as file: query = file.read().strip(); an error
\* is printed and ends the process with sys.exit(1).
ReadQuery ==
    /\ pc = "read"
    /\ IF readable THEN pc' = "connect" /\ UNCHANGED exitCode ELSE Exit(1)
    /\ UNCHANGED <<argc, readable, stmt, result, j, applied>>

\* FlightSQLClient(host='0.0.0.0', port=8815, insecure=True): the channel
\* is opened lazily, so the constructor itself does not fail.
Connect ==
    /\ pc = "connect"
    /\ pc' = "route"
    /\ UNCHANGED <<argc, readable, stmt, result, j, exitCode, applied>>

\* result = client.execute_update(query); print the affected rows.  An
\* error from the gateway is uncaught.
ExecuteUpdate ==
    /\ pc = "route" /\ IsUpdate(stmt)
    /\ \E ok \in BOOLEAN :
        /\ applied' = (ok /\ Changes(stmt))
        /\ Exit(IF ok THEN 0 ELSE 1)
    /\ UNCHANGED <<argc, readable, stmt, result, j>>

\* info = client.execute(query); reader = client.do_get(ticket);
\* table = reader.read_all().  An error from the gateway is uncaught.
Execute ==
    /\ pc = "route" /\ ~IsUpdate(stmt)
    /\ \/ /\ Exit(1)
          /\ UNCHANGED <<result, applied>>
       \/ /\ \E r \in Results : result' = r
          /\ applied' = Changes(stmt)
          /\ pc' = "check"
          /\ UNCHANGED exitCode
    /\ UNCHANGED <<argc, readable, stmt, j>>

\* Mutant of CheckResult: an empty table is let through.
CheckResultNoEmpty ==
    /\ pc = "check"
    /\ IF result.isNull
          THEN Exit(1) /\ UNCHANGED j
          ELSE pc' = "fields" /\ j' = 1 /\ UNCHANGED exitCode
    /\ UNCHANGED <<argc, readable, stmt, result, applied>>

\* if table is None or table.num_rows == 0: "No data received", exit(1).
CheckResult ==
    /\ pc = "check"
    /\ IF result.isNull \/ result.numRows = 0
          THEN Exit(1) /\ UNCHANGED j
          ELSE pc' = "fields" /\ j' = 1 /\ UNCHANGED exitCode
    /\ UNCHANGED <<argc, readable, stmt, result, applied>>

\* Mutant of PrintField: the loop reads one field past the schema.
PrintFieldPastEnd ==
    /\ pc = "fields"
    /\ LET fs == result.fields IN
       CASE j > Len(fs) + 1 -> Exit(0) /\ UNCHANGED j
         [] j <= Len(fs) /\ Cardinality({k \in DOMAIN fs : fs[k] = fs[j]}) > 1 ->
                Exit(1) /\ UNCHANGED j
         [] OTHER -> j' = j + 1 /\ UNCHANGED <<pc, exitCode>>
    /\ UNCHANGED <<argc, readable, stmt, result, applied>>

\* One iteration of "for field in table.schema": column_data =
\* table[field_name] raises KeyError (uncaught) when the name occurs more
\* than once in the schema; otherwise the field is printed.  After the
\* last field main returns and the process exits with status 0.
PrintField ==
    /\ pc = "fields"
    /\ LET fs == result.fields IN
       CASE j > Len(fs) -> Exit(0) /\ UNCHANGED j
         [] Cardinality({k \in DOMAIN fs : fs[k] = fs[j]}) > 1 ->
                Exit(1) /\ UNCHANGED j
         [] OTHER -> j' = j + 1 /\ UNCHANGED <<pc, exitCode>>
    /\ UNCHANGED <<argc, readable, stmt, result, applied>>

Init ==
    /\ pc = "args"
    /\ argc \in 1..3
    /\ readable \in BOOLEAN
    /\ stmt \in Statements
    /\ result = NoResult
    /\ j = 0
    /\ exitCode = 0
    /\ applied = FALSE

Next ==
    \/ ParseArgs \/ ReadQuery \/ Connect
    \/ ExecuteUpdate \/ Execute \/ CheckResult \/ PrintField

Spec == Init /\ [][Next]_vars

(***************************************************************************)
(* Properties                                                             *)
(***************************************************************************)
TypeOK ==
    /\ pc \in {"args", "read", "connect", "route", "check", "fields", "done"}
    /\ argc \in 1..3
    /\ readable \in BOOLEAN
    /\ stmt \in Statements
    /\ result \in Results
    /\ j \in 0..(MaxFields + 1)
    /\ exitCode \in {0, 1}
    /\ applied \in BOOLEAN

\* The exit status of the script is 0 exactly when the statement reached
\* the gateway and came back usable: through execute_update, or as a
\* non-empty result whose every column could be printed.
ExitStatusMatchesOutcome ==
    pc = "done" =>
        (exitCode = 0 <=>
            /\ argc = 2 /\ readable
            /\ \/ IsUpdate(stmt) /\ applied
               \/ /\ ~IsUpdate(stmt) /\ ~result.isNull /\ result.numRows > 0
                  /\ \A k, l \in DOMAIN result.fields :
                        result.fields[k] = result.fields[l] => k = l)
====
