-------------------------- MODULE FlightDdlScenario --------------------------
(***************************************************************************)
(* The Flight SQL DDL life-cycle (src/tests/test_client_mutable.py): main *)
(* sends nine statements on campaigns.db1.schema.temp_table through       *)
(* validate_by_request, from CREATE TABLE to DROP TABLE, and main_test    *)
(* prints the verdict.  There is no cleanup: the DROP is the last of the  *)
(* nine statements and runs only if the eight before it passed.           *)
(*                                                                         *)
(* Several processes may run the script at once against one gateway, a   *)
(* process may be started again after it ends.  Row contents and the     *)
(* printed text are abstracted away.                                      *)
(***************************************************************************)
EXTENDS Integers, Sequences, Gateway

CONSTANTS
    Procs,          \* harness processes running the script
    MaxRuns,        \* bound: times a process is started
    MaxFaults,      \* bound: requests that go wrong over the behaviour
    LostResponses   \* TRUE: a DDL statement may be applied and still raise

VARIABLES
    pc,        \* pc[p]: index of the test_query p sends next
    status,    \* status[p]: "running", or how the run of p ended
    verdict,   \* banner printed by main_test: "none", "success" or "fail"
    runs,      \* runs[p]: number of the current run of p
    faults     \* requests that went wrong so far

vars == <<catalog, pc, status, verdict, runs, faults>>

TempTable == "temp_table"

\* test_query_1 .. test_query_9 of main: what each does to temp_table.
Queries == <<"create", "dml", "dml", "dml", "dml", "dml", "dml", "dml", "drop">>

Ended == {"Returned", "Raised", "Exited"}

\* What validate_by_request can meet besides success: client.execute
\* raises ("fail"; "lost" when the DDL was applied all the same),
\* read_all returns None ("none"), or the result has a field other than
\* temp_int:int64 ("badschema").
Faults ==
    {"fail", "none", "badschema"} \cup (IF LostResponses THEN {"lost"} ELSE {})

Me(p) == <<p, runs[p]>>

\* The result of client.execute itself: "none" and "badschema" go wrong
\* only after the statement was executed and acknowledged.
ExecResult(res) == IF res \in {"none", "badschema"} THEN "ok" ELSE res

\* The catalog after client.execute(test_query_j) with result res.
Execute(j, p, res) ==
    CASE Queries[j] = "create" -> CreateTable(TempTable, Me(p), ExecResult(res))
      [] Queries[j] = "drop"   -> DropTable(TempTable, ExecResult(res))
      [] OTHER                 -> catalog

\* Whether client.execute(test_query_j) raises.
ExecuteRaises(j, res) ==
    CASE Queries[j] = "create" -> CreateRaises(TempTable, ExecResult(res))
      [] Queries[j] = "drop"   -> DropRaises(TempTable, ExecResult(res))
      [] OTHER                 -> ExecResult(res) # "ok" \/ ~Exists(TempTable)

\* How the call ends: "next" (returned), "raise" (an Exception reaches
\* main_test) or "exit" (sys.exit(1) raises SystemExit).
Outcome(j, res) ==
    IF ExecuteRaises(j, res) THEN "raise"
    ELSE IF res = "none" THEN "exit"
    ELSE IF res = "badschema" THEN "raise"
    ELSE "next"

Finish(p, out) ==
    /\ UNCHANGED pc
    /\ CASE out = "exit"  -> status' = [status EXCEPT ![p] = "Exited"] /\ UNCHANGED verdict
         [] out = "raise" -> /\ status' = [status EXCEPT ![p] = "Raised"]
                             /\ verdict' = [verdict EXCEPT ![p] = "fail"]
         [] OTHER         -> /\ status' = [status EXCEPT ![p] = "Returned"]
                             /\ verdict' = [verdict EXCEPT ![p] = "success"]

\* Mutant of ValidateByRequest: CREATE that does not fail on an existing
\* table (CREATE TABLE IF NOT EXISTS semantics).
ValidateByRequestIfNotExists(p) ==
    /\ status[p] = "running"
    /\ \E res \in {"ok"} \cup Faults :
        LET j == pc[p]
            out == IF Queries[j] = "create" /\ Exists(TempTable) /\ res = "ok"
                   THEN "next" ELSE Outcome(j, res)
        IN
        /\ faults + (IF res = "ok" THEN 0 ELSE 1) <= MaxFaults
        /\ faults' = faults + (IF res = "ok" THEN 0 ELSE 1)
        /\ catalog' = Execute(j, p, res)
        /\ IF out = "next" /\ j < Len(Queries)
              THEN pc' = [pc EXCEPT ![p] = j + 1] /\ UNCHANGED <<status, verdict>>
              ELSE Finish(p, out)
    /\ UNCHANGED runs

\* Mutant of ValidateByRequest: main goes on past its ninth query.
ValidateByRequestPastEnd(p) ==
    /\ status[p] = "running"
    /\ \E res \in {"ok"} \cup Faults :
        LET j == pc[p]
            out == Outcome(j, res)
        IN
        /\ faults + (IF res = "ok" THEN 0 ELSE 1) <= MaxFaults
        /\ faults' = faults + (IF res = "ok" THEN 0 ELSE 1)
        /\ catalog' = Execute(j, p, res)
        /\ IF out = "next" /\ j <= Len(Queries)
              THEN pc' = [pc EXCEPT ![p] = j + 1] /\ UNCHANGED <<status, verdict>>
              ELSE Finish(p, out)
    /\ UNCHANGED runs

\* validate_by_request(client, test_query_j, expected_schema): execute, fetch
\* the ticket, read_all, check the fields; main goes on to the next query,
\* or, after the ninth, main_test prints "Test success.".
ValidateByRequest(p) ==
    /\ status[p] = "running"
    /\ \E res \in {"ok"} \cup Faults :
        LET j == pc[p]
            out == Outcome(j, res)
        IN
        /\ faults + (IF res = "ok" THEN 0 ELSE 1) <= MaxFaults
        /\ faults' = faults + (IF res = "ok" THEN 0 ELSE 1)
        /\ catalog' = Execute(j, p, res)
        /\ IF out = "next" /\ j < Len(Queries)
              THEN pc' = [pc EXCEPT ![p] = j + 1] /\ UNCHANGED <<status, verdict>>
              ELSE Finish(p, out)
    /\ UNCHANGED runs

\* The script is run again (if __name__ == "__main__": main_test()).
Restart(p) ==
    /\ status[p] \in Ended
    /\ runs[p] < MaxRuns
    /\ runs' = [runs EXCEPT ![p] = @ + 1]
    /\ pc' = [pc EXCEPT ![p] = 1]
    /\ status' = [status EXCEPT ![p] = "running"]
    /\ verdict' = [verdict EXCEPT ![p] = "none"]
    /\ UNCHANGED <<catalog, faults>>

Init ==
    /\ GatewayInit
    /\ pc = [p \in Procs |-> 1]
    /\ status = [p \in Procs |-> "running"]
    /\ verdict = [p \in Procs |-> "none"]
    /\ runs = [p \in Procs |-> 1]
    /\ faults = 0

Next == \E p \in Procs : ValidateByRequest(p) \/ Restart(p)

Spec == Init /\ [][Next]_vars

(***************************************************************************)
(* Properties                                                             *)
(***************************************************************************)
TypeOK ==
    /\ catalog \in [Tables -> (Procs \X (1..MaxRuns)) \cup {NoOwner}]
    /\ pc \in [Procs -> 1..Len(Queries)]
    /\ status \in [Procs -> {"running"} \cup Ended]
    /\ verdict \in [Procs -> {"none", "success", "fail"}]
    /\ runs \in [Procs -> 1..MaxRuns]
    /\ faults \in 0..MaxFaults

\* Between its CREATE and its DROP a run works on a temp_table it created
\* itself: a second copy of the script racing it stops at its own CREATE and
\* never runs the DROP on the first one's table.
WorksOnOwnTable ==
    \A p \in Procs :
        (status[p] = "running" /\ pc[p] > 1) => catalog[TempTable] = Me(p)

=============================================================================
