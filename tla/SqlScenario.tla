---------------------------- MODULE SqlScenario ----------------------------
(***************************************************************************)
(* The scenario runner of the MySQL and PostgreSQL conformance clients    *)
(* (src/tests/mysql_test_client.py, src/tests/postgres_test_client.py):   *)
(* client.run_all_tests runs five test methods in order inside            *)
(* try/except/finally, and cleanup_test_data drops the tables whose       *)
(* "created" flag is set.  Both files have the same control flow; they    *)
(* differ in table names and in the statements inside each method.       *)
(*                                                                         *)
(* Every element of Procs is one harness process running one client.     *)
(* Several processes run at once against the one gateway (the CI job and *)
(* a developer, or the two protocols side by side), each process may be  *)
(* killed at any point, and may be started again.  Statement contents,   *)
(* rows and printed text are abstracted away: a step either succeeds or  *)
(* raises, which is all the control flow depends on.                     *)
(***************************************************************************)
EXTENDS Integers, FiniteSets, Gateway, TLC

CONSTANTS
    Procs,          \* harness processes
    Protocol,       \* Protocol[p] \in {"mysql", "postgres"}: which client p runs
    MaxRuns,        \* bound: times a process is started
    MaxFaults,      \* bound: failing statements over the whole behaviour
    MaxCrashes,     \* bound: processes killed mid-run
    LostResponses   \* TRUE: a DDL statement may be applied and still raise

VARIABLES
    pc,         \* pc[p]: the statement process p executes next
    created,    \* created[p][k]: self.test_db_created / self.encoding_db_created
    verdict,    \* verdict[p]: banner printed by run_all_tests ("none" before)
    runs,       \* runs[p]: number of the current run of p
    faults,     \* failing statements so far
    crashes,    \* processes killed so far
    attempted,  \* ghost: kinds of table process p has issued DROP TABLE for
    visible,    \* visible[p]: the rows test_crud_queries of this run wrote are
                \* seen by other connections
    txnGateway  \* the gateway discards what a connection wrote without
                \* COMMIT when it closes (chosen once: a gateway assumption)

vars == <<catalog, pc, created, verdict, runs, faults, crashes, attempted,
          visible, txnGateway>>

Kinds == {"test", "encoding"}

\* mysql_test_client.py: self.test_table, self.test_encoding_table
MySqlTables == [test |-> "mysql_test_table", encoding |-> "mysql_test_encoding"]

\* postgres_test_client.py: self.test_table, self.test_encoding_table
PgTables == [test |-> "postgresql_test_table", encoding |-> "postgresql_test_encoding"]

TableOf(p, k) == IF Protocol[p] = "mysql" THEN MySqlTables[k] ELSE PgTables[k]

Steps == {"BasicConnection", "CrudQueries", "EncodingCreate", "EncodingVerify",
          "CapabilityFlags", "PreparedQueries", "CleanupConnect",
          "CleanupDropTest", "CleanupDropEncoding",
          "Completed", "CleanupRaised", "Crashed"}

\* "Completed": "Test completed." printed; "CleanupRaised": the ValueError
\* raised by cleanup_test_data escaped the finally block; "Crashed": killed.
Ended == {"Completed", "CleanupRaised", "Crashed"}

\* A data statement (connect, INSERT, SELECT, an assertion) either passes or
\* raises; a DDL statement may in addition be applied and raise.
DataResults == {"ok", "fail"}
DdlResults == IF LostResponses THEN StatementResults ELSE DataResults

Charge(res) == IF res = "ok" THEN 0 ELSE 1

Spend(res) ==
    /\ faults + Charge(res) <= MaxFaults
    /\ faults' = faults + Charge(res)

Me(p) == <<p, runs[p]>>

\* psycopg2_connection sets conn.autocommit = True; pymysql and
\* mysql.connector connections are opened with the drivers' default,
\* autocommit off, and no method calls conn.commit().
Autocommit(p) == Protocol[p] = "postgres"

\* The writes of a connection that is closed survive the close.
Durable(p) == Autocommit(p) \/ ~txnGateway

Goto(p, s) == pc' = [pc EXCEPT ![p] = s]

(***************************************************************************)
(* run_all_tests: an exception from any test method is caught, "Test      *)
(* fails." is printed, and the finally block starts cleanup_test_data.    *)
(***************************************************************************)
Raise(p) ==
    /\ verdict' = [verdict EXCEPT ![p] = "fail"]
    /\ Goto(p, "CleanupConnect")

\* A step that raises unless res is "ok" and the table it uses exists.
Proceed(p, ok, next) ==
    IF ok THEN Goto(p, next) /\ UNCHANGED verdict ELSE Raise(p)

\* Mutant of BasicConnection: the flag is set before the CREATE is issued.
BasicConnectionFlagFirst(p) ==
    /\ pc[p] = "BasicConnection"
    /\ \E res \in DdlResults :
        LET t == TableOf(p, "test") IN
        /\ Spend(res)
        /\ catalog' = CreateTable(t, Me(p), res)
        /\ created' = [created EXCEPT ![p]["test"] = TRUE]
        /\ Proceed(p, ~CreateRaises(t, res), "CrudQueries")
    /\ UNCHANGED <<runs, crashes, attempted, visible, txnGateway>>

\* test_basic_connection: CREATE TABLE test_table, then
\* self.test_db_created = True; any error is re-raised as ValueError.
BasicConnection(p) ==
    /\ pc[p] = "BasicConnection"
    /\ \E res \in DdlResults :
        LET t == TableOf(p, "test") IN
        /\ Spend(res)
        /\ catalog' = CreateTable(t, Me(p), res)
        /\ IF CreateRaises(t, res)
              THEN Raise(p) /\ UNCHANGED created
              ELSE /\ created' = [created EXCEPT ![p]["test"] = TRUE]
                   /\ Goto(p, "CrudQueries") /\ UNCHANGED verdict
    /\ UNCHANGED <<runs, crashes, attempted, visible, txnGateway>>

\* test_crud_queries: INSERT 13 rows, two UPDATEs, SUM deltas checked, on
\* one connection that is closed without COMMIT.  Every statement targets
\* test_table; none changes the catalog.
CrudQueries(p) ==
    /\ pc[p] = "CrudQueries"
    /\ \E res \in DataResults :
        /\ Spend(res)
        /\ Proceed(p, res = "ok" /\ Exists(TableOf(p, "test")), "EncodingCreate")
        /\ visible' = [visible EXCEPT ![p] = (res = "ok" /\ Durable(p))]
    /\ UNCHANGED <<catalog, created, runs, crashes, attempted, txnGateway>>

\* Mutant of EncodingCreate: the flag's attribute name is misspelt
\* (self.encoding_created = True), which gives the client a new attribute
\* and leaves encoding_db_created False.
EncodingCreateFlagTypo(p) ==
    /\ pc[p] = "EncodingCreate"
    /\ \E res \in DdlResults :
        LET t == TableOf(p, "encoding") IN
        /\ Spend(res)
        /\ catalog' = CreateTable(t, Me(p), res)
        /\ IF CreateRaises(t, res)
              THEN Raise(p) /\ UNCHANGED created
              ELSE /\ created' = [created EXCEPT ![p] = ("encoding_created" :> TRUE) @@ @]
                   /\ Goto(p, "EncodingVerify") /\ UNCHANGED verdict
    /\ UNCHANGED <<runs, crashes, attempted, visible, txnGateway>>

\* test_character_encoding, first statement: CREATE TABLE encoding table,
\* then self.encoding_db_created = True.
EncodingCreate(p) ==
    /\ pc[p] = "EncodingCreate"
    /\ \E res \in DdlResults :
        LET t == TableOf(p, "encoding") IN
        /\ Spend(res)
        /\ catalog' = CreateTable(t, Me(p), res)
        /\ IF CreateRaises(t, res)
              THEN Raise(p) /\ UNCHANGED created
              ELSE /\ created' = [created EXCEPT ![p]["encoding"] = TRUE]
                   /\ Goto(p, "EncodingVerify") /\ UNCHANGED verdict
    /\ UNCHANGED <<runs, crashes, attempted, visible, txnGateway>>

\* test_character_encoding, rest: INSERT five UTF-8 rows, SELECT, count them.
EncodingVerify(p) ==
    /\ pc[p] = "EncodingVerify"
    /\ \E res \in DataResults :
        /\ Spend(res)
        /\ Proceed(p, res = "ok" /\ Exists(TableOf(p, "encoding")), "CapabilityFlags")
    /\ UNCHANGED <<catalog, created, runs, crashes, attempted, visible, txnGateway>>

\* test_protocol_capability_flags: reads connection metadata only.
CapabilityFlags(p) ==
    /\ pc[p] = "CapabilityFlags"
    /\ \E res \in DataResults :
        /\ Spend(res)
        /\ Proceed(p, res = "ok", "PreparedQueries")
    /\ UNCHANGED <<catalog, created, runs, crashes, attempted, visible, txnGateway>>

\* test_prepared_queries: on a new connection, SELECT the row gen_id(1)
\* that test_crud_queries inserted and assert there is one, then prepared
\* SELECT/UPDATE/INSERT/DELETE on test_table; on success run_all_tests
\* prints "Test success." and enters finally.
PreparedQueries(p) ==
    /\ pc[p] = "PreparedQueries"
    /\ \E res \in DataResults :
        /\ Spend(res)
        /\ IF res = "ok" /\ Exists(TableOf(p, "test")) /\ visible[p]
              THEN /\ verdict' = [verdict EXCEPT ![p] = "success"]
                   /\ Goto(p, "CleanupConnect")
              ELSE Raise(p)
    /\ UNCHANGED <<catalog, created, runs, crashes, attempted, visible, txnGateway>>

(***************************************************************************)
(* cleanup_test_data, run from the finally block: open a connection, DROP *)
(* each flagged table in turn.  The first error ends the method with      *)
(* ValueError("Cleanup error ..."), which nothing catches: "Test           *)
(* completed." is not printed and the process exits with a traceback.     *)
(***************************************************************************)
CleanupConnect(p) ==
    /\ pc[p] = "CleanupConnect"
    /\ \E res \in DataResults :
        /\ Spend(res)
        /\ Goto(p, IF res = "ok" THEN "CleanupDropTest" ELSE "CleanupRaised")
    /\ UNCHANGED <<catalog, created, verdict, runs, crashes, attempted, visible, txnGateway>>

\* Mutant of DropFlagged: the DROP names the other table of the client.
DropFlaggedSwapped(p, k, next) ==
    \/ /\ ~created[p][k]
       /\ Goto(p, next)
       /\ UNCHANGED <<catalog, faults, attempted>>
    \/ /\ created[p][k]
       /\ \E res \in DdlResults :
           LET t == TableOf(p, CHOOSE o \in Kinds : o # k) IN
           /\ Spend(res)
           /\ catalog' = DropTable(t, res)
           /\ attempted' = [attempted EXCEPT ![p] = @ \cup {k}]
           /\ Goto(p, IF DropRaises(t, res) THEN "CleanupRaised" ELSE next)

\* if self.<k>_created: DROP TABLE; an error leaves the method.
DropFlagged(p, k, next) ==
    \/ /\ ~created[p][k]
       /\ Goto(p, next)
       /\ UNCHANGED <<catalog, faults, attempted>>
    \/ /\ created[p][k]
       /\ \E res \in DdlResults :
           LET t == TableOf(p, k) IN
           /\ Spend(res)
           /\ catalog' = DropTable(t, res)
           /\ attempted' = [attempted EXCEPT ![p] = @ \cup {k}]
           /\ Goto(p, IF DropRaises(t, res) THEN "CleanupRaised" ELSE next)

CleanupDropTest(p) ==
    /\ pc[p] = "CleanupDropTest"
    /\ DropFlagged(p, "test", "CleanupDropEncoding")
    /\ UNCHANGED <<created, verdict, runs, crashes, visible, txnGateway>>

CleanupDropEncoding(p) ==
    /\ pc[p] = "CleanupDropEncoding"
    /\ DropFlagged(p, "encoding", "Completed")
    /\ UNCHANGED <<created, verdict, runs, crashes, visible, txnGateway>>

(***************************************************************************)
(* The environment: a harness process is killed (CI timeout, Ctrl-C) at   *)
(* any statement boundary, and a process is started again with fresh     *)
(* flags (client.__init__ under __main__).  The catalog persists.         *)
(***************************************************************************)
Crash(p) ==
    /\ pc[p] \notin Ended
    /\ crashes < MaxCrashes
    /\ crashes' = crashes + 1
    /\ Goto(p, "Crashed")
    /\ UNCHANGED <<catalog, created, verdict, runs, faults, attempted, visible, txnGateway>>

\* client.__init__: test_db_created = encoding_db_created = False.
NewClient == [k \in Kinds |-> FALSE]

Restart(p) ==
    /\ pc[p] \in Ended
    /\ runs[p] < MaxRuns
    /\ runs' = [runs EXCEPT ![p] = @ + 1]
    /\ created' = [created EXCEPT ![p] = NewClient]
    /\ verdict' = [verdict EXCEPT ![p] = "none"]
    /\ attempted' = [attempted EXCEPT ![p] = {}]
    /\ visible' = [visible EXCEPT ![p] = FALSE]
    /\ Goto(p, "BasicConnection")
    /\ UNCHANGED <<catalog, faults, crashes, txnGateway>>

Init ==
    /\ GatewayInit
    /\ pc = [p \in Procs |-> "BasicConnection"]
    /\ created = [p \in Procs |-> NewClient]
    /\ verdict = [p \in Procs |-> "none"]
    /\ runs = [p \in Procs |-> 1]
    /\ faults = 0
    /\ crashes = 0
    /\ attempted = [p \in Procs |-> {}]
    /\ visible = [p \in Procs |-> FALSE]
    /\ txnGateway \in BOOLEAN

\* One statement of the sequential program of process p.
Step(p) ==
    \/ BasicConnection(p)
    \/ CrudQueries(p)
    \/ EncodingCreate(p)
    \/ EncodingVerify(p)
    \/ CapabilityFlags(p)
    \/ PreparedQueries(p)
    \/ CleanupConnect(p)
    \/ CleanupDropTest(p)
    \/ CleanupDropEncoding(p)

Next ==
    \E p \in Procs :
        \/ Step(p)
        \/ Crash(p)
        \/ Restart(p)

Spec == Init /\ [][Next]_vars

(***************************************************************************)
(* Refinement of TableLease: run <<p, n>> holds the tables whose created   *)
(* flag is set and whose DROP cleanup has not issued yet, while the run    *)
(* is live; the catalog's ghost owner is the lease holder.                 *)
(***************************************************************************)
RunIds == Procs \X (1..MaxRuns)

Holds ==
    [r \in RunIds |->
        LET p == r[1] IN
        IF r = Me(p) /\ pc[p] \notin Ended
           THEN {TableOf(p, k) : k \in {k2 \in Kinds : created[p][k2] /\ k2 \notin attempted[p]}}
           ELSE {}]

Lease == INSTANCE TableLease WITH holder <- catalog, holds <- Holds, Holders <- RunIds

(***************************************************************************)
(* Properties                                                             *)
(***************************************************************************)
Owners == (Procs \X (1..MaxRuns)) \cup {NoOwner}

TypeOK ==
    /\ catalog \in [Tables -> Owners]
    /\ pc \in [Procs -> Steps]
    /\ created \in [Procs -> [Kinds -> BOOLEAN]]
    /\ verdict \in [Procs -> {"none", "success", "fail"}]
    /\ runs \in [Procs -> 1..MaxRuns]
    /\ faults \in 0..MaxFaults
    /\ crashes \in 0..MaxCrashes
    /\ attempted \in [Procs -> SUBSET Kinds]
    /\ visible \in [Procs -> BOOLEAN]
    /\ txnGateway \in BOOLEAN

\* The created flags of test_basic_connection / test_character_encoding make
\* cleanup_test_data drop only what this run made: while a run still has to
\* drop a flagged table, that table exists and this very run created it, so
\* a run that lost the CREATE race to another process (same protocol, same
\* table name), or whose CREATE was lost, never drops the other's table.
FlagMeansOwned ==
    \A p \in Procs, k \in Kinds :
        (created[p][k] /\ pc[p] \notin Ended /\ k \notin attempted[p])
            => catalog[TableOf(p, k)] = Me(p)

\* A run that printed "Test completed." left no table it created behind,
\* so it cannot make the next run's CREATE TABLE fail.
NoLeakOnCleanExit ==
    \A p \in Procs :
        pc[p] = "Completed" => \A t \in Tables : catalog[t] # Me(p)

\* The harness treats a temporary table as a lease on its name: a run only
\* comes to hold a table by creating it while the name is free, and every
\* DROP that removes a table is issued by the run that created it and still
\* holds it, across races of processes, crashes, restarts and lost answers.
LeaseRefinement == Lease!LeaseSpec

\* Spec 4.3 rule 5: cleanup attempts to DROP every table whose flag is set;
\* one failing DROP does not stop the others.
CleanupAttemptsEveryFlaggedTable ==
    \A p \in Procs :
        (pc[p] \in Ended \ {"Crashed"} /\ attempted[p] # {})
            => {k \in Kinds : created[p][k]} \subseteq attempted[p]

\* Spec 6/7: every run prints the completion banner; a cleanup error is
\* reported but does not replace the verdict.
CompletionBannerAlwaysPrinted ==
    \A p \in Procs : pc[p] # "CleanupRaised"
=============================================================================
