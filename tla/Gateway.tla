------------------------------ MODULE Gateway ------------------------------
(***************************************************************************)
(* The part of the OtterStax gateway the test harness depends on: the     *)
(* catalog of temporary tables in campaigns.db1.schema.  The gateway is   *)
(* outside this repository; only its observable DDL contract is modelled: *)
(* CREATE TABLE fails on a table that exists, DROP TABLE fails on one     *)
(* that does not, and a statement the client sees fail may or may not     *)
(* have been applied (the "lost" result: applied, then the answer lost).  *)
(*                                                                         *)
(* catalog[t] is NoOwner when table t does not exist; otherwise it is the *)
(* <<process, run>> whose CREATE made it.  The creator is a ghost: the    *)
(* gateway itself only knows that the table exists.                       *)
(***************************************************************************)
CONSTANTS
    Tables,        \* the temporary table names the scenarios use
    NoOwner        \* model value: the table does not exist

VARIABLE catalog

\* Results a DDL statement can have as seen by both sides: applied and
\* acknowledged, not applied and an error raised, applied but an error raised.
StatementResults == {"ok", "fail", "lost"}

Exists(t) == catalog[t] # NoOwner

Applied(res) == res \in {"ok", "lost"}

\* CREATE TABLE t: the client sees an error unless the table was absent and
\* the statement was acknowledged.
CreateRaises(t, res) == Exists(t) \/ res # "ok"

CreateTable(t, who, res) ==
    IF ~Exists(t) /\ Applied(res) THEN [catalog EXCEPT ![t] = who] ELSE catalog

\* DROP TABLE t
DropRaises(t, res) == ~Exists(t) \/ res # "ok"

DropTable(t, res) ==
    IF Exists(t) /\ Applied(res) THEN [catalog EXCEPT ![t] = NoOwner] ELSE catalog

GatewayInit == catalog = [t \in Tables |-> NoOwner]
=============================================================================
