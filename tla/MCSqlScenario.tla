--------------------------- MODULE MCSqlScenario ---------------------------
(* Instantiation of SqlScenario for TLC: two MySQL clients that race for  *)
(* the same table names and one PostgreSQL client.                        *)
EXTENDS SqlScenario, TLC

CONSTANTS p1, p2, p3

MCProcs == {p1, p2, p3}
MCProtocol == (p1 :> "mysql") @@ (p2 :> "mysql") @@ (p3 :> "postgres")
MCTables == {MySqlTables[k] : k \in Kinds} \cup {PgTables[k] : k \in Kinds}

\* A single MySQL client: enough to show what one run does on its own.
\* p1 and p2 run the same client and are interchangeable.
Symmetry == Permutations({p1, p2})

\* The two MySQL clients alone: every race on a shared table name.
MCTwoProcs == {p1, p2}
MCTwoProtocol == (p1 :> "mysql") @@ (p2 :> "mysql")

MCOneProc == {p1}
MCOneProtocol == p1 :> "mysql"
=============================================================================
