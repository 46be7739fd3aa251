------------------------ MODULE MCFlightDdlScenario ------------------------
(* Instantiation of FlightDdlScenario: two copies of the script.          *)
EXTENDS FlightDdlScenario, TLC

CONSTANTS p1, p2

MCProcs == {p1, p2}
MCOneProc == {p1}
MCTables == {TempTable}

\* The two copies run the same script and are interchangeable.
Symmetry == Permutations(MCProcs)
=============================================================================
