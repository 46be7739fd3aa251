----------------------------- MODULE TableLease -----------------------------
(***************************************************************************)
(* What the scenarios promise about the temporary tables they share with  *)
(* every other harness run (spec 1, 4.3, 5): a table behaves like a lease *)
(* on a name.  A run comes to hold a table only by creating it while the  *)
(* name is free; it may also create one without learning that it did     *)
(* (the answer was lost).  A run stops holding tables when it drops them  *)
(* or ends, and the only tables a run can make disappear are tables it    *)
(* holds and created itself.  Tables that no run holds any more may stay  *)
(* (a leak), but are never taken over.                                    *)
(***************************************************************************)
CONSTANTS
    Tables,     \* temporary table names
    Holders,    \* the runs: <<process, run number>>
    NoOwner     \* the name is free

VARIABLES
    holder,     \* holder[t]: the run that created table t, or NoOwner
    holds       \* holds[r]: the tables run r knows it created and still owns

leaseVars == <<holder, holds>>

LeaseInit ==
    /\ holder = [t \in Tables |-> NoOwner]
    /\ holds = [r \in Holders |-> {}]

\* Run r creates the free table t, and learns it (known) or not.
Acquire(r, t, known) ==
    /\ holder[t] = NoOwner
    /\ holder' = [holder EXCEPT ![t] = r]
    /\ holds' = [holds EXCEPT ![r] = IF known THEN @ \cup {t} ELSE @]

\* Run r gives up the tables S it holds, and of those the tables D are
\* dropped; each of them was created by r.
Release(r, S, D) ==
    /\ S # {} /\ S \subseteq holds[r]
    /\ D \subseteq S
    /\ \A t \in D : holder[t] = r
    /\ holds' = [holds EXCEPT ![r] = @ \ S]
    /\ holder' = [t \in Tables |-> IF t \in D THEN NoOwner ELSE holder[t]]

LeaseNext ==
    \/ \E r \in Holders, t \in Tables, known \in BOOLEAN : Acquire(r, t, known)
    \/ \E r \in Holders : \E S \in SUBSET holds[r] : \E D \in SUBSET S :
          Release(r, S, D)

LeaseSpec == LeaseInit /\ [][LeaseNext]_leaseVars
====
