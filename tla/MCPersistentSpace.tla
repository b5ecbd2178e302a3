-------------------------- MODULE MCPersistentSpace --------------------------
(* Instances of PersistentSpace for TLC.                                   *)
EXTENDS PersistentSpace

\* The text of time 1 parses back one unit in the last place too high.
ShiftedTime(time) == IF time = 1 THEN 2 ELSE time

\* Leases are, too: in each instance the result of every run is null, or of none.
Interchangeable == Permutations(JobIds) \cup Permutations(LeaseIds) \cup Permutations(Clients)
=============================================================================
