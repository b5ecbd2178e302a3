---------------------------- MODULE MCTupleSpace ----------------------------
(* Instances of TupleSpace for TLC.                                        *)
EXTENDS TupleSpace, TLC

\* A lease of -1 s is the expired lease of the repository's own tests.
MCTtls == {-1, 1}

MCLimits == {0, 2}

Interchangeable == Permutations(JobIds) \cup Permutations(LeaseIds)
=============================================================================
