-------------------------- MODULE MCTaskExecution --------------------------
(* Values of the constants of TaskExecution for TLC. *)
EXTENDS TaskExecution, TLC

CONSTANTS q1, q2, q3, t1

\* Requests only differ by name.
RequestSymmetry == Permutations(Requests)

=============================================================================
