-------------------------- MODULE MCRetryingClient --------------------------
(* Values of the constants of RetryingClient for TLC. *)
EXTENDS RetryingClient

CONSTANTS q1, q2, q3, q4

=============================================================================
