--------------------------- MODULE MCResponseCache ---------------------------
(* Instances of the response cache for TLC. *)
EXTENDS ResponseCache, TLC

CONSTANTS r1, r2, r3, k1, k2

\* Requests differ by what they do only; one of the keys is the empty one.
Symmetric == Permutations({r1, r2, r3})

=============================================================================
