--------------------------- MODULE MCRateLimiter ---------------------------
(* Values of the constants of RateLimiter for TLC. *)
EXTENDS RateLimiter

CONSTANTS r1, r2, r3

\* r1 has no priority; r3 outranks r2.
MixedPrio == [r \in {r2, r3} |-> IF r = r2 THEN 1 ELSE 2]

\* A limiter of its own quota.
Fixed(n) == [dynamic |-> FALSE, maxRequests |-> n]
FixedOne == {Fixed(1)}
FixedTwo == {Fixed(2)}

\* One that learns its quota from the status callback.
Learning == [dynamic |-> TRUE, maxRequests |-> 0]
AnyMode == {Fixed(1), Learning}

=============================================================================
