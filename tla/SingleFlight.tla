----------------------------- MODULE SingleFlight -----------------------------
(***************************************************************************)
(* What getOrFetch promises identical calls, whatever cache, queues and    *)
(* wrappers are around it: a key has one fetch at a time, who asks for a   *)
(* key that is being fetched waits for that fetch, and nobody waits for a  *)
(* fetch that has settled, or that the key has been released from.         *)
(***************************************************************************)
CONSTANTS
    Callers,
    Keys,
    None            \* no caller

VARIABLES
    key,            \* what each caller asks for; never changes
    fetcher,        \* key -> the caller whose fetch holds it
    awaits,         \* caller -> the caller whose fetch it waits for
    settled         \* the callers that hold a key, and whose fetch has its answer

vars == <<key, fetcher, awaits, settled>>

Init ==
    /\ key \in [Callers -> Keys]
    /\ fetcher = [k \in Keys |-> None]
    /\ awaits = [c \in Callers |-> None]
    /\ settled = {}

Holds(c) == fetcher[key[c]] = c

Start(c) ==
    /\ fetcher[key[c]] = None
    /\ awaits[c] = None
    /\ fetcher' = [fetcher EXCEPT ![key[c]] = c]
    /\ UNCHANGED <<key, awaits, settled>>

Wait(c) ==
    /\ fetcher[key[c]] \notin {None, c} \cup settled
    /\ awaits[c] = None
    /\ awaits' = [awaits EXCEPT ![c] = fetcher[key[c]]]
    /\ UNCHANGED <<key, fetcher, settled>>

\* All who wait for a fetch learn its outcome at once.
Tell(c) ==
    /\ Holds(c)
    /\ c \notin settled
    /\ awaits' = [w \in Callers |-> IF awaits[w] = c THEN None ELSE awaits[w]]
    /\ UNCHANGED key

\* The answer is there; the key is held until it has been stored.
Answered(c) ==
    /\ Tell(c)
    /\ settled' = settled \cup {c}
    /\ UNCHANGED fetcher

Failed(c) ==
    /\ Tell(c)
    /\ fetcher' = [fetcher EXCEPT ![key[c]] = None]
    /\ UNCHANGED settled

Release(c) ==
    /\ c \in settled
    /\ settled' = settled \ {c}
    /\ fetcher' = [fetcher EXCEPT ![key[c]] = None]
    /\ UNCHANGED <<key, awaits>>

Next == \E c \in Callers : Start(c) \/ Wait(c) \/ Answered(c) \/ Failed(c) \/ Release(c)

Spec == Init /\ [][Next]_vars

=============================================================================
