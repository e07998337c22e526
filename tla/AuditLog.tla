------------------------------- MODULE AuditLog -------------------------------
(***************************************************************************)
(* What the buffered audit log promises its callers, whatever buffers,     *)
(* timers and batches are behind it: an event it has accepted waits for    *)
(* its row for as long as the process is up, rows are only ever appended,  *)
(* and an event gets one of them -- or possibly more, when the database    *)
(* may fail to acknowledge rows that it has written.                       *)
(***************************************************************************)
EXTENDS Naturals, Sequences

CONSTANTS
    Events,
    MayRepeat       \* the acknowledgement of an insert may be lost

VARIABLES
    waiting,        \* the accepted events that the log still has to write
    log,            \* the rows
    up              \* the process runs

vars == <<waiting, log, up>>

Rows == {log[i] : i \in DOMAIN log}

Init == waiting = {} /\ log = <<>> /\ up = TRUE

New == (Len(log) + 1)..Len(log')
NewRows == {log'[i] : i \in New}

\* Rows are appended, at most one for an event, and only for events that wait.
Appends ==
    /\ log' \in Seq(Events)
    /\ Len(log) <= Len(log')
    /\ \A i \in DOMAIN log : log'[i] = log[i]
    /\ \A i, j \in New : log'[i] = log'[j] => i = j
    /\ NewRows \subseteq waiting

Accept(events) ==
    /\ up
    /\ events \cap (waiting \cup Rows) = {}
    /\ waiting' = waiting \cup events
    /\ UNCHANGED <<log, up>>

Persist ==
    /\ up
    /\ Appends
    /\ waiting' = waiting \ NewRows
    /\ UNCHANGED up

PersistUnheard ==
    /\ MayRepeat
    /\ up
    /\ Appends
    /\ UNCHANGED <<waiting, up>>

\* The process ends, and with it what waits.
Stop ==
    /\ up
    /\ up' = FALSE
    /\ waiting' = {}
    /\ \/ UNCHANGED log
       \/ MayRepeat /\ Appends

Next ==
    \/ \E events \in SUBSET Events : Accept(events)
    \/ Persist
    \/ PersistUnheard
    \/ Stop

Spec == Init /\ [][Next]_vars

\* Unless acknowledgements get lost, an event has at most one row.
OneRowEach == MayRepeat \/ \A i, j \in DOMAIN log : log[i] = log[j] => i = j

=============================================================================
