-------------------------- MODULE MCEventPublisher --------------------------
(* Values of the constants of EventPublisher for TLC. *)
EXTENDS EventPublisher

CONSTANTS c1, c2, c3, c4, t1, t2

\* c1: failTask, two groups of one event; c2: startTask, one group of two;
\* c3: createTask, one event; c4: completeTask, one group of two.
MCScript == [c \in Clients |->
    CASE c = c1 -> << <<"FAILED">>, <<"RETRIED">> >>
      [] c = c2 -> << <<"EXEC_STARTED", "TASK_STARTED">> >>
      [] c = c3 -> << <<"CREATED">> >>
      [] c = c4 -> << <<"EXEC_COMPLETED", "TASK_COMPLETED">> >>]
MCTaskOf == [c \in Clients |-> IF c \in {c1, c2} THEN t1 ELSE t2]

=============================================================================
