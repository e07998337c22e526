--------------------------- MODULE TaskExecution ---------------------------
(***************************************************************************)
(* The status machine of fastify_apps/task-graph: the operations of        *)
(* TaskService on existing tasks. Each is findByPk, checks on the row it   *)
(* read, one UPDATE of the fields that differ from that row, and events;   *)
(* no lock, transaction or version guards the row in between.              *)
(***************************************************************************)
EXTENDS Integers, Sequences, FiniteSets

CONSTANTS
    Requests,     \* HTTP requests, each made at most once
    Tasks,
    Ops,          \* the operations they may ask for
    Created,      \* statuses createTask was asked for
    Targets,      \* statuses PATCH may ask for
    Chosen,       \* execution ids that callers make up
    RetryLimits,  \* values of maxRetries, at creation and by updateTask
    MaxActive,    \* bound: requests between their read and their answer
    MaxNamed      \* bound: execution ids that callers ever give

AllOps == {"start", "complete", "fail", "failNoRetry", "skip", "retry",
           "retryReset", "status", "update", "delete"}

Statuses == {"PENDING", "TODO", "IN_PROGRESS", "BLOCKED", "DONE", "FAILED",
             "RETRYING", "SKIPPED"}

EventTypes == {"EXECUTION_STARTED", "EXECUTION_COMPLETED", "EXECUTION_FAILED",
               "TASK_STARTED", "TASK_COMPLETED", "TASK_FAILED", "TASK_RETRIED",
               "TASK_SKIPPED"}

ASSUME ExecutionAssumption ==
    /\ Ops \subseteq AllOps
    /\ Created \subseteq Statuses
    /\ Targets \subseteq Statuses
    /\ RetryLimits \subseteq Nat
    /\ RetryLimits # {}
    /\ MaxActive \in Nat \ {0}
    /\ MaxNamed \in Nat
    /\ (Requests \cup Chosen) \cap {"none", "kept"} = {}
    /\ Requests \cap Chosen = {}

VARIABLES
    rows,      \* the task rows; execution is metadata.executionId
    exists,    \* tasks whose row has not been destroyed
    pc,        \* "idle", "checked", "written", "answered"
    call,      \* while it is active: what a request asked for, and the row it read
    audit,     \* events published
    failed,    \* history: failTask updates of a task since its count was reset
    clashed,   \* history: tasks and fields that two requests were about to write at once
    byHand,    \* history: tasks created RETRYING, or PATCHed to it or to another maxRetries
    silent,    \* history: tasks whose status was last written without an event
    named      \* history: execution ids that callers have given

vars == <<rows, exists, pc, call, audit, failed, clashed, byHand, silent, named>>

\* The service makes an id of its own for every request that needs one.
Ids == Requests \cup Chosen
Row == [status : Statuses, retryCount : Nat, maxRetries : RetryLimits,
        execution : Ids \cup {"none"}]
Call == [op : AllOps, task : Tasks, to : Statuses, limit : RetryLimits,
         given : Ids \cup {"none"}, meta : Ids \cup {"kept", "none"}, row : Row]
NoCall == [op |-> "none"]
AuditEvent == [type : EventTypes, task : Tasks, execution : Ids \cup {"none"},
               retryCount : Nat]
Fields == {"status", "count", "log"}

-----------------------------------------------------------------------------
ValidTransitions ==
    [PENDING     |-> {"DONE", "FAILED", "RETRYING", "SKIPPED", "IN_PROGRESS", "BLOCKED"},
     TODO        |-> {"PENDING", "DONE", "FAILED", "RETRYING", "SKIPPED",
                      "IN_PROGRESS", "BLOCKED"},
     IN_PROGRESS |-> {"PENDING", "DONE", "BLOCKED", "FAILED", "RETRYING", "SKIPPED"},
     BLOCKED     |-> {"PENDING", "IN_PROGRESS", "SKIPPED"},
     DONE        |-> {"PENDING"},
     FAILED      |-> {"PENDING", "RETRYING", "SKIPPED"},
     RETRYING    |-> {"PENDING", "IN_PROGRESS", "DONE", "FAILED", "SKIPPED"},
     SKIPPED     |-> {"PENDING", "IN_PROGRESS"}]

IsValidTransition(from, to) == to \in ValidTransitions[from]

\* Mutant: the retry after the last one is granted.
WillRetry_OneMore(k) == k.op = "fail" /\ k.row.retryCount <= k.row.maxRetries

\* failTask's willRetry.
WillRetry(k) == k.op = "fail" /\ k.row.retryCount < k.row.maxRetries

\* The status an operation writes.
Target(k) ==
    CASE k.op = "start"                    -> "IN_PROGRESS"
      [] k.op = "complete"                 -> "DONE"
      [] k.op \in {"fail", "failNoRetry"}  -> IF WillRetry(k) THEN "RETRYING" ELSE "FAILED"
      [] k.op = "skip"                     -> "SKIPPED"
      [] k.op \in {"retry", "retryReset"}  -> "PENDING"
      [] OTHER                             -> k.to

\* The checks between the read and the update, all on the row that was read.
Accepted(k) ==
    \/ k.op = "delete"
    \/ k.op = "update" /\ k.to = k.row.status
    \/ /\ k.op # "retry" \/ k.row.retryCount < k.row.maxRetries
       /\ IsValidTransition(k.row.status, Target(k))

Fails(k) == k.op \in {"fail", "failNoRetry"}
Patches(k) == k.op \in {"status", "update"}

\* Mutant: a manual retry gives one attempt back.
NewCount_GivenBack(k) ==
    IF Fails(k) THEN k.row.retryCount + 1
    ELSE IF k.op = "retryReset" THEN 0
    ELSE IF k.op = "retry" THEN k.row.retryCount - 1 ELSE k.row.retryCount

NewCount(k) ==
    IF Fails(k) THEN k.row.retryCount + 1
    ELSE IF k.op = "retryReset" THEN 0 ELSE k.row.retryCount

\* Mutant: a restart keeps the executionId it finds.
ExecutionId_Kept(k, r) ==
    IF k.op = "start" /\ k.given # "none" THEN k.given
    ELSE IF k.row.execution = "none" /\ k.op # "skip" THEN r ELSE k.row.execution

\* The executionId events carry: the one given to start, that of the metadata read, or
\* a fresh one.
ExecutionId(k, r) ==
    IF k.op = "start" THEN IF k.given # "none" THEN k.given ELSE r
    ELSE IF k.row.execution = "none" /\ k.op # "skip" THEN r ELSE k.row.execution

\* The executionId in the metadata that are now in the row. k.meta says what the
\* caller's metadata, spread over those that were read (PATCH puts them in their place),
\* make of it: an executionId of their own, none (a null, or a PATCH without one), the
\* one that was read when another key changes, or "kept" when nothing changes.
NewExecution(k, r, now) ==
    IF k.meta # "kept" THEN k.meta
    ELSE IF k.op = "start" /\ ExecutionId(k, r) # k.row.execution THEN ExecutionId(k, r)
    ELSE now.execution

\* Mutant: the count is written back whether it changed or not.
Updated_StaleCount(k, r, now) ==
    [status     |-> IF Target(k) # k.row.status THEN Target(k) ELSE now.status,
     retryCount |-> NewCount(k),
     maxRetries |-> IF k.limit # k.row.maxRetries THEN k.limit ELSE now.maxRetries,
     execution  |-> NewExecution(k, r, now)]

\* Mutant: the whole row is saved.
Updated_WholeRow(k, r, now) ==
    [status     |-> Target(k),
     retryCount |-> NewCount(k),
     maxRetries |-> k.limit,
     execution  |-> NewExecution(k, r, k.row)]

\* instance.update writes the fields that differ from the instance's own copy. The
\* metadata are one field.
Updated(k, r, now) ==
    [status     |-> IF Target(k) # k.row.status THEN Target(k) ELSE now.status,
     retryCount |-> IF NewCount(k) # k.row.retryCount THEN NewCount(k) ELSE now.retryCount,
     maxRetries |-> IF k.limit # k.row.maxRetries THEN k.limit ELSE now.maxRetries,
     execution  |-> NewExecution(k, r, now)]

Event(type, k, r, count) ==
    [type |-> type, task |-> k.task, execution |-> ExecutionId(k, r), retryCount |-> count]

\* Mutant: failTask asks the updated instance whether a retry is left.
EventsOf_AskedLate(k, r) ==
    CASE k.op = "start" ->
            <<Event("EXECUTION_STARTED", k, r, 0), Event("TASK_STARTED", k, r, 0)>>
      [] k.op = "complete" ->
            <<Event("TASK_COMPLETED", k, r, 0), Event("EXECUTION_COMPLETED", k, r, 0)>>
      [] Fails(k) ->
            <<Event("TASK_FAILED", k, r, NewCount(k) + 1),
              IF WillRetry(k) /\ NewCount(k) < k.row.maxRetries
              THEN Event("TASK_RETRIED", k, r, NewCount(k) + 1)
              ELSE Event("EXECUTION_FAILED", k, r, 0)>>
      [] k.op = "skip" -> <<Event("TASK_SKIPPED", k, r, 0)>>
      [] OTHER -> <<>>

\* After the update the instance holds the new count, and failTask adds one again.
EventsOf(k, r) ==
    CASE k.op = "start" ->
            <<Event("EXECUTION_STARTED", k, r, 0), Event("TASK_STARTED", k, r, 0)>>
      [] k.op = "complete" ->
            <<Event("TASK_COMPLETED", k, r, 0), Event("EXECUTION_COMPLETED", k, r, 0)>>
      [] Fails(k) ->
            <<Event("TASK_FAILED", k, r, NewCount(k) + 1),
              IF WillRetry(k) THEN Event("TASK_RETRIED", k, r, NewCount(k) + 1)
                              ELSE Event("EXECUTION_FAILED", k, r, 0)>>
      [] k.op = "skip" -> <<Event("TASK_SKIPPED", k, r, 0)>>
      [] OTHER -> <<>>

-----------------------------------------------------------------------------
NewRow(status, limit, id) ==
    [status |-> status, retryCount |-> 0, maxRetries |-> limit, execution |-> id]

Init ==
    /\ rows \in [Tasks -> {NewRow(s, n, e) : s \in Created, n \in RetryLimits,
                                           e \in Chosen \cup {"none"}}]
    /\ exists = Tasks
    /\ pc = [r \in Requests |-> "idle"]
    /\ call = [r \in Requests |-> NoCall]
    /\ audit = <<>>
    /\ failed = [t \in Tasks |-> 0]
    /\ clashed = {}
    /\ byHand = {t \in Tasks : rows[t].status = "RETRYING"}
    /\ silent = {}
    /\ named = Chosen

Active == {r \in Requests : pc[r] \in {"checked", "written"}}

\* The ids a caller may know: those it made up, and those that tasks and log show.
Known == Chosen \cup ({rows[t].execution : t \in Tasks} \ {"none"})
                \cup ({audit[i].execution : i \in DOMAIN audit} \ {"none"})

\* What a request asks for, with the row that findByPk gives it.
Loaded(op, t, to, limit, given, meta) ==
    [op |-> op, task |-> t, row |-> rows[t],
     to    |-> IF op \in {"status", "update"} /\ to \in Statuses THEN to ELSE rows[t].status,
     limit |-> IF op = "update" THEN limit ELSE rows[t].maxRetries,
     given |-> IF op = "start" THEN given ELSE "none",
     meta  |-> IF op = "delete" THEN "kept" ELSE meta]

Logs(k) == k.op \in {"start", "complete", "fail", "failNoRetry", "skip"}
Touches(k) ==
    {f \in Fields : \/ f = "status" /\ Target(k) # k.row.status
                    \/ f = "count" /\ (Fails(k) \/ k.op = "retryReset")
                    \/ f = "log" /\ Logs(k)}

\* What k is going to write while another request is about to: a field of the row that
\* the other has read and not yet written, or the log.
Clashes(k) ==
    {<<k.task, f>> : f \in {g \in Touches(k) : \E q \in Active :
        /\ call[q].task = k.task
        /\ g \in Touches(call[q])
        /\ pc[q] = "checked" \/ g = "log"}}

\* A PATCH that interferes with the retry machinery.
Meddles(k) ==
    Patches(k) /\ (k.limit # k.row.maxRetries
                    \/ (k.to = "RETRYING" /\ k.to # k.row.status))

\* The execution ids of the caller's own that a request brings.
Names(k) == ({k.given} \cup ({k.meta} \ {k.row.execution})) \cap Ids

\* findByPk answers and the operation checks what it read.
Check(r, op, t, to, limit, given, meta) ==
    /\ pc[r] = "idle"
    /\ Cardinality(Active) < MaxActive
    /\ LET k == Loaded(op, t, to, limit, given, meta)
       IN  IF t \in exists /\ Accepted(k)
           THEN /\ Cardinality(named \cup Names(k)) <= MaxNamed
                /\ call' = [call EXCEPT ![r] = k]
                /\ pc' = [pc EXCEPT ![r] = "checked"]
                /\ clashed' = clashed \cup Clashes(k)
                /\ byHand' = IF Meddles(k) THEN byHand \cup {t} ELSE byHand
                /\ named' = named \cup Names(k)
           ELSE /\ pc' = [pc EXCEPT ![r] = "answered"]
                /\ UNCHANGED <<call, clashed, byHand, named>>
    /\ UNCHANGED <<rows, exists, audit, failed, silent>>

\* The UPDATE or DELETE. An UPDATE that matches no row is not an error.
Write(r) ==
    /\ pc[r] = "checked"
    /\ LET k == call[r]
           hit == k.task \in exists
       IN  /\ IF k.op = "delete"
              THEN exists' = exists \ {k.task} /\ UNCHANGED <<rows, failed, silent>>
              ELSE /\ rows' = IF hit THEN [rows EXCEPT ![k.task] = Updated(k, r, @)] ELSE rows
                   /\ failed' = IF ~hit THEN failed
                                ELSE [failed EXCEPT ![k.task] =
                                        IF Fails(k) THEN @ + 1
                                        ELSE IF k.op = "retryReset" THEN 0 ELSE @]
                   /\ silent' = IF "status" \notin Touches(k) THEN silent
                                ELSE IF Logs(k) THEN silent \ {k.task}
                                ELSE silent \cup {k.task}
                   /\ UNCHANGED exists
    /\ pc' = [pc EXCEPT ![r] = "written"]
    /\ UNCHANGED <<call, audit, clashed, byHand, named>>

\* The statement fails: DatabaseError, nothing written.
WriteFails(r) ==
    /\ pc[r] = "checked"
    /\ pc' = [pc EXCEPT ![r] = "answered"]
    /\ call' = [call EXCEPT ![r] = NoCall]
    /\ UNCHANGED <<rows, exists, audit, failed, clashed, byHand, silent, named>>

Publish(r) ==
    /\ pc[r] = "written"
    /\ audit' = audit \o EventsOf(call[r], r)
    /\ pc' = [pc EXCEPT ![r] = "answered"]
    /\ call' = [call EXCEPT ![r] = NoCall]
    /\ UNCHANGED <<rows, exists, failed, clashed, byHand, silent, named>>

\* The row is written, and then a count of steps or dependencies or a flush fails: the
\* reply is a DatabaseError although the UPDATE is committed. No event was published,
\* or all; failTask awaits a full buffer's flush between its two.
PublishFails(r) ==
    /\ pc[r] = "written"
    /\ LET k == call[r]
           events == EventsOf(k, r)
       IN  \E n \in IF Fails(k) THEN 0..2 ELSE {0, Len(events)} :
              /\ audit' = audit \o SubSeq(events, 1, n)
              /\ silent' = IF n < Len(events) THEN silent \cup {k.task} ELSE silent
    /\ pc' = [pc EXCEPT ![r] = "answered"]
    /\ call' = [call EXCEPT ![r] = NoCall]
    /\ UNCHANGED <<rows, exists, failed, clashed, byHand, named>>

Next ==
    \E r \in Requests :
        \/ \E op \in Ops, t \in Tasks, to \in Targets \cup {"kept"}, limit \in RetryLimits,
              given \in Known \cup {"none"}, meta \in Known \cup {"kept", "none"} :
                Check(r, op, t, to, limit, given, meta)
        \/ Write(r)
        \/ WriteFails(r)
        \/ Publish(r)
        \/ PublishFails(r)

Spec == Init /\ [][Next]_vars

-----------------------------------------------------------------------------
(* Properties *)

TypeOK ==
    /\ rows \in [Tasks -> Row]
    /\ exists \subseteq Tasks
    /\ pc \in [Requests -> {"idle", "checked", "written", "answered"}]
    /\ call \in [Requests -> Call \cup {NoCall}]
    /\ audit \in Seq(AuditEvent)
    /\ failed \in [Tasks -> Nat]
    /\ clashed \subseteq Tasks \X Fields
    /\ byHand \subseteq Tasks
    /\ silent \subseteq Tasks
    /\ named \subseteq Ids

\* A status only changes along the transition table, although the check is on the row
\* that was read: unless two requests are about to write the status of the task. Others
\* that overlap, such as a PATCH of another field, do not write back the status they
\* have read.
TransitionsLegal ==
    [][\A t \in Tasks :
         rows'[t].status # rows[t].status /\ <<t, "status">> \notin clashed =>
            IsValidTransition(rows[t].status, rows'[t].status)]_vars

\* A task is handed to the retry machinery only while its budget allows it, however
\* requests race: a RETRYING row counts its last failure and is within maxRetries,
\* unless somebody PATCHed it to RETRYING or changed its maxRetries.
RetryingWithinBudget ==
    \A t \in Tasks \ byHand : rows[t].status = "RETRYING" =>
        rows[t].retryCount \in 1..rows[t].maxRetries

\* The row's count is the number of failures since the last reset, whatever else is
\* done to the task meanwhile. Two failures that overlap, or a failure and a reset, are
\* the exception: one of them is lost.
FailuresCounted ==
    \A t \in Tasks : <<t, "count">> \notin clashed => rows[t].retryCount = failed[t]

\* When no request is between its UPDATE of a task and its events, the last event of
\* the task tells the status of its row, however the requests have overlapped: unless
\* the status was written without an event (by PATCH, by retry, or by a request that
\* failed after its UPDATE), or two requests were about to log at once.
LastEventOf(t, i) == audit[i].task = t /\ \A j \in DOMAIN audit : j > i => audit[j].task # t
Tells == [TASK_STARTED |-> "IN_PROGRESS", EXECUTION_COMPLETED |-> "DONE",
          EXECUTION_FAILED |-> "FAILED", TASK_RETRIED |-> "RETRYING",
          TASK_SKIPPED |-> "SKIPPED"]
LogTellsStatus ==
    \A t \in exists \ silent : \A i \in DOMAIN audit :
        /\ LastEventOf(t, i)
        /\ \A r \in Requests : pc[r] = "written" => call[r].task # t
        /\ <<t, "log">> \notin clashed
        => /\ audit[i].type \in DOMAIN Tells
           /\ rows[t].status = Tells[audit[i].type]

\* In the audit log an execution starts once, and before it ends, whatever was retried,
\* reopened or skipped between two starts: unless a caller has given its id to a
\* request, or two requests were about to log at once.
Bounds == {"EXECUTION_STARTED", "EXECUTION_COMPLETED", "EXECUTION_FAILED"}
StartedOnceBeforeEnd ==
    \A i, j \in DOMAIN audit :
        /\ i < j
        /\ <<audit[i].task, "log">> \notin clashed
        /\ audit[i].type \in Bounds
        /\ audit[j].type = "EXECUTION_STARTED"
        /\ audit[i].execution \notin named
        => audit[i].execution # audit[j].execution

=============================================================================
