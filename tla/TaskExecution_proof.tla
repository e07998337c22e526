------------------------ MODULE TaskExecution_proof ------------------------
(***************************************************************************)
(* Proofs about TaskExecution, for any number of tasks and requests and    *)
(* any values of the bounds: the typing of the state, the retry budget,    *)
(* the counting of failures, the transitions, and what the audit log says  *)
(* of executions and of the status, under every interleaving.              *)
(***************************************************************************)
EXTENDS TaskExecution, TLAPS

-----------------------------------------------------------------------------
(* The transition table *)

\* No status is a transition of itself, so an accepted operation other than an
\* update always writes the status.
LEMMA NoSelfTransition ==
    ASSUME NEW s \in Statuses
    PROVE  ~IsValidTransition(s, s)
BY DEF Statuses, IsValidTransition, ValidTransitions

\* Every operation writes a status of the enumeration.
LEMMA TargetType ==
    ASSUME NEW k \in Call
    PROVE  Target(k) \in Statuses
BY DEF Call, Target, Statuses, AllOps

-----------------------------------------------------------------------------
(* Types *)

\* The fields of a row and of a call, one fact each.
LEMMA RowFields ==
    ASSUME NEW w \in Row
    PROVE  /\ w.status \in Statuses
           /\ w.retryCount \in Nat
           /\ w.maxRetries \in RetryLimits
           /\ w.execution \in Ids \cup {"none"}
BY DEF Row

LEMMA CallFields ==
    ASSUME NEW k \in Call
    PROVE  /\ k.op \in AllOps
           /\ k.task \in Tasks
           /\ k.to \in Statuses
           /\ k.limit \in RetryLimits
           /\ k.given \in Ids \cup {"none"}
           /\ k.meta \in Ids \cup {"kept", "none"}
           /\ k.row \in Row
BY DEF Call

LEMMA NewCountType ==
    ASSUME NEW k \in Call
    PROVE  NewCount(k) \in Nat
<1>1. k.row.retryCount \in Nat
  BY CallFields, RowFields
<1> QED
  BY <1>1 DEF NewCount

LEMMA ExecutionIdType ==
    ASSUME NEW k \in Call, NEW r \in Requests
    PROVE  ExecutionId(k, r) \in Ids \cup {"none"}
<1>1. /\ k.given \in Ids \cup {"none"}
      /\ k.row.execution \in Ids \cup {"none"}
      /\ r \in Ids
  BY CallFields, RowFields DEF Ids
<1> QED
  BY <1>1 DEF ExecutionId

\* What an operation leaves in the row is a row.
LEMMA UpdatedType ==
    ASSUME NEW k \in Call, NEW r \in Requests, NEW now \in Row
    PROVE  Updated(k, r, now) \in Row
<1>1. Target(k) \in Statuses
  BY TargetType
<1>2. NewCount(k) \in Nat
  BY NewCountType
<1>3. /\ now.status \in Statuses
      /\ now.retryCount \in Nat
      /\ now.maxRetries \in RetryLimits
      /\ now.execution \in Ids \cup {"none"}
  BY RowFields
<1>4. k.limit \in RetryLimits /\ k.meta \in Ids \cup {"kept", "none"}
  BY CallFields
<1>5. NewExecution(k, r, now) \in Ids \cup {"none"}
  BY <1>3, <1>4, ExecutionIdType DEF NewExecution
<1> QED
  BY <1>1, <1>2, <1>3, <1>4, <1>5 DEF Updated, Row

LEMMA EventType ==
    ASSUME NEW k \in Call, NEW r \in Requests, NEW type \in EventTypes, NEW n \in Nat
    PROVE  Event(type, k, r, n) \in AuditEvent
<1>1. k.task \in Tasks
  BY CallFields
<1>2. ExecutionId(k, r) \in Ids \cup {"none"}
  BY ExecutionIdType
<1> QED
  BY <1>1, <1>2 DEF Event, AuditEvent

LEMMA EventsOfType ==
    ASSUME NEW k \in Call, NEW r \in Requests
    PROVE  EventsOf(k, r) \in Seq(AuditEvent)
<1>1. NewCount(k) + 1 \in Nat
  BY NewCountType
<1>2. \A type \in EventTypes : \A n \in Nat : Event(type, k, r, n) \in AuditEvent
  BY EventType
<1> DEFINE started   == Event("EXECUTION_STARTED", k, r, 0)
           task      == Event("TASK_STARTED", k, r, 0)
           completed == Event("TASK_COMPLETED", k, r, 0)
           ended     == Event("EXECUTION_COMPLETED", k, r, 0)
           failure   == Event("TASK_FAILED", k, r, NewCount(k) + 1)
           retried   == Event("TASK_RETRIED", k, r, NewCount(k) + 1)
           gaveUp    == Event("EXECUTION_FAILED", k, r, 0)
           skipped   == Event("TASK_SKIPPED", k, r, 0)
<1>3. /\ started \in AuditEvent
      /\ task \in AuditEvent
      /\ completed \in AuditEvent
      /\ ended \in AuditEvent
      /\ failure \in AuditEvent
      /\ retried \in AuditEvent
      /\ gaveUp \in AuditEvent
      /\ skipped \in AuditEvent
  BY <1>1, <1>2 DEF EventTypes
<1>4. /\ <<started, task>> \in Seq(AuditEvent)
      /\ <<completed, ended>> \in Seq(AuditEvent)
      /\ <<failure, IF WillRetry(k) THEN retried ELSE gaveUp>> \in Seq(AuditEvent)
      /\ <<skipped>> \in Seq(AuditEvent)
      /\ <<>> \in Seq(AuditEvent)
  <2> HIDE DEF started, task, completed, ended, failure, retried, gaveUp, skipped
  <2>1. (IF WillRetry(k) THEN retried ELSE gaveUp) \in AuditEvent
    BY <1>3
  <2> QED
    BY <1>3, <2>1
<1> QED
  BY <1>4 DEF EventsOf

-----------------------------------------------------------------------------
(* Type correctness *)

\* An active request holds a call.
ActiveHoldsCall == \A r \in Requests : pc[r] \in {"checked", "written"} => call[r] \in Call

TypeInv == TypeOK /\ ActiveHoldsCall

\* The inputs of a request.
Inputs(op, t, to, limit, given, meta) ==
    /\ op \in Ops
    /\ t \in Tasks
    /\ limit \in RetryLimits
    /\ given \in Known \cup {"none"}
    /\ meta \in Known \cup {"kept", "none"}

LEMMA KnownIds ==
    ASSUME TypeInv
    PROVE  Known \subseteq Ids
<1>1. \A t \in Tasks : rows[t].execution \in Ids \cup {"none"}
  BY RowFields DEF TypeInv, TypeOK
<1>2. ASSUME NEW i \in DOMAIN audit
      PROVE  audit[i].execution \in Ids \cup {"none"}
  <2>1. audit[i] \in AuditEvent
    BY DEF TypeInv, TypeOK
  <2> QED
    BY <2>1 DEF AuditEvent
<1> QED
  BY <1>1, <1>2 DEF Known, Ids

\* What findByPk and the input make up together is a call.
LEMMA LoadedCall ==
    ASSUME ExecutionAssumption, TypeInv,
           NEW op, NEW t, NEW to, NEW limit, NEW given, NEW meta,
           Inputs(op, t, to, limit, given, meta)
    PROVE  /\ Loaded(op, t, to, limit, given, meta) \in Call
           /\ Loaded(op, t, to, limit, given, meta).task = t
           /\ Loaded(op, t, to, limit, given, meta).row = rows[t]
<1>1. rows[t] \in Row /\ op \in AllOps
  BY DEF Inputs, TypeInv, TypeOK, ExecutionAssumption
<1>2. rows[t].status \in Statuses /\ rows[t].maxRetries \in RetryLimits
  BY <1>1, RowFields
<1>3. given \in Ids \cup {"none"} /\ meta \in Ids \cup {"kept", "none"}
  BY KnownIds DEF Inputs
<1> DEFINE asked   == IF op \in {"status", "update"} /\ to \in Statuses THEN to ELSE rows[t].status
           bounded == IF op = "update" THEN limit ELSE rows[t].maxRetries
           id      == IF op = "start" THEN given ELSE "none"
           left    == IF op = "delete" THEN "kept" ELSE meta
<1>4. /\ asked \in Statuses /\ bounded \in RetryLimits
      /\ id \in Ids \cup {"none"} /\ left \in Ids \cup {"kept", "none"}
  BY <1>2, <1>3 DEF Inputs
<1>5. Loaded(op, t, to, limit, given, meta) =
        [op |-> op, task |-> t, row |-> rows[t], to |-> asked, limit |-> bounded,
         given |-> id, meta |-> left]
  BY DEF Loaded
<1>6. t \in Tasks
  BY DEF Inputs
<1> HIDE DEF asked, bounded, id, left
<1>7. [op |-> op, task |-> t, row |-> rows[t], to |-> asked, limit |-> bounded,
       given |-> id, meta |-> left] \in Call
  BY <1>1, <1>4, <1>6 DEF Call
<1> QED
  BY <1>5, <1>7 DEF Loaded

\* Every step is a request's: its check, its update, or its end.
LEMMA Steps ==
    ASSUME Next
    PROVE  \E r \in Requests :
             \/ \E op, t, to, limit, given, meta :
                  Inputs(op, t, to, limit, given, meta) /\ Check(r, op, t, to, limit, given, meta)
             \/ Write(r)
             \/ WriteFails(r)
             \/ Publish(r)
             \/ PublishFails(r)
<1>1. PICK r \in Requests :
        \/ \E op \in Ops, t \in Tasks, to \in Targets \cup {"kept"}, limit \in RetryLimits,
              given \in Known \cup {"none"}, meta \in Known \cup {"kept", "none"} :
                Check(r, op, t, to, limit, given, meta)
        \/ Write(r)
        \/ WriteFails(r)
        \/ Publish(r)
        \/ PublishFails(r)
  BY DEF Next
<1>2. CASE \E op \in Ops, t \in Tasks, to \in Targets \cup {"kept"}, limit \in RetryLimits,
              given \in Known \cup {"none"}, meta \in Known \cup {"kept", "none"} :
                Check(r, op, t, to, limit, given, meta)
  BY <1>2 DEF Inputs
<1> QED
  BY <1>1, <1>2

LEMMA TypeInit == ExecutionAssumption /\ Init => TypeInv
<1> SUFFICES ASSUME ExecutionAssumption, Init PROVE TypeInv
  OBVIOUS
<1>1. \A s \in Created : \A n \in RetryLimits : \A e \in Chosen \cup {"none"} :
        NewRow(s, n, e) \in Row
  BY DEF ExecutionAssumption, NewRow, Row, Ids
<1>2. rows \in [Tasks -> Row]
  BY <1>1 DEF Init
<1>3. audit \in Seq(AuditEvent)
  BY DEF Init
<1> QED
  BY <1>2, <1>3 DEF Init, TypeInv, TypeOK, ActiveHoldsCall, Ids

LEMMA TypeCheck ==
    ASSUME ExecutionAssumption, TypeInv,
           NEW r \in Requests, NEW op, NEW t, NEW to, NEW limit, NEW given, NEW meta,
           Inputs(op, t, to, limit, given, meta), Check(r, op, t, to, limit, given, meta)
    PROVE  TypeInv'
<1> DEFINE k == Loaded(op, t, to, limit, given, meta)
<1>1. k \in Call /\ t \in Tasks
  BY LoadedCall DEF Inputs
<1>2. /\ \/ call' = [call EXCEPT ![r] = k] /\ pc' = [pc EXCEPT ![r] = "checked"]
         \/ pc' = [pc EXCEPT ![r] = "answered"] /\ call' = call
      /\ clashed' \subseteq clashed \cup Clashes(k)
      /\ byHand' \subseteq byHand \cup {t}
      /\ named' \subseteq named \cup Names(k)
      /\ UNCHANGED <<rows, exists, audit, failed, silent>>
  BY DEF Check
<1> HIDE DEF k
<1>3. Clashes(k) \subseteq Tasks \X Fields
  BY <1>1, CallFields DEF Clashes, Touches
<1>4. clashed' \subseteq Tasks \X Fields /\ byHand' \subseteq Tasks /\ named' \subseteq Ids
  BY <1>1, <1>2, <1>3 DEF TypeInv, TypeOK, Names
<1> QED
  BY <1>1, <1>2, <1>4 DEF TypeInv, TypeOK, ActiveHoldsCall

LEMMA TypeWrite ==
    ASSUME TypeInv, NEW r \in Requests, Write(r)
    PROVE  TypeInv'
<1>1. call[r] \in Call
  BY DEF Write, TypeInv, ActiveHoldsCall
<1>2. call[r].task \in Tasks
  BY <1>1, CallFields
<1>3. Updated(call[r], r, rows[call[r].task]) \in Row
  BY <1>1, <1>2, UpdatedType DEF TypeInv, TypeOK
<1>4. rows' \in [Tasks -> Row]
  BY <1>2, <1>3 DEF Write, TypeInv, TypeOK
<1>5. exists' \subseteq Tasks
  BY DEF Write, TypeInv, TypeOK
<1>6. failed' \in [Tasks -> Nat]
  <2>1. failed \in [Tasks -> Nat]
    BY DEF TypeInv, TypeOK
  <2>2. \/ failed' = failed
        \/ \E n \in {failed[call[r].task] + 1, 0, failed[call[r].task]} :
              failed' = [failed EXCEPT ![call[r].task] = n]
    BY DEF Write
  <2>3. {failed[call[r].task] + 1, 0, failed[call[r].task]} \subseteq Nat
    BY <1>2, <2>1
  <2> QED
    BY <2>1, <2>2, <2>3
<1>7. silent' \subseteq Tasks
  BY <1>2 DEF Write, TypeInv, TypeOK
<1>8. pc' = [pc EXCEPT ![r] = "written"] /\ UNCHANGED <<call, audit, clashed, byHand, named>>
  BY DEF Write
<1> QED
  BY <1>1, <1>4, <1>5, <1>6, <1>7, <1>8 DEF TypeInv, TypeOK, ActiveHoldsCall

LEMMA TypeWriteFails ==
    ASSUME TypeInv, NEW r \in Requests, WriteFails(r)
    PROVE  TypeInv'
BY DEF WriteFails, TypeInv, TypeOK, ActiveHoldsCall

\* A request that ends publishes the events of its operation, or the first of them.
Publishes(r, new) ==
    /\ new \in Seq(AuditEvent)
    /\ Len(new) <= Len(EventsOf(call[r], r))
    /\ \A i \in 1..Len(new) : new[i] = EventsOf(call[r], r)[i]
    /\ audit' = audit \o new

LEMMA Published ==
    ASSUME TypeInv, NEW r \in Requests, Publish(r) \/ PublishFails(r)
    PROVE  \E new : /\ Publishes(r, new)
                    /\ \/ Len(new) = Len(EventsOf(call[r], r)) /\ silent' = silent
                       \/ silent' = silent \cup {call[r].task}
<1> DEFINE events == EventsOf(call[r], r)
<1>1. call[r] \in Call
  BY DEF Publish, PublishFails, TypeInv, ActiveHoldsCall
<1>2. events \in Seq(AuditEvent) /\ Len(events) \in Nat
  BY <1>1, EventsOfType
<1>3. CASE Publish(r)
  <2>1. audit' = audit \o events /\ silent' = silent
    BY <1>3 DEF Publish
  <2> HIDE DEF events
  <2>2. events = EventsOf(call[r], r)
    BY DEF events
  <2>3. Publishes(r, events)
    BY <1>2, <2>1, <2>2 DEF Publishes
  <2> QED
    BY <2>1, <2>2, <2>3
<1>4. CASE PublishFails(r)
  <2>1. PICK n \in IF Fails(call[r]) THEN 0..2 ELSE {0, Len(events)} :
          /\ audit' = audit \o SubSeq(events, 1, n)
          /\ silent' = IF n < Len(events) THEN silent \cup {call[r].task} ELSE silent
    BY <1>4 DEF PublishFails
  <2>2. Fails(call[r]) => Len(events) = 2
    BY DEF EventsOf, Fails
  <2> HIDE DEF events
  <2>3. n \in 0..Len(events)
    BY <1>2, <2>2
  <2>4. events = EventsOf(call[r], r)
    BY DEF events
  <2>5. /\ SubSeq(events, 1, n) \in Seq(AuditEvent)
        /\ Len(SubSeq(events, 1, n)) = n
        /\ \A i \in 1..n : SubSeq(events, 1, n)[i] = events[i]
    BY <1>2, <2>3
  <2>6. Publishes(r, SubSeq(events, 1, n))
    BY <1>2, <2>1, <2>3, <2>4, <2>5 DEF Publishes
  <2>7. \/ Len(SubSeq(events, 1, n)) = Len(events) /\ silent' = silent
        \/ silent' = silent \cup {call[r].task}
    BY <1>2, <2>1, <2>3, <2>5
  <2> QED
    BY <2>4, <2>6, <2>7
<1> QED
  BY <1>3, <1>4

LEMMA TypePublish ==
    ASSUME TypeInv, NEW r \in Requests, Publish(r) \/ PublishFails(r)
    PROVE  TypeInv'
<1>1. call[r] \in Call
  BY DEF Publish, PublishFails, TypeInv, ActiveHoldsCall
<1>2. call[r].task \in Tasks
  BY <1>1, CallFields
<1>3. audit' \in Seq(AuditEvent) /\ silent' \subseteq Tasks
  <2>1. PICK new : /\ Publishes(r, new)
                   /\ \/ Len(new) = Len(EventsOf(call[r], r)) /\ silent' = silent
                      \/ silent' = silent \cup {call[r].task}
    BY Published
  <2>2. new \in Seq(AuditEvent) /\ audit' = audit \o new
    BY <2>1 DEF Publishes
  <2>3. audit' \in Seq(AuditEvent)
    BY <2>2 DEF TypeInv, TypeOK
  <2>4. silent' \subseteq Tasks
    BY <1>2, <2>1 DEF TypeInv, TypeOK
  <2> QED
    BY <2>3, <2>4
<1> QED
  BY <1>3 DEF Publish, PublishFails, TypeInv, TypeOK, ActiveHoldsCall

LEMMA TypeStep == ExecutionAssumption /\ TypeInv /\ [Next]_vars => TypeInv'
<1> SUFFICES ASSUME ExecutionAssumption, TypeInv, [Next]_vars PROVE TypeInv'
  OBVIOUS
<1>1. CASE UNCHANGED vars
  BY <1>1 DEF vars, TypeInv, TypeOK, ActiveHoldsCall
<1>2. CASE Next
  BY <1>2, Steps, TypeCheck, TypeWrite, TypeWriteFails, TypePublish
<1> QED
  BY <1>1, <1>2

\* The state of TaskExecution has its type in every reachable state: rows stay
\* rows whichever operations interleave on them.
THEOREM TypeCorrect == Spec => []TypeOK
<1>1. Init => TypeInv
  BY ExecutionAssumption, TypeInit
<1>2. TypeInv /\ [Next]_vars => TypeInv'
  BY ExecutionAssumption, TypeStep
<1>3. TypeInv => TypeOK
  BY DEF TypeInv
<1> QED
  BY <1>1, <1>2, <1>3, PTL DEF Spec

-----------------------------------------------------------------------------
(* The retry budget *)

\* RetryingWithinBudget is not inductive: whether a write keeps it depends on what
\* the request read. That stays good enough until the write although the row may
\* have changed: the operation was accepted for the row it read, so its target
\* differs from the status read and is written, and maxRetries only moves by hand.
CheckedInBudget ==
    \A r \in Requests : pc[r] = "checked" /\ call[r].task \notin byHand =>
        /\ ~Meddles(call[r])
        /\ Accepted(call[r])
        /\ call[r].limit = call[r].row.maxRetries
        /\ call[r].row.maxRetries = rows[call[r].task].maxRetries

BudgetInv == RetryingWithinBudget /\ CheckedInBudget

LEMMA AcceptedMoves ==
    ASSUME NEW k \in Call, Accepted(k), k.op \notin {"delete", "update"}
    PROVE  Target(k) # k.row.status
<1>1. IsValidTransition(k.row.status, Target(k))
  BY DEF Accepted
<1>2. k.row.status \in Statuses
  BY CallFields, RowFields
<1> QED
  BY <1>1, <1>2, NoSelfTransition

\* An operation that writes RETRYING is a failTask that will retry.
LEMMA OnlyFailRetries ==
    ASSUME NEW k \in Call, k.op # "delete", ~Meddles(k),
           Target(k) = "RETRYING", Target(k) # k.row.status
    PROVE  WillRetry(k)
BY CallFields DEF Target, AllOps, Meddles, Patches

LEMMA UpdatedInBudget ==
    ASSUME NEW k \in Call, NEW r \in Requests, NEW now \in Row,
           k.op # "delete", Accepted(k), ~Meddles(k),
           k.limit = k.row.maxRetries,
           k.row.maxRetries = now.maxRetries,
           now.status = "RETRYING" => now.retryCount \in 1..now.maxRetries,
           RetryLimits \subseteq Nat
    PROVE  /\ Updated(k, r, now).maxRetries = now.maxRetries
           /\ Updated(k, r, now).status = "RETRYING" =>
                Updated(k, r, now).retryCount \in 1..Updated(k, r, now).maxRetries
<1>1. Updated(k, r, now).maxRetries = now.maxRetries
  BY DEF Updated
<1>2. CASE Target(k) = k.row.status
  <2>1. k.op = "update"
    BY <1>2, AcceptedMoves
  <2>2. NewCount(k) = k.row.retryCount
    BY <2>1 DEF NewCount, Fails
  <2>3. /\ Updated(k, r, now).status = now.status
        /\ Updated(k, r, now).retryCount = now.retryCount
    BY <1>2, <2>2 DEF Updated
  <2> QED
    BY <1>1, <2>3
<1>3. CASE Target(k) # k.row.status
  <2>1. Updated(k, r, now).status = Target(k)
    BY <1>3 DEF Updated
  <2>2. ASSUME Target(k) = "RETRYING"
        PROVE  Updated(k, r, now).retryCount \in 1..now.maxRetries
    <3>1. WillRetry(k)
      BY <1>3, <2>2, OnlyFailRetries
    <3>2. /\ k.row.retryCount \in Nat
          /\ now.maxRetries \in Nat
      BY CallFields, RowFields
    <3>3. NewCount(k) = k.row.retryCount + 1
      BY <3>1 DEF NewCount, Fails, WillRetry
    <3>4. k.row.retryCount < now.maxRetries
      BY <3>1 DEF WillRetry
    <3>5. Updated(k, r, now).retryCount = k.row.retryCount + 1
      BY <3>2, <3>3 DEF Updated
    <3> QED
      BY <3>2, <3>4, <3>5
  <2> QED
    BY <1>1, <2>1, <2>2
<1> QED
  BY <1>2, <1>3

LEMMA BudgetInit == Init => BudgetInv
BY DEF Init, NewRow, BudgetInv, RetryingWithinBudget, CheckedInBudget

LEMMA BudgetCheck ==
    ASSUME ExecutionAssumption, TypeInv, BudgetInv,
           NEW r \in Requests, NEW op, NEW t, NEW to, NEW limit, NEW given, NEW meta,
           Inputs(op, t, to, limit, given, meta), Check(r, op, t, to, limit, given, meta)
    PROVE  BudgetInv'
<1> DEFINE k == Loaded(op, t, to, limit, given, meta)
<1>1. rows' = rows /\ byHand \subseteq byHand'
  BY DEF Check
<1>2. RetryingWithinBudget'
  BY <1>1 DEF BudgetInv, RetryingWithinBudget
<1>3. CASE /\ Accepted(k) /\ call' = [call EXCEPT ![r] = k]
           /\ pc' = [pc EXCEPT ![r] = "checked"]
           /\ byHand' = IF Meddles(k) THEN byHand \cup {t} ELSE byHand
  <2>1. k.task = t /\ k.row = rows[t]
    BY LoadedCall
  <2>2. k.limit # k.row.maxRetries => Meddles(k)
    BY DEF Meddles, Patches, Loaded
  <2> HIDE DEF k
  <2> QED
    BY <1>1, <1>2, <1>3, <2>1, <2>2 DEF BudgetInv, CheckedInBudget, TypeInv, TypeOK
<1>4. CASE pc' = [pc EXCEPT ![r] = "answered"] /\ call' = call
  BY <1>1, <1>2, <1>4 DEF BudgetInv, CheckedInBudget, TypeInv, TypeOK
<1> QED
  BY <1>3, <1>4 DEF Check

LEMMA BudgetWrite ==
    ASSUME ExecutionAssumption, TypeInv, BudgetInv, NEW r \in Requests, Write(r)
    PROVE  BudgetInv'
<1> DEFINE k == call[r]
           t == k.task
<1>1. k \in Call /\ t \in Tasks
  BY CallFields DEF Write, TypeInv, ActiveHoldsCall
<1>2. /\ pc' = [pc EXCEPT ![r] = "written"] /\ pc[r] = "checked"
      /\ UNCHANGED <<call, byHand>>
  BY DEF Write
<1>3. CASE rows' = rows
  BY <1>2, <1>3 DEF BudgetInv, RetryingWithinBudget, CheckedInBudget, TypeInv, TypeOK
<1>4. CASE k.op # "delete" /\ rows' = [rows EXCEPT ![t] = Updated(k, r, @)]
  <2>1. rows[t] \in Row
    BY <1>1 DEF TypeInv, TypeOK
  <2>2. \A u \in Tasks : rows'[u] = IF u = t THEN Updated(k, r, rows[t]) ELSE rows[u]
    BY <1>4 DEF TypeInv, TypeOK
  <2>3. ASSUME t \notin byHand
        PROVE  /\ Updated(k, r, rows[t]).maxRetries = rows[t].maxRetries
               /\ Updated(k, r, rows[t]).status = "RETRYING" =>
                    Updated(k, r, rows[t]).retryCount \in 1..Updated(k, r, rows[t]).maxRetries
    <3>1. /\ Accepted(k)
          /\ ~Meddles(k)
          /\ rows[t].status = "RETRYING" => rows[t].retryCount \in 1..rows[t].maxRetries
          /\ k.limit = k.row.maxRetries
          /\ k.row.maxRetries = rows[t].maxRetries
      BY <1>1, <1>2, <2>3 DEF BudgetInv, CheckedInBudget, RetryingWithinBudget
    <3>2. RetryLimits \subseteq Nat
      BY DEF ExecutionAssumption
    <3> QED
      BY <1>1, <1>4, <2>1, <3>1, <3>2, UpdatedInBudget
  <2>4. RetryingWithinBudget'
    BY <1>2, <2>2, <2>3 DEF RetryingWithinBudget, BudgetInv
  <2>5. ASSUME NEW q \in Requests, pc'[q] = "checked", call'[q].task \notin byHand'
        PROVE  /\ ~Meddles(call'[q])
               /\ Accepted(call'[q])
               /\ call'[q].limit = call'[q].row.maxRetries
               /\ call'[q].row.maxRetries = rows'[call'[q].task].maxRetries
    <3>1. pc[q] = "checked" /\ call'[q] = call[q] /\ call[q].task \notin byHand
      BY <1>2, <2>5 DEF TypeInv, TypeOK
    <3>2. call[q].task \in Tasks
      BY <3>1, CallFields DEF TypeInv, ActiveHoldsCall
    <3>3. rows'[call[q].task].maxRetries = rows[call[q].task].maxRetries
      BY <2>2, <2>3, <3>1, <3>2
    <3> QED
      BY <3>1, <3>3 DEF BudgetInv, CheckedInBudget
  <2> QED
    BY <2>4, <2>5 DEF BudgetInv, CheckedInBudget
<1> QED
  BY <1>3, <1>4 DEF Write

LEMMA BudgetStep == ExecutionAssumption /\ TypeInv /\ BudgetInv /\ [Next]_vars => BudgetInv'
<1> SUFFICES ASSUME ExecutionAssumption, TypeInv, BudgetInv, [Next]_vars
             PROVE  BudgetInv'
  OBVIOUS
<1>1. ASSUME NEW r \in Requests, WriteFails(r) \/ Publish(r) \/ PublishFails(r)
      PROVE  BudgetInv'
  <2>1. /\ UNCHANGED <<rows, byHand>> /\ pc'[r] = "answered"
        /\ \A q \in Requests : q # r => call'[q] = call[q] /\ pc'[q] = pc[q]
    BY <1>1 DEF WriteFails, Publish, PublishFails, TypeInv, TypeOK
  <2> QED
    BY <2>1 DEF BudgetInv, RetryingWithinBudget, CheckedInBudget
<1>2. CASE UNCHANGED vars
  BY <1>2 DEF vars, BudgetInv, RetryingWithinBudget, CheckedInBudget
<1>3. CASE Next
  BY <1>1, <1>3, Steps, BudgetCheck, BudgetWrite
<1> QED
  BY <1>2, <1>3

\* Whatever the number of requests between their read and their write, and however
\* they interleave, a RETRYING task has counted its failure and is within its
\* budget, unless somebody PATCHed it to RETRYING or changed its maxRetries.
THEOREM RetryBudget == Spec => []RetryingWithinBudget
<1>1. Init => TypeInv
  BY ExecutionAssumption, TypeInit
<1>2. TypeInv /\ [Next]_vars => TypeInv'
  BY ExecutionAssumption, TypeStep
<1>3. Init => BudgetInv
  BY BudgetInit
<1>4. TypeInv /\ BudgetInv /\ [Next]_vars => BudgetInv'
  BY ExecutionAssumption, BudgetStep
<1>5. BudgetInv => RetryingWithinBudget
  BY DEF BudgetInv
<1> QED
  BY <1>1, <1>2, <1>3, <1>4, <1>5, PTL DEF Spec

-----------------------------------------------------------------------------
(* Requests that overlap on a field *)

\* Of a field that no two requests were about to write at once, at most one request
\* between its check and its write is going to write it, and the row still holds the
\* value which that request read: whatever else overlaps leaves the field alone.
RowFieldsOf == {"status", "count"}
Sole ==
    \A q, r \in Requests : \A f \in RowFieldsOf :
        /\ q # r /\ pc[q] = "checked" /\ pc[r] = "checked"
        /\ call[q].task = call[r].task
        /\ f \in Touches(call[q]) /\ f \in Touches(call[r])
        => <<call[r].task, f>> \in clashed
Current ==
    \A r \in Requests : pc[r] = "checked" =>
        /\ Accepted(call[r])
        /\ "status" \in Touches(call[r]) /\ <<call[r].task, "status">> \notin clashed =>
              call[r].row.status = rows[call[r].task].status
        /\ "count" \in Touches(call[r]) /\ <<call[r].task, "count">> \notin clashed =>
              call[r].row.retryCount = rows[call[r].task].retryCount

SerialInv == Sole /\ Current /\ FailuresCounted

\* What a write may do to a status that no two requests were about to write.
LegalMove == \A t \in Tasks :
                rows'[t].status # rows[t].status /\ <<t, "status">> \notin clashed =>
                    IsValidTransition(rows[t].status, rows'[t].status)

LEMMA SerialInit == Init => SerialInv
BY DEF Init, NewRow, SerialInv, Sole, Current, FailuresCounted

LEMMA TouchedFields ==
    ASSUME NEW k
    PROVE  /\ "status" \in Touches(k) <=> Target(k) # k.row.status
           /\ "count" \in Touches(k) <=> Fails(k) \/ k.op = "retryReset"
           /\ "log" \in Touches(k) <=> Logs(k)
BY DEF Touches, Fields

\* An update leaves alone what its operation does not touch, and writes what it does
\* over the value that was read.
LEMMA UpdatedFields ==
    ASSUME NEW k \in Call, NEW r, NEW now
    PROVE  /\ "status" \notin Touches(k) => Updated(k, r, now).status = now.status
           /\ "status" \in Touches(k) => Updated(k, r, now).status = Target(k)
           /\ "count" \notin Touches(k) => Updated(k, r, now).retryCount = now.retryCount
           /\ "count" \in Touches(k) /\ k.row.retryCount = now.retryCount =>
                Updated(k, r, now).retryCount = NewCount(k)
<1>1. "count" \notin Touches(k) => NewCount(k) = k.row.retryCount
  BY TouchedFields DEF NewCount
<1>2. /\ Updated(k, r, now).status =
            IF Target(k) # k.row.status THEN Target(k) ELSE now.status
      /\ Updated(k, r, now).retryCount =
            IF NewCount(k) # k.row.retryCount THEN NewCount(k) ELSE now.retryCount
  BY DEF Updated
<1> QED
  BY <1>1, <1>2, TouchedFields

LEMMA SerialCheck ==
    ASSUME ExecutionAssumption, TypeInv, SerialInv,
           NEW r \in Requests, NEW op, NEW t, NEW to, NEW limit, NEW given, NEW meta,
           Inputs(op, t, to, limit, given, meta), Check(r, op, t, to, limit, given, meta)
    PROVE  SerialInv' /\ rows' = rows
<1> DEFINE k == Loaded(op, t, to, limit, given, meta)
<1>1. UNCHANGED <<rows, failed>> /\ clashed \subseteq clashed' /\ pc[r] = "idle"
  BY DEF Check
<1>2. FailuresCounted'
  BY <1>1 DEF SerialInv, FailuresCounted
<1>3. CASE /\ Accepted(k) /\ call' = [call EXCEPT ![r] = k]
           /\ pc' = [pc EXCEPT ![r] = "checked"]
           /\ clashed' = clashed \cup Clashes(k)
  <2>1. k.task = t /\ k.row = rows[t]
    BY LoadedCall
  <2> HIDE DEF k
  <2>2. /\ call'[r] = k /\ pc'[r] = "checked"
        /\ \A q \in Requests : q # r => call'[q] = call[q] /\ pc'[q] = pc[q]
    BY <1>3 DEF TypeInv, TypeOK
  <2>3. ASSUME NEW q \in Requests, q # r, pc[q] = "checked", call[q].task = t,
               NEW f \in RowFieldsOf, f \in Touches(k), f \in Touches(call[q])
        PROVE  <<t, f>> \in clashed'
    <3>1. q \in Active
      BY <2>3 DEF Active
    <3>2. <<t, f>> \in Clashes(k)
      BY <2>1, <2>3, <3>1 DEF Clashes, Touches
    <3> QED
      BY <1>3, <3>2
  <2>4. Sole'
    <3> SUFFICES ASSUME NEW q \in Requests, NEW p \in Requests, NEW f \in RowFieldsOf,
                        q # p, pc'[q] = "checked", pc'[p] = "checked",
                        call'[q].task = call'[p].task,
                        f \in Touches(call'[q]), f \in Touches(call'[p])
                 PROVE  <<call'[p].task, f>> \in clashed'
      BY DEF Sole, Touches, Target, WillRetry, Fails, Logs
    <3>1. CASE q = r
      BY <2>1, <2>2, <2>3, <3>1
    <3>2. CASE p = r
      BY <2>1, <2>2, <2>3, <3>2
    <3>3. CASE q # r /\ p # r
      BY <1>1, <2>2, <3>3 DEF SerialInv, Sole
    <3> QED
      BY <3>1, <3>2, <3>3
  <2>5. Current'
    <3> SUFFICES ASSUME NEW q \in Requests, pc'[q] = "checked"
                 PROVE  /\ Accepted(call'[q])
                        /\ "status" \in Touches(call'[q]) /\ <<call'[q].task, "status">> \notin clashed' =>
                              call'[q].row.status = rows'[call'[q].task].status
                        /\ "count" \in Touches(call'[q]) /\ <<call'[q].task, "count">> \notin clashed' =>
                              call'[q].row.retryCount = rows'[call'[q].task].retryCount
      BY DEF Current, Touches, Accepted, Target, WillRetry, Fails, Logs
    <3>1. CASE q = r
      BY <1>1, <1>3, <2>1, <2>2, <3>1
    <3>2. CASE q # r
      BY <1>1, <2>2, <3>2 DEF SerialInv, Current
    <3> QED
      BY <3>1, <3>2
  <2> QED
    BY <1>1, <1>2, <2>4, <2>5 DEF SerialInv
<1>4. CASE pc' = [pc EXCEPT ![r] = "answered"] /\ call' = call
  <2>1. \A q \in Requests : pc'[q] = "checked" => pc[q] = "checked"
    BY <1>4 DEF TypeInv, TypeOK
  <2>2. Sole' /\ Current'
    BY <1>1, <1>4, <2>1 DEF SerialInv, Sole, Current
  <2> QED
    BY <1>1, <1>2, <2>2 DEF SerialInv
<1> QED
  BY <1>3, <1>4 DEF Check

LEMMA SerialWrite ==
    ASSUME TypeInv, SerialInv, NEW r \in Requests, Write(r)
    PROVE  SerialInv' /\ LegalMove
<1> DEFINE k == call[r]
           t == k.task
<1>1. k \in Call /\ t \in Tasks
  BY CallFields DEF Write, TypeInv, ActiveHoldsCall
<1>2. /\ pc[r] = "checked" /\ UNCHANGED <<call, clashed>>
      /\ \A q \in Requests : pc'[q] = "checked" => q # r /\ pc[q] = "checked"
  BY DEF Write, TypeInv, TypeOK
<1>3. Sole'
  BY <1>2 DEF SerialInv, Sole
<1>4. CASE rows' = rows /\ failed' = failed
  BY <1>2, <1>3, <1>4 DEF SerialInv, Current, FailuresCounted, LegalMove
<1>5. CASE /\ rows' = [rows EXCEPT ![t] = Updated(k, r, @)]
           /\ failed' = [failed EXCEPT ![t] = IF Fails(k) THEN @ + 1
                                              ELSE IF k.op = "retryReset" THEN 0 ELSE @]
           /\ k.op # "delete"
  <2>1. \A u \in Tasks : u # t => rows'[u] = rows[u] /\ failed'[u] = failed[u]
    BY <1>5 DEF TypeInv, TypeOK
  <2>2. rows'[t] = Updated(k, r, rows[t])
    BY <1>1, <1>5 DEF TypeInv, TypeOK
  <2>3. failed'[t] = IF Fails(k) THEN failed[t] + 1
                     ELSE IF k.op = "retryReset" THEN 0 ELSE failed[t]
    BY <1>1, <1>5 DEF TypeInv, TypeOK
  <2>4. /\ "status" \notin Touches(k) => rows'[t].status = rows[t].status
        /\ "status" \in Touches(k) => rows'[t].status = Target(k)
        /\ "count" \notin Touches(k) => rows'[t].retryCount = rows[t].retryCount
        /\ "count" \in Touches(k) /\ k.row.retryCount = rows[t].retryCount =>
             rows'[t].retryCount = NewCount(k)
    BY <1>1, <2>2, UpdatedFields
  <2>5. /\ Accepted(k)
        /\ "status" \in Touches(k) /\ <<t, "status">> \notin clashed =>
              k.row.status = rows[t].status
        /\ "count" \in Touches(k) /\ <<t, "count">> \notin clashed =>
              k.row.retryCount = rows[t].retryCount
    BY <1>2 DEF SerialInv, Current
  <2>6. ASSUME <<t, "count">> \notin clashed
        PROVE  rows'[t].retryCount = failed'[t]
    <3>1. rows[t].retryCount = failed[t]
      BY <1>1, <2>6 DEF SerialInv, FailuresCounted
    <3>2. CASE "count" \in Touches(k)
      BY <2>3, <2>4, <2>5, <2>6, <3>1, <3>2, TouchedFields DEF NewCount
    <3>3. CASE "count" \notin Touches(k)
      BY <2>3, <2>4, <3>1, <3>3, TouchedFields
    <3> QED
      BY <3>2, <3>3
  <2>7. ASSUME <<t, "status">> \notin clashed, rows'[t].status # rows[t].status
        PROVE  IsValidTransition(rows[t].status, rows'[t].status)
    <3>1. "status" \in Touches(k)
      BY <2>4, <2>7
    <3>2. Target(k) # k.row.status /\ k.row.status = rows[t].status
      BY <2>5, <2>7, <3>1, TouchedFields
    <3>3. ~(k.op = "update" /\ k.to = k.row.status)
      BY <3>2 DEF Target
    <3>4. IsValidTransition(k.row.status, Target(k))
      BY <1>5, <2>5, <3>3 DEF Accepted
    <3> QED
      BY <2>4, <3>1, <3>2, <3>4
  <2>8. Current'
    <3> SUFFICES ASSUME NEW q \in Requests, q # r, pc[q] = "checked"
                 PROVE  /\ Accepted(call[q])
                        /\ "status" \in Touches(call[q]) /\ <<call[q].task, "status">> \notin clashed =>
                              call[q].row.status = rows'[call[q].task].status
                        /\ "count" \in Touches(call[q]) /\ <<call[q].task, "count">> \notin clashed =>
                              call[q].row.retryCount = rows'[call[q].task].retryCount
      BY <1>2 DEF Current
    <3>1. call[q].task \in Tasks
      BY CallFields DEF TypeInv, ActiveHoldsCall
    <3>2. /\ Accepted(call[q])
          /\ "status" \in Touches(call[q]) /\ <<call[q].task, "status">> \notin clashed =>
                call[q].row.status = rows[call[q].task].status
          /\ "count" \in Touches(call[q]) /\ <<call[q].task, "count">> \notin clashed =>
                call[q].row.retryCount = rows[call[q].task].retryCount
      BY DEF SerialInv, Current
    <3>3. CASE call[q].task # t
      BY <2>1, <3>1, <3>2, <3>3
    <3>4. CASE call[q].task = t
      <4>1. \A f \in RowFieldsOf : f \in Touches(call[q]) /\ <<t, f>> \notin clashed =>
                                      f \notin Touches(k)
        BY <1>2, <3>4 DEF SerialInv, Sole
      <4> QED
        BY <2>4, <3>2, <3>4, <4>1 DEF RowFieldsOf
    <3> QED
      BY <3>3, <3>4
  <2> HIDE DEF k, t
  <2>9. FailuresCounted'
    BY <1>2, <2>1, <2>6 DEF SerialInv, FailuresCounted
  <2>10. LegalMove
    BY <2>1, <2>7 DEF LegalMove
  <2> QED
    BY <1>3, <2>8, <2>9, <2>10 DEF SerialInv
<1> QED
  BY <1>4, <1>5 DEF Write

\* A request ends.
LEMMA SerialEnd ==
    ASSUME TypeInv, SerialInv, NEW r \in Requests,
           WriteFails(r) \/ Publish(r) \/ PublishFails(r)
    PROVE  SerialInv' /\ rows' = rows
<1>1. /\ UNCHANGED <<rows, failed, clashed>>
      /\ \A q \in Requests : pc'[q] = "checked" => pc[q] = "checked" /\ call'[q] = call[q]
  BY DEF WriteFails, Publish, PublishFails, TypeInv, TypeOK
<1>2. Sole'
  BY <1>1 DEF SerialInv, Sole
<1>3. Current'
  BY <1>1 DEF SerialInv, Current
<1> QED
  BY <1>1, <1>2, <1>3 DEF SerialInv, FailuresCounted

LEMMA SerialStep ==
    ExecutionAssumption /\ TypeInv /\ SerialInv /\ [Next]_vars => SerialInv' /\ [LegalMove]_vars
<1> SUFFICES ASSUME ExecutionAssumption, TypeInv, SerialInv, [Next]_vars
             PROVE  SerialInv' /\ [LegalMove]_vars
  OBVIOUS
<1>1. rows' = rows => LegalMove
  BY DEF LegalMove
<1>2. CASE UNCHANGED vars
  BY <1>2 DEF vars, SerialInv, Sole, Current, FailuresCounted
<1>3. CASE Next
  <2>1. SerialInv' /\ (rows' = rows \/ LegalMove)
    BY <1>3, Steps, SerialCheck, SerialWrite, SerialEnd
  <2> QED
    BY <1>1, <2>1
<1> QED
  BY <1>2, <1>3

\* A row's count is the number of its failures since the last reset, unless two
\* requests have been about to write it at once.
THEOREM CountsFailures == Spec => []FailuresCounted
<1>1. Init => TypeInv
  BY ExecutionAssumption, TypeInit
<1>2. TypeInv /\ [Next]_vars => TypeInv'
  BY ExecutionAssumption, TypeStep
<1>3. SerialInv => FailuresCounted
  BY DEF SerialInv
<1>4. TypeInv /\ SerialInv /\ [Next]_vars => SerialInv'
  BY ExecutionAssumption, SerialStep
<1> QED
  BY <1>1, <1>2, <1>3, <1>4, SerialInit, PTL DEF Spec

\* ... and its status moves along the transition table, unless two requests have been
\* about to write the status at once.
THEOREM MovesLegally == Spec => TransitionsLegal
<1>1. Init => TypeInv
  BY ExecutionAssumption, TypeInit
<1>2. TypeInv /\ [Next]_vars => TypeInv'
  BY ExecutionAssumption, TypeStep
<1>3. TransitionsLegal <=> [][LegalMove]_vars
  BY PTL DEF TransitionsLegal, LegalMove
<1>4. TypeInv /\ SerialInv /\ [Next]_vars => SerialInv' /\ [LegalMove]_vars
  BY ExecutionAssumption, SerialStep
<1> QED
  BY <1>1, <1>2, <1>3, <1>4, SerialInit, PTL DEF Spec

-----------------------------------------------------------------------------
(* The audit log *)

\* Of two requests on a task that are going to log, the later one has found the other.
LogAlone ==
    \A q, r \in Active : q # r /\ call[q].task = call[r].task
                         /\ Logs(call[q]) /\ Logs(call[r]) =>
        <<call[r].task, "log">> \in clashed

\* What the events of an operation say.
LEMMA EventsOfFields ==
    ASSUME NEW k, NEW r, NEW i \in DOMAIN EventsOf(k, r)
    PROVE  /\ EventsOf(k, r)[i].task = k.task
           /\ EventsOf(k, r)[i].execution = ExecutionId(k, r)
           /\ EventsOf(k, r)[i].type = "EXECUTION_STARTED" => k.op = "start" /\ i = 1
           /\ EventsOf(k, r)[i].type \in Bounds => k.op \in {"start", "complete", "fail", "failNoRetry"}
<1>1. CASE k.op = "start"
  <2>1. EventsOf(k, r) = <<Event("EXECUTION_STARTED", k, r, 0), Event("TASK_STARTED", k, r, 0)>>
    BY <1>1 DEF EventsOf, Fails
  <2>2. i \in {1, 2}
    BY <2>1
  <2>3. /\ EventsOf(k, r)[i].task = k.task
        /\ EventsOf(k, r)[i].execution = ExecutionId(k, r)
    BY <2>1, <2>2 DEF Event
  <2>4. EventsOf(k, r)[2].type = "TASK_STARTED"
    BY <2>1 DEF Event
  <2> QED
    BY <1>1, <2>2, <2>3, <2>4
<1>2. CASE k.op = "complete"
  <2>1. EventsOf(k, r) =
           <<Event("TASK_COMPLETED", k, r, 0), Event("EXECUTION_COMPLETED", k, r, 0)>>
    BY <1>2 DEF EventsOf, Fails
  <2>2. EventsOf(k, r)[i] \in {Event("TASK_COMPLETED", k, r, 0),
                               Event("EXECUTION_COMPLETED", k, r, 0)}
    BY <2>1
  <2> QED
    BY <1>2, <2>2 DEF Event
<1>3. CASE Fails(k)
  <2>1. EventsOf(k, r) =
           <<Event("TASK_FAILED", k, r, NewCount(k) + 1),
             IF WillRetry(k) THEN Event("TASK_RETRIED", k, r, NewCount(k) + 1)
                             ELSE Event("EXECUTION_FAILED", k, r, 0)>>
    BY <1>3 DEF EventsOf, Fails
  <2>2. EventsOf(k, r)[i] \in {Event("TASK_FAILED", k, r, NewCount(k) + 1),
                               Event("TASK_RETRIED", k, r, NewCount(k) + 1),
                               Event("EXECUTION_FAILED", k, r, 0)}
    BY <2>1
  <2>3. /\ EventsOf(k, r)[i].task = k.task
        /\ EventsOf(k, r)[i].execution = ExecutionId(k, r)
        /\ EventsOf(k, r)[i].type # "EXECUTION_STARTED"
    BY <2>2 DEF Event
  <2> QED
    BY <1>3, <2>3 DEF Fails
<1>4. CASE k.op = "skip"
  <2>1. EventsOf(k, r) = <<Event("TASK_SKIPPED", k, r, 0)>>
    BY <1>4 DEF EventsOf, Fails
  <2> QED
    BY <2>1 DEF Event, Bounds
<1>5. CASE ~Logs(k)
  <2>1. EventsOf(k, r) = <<>>
    BY <1>5 DEF EventsOf, Logs, Fails
  <2> QED
    BY <2>1
<1> QED
  BY <1>1, <1>2, <1>3, <1>4, <1>5 DEF Logs, Fails

\* Where an event of the longer log comes from.
LEMMA LongerLog ==
    ASSUME TypeInv, NEW r \in Requests, call[r] \in Call, NEW new, Publishes(r, new)
    PROVE  /\ \A i \in DOMAIN audit : i \in DOMAIN audit' /\ audit'[i] = audit[i]
           /\ \A i \in DOMAIN audit' :
                \/ i \in DOMAIN audit
                \/ \E j \in 1..Len(new) : /\ i = Len(audit) + j
                                          /\ j \in DOMAIN EventsOf(call[r], r)
                                          /\ audit'[i] = EventsOf(call[r], r)[j]
           /\ DOMAIN audit = 1..Len(audit)
           /\ DOMAIN audit' = 1..(Len(audit) + Len(new))
           /\ Len(audit) \in Nat /\ Len(new) \in Nat
<1>1. /\ audit \in Seq(AuditEvent) /\ new \in Seq(AuditEvent)
      /\ audit' = audit \o new
      /\ Len(new) <= Len(EventsOf(call[r], r))
      /\ \A i \in 1..Len(new) : new[i] = EventsOf(call[r], r)[i]
  BY DEF Publishes, TypeInv, TypeOK
<1>2. /\ DOMAIN audit = 1..Len(audit) /\ DOMAIN audit' = 1..(Len(audit) + Len(new))
      /\ Len(audit) \in Nat /\ Len(new) \in Nat
  BY <1>1
<1>3. \A i \in DOMAIN audit : i \in DOMAIN audit' /\ audit'[i] = audit[i]
  BY <1>1, <1>2
<1>4. ASSUME NEW i \in DOMAIN audit', i \notin DOMAIN audit
      PROVE  \E j \in 1..Len(new) : /\ i = Len(audit) + j
                                    /\ j \in DOMAIN EventsOf(call[r], r)
                                    /\ audit'[i] = EventsOf(call[r], r)[j]
  <2>1. i - Len(audit) \in 1..Len(new) /\ i = Len(audit) + (i - Len(audit))
    BY <1>2, <1>4
  <2>2. audit'[i] = new[i - Len(audit)]
    BY <1>1, <1>2, <1>4, <2>1
  <2>3. i - Len(audit) \in DOMAIN EventsOf(call[r], r)
    <3>1. EventsOf(call[r], r) \in Seq(AuditEvent)
      BY EventsOfType
    <3> QED
      BY <1>1, <1>2, <2>1, <3>1
  <2> QED
    BY <1>1, <2>1, <2>2, <2>3
<1> QED
  BY <1>2, <1>3, <1>4

LEMMA LogAloneStep ==
    ASSUME ExecutionAssumption, TypeInv, LogAlone, [Next]_vars
    PROVE  LogAlone'
<1>1. CASE UNCHANGED vars
  BY <1>1 DEF vars, LogAlone, Active
<1>2. ASSUME NEW r \in Requests, NEW op, NEW t, NEW to, NEW limit, NEW given, NEW meta,
             Inputs(op, t, to, limit, given, meta), Check(r, op, t, to, limit, given, meta)
      PROVE  LogAlone'
  <2> DEFINE k == Loaded(op, t, to, limit, given, meta)
  <2>1. pc[r] = "idle" /\ clashed \subseteq clashed'
    BY <1>2 DEF Check
  <2>2. CASE /\ call' = [call EXCEPT ![r] = k] /\ pc' = [pc EXCEPT ![r] = "checked"]
             /\ clashed' = clashed \cup Clashes(k)
    <3>1. k.task = t
      BY <1>2, LoadedCall
    <3> HIDE DEF k
    <3>2. /\ call'[r] = k /\ Active' = Active \cup {r} /\ r \notin Active
          /\ \A q \in Active : call'[q] = call[q]
      BY <2>1, <2>2 DEF Active, TypeInv, TypeOK
    <3>3. ASSUME NEW q \in Active, call[q].task = t, Logs(call[q]), Logs(k)
          PROVE  <<t, "log">> \in clashed'
      BY <2>2, <3>1, <3>3, TouchedFields DEF Clashes
    <3>4. ASSUME NEW q \in Active', NEW p \in Active', q # p, call'[q].task = call'[p].task,
                 Logs(call'[q]), Logs(call'[p])
          PROVE  <<call'[p].task, "log">> \in clashed'
      <4>1. CASE q = r
        BY <3>1, <3>2, <3>3, <3>4, <4>1
      <4>2. CASE p = r
        BY <3>1, <3>2, <3>3, <3>4, <4>2
      <4>3. CASE q # r /\ p # r
        BY <2>1, <3>2, <3>4, <4>3 DEF LogAlone
      <4> QED
        BY <4>1, <4>2, <4>3
    <3> QED
      BY <3>4 DEF LogAlone, Logs
  <2>3. CASE pc' = [pc EXCEPT ![r] = "answered"] /\ call' = call
    <3>1. Active' = Active
      BY <2>1, <2>3 DEF Active, TypeInv, TypeOK
    <3> QED
      BY <2>1, <2>3, <3>1 DEF LogAlone
  <2> QED
    BY <1>2, <2>2, <2>3 DEF Check
<1>3. ASSUME NEW r \in Requests, Write(r)
      PROVE  LogAlone'
  <2>1. Active' = Active /\ UNCHANGED <<call, clashed>>
    BY <1>3 DEF Write, Active, TypeInv, TypeOK
  <2> QED
    BY <2>1 DEF LogAlone
<1>4. ASSUME NEW r \in Requests, WriteFails(r) \/ Publish(r) \/ PublishFails(r)
      PROVE  LogAlone'
  <2>1. \A q \in Active' : q \in Active /\ call'[q] = call[q]
    BY <1>4 DEF WriteFails, Publish, PublishFails, Active, TypeInv, TypeOK
  <2>2. clashed' = clashed
    BY <1>4 DEF WriteFails, Publish, PublishFails
  <2> QED
    BY <2>1, <2>2 DEF LogAlone
<1> QED
  BY <1>1, <1>2, <1>3, <1>4, Steps

-----------------------------------------------------------------------------
(* Executions in the audit log *)

\* An id that no caller has given is a request's own. A row, or a copy of it that a
\* request has read, names one only from the moment its start has been written, while
\* that start is about to log; a request that is going to log alone has read one whose
\* start has logged; and what the log shows has been published.
Held(e, t) == \/ pc[e] = "answered"
              \/ pc[e] = "written" /\ call[e].task = t /\ Logs(call[e])
RowsHeld ==
    \A t \in Tasks : rows[t].execution \notin named \cup {"none"} => Held(rows[t].execution, t)
CallsHeld ==
    \A r \in Active : /\ Names(call[r]) \subseteq named
                      /\ call[r].row.execution \notin named \cup {"none"} =>
                            Held(call[r].row.execution, call[r].task)
CallsDone ==
    \A r \in Active :
        /\ Logs(call[r])
        /\ <<call[r].task, "log">> \notin clashed
        /\ call[r].row.execution \notin named \cup {"none"}
        => pc[call[r].row.execution] = "answered"
BoundsDone ==
    \A i \in DOMAIN audit :
        /\ <<audit[i].task, "log">> \notin clashed
        /\ audit[i].type \in Bounds
        /\ audit[i].execution \notin named
        => audit[i].execution \in Requests /\ pc[audit[i].execution] = "answered"

OrderInv ==
    Chosen \subseteq named /\ RowsHeld /\ CallsHeld /\ CallsDone /\ BoundsDone /\ StartedOnceBeforeEnd

LEMMA OrderInit == Init => OrderInv
<1> SUFFICES ASSUME Init PROVE OrderInv
  OBVIOUS
<1>1. \A t \in Tasks : rows[t].execution \in Chosen \cup {"none"}
  BY DEF Init, NewRow
<1>2. named = Chosen /\ audit = <<>> /\ Active = {}
  BY DEF Init, Active
<1> QED
  BY <1>1, <1>2 DEF OrderInv, RowsHeld, CallsHeld, CallsDone, BoundsDone, StartedOnceBeforeEnd

\* An id no caller has given.
LEMMA OwnIds ==
    ASSUME TypeInv, Chosen \subseteq named, NEW e \in Ids \cup {"none"}, e \notin named \cup {"none"}
    PROVE  e \in Requests
BY DEF Ids

\* A step that publishes nothing and undoes no answer keeps the log in order.
LEMMA LogKept ==
    ASSUME OrderInv, UNCHANGED audit, clashed \subseteq clashed', named \subseteq named',
           \A q \in Requests : pc[q] = "answered" => pc'[q] = "answered"
    PROVE  Chosen \subseteq named' /\ BoundsDone' /\ StartedOnceBeforeEnd'
<1>1. BoundsDone'
  BY DEF OrderInv, BoundsDone
<1>2. StartedOnceBeforeEnd'
  BY DEF OrderInv, StartedOnceBeforeEnd
<1> QED
  BY <1>1, <1>2 DEF OrderInv

LEMMA ExecutionsKnown ==
    ASSUME TypeInv
    PROVE  /\ \A u \in Tasks : rows[u].execution \in Ids \cup {"none"}
           /\ \A q \in Active : /\ call[q].row.execution \in Ids \cup {"none"}
                                /\ call[q].task \in Tasks
                                /\ call[q] \in Call
BY CallFields, RowFields DEF Active, TypeInv, TypeOK, ActiveHoldsCall

LEMMA OrderCheck ==
    ASSUME ExecutionAssumption, TypeInv, OrderInv,
           NEW r \in Requests, NEW op, NEW t, NEW to, NEW limit, NEW given, NEW meta,
           Inputs(op, t, to, limit, given, meta), Check(r, op, t, to, limit, given, meta)
    PROVE  OrderInv'
<1> DEFINE k == Loaded(op, t, to, limit, given, meta)
<1>1. /\ UNCHANGED <<rows, audit>> /\ pc[r] = "idle"
      /\ clashed \subseteq clashed' /\ named \subseteq named'
  BY DEF Check
<1>2. \A q \in Requests : q # r => call'[q] = call[q] /\ pc'[q] = pc[q]
  BY DEF Check, TypeInv, TypeOK
<1>3. Chosen \subseteq named' /\ BoundsDone' /\ StartedOnceBeforeEnd'
  BY <1>1, <1>2, LogKept
<1>4. \A e \in Requests : \A u : Held(e, u) => Held(e, u)' /\ e # r
  BY <1>1, <1>2 DEF Held, Logs
<1>5. \A e \in Ids \cup {"none"} : e \notin named' \cup {"none"} =>
        e \in Requests /\ e \notin named \cup {"none"}
  BY <1>1, OwnIds DEF OrderInv
<1>6. RowsHeld'
  <2> SUFFICES ASSUME NEW u \in Tasks, NEW e, e = rows[u].execution, e \notin named' \cup {"none"}
               PROVE  Held(e, u)'
    BY <1>1 DEF RowsHeld, Held
  <2>1. e \in Requests /\ e \notin named \cup {"none"}
    BY <1>5, ExecutionsKnown
  <2> QED
    BY <1>4, <2>1 DEF OrderInv, RowsHeld
<1>7. ASSUME NEW q \in Active
      PROVE  /\ Names(call[q]) \subseteq named'
             /\ call[q].row.execution \notin named' \cup {"none"} =>
                    Held(call[q].row.execution, call[q].task)'
             /\ /\ Logs(call[q]) /\ <<call[q].task, "log">> \notin clashed'
                /\ call[q].row.execution \notin named' \cup {"none"}
                => pc'[call[q].row.execution] = "answered"
             /\ call'[q] = call[q]
  <2>1. call'[q] = call[q] /\ q # r
    BY <1>1, <1>2 DEF Active
  <2>2. Names(call[q]) \subseteq named'
    BY <1>1 DEF OrderInv, CallsHeld
  <2>3. ASSUME call[q].row.execution \notin named' \cup {"none"}
        PROVE  /\ Held(call[q].row.execution, call[q].task)'
               /\ Logs(call[q]) /\ <<call[q].task, "log">> \notin clashed' =>
                    pc'[call[q].row.execution] = "answered"
    <3> DEFINE e == call[q].row.execution
    <3>1. e \in Requests /\ e \notin named \cup {"none"}
      BY <1>5, <2>3, ExecutionsKnown
    <3>2. Held(e, call[q].task)
      BY <3>1 DEF OrderInv, CallsHeld
    <3>3. Logs(call[q]) /\ <<call[q].task, "log">> \notin clashed' => pc[e] = "answered"
      BY <1>1, <3>1 DEF OrderInv, CallsDone
    <3> HIDE DEF e
    <3>4. e # r /\ pc'[e] = pc[e] /\ call'[e] = call[e]
      BY <1>2, <1>4, <3>1, <3>2
    <3>5. Held(call[q].row.execution, call[q].task)'
      BY <2>1, <3>2, <3>4 DEF Held, Logs, e
    <3> QED
      BY <3>3, <3>4, <3>5 DEF e
  <2> QED
    BY <2>1, <2>2, <2>3
<1>8. CASE /\ call' = [call EXCEPT ![r] = k] /\ pc' = [pc EXCEPT ![r] = "checked"]
           /\ clashed' = clashed \cup Clashes(k)
           /\ named' = named \cup Names(k)
  <2>1. k.task = t /\ k.row = rows[t] /\ t \in Tasks
    BY LoadedCall DEF Inputs
  <2> HIDE DEF k
  <2>2. call'[r] = k /\ Active' = Active \cup {r} /\ r \notin Active
    BY <1>1, <1>2, <1>8 DEF Active, TypeInv, TypeOK
  <2>3. Names(k) \subseteq named'
    BY <1>8
  <2>4. ASSUME rows[t].execution \notin named' \cup {"none"}
        PROVE  /\ Held(rows[t].execution, t) /\ rows[t].execution \in Requests
               /\ Logs(k) /\ <<t, "log">> \notin clashed' => pc'[rows[t].execution] = "answered"
    <3>1. rows[t].execution \in Requests /\ rows[t].execution \notin named \cup {"none"}
      BY <1>5, <2>1, <2>4, ExecutionsKnown
    <3>2. Held(rows[t].execution, t)
      BY <2>1, <3>1 DEF OrderInv, RowsHeld
    <3>3. ASSUME Logs(k), <<t, "log">> \notin clashed'
          PROVE  pc[rows[t].execution] = "answered"
      <4>1. ASSUME NEW e \in Active, call[e].task = t, Logs(call[e])
            PROVE  FALSE
        <5>1. <<t, "log">> \in Clashes(k)
          BY <2>1, <3>3, <4>1, TouchedFields DEF Clashes
        <5> QED
          BY <1>8, <3>3, <5>1
      <4> QED
        BY <3>1, <3>2, <4>1 DEF Held, Active
    <3> QED
      BY <1>2, <1>4, <3>1, <3>2, <3>3
  <2>5. rows[t].execution \notin named' \cup {"none"} => Held(rows[t].execution, t)'
    BY <1>1, <1>2, <1>4, <2>4 DEF Held, Logs
  <2>6. CallsHeld'
    <3> SUFFICES ASSUME NEW q \in Active'
                 PROVE  /\ Names(call'[q]) \subseteq named'
                        /\ call'[q].row.execution \notin named' \cup {"none"} =>
                               Held(call[q].row.execution, call[q].task)'
      BY DEF CallsHeld, Names
    <3>1. CASE q \in Active
      BY <1>7, <3>1
    <3>2. CASE q = r
      <4>1. call'[q].row.execution = rows[t].execution /\ call'[q].task = t
        BY <2>1, <2>2, <3>2
      <4>2. call'[q].row.execution \notin named' \cup {"none"} =>
                               Held(call[q].row.execution, call[q].task)'
        BY <1>1, <2>5, <4>1 DEF Held
      <4> QED
        BY <2>2, <2>3, <3>2, <4>2
    <3> QED
      BY <2>2, <3>1, <3>2
  <2>7. CallsDone'
    <3> SUFFICES ASSUME NEW q \in Active', Logs(call'[q]),
                        <<call'[q].task, "log">> \notin clashed',
                        call'[q].row.execution \notin named' \cup {"none"}
                 PROVE  pc'[call'[q].row.execution] = "answered"
      BY DEF CallsDone, Logs
    <3>1. CASE q \in Active
      BY <1>7, <3>1
    <3>2. CASE q = r
      BY <2>1, <2>2, <2>4, <3>2
    <3> QED
      BY <2>2, <3>1, <3>2
  <2> QED
    BY <1>3, <1>6, <2>6, <2>7 DEF OrderInv
<1>9. CASE pc' = [pc EXCEPT ![r] = "answered"] /\ call' = call
  <2>1. Active' = Active
    BY <1>1, <1>9 DEF Active, TypeInv, TypeOK
  <2>2. CallsHeld' /\ CallsDone'
    BY <1>7, <1>9, <2>1 DEF CallsHeld, CallsDone
  <2> QED
    BY <1>3, <1>6, <2>2 DEF OrderInv
<1> QED
  BY <1>8, <1>9 DEF Check

LEMMA OrderWrite ==
    ASSUME ExecutionAssumption, TypeInv, OrderInv, NEW r \in Requests, Write(r)
    PROVE  OrderInv'
<1> DEFINE k == call[r]
           t == k.task
<1>1. k \in Call /\ t \in Tasks
  BY CallFields DEF Write, TypeInv, ActiveHoldsCall
<1>2. /\ pc[r] = "checked" /\ pc'[r] = "written"
      /\ \A q \in Requests : q # r => pc'[q] = pc[q]
      /\ UNCHANGED <<call, audit, clashed, named>>
  BY DEF Write, TypeInv, TypeOK
<1>3. Chosen \subseteq named' /\ BoundsDone' /\ StartedOnceBeforeEnd'
  BY <1>2, LogKept
<1>4. Active' = Active /\ r \in Active
  BY <1>2 DEF Active
<1>5. \A e \in Ids \cup {"none"} : e \notin named \cup {"none"} => e \in Requests
  BY OwnIds DEF OrderInv
<1>6. \A e \in Requests : \A u : Held(e, u) => Held(e, u)'
  BY <1>2 DEF Held
<1>7. CallsHeld' /\ CallsDone'
  <2>1. ASSUME NEW q \in Active
        PROVE  /\ Names(call[q]) \subseteq named
               /\ call[q].row.execution \notin named \cup {"none"} =>
                     Held(call[q].row.execution, call[q].task)'
    <3>1. Names(call[q]) \subseteq named
      BY DEF OrderInv, CallsHeld
    <3>2. ASSUME NEW e, e = call[q].row.execution, e \notin named \cup {"none"}
          PROVE  Held(e, call[q].task) /\ e \in Requests /\ e # r
                 /\ pc'[e] = pc[e] /\ call' = call
      <4>1. Held(e, call[q].task) /\ e \in Requests
        BY <1>5, <3>2, ExecutionsKnown DEF OrderInv, CallsHeld
      <4> QED
        BY <1>2, <4>1 DEF Held
    <3>3. call[q].row.execution \notin named \cup {"none"} =>
             Held(call[q].row.execution, call[q].task)'
      BY <1>2, <3>2 DEF Held
    <3> QED
      BY <3>1, <3>3
  <2>2. CallsHeld'
    BY <1>2, <1>4, <2>1 DEF CallsHeld, Names, Held, Logs
  <2>3. CallsDone'
    <3> SUFFICES ASSUME NEW q \in Active, Logs(call[q]), <<call[q].task, "log">> \notin clashed,
                        call[q].row.execution \notin named \cup {"none"}
                 PROVE  pc'[call[q].row.execution] = "answered"
      BY <1>2, <1>4 DEF CallsDone, Logs
    <3>1. pc[call[q].row.execution] = "answered" /\ call[q].row.execution \in Requests
      BY <1>5, ExecutionsKnown DEF OrderInv, CallsDone
    <3> QED
      BY <1>2, <3>1
  <2> QED
    BY <2>2, <2>3
<1>8. \A u \in Tasks : u # t => rows'[u] = rows[u]
  BY <1>1 DEF Write, TypeInv, TypeOK
<1>9. ASSUME NEW u \in Tasks, NEW e, e \notin named \cup {"none"}, rows[u].execution = e
      PROVE  Held(e, u)'
  BY <1>5, <1>6, <1>9, ExecutionsKnown DEF OrderInv, RowsHeld
<1>10. ASSUME NEW u \in Tasks, u = t, NEW e, e \notin named \cup {"none"}, rows'[u].execution = e
       PROVE  Held(e, u)'
  <2>1. CASE rows'[t] = rows[t]
    BY <1>1, <1>9, <1>10, <2>1
  <2>2. CASE rows'[t] = Updated(k, r, rows[t])
    <3>1. e = NewExecution(k, r, rows[t])
      BY <1>10, <2>2 DEF Updated
    <3>2. CASE k.meta # "kept"
      <4>1. e = k.meta /\ k.meta \in Ids \cup {"kept", "none"}
        BY <1>1, <3>1, <3>2, CallFields DEF NewExecution
      <4>2. e = k.row.execution
        BY <1>4, <1>10, <3>2, <4>1 DEF OrderInv, CallsHeld, Names
      <4>3. Held(e, u) /\ e \in Requests
        BY <1>4, <1>5, <1>10, <4>2, ExecutionsKnown DEF OrderInv, CallsHeld
      <4> QED
        BY <1>6, <4>3
    <3>3. CASE k.meta = "kept" /\ k.op = "start" /\ ExecutionId(k, r) # k.row.execution
      <4>1. e = IF k.given # "none" THEN k.given ELSE r
        BY <3>1, <3>3 DEF NewExecution, ExecutionId
      <4>2. k.given \in Ids \cup {"none"} /\ (k.given # "none" => k.given \in named)
        BY <1>1, <1>4, CallFields DEF OrderInv, CallsHeld, Names
      <4>3. e = r /\ Logs(k)
        BY <1>10, <3>3, <4>1, <4>2 DEF Logs
      <4> QED
        BY <1>2, <1>10, <4>3 DEF Held, Logs
    <3>4. CASE k.meta = "kept" /\ ~(k.op = "start" /\ ExecutionId(k, r) # k.row.execution)
      <4>1. e = rows[t].execution
        BY <3>1, <3>4 DEF NewExecution
      <4> QED
        BY <1>1, <1>9, <1>10, <4>1
    <3> QED
      BY <3>2, <3>3, <3>4
  <2>3. rows'[t] = rows[t] \/ rows'[t] = Updated(k, r, rows[t])
    BY <1>1 DEF Write, TypeInv, TypeOK
  <2> QED
    BY <2>1, <2>2, <2>3
<1> HIDE DEF k, t
<1>11. RowsHeld'
  <2> SUFFICES ASSUME NEW u \in Tasks, NEW e, rows'[u].execution = e, e \notin named \cup {"none"}
               PROVE  Held(e, u)'
    BY <1>2 DEF RowsHeld, Held
  <2> QED
    BY <1>8, <1>9, <1>10
<1> QED
  BY <1>3, <1>7, <1>11 DEF OrderInv

\* A request ends. The ids that rows and calls name stay held, and no one is alone in
\* a log that it was not alone in before.
LEMMA OrderEnds ==
    ASSUME TypeInv, OrderInv, NEW r \in Requests,
           WriteFails(r) \/ Publish(r) \/ PublishFails(r)
    PROVE  Chosen \subseteq named' /\ RowsHeld' /\ CallsHeld' /\ CallsDone'
<1>1. /\ UNCHANGED <<rows, clashed, named>> /\ pc'[r] = "answered"
      /\ \A q \in Requests : q # r => call'[q] = call[q] /\ pc'[q] = pc[q]
  BY DEF WriteFails, Publish, PublishFails, TypeInv, TypeOK
<1>2. \A q \in Active' : q \in Active /\ call'[q] = call[q]
  BY <1>1 DEF Active
<1>3. \A e \in Ids \cup {"none"} : e \notin named \cup {"none"} => e \in Requests
  BY OwnIds DEF OrderInv
<1>4. RowsHeld'
  <2> SUFFICES ASSUME NEW u \in Tasks, rows[u].execution \notin named \cup {"none"}
               PROVE  Held(rows[u].execution, u)'
    BY <1>1 DEF RowsHeld, Held
  <2>1. Held(rows[u].execution, u) /\ rows[u].execution \in Requests
    BY <1>3, ExecutionsKnown DEF OrderInv, RowsHeld
  <2> QED
    BY <1>1, <2>1 DEF Held, Logs
<1>5. CallsHeld'
  <2> SUFFICES ASSUME NEW q \in Active'
               PROVE  /\ Names(call'[q]) \subseteq named
                      /\ call'[q].row.execution \notin named \cup {"none"} =>
                            Held(call[q].row.execution, call[q].task)'
    BY <1>1 DEF CallsHeld, Names
  <2>1. q \in Active /\ Names(call[q]) \subseteq named
    BY <1>2 DEF OrderInv, CallsHeld
  <2>2. ASSUME call[q].row.execution \notin named \cup {"none"}
        PROVE  Held(call[q].row.execution, call[q].task)'
    <3>1. Held(call[q].row.execution, call[q].task) /\ call[q].row.execution \in Requests
      BY <1>3, <2>1, <2>2, ExecutionsKnown DEF OrderInv, CallsHeld
    <3> QED
      BY <1>1, <1>2, <2>1, <3>1 DEF Held, Logs
  <2> QED
    BY <1>2, <2>1, <2>2
<1>6. CallsDone'
  <2> SUFFICES ASSUME NEW q \in Active', Logs(call'[q]), <<call'[q].task, "log">> \notin clashed,
                      call'[q].row.execution \notin named \cup {"none"}
               PROVE  pc'[call'[q].row.execution] = "answered"
    BY <1>1 DEF CallsDone, Logs
  <2>1. q \in Active /\ call'[q] = call[q]
    BY <1>2
  <2>2. pc[call[q].row.execution] = "answered" /\ call[q].row.execution \in Requests
    BY <1>3, <2>1, ExecutionsKnown DEF OrderInv, CallsDone
  <2> QED
    BY <1>1, <2>1, <2>2
<1> QED
  BY <1>1, <1>4, <1>5, <1>6 DEF OrderInv

LEMMA OrderPublish ==
    ASSUME ExecutionAssumption, TypeInv, OrderInv, NEW r \in Requests,
           Publish(r) \/ PublishFails(r)
    PROVE  OrderInv'
<1> DEFINE k == call[r]
<1>1. /\ UNCHANGED <<clashed, named>> /\ pc[r] = "written" /\ pc'[r] = "answered"
      /\ \A q \in Requests : q # r => pc'[q] = pc[q]
  BY DEF Publish, PublishFails, TypeInv, TypeOK
<1>2. k \in Call /\ r \in Active
  BY <1>1 DEF TypeInv, ActiveHoldsCall, Active
<1>3. PICK new : Publishes(r, new)
  BY Published
<1>4. /\ \A i \in DOMAIN audit : i \in DOMAIN audit' /\ audit'[i] = audit[i]
      /\ \A i \in DOMAIN audit' :
           \/ i \in DOMAIN audit
           \/ \E j \in 1..Len(new) : /\ i = Len(audit) + j
                                     /\ j \in DOMAIN EventsOf(k, r)
                                     /\ audit'[i] = EventsOf(k, r)[j]
      /\ DOMAIN audit = 1..Len(audit)
      /\ DOMAIN audit' = 1..(Len(audit) + Len(new))
      /\ Len(audit) \in Nat /\ Len(new) \in Nat
  BY <1>2, <1>3, LongerLog
<1>5. ASSUME NEW j \in DOMAIN EventsOf(k, r)
      PROVE  /\ EventsOf(k, r)[j].task = k.task
             /\ EventsOf(k, r)[j].execution = ExecutionId(k, r)
             /\ EventsOf(k, r)[j].type = "EXECUTION_STARTED" => k.op = "start" /\ j = 1
             /\ EventsOf(k, r)[j].type \in Bounds => k.op \in {"start", "complete", "fail", "failNoRetry"}
  BY EventsOfFields
<1>6. k.op = "start" /\ ExecutionId(k, r) \notin named => ExecutionId(k, r) = r
  <2>1. k.given \in Ids \cup {"none"} /\ (k.given # "none" => k.given \in named)
    BY <1>2, CallFields DEF OrderInv, CallsHeld, Names
  <2> QED
    BY <2>1 DEF ExecutionId
<1>7. ASSUME k.op \in {"start", "complete", "fail", "failNoRetry"},
             <<k.task, "log">> \notin clashed, ExecutionId(k, r) \notin named
      PROVE  ExecutionId(k, r) \in Requests /\ pc'[ExecutionId(k, r)] = "answered"
  <2>1. CASE ExecutionId(k, r) = r
    BY <1>1, <2>1
  <2>2. CASE ExecutionId(k, r) # r
    <3>1. ExecutionId(k, r) = k.row.execution /\ k.row.execution # "none"
      BY <1>6, <1>7, <2>2 DEF ExecutionId
    <3>2. k.row.execution \in Requests
      BY <1>2, <1>7, <3>1, OwnIds, ExecutionsKnown DEF OrderInv
    <3>3. pc[k.row.execution] = "answered"
      BY <1>2, <1>7, <3>1 DEF OrderInv, CallsDone, Logs
    <3> QED
      BY <1>1, <3>1, <3>2, <3>3
  <2> QED
    BY <2>1, <2>2
<1> HIDE DEF k
<1>8. BoundsDone'
  <2> SUFFICES ASSUME NEW i \in DOMAIN audit', <<audit'[i].task, "log">> \notin clashed,
                      audit'[i].type \in Bounds, audit'[i].execution \notin named
               PROVE  audit'[i].execution \in Requests /\ pc'[audit'[i].execution] = "answered"
    BY <1>1 DEF BoundsDone
  <2>1. CASE i \in DOMAIN audit
    BY <1>1, <1>4, <2>1 DEF OrderInv, BoundsDone
  <2>2. CASE \E j \in DOMAIN EventsOf(k, r) : audit'[i] = EventsOf(k, r)[j]
    BY <1>5, <1>7, <2>2
  <2> QED
    BY <1>4, <2>1, <2>2
<1>9. StartedOnceBeforeEnd'
  <2> SUFFICES ASSUME NEW i \in DOMAIN audit', NEW j \in DOMAIN audit', i < j,
                      <<audit'[i].task, "log">> \notin clashed, audit'[i].type \in Bounds,
                      audit'[j].type = "EXECUTION_STARTED",
                      audit'[i].execution \notin named,
                      audit'[i].execution = audit'[j].execution
               PROVE  FALSE
    BY <1>1 DEF StartedOnceBeforeEnd
  <2>1. CASE j \in DOMAIN audit
    <3>1. i \in DOMAIN audit
      BY <1>4, <2>1
    <3> QED
      BY <1>4, <2>1, <3>1 DEF OrderInv, StartedOnceBeforeEnd
  <2>2. CASE j \notin DOMAIN audit
    <3>1. PICK l \in 1..Len(new) : /\ j = Len(audit) + l
                                   /\ l \in DOMAIN EventsOf(k, r)
                                   /\ audit'[j] = EventsOf(k, r)[l]
      BY <1>4, <2>2
    <3>2. k.op = "start" /\ l = 1 /\ audit'[j].execution = ExecutionId(k, r)
      BY <1>5, <3>1
    <3>3. i \in DOMAIN audit
      BY <1>4, <3>1, <3>2
    <3>4. pc[audit[i].execution] = "answered" /\ audit'[i] = audit[i]
      BY <1>1, <1>4, <3>3 DEF OrderInv, BoundsDone
    <3>5. audit[i].execution = r
      BY <1>6, <3>2, <3>4
    <3> QED
      BY <1>1, <3>4, <3>5
  <2> QED
    BY <2>1, <2>2
<1> QED
  BY <1>8, <1>9, OrderEnds DEF OrderInv

LEMMA OrderStep == ExecutionAssumption /\ TypeInv /\ OrderInv /\ [Next]_vars => OrderInv'
<1> SUFFICES ASSUME ExecutionAssumption, TypeInv, OrderInv, [Next]_vars
             PROVE  OrderInv'
  OBVIOUS
<1>1. ASSUME NEW r \in Requests, WriteFails(r) PROVE OrderInv'
  <2>1. /\ UNCHANGED <<audit, clashed, named>>
        /\ \A q \in Requests : pc[q] = "answered" => pc'[q] = "answered"
    BY <1>1 DEF WriteFails, TypeInv, TypeOK
  <2>2. BoundsDone' /\ StartedOnceBeforeEnd'
    BY <2>1, LogKept
  <2> QED
    BY <1>1, <2>2, OrderEnds DEF OrderInv
<1>2. CASE UNCHANGED vars
  BY <1>2 DEF vars, OrderInv, RowsHeld, Held, CallsHeld, CallsDone, BoundsDone,
              StartedOnceBeforeEnd, Active
<1>3. CASE Next
  BY <1>1, <1>3, Steps, OrderCheck, OrderWrite, OrderPublish
<1> QED
  BY <1>2, <1>3

\* Unless two requests on the task have been about to log at once, an execution whose
\* id no caller has given starts once in the log, and not after it has ended there.
THEOREM StartsOnceBeforeItEnds == Spec => []StartedOnceBeforeEnd
<1>1. Init => TypeInv
  BY ExecutionAssumption, TypeInit
<1>2. TypeInv /\ [Next]_vars => TypeInv'
  BY ExecutionAssumption, TypeStep
<1>3. TypeInv /\ OrderInv /\ [Next]_vars => OrderInv'
  BY ExecutionAssumption, OrderStep
<1>4. OrderInv => StartedOnceBeforeEnd
  BY DEF OrderInv
<1> QED
  BY <1>1, <1>2, <1>3, <1>4, OrderInit, PTL DEF Spec

-----------------------------------------------------------------------------
(* What the log tells of the status *)

\* LogTellsStatus, with what makes it inductive: while an operation is between its
\* UPDATE and its events, the status is the one its last event is going to tell.
Writing(r, t) == pc[r] = "written" /\ call[r].task = t /\ Logs(call[r])
Says(t) == \A i \in DOMAIN audit : LastEventOf(t, i) =>
               /\ audit[i].type \in DOMAIN Tells
               /\ rows[t].status = Tells[audit[i].type]
Told ==
    \A t \in exists \ silent : <<t, "log">> \notin clashed =>
        /\ \A r \in Requests : Writing(r, t) => rows[t].status = Target(call[r])
        /\ (\A r \in Requests : ~Writing(r, t)) => Says(t)

LEMMA ToldInit == Init => Told
BY DEF Init, Told, Says, Writing

LEMMA LastEventTells ==
    ASSUME NEW k \in Call, NEW r, Logs(k)
    PROVE  /\ Len(EventsOf(k, r)) \in DOMAIN EventsOf(k, r)
           /\ EventsOf(k, r)[Len(EventsOf(k, r))].task = k.task
           /\ EventsOf(k, r)[Len(EventsOf(k, r))].type \in DOMAIN Tells
           /\ Tells[EventsOf(k, r)[Len(EventsOf(k, r))].type] = Target(k)
<1> DEFINE Good(e) == e.task = k.task /\ e.type \in DOMAIN Tells /\ Tells[e.type] = Target(k)
<1>1. CASE k.op = "start"
  <2>1. EventsOf(k, r) = <<Event("EXECUTION_STARTED", k, r, 0), Event("TASK_STARTED", k, r, 0)>>
    BY <1>1 DEF EventsOf, Fails
  <2>2. Good(Event("TASK_STARTED", k, r, 0))
    BY <1>1 DEF Event, Tells, Target
  <2> QED
    BY <2>1, <2>2
<1>2. CASE k.op = "complete"
  <2>1. EventsOf(k, r) =
           <<Event("TASK_COMPLETED", k, r, 0), Event("EXECUTION_COMPLETED", k, r, 0)>>
    BY <1>2 DEF EventsOf, Fails
  <2>2. Good(Event("EXECUTION_COMPLETED", k, r, 0))
    BY <1>2 DEF Event, Tells, Target
  <2> QED
    BY <2>1, <2>2
<1>3. CASE Fails(k)
  <2>1. EventsOf(k, r) =
           <<Event("TASK_FAILED", k, r, NewCount(k) + 1),
             IF WillRetry(k) THEN Event("TASK_RETRIED", k, r, NewCount(k) + 1)
                             ELSE Event("EXECUTION_FAILED", k, r, 0)>>
    BY <1>3 DEF EventsOf, Fails
  <2>2. Good(IF WillRetry(k) THEN Event("TASK_RETRIED", k, r, NewCount(k) + 1)
                             ELSE Event("EXECUTION_FAILED", k, r, 0))
    <3>1. CASE WillRetry(k)
      <4>1. Target(k) = "RETRYING"
        BY <1>3, <3>1 DEF Fails, Target
      <4> QED
        BY <3>1, <4>1 DEF Event, Tells
    <3>2. CASE ~WillRetry(k)
      <4>1. Target(k) = "FAILED"
        BY <1>3, <3>2 DEF Fails, Target
      <4> QED
        BY <3>2, <4>1 DEF Event, Tells
    <3> QED
      BY <3>1, <3>2
  <2> QED
    BY <2>1, <2>2
<1>4. CASE k.op = "skip"
  <2>1. EventsOf(k, r) = <<Event("TASK_SKIPPED", k, r, 0)>>
    BY <1>4 DEF EventsOf, Fails
  <2>2. Good(Event("TASK_SKIPPED", k, r, 0))
    BY <1>4 DEF Event, Tells, Target
  <2> QED
    BY <2>1, <2>2
<1> QED
  BY <1>1, <1>2, <1>3, <1>4 DEF Logs, Fails

LEMMA ToldWrite ==
    ASSUME TypeInv, SerialInv, LogAlone, Told, NEW r \in Requests, Write(r)
    PROVE  Told'
<1> DEFINE k == call[r]
           t == k.task
<1>1. k \in Call /\ t \in Tasks /\ r \in Active
  BY CallFields DEF Write, TypeInv, ActiveHoldsCall, Active
<1>2. /\ pc[r] = "checked" /\ pc'[r] = "written"
      /\ \A q \in Requests : q # r => pc'[q] = pc[q]
      /\ UNCHANGED <<call, audit, clashed>>
  BY DEF Write, TypeInv, TypeOK
<1>3. \A u : u # t => (u \in exists' <=> u \in exists) /\ (u \in silent' <=> u \in silent)
  BY DEF Write
<1>4. \A u \in Tasks : u # t => rows'[u] = rows[u]
  BY <1>1 DEF Write, TypeInv, TypeOK
<1>5. \A q \in Requests : q # r => \A u : Writing(q, u)' <=> Writing(q, u)
  BY <1>2 DEF Writing
<1>6. \A u : /\ ~Writing(r, u)
             /\ Writing(r, u)' <=> u = t /\ Logs(k)
  BY <1>2 DEF Writing
<1> SUFFICES ASSUME NEW u \in exists' \ silent', <<u, "log">> \notin clashed
             PROVE  /\ \A q \in Requests : Writing(q, u)' => rows'[u].status = Target(call[q])
                    /\ (\A q \in Requests : ~Writing(q, u)') => Says(u)'
  BY <1>2 DEF Told, Writing, Target, WillRetry
<1>7. u \in Tasks /\ u \in exists
  BY DEF Write, TypeInv, TypeOK
<1>8. CASE /\ u \notin silent /\ rows'[u].status = rows[u].status
           /\ u = t => ~Logs(k)
  <2>1. \A q \in Requests : Writing(q, u)' <=> Writing(q, u)
    BY <1>5, <1>6, <1>8
  <2>2. /\ \A q \in Requests : Writing(q, u) => rows[u].status = Target(call[q])
        /\ (\A q \in Requests : ~Writing(q, u)) => Says(u)
    BY <1>7, <1>8 DEF Told
  <2>3. Says(u) => Says(u)'
    BY <1>2, <1>8 DEF Says, LastEventOf
  <2> QED
    BY <1>8, <2>1, <2>2, <2>3
<1>9. CASE u # t
  BY <1>3, <1>4, <1>7, <1>8, <1>9
<1>10. CASE u = t
  <2>1. k.op # "delete"
    BY <1>10 DEF Write
  <2>2. rows'[u].status = Updated(k, r, rows[u]).status
    BY <1>7, <1>10, <2>1 DEF Write, TypeInv, TypeOK
  <2>3. silent' = IF "status" \notin Touches(k) THEN silent
                  ELSE IF Logs(k) THEN silent \ {t} ELSE silent \cup {t}
    BY <2>1 DEF Write
  <2>4. CASE Logs(k)
    <3>1. Accepted(k)
      BY <1>2 DEF SerialInv, Current
    <3>2. "status" \in Touches(k)
      BY <1>1, <2>4, <3>1, AcceptedMoves, TouchedFields DEF Logs
    <3>3. rows'[u].status = Target(k)
      BY <1>1, <2>2, <3>2, UpdatedFields
    <3>4. \A q \in Requests : q # r => ~Writing(q, u)
      BY <1>1, <1>10, <2>4 DEF LogAlone, Writing, Active
    <3> QED
      BY <1>5, <1>6, <1>10, <2>4, <3>3, <3>4
  <2>5. CASE ~Logs(k)
    <3>1. "status" \notin Touches(k)
      BY <1>10, <2>3, <2>5
    <3>2. rows'[u].status = rows[u].status
      BY <1>1, <2>2, <3>1, UpdatedFields
    <3> QED
      BY <1>8, <2>3, <2>5, <3>1, <3>2
  <2> QED
    BY <2>4, <2>5
<1> QED
  BY <1>9, <1>10

LEMMA ToldPublish ==
    ASSUME TypeInv, LogAlone, Told, NEW r \in Requests, Publish(r) \/ PublishFails(r)
    PROVE  Told'
<1> DEFINE k == call[r]
           t == k.task
<1>1. /\ pc[r] = "written" /\ pc'[r] = "answered" /\ UNCHANGED <<rows, exists, clashed>>
      /\ \A q \in Requests : q # r => pc'[q] = pc[q] /\ call'[q] = call[q]
  BY DEF Publish, PublishFails, TypeInv, TypeOK
<1>2. k \in Call /\ r \in Active
  BY <1>1 DEF TypeInv, ActiveHoldsCall, Active
<1>3. PICK new : /\ Publishes(r, new)
                 /\ \/ Len(new) = Len(EventsOf(k, r)) /\ silent' = silent
                    \/ silent' = silent \cup {t}
  BY Published
<1>4. /\ \A i \in DOMAIN audit : i \in DOMAIN audit' /\ audit'[i] = audit[i]
      /\ \A i \in DOMAIN audit' :
           \/ i \in DOMAIN audit
           \/ \E j \in 1..Len(new) : /\ i = Len(audit) + j
                                     /\ j \in DOMAIN EventsOf(k, r)
                                     /\ audit'[i] = EventsOf(k, r)[j]
      /\ DOMAIN audit = 1..Len(audit)
      /\ DOMAIN audit' = 1..(Len(audit) + Len(new))
      /\ Len(audit) \in Nat /\ Len(new) \in Nat
  BY <1>2, <1>3, LongerLog
<1>5. \A j \in DOMAIN EventsOf(k, r) : EventsOf(k, r)[j].task = t
  BY EventsOfFields
<1>6. \A q \in Requests : \A u : IF q = r THEN ~Writing(q, u)' ELSE Writing(q, u)' <=> Writing(q, u)
  BY <1>1 DEF Writing, Logs
<1> SUFFICES ASSUME NEW u \in exists \ silent', <<u, "log">> \notin clashed
             PROVE  /\ \A q \in Requests : Writing(q, u)' => rows[u].status = Target(call'[q])
                    /\ (\A q \in Requests : ~Writing(q, u)') => Says(u)'
  BY <1>1 DEF Told, Writing, Target, WillRetry
<1>7. /\ \A q \in Requests : Writing(q, u) => rows[u].status = Target(call[q])
      /\ (\A q \in Requests : ~Writing(q, u)) => Says(u)
  BY <1>3 DEF Told
<1>8. \A q \in Requests : Writing(q, u)' => rows[u].status = Target(call'[q])
  <2> SUFFICES ASSUME NEW q \in Requests, q # r, Writing(q, u)
               PROVE  rows[u].status = Target(call'[q])
    BY <1>6
  <2> QED
    BY <1>1, <1>7
<1>9. ASSUME \A q \in Requests : ~Writing(q, u)'
      PROVE  Says(u)'
  <2>1. CASE u = t /\ Logs(k)
    <3>1. Writing(r, u)
      BY <1>1, <2>1 DEF Writing
    <3>2. rows[u].status = Target(k)
      BY <1>7, <3>1
    <3>3. Len(new) = Len(EventsOf(k, r))
      BY <1>3, <2>1
    <3> DEFINE n == Len(EventsOf(k, r))
    <3>4. /\ n \in DOMAIN EventsOf(k, r)
          /\ EventsOf(k, r)[n].type \in DOMAIN Tells
          /\ Tells[EventsOf(k, r)[n].type] = Target(k)
          /\ EventsOf(k, r)[n].task = t
      BY <1>2, <2>1, LastEventTells
    <3>5. EventsOf(k, r) \in Seq(AuditEvent)
      BY <1>2, EventsOfType
    <3>6. n \in Nat /\ n > 0
      BY <3>4, <3>5
    <3> HIDE DEF n
    <3>7. n = Len(new)
      BY <3>3 DEF n
    <3>8. Len(audit) + n \in DOMAIN audit' /\ Len(audit) + n \notin DOMAIN audit
      BY <1>4, <3>6, <3>7
    <3>9. audit'[Len(audit) + n] = EventsOf(k, r)[n]
      <4>1. PICK j \in 1..Len(new) : /\ Len(audit) + n = Len(audit) + j
                                     /\ audit'[Len(audit) + n] = EventsOf(k, r)[j]
        BY <1>4, <3>8
      <4>2. j = n
        BY <1>4, <3>6, <4>1
      <4> QED
        BY <4>1, <4>2
    <3>10. ASSUME NEW i \in DOMAIN audit', LastEventOf(u, i)'
           PROVE  i = Len(audit) + n
      <4>1. ~(Len(audit) + n > i)
        BY <2>1, <3>4, <3>8, <3>9, <3>10 DEF LastEventOf
      <4> QED
        BY <1>4, <3>6, <3>7, <4>1
    <3> QED
      BY <1>1, <3>2, <3>4, <3>9, <3>10 DEF Says
  <2>2. CASE ~(u = t /\ Logs(k))
    <3>1. \A q \in Requests : ~Writing(q, u)
      BY <1>6, <1>9, <2>2 DEF Writing
    <3>2. Says(u)
      BY <1>7, <3>1
    <3>3. \A i \in DOMAIN audit' : i \notin DOMAIN audit => audit'[i].task # u
      <4>1. CASE u # t
        BY <1>4, <1>5, <4>1
      <4>2. CASE ~Logs(k)
        <5>1. EventsOf(k, r) = <<>>
          BY <4>2 DEF EventsOf, Logs, Fails
        <5> QED
          BY <1>4, <5>1
      <4> QED
        BY <2>2, <4>1, <4>2
    <3>4. \A i \in DOMAIN audit' : LastEventOf(u, i)' => i \in DOMAIN audit /\ LastEventOf(u, i)
      BY <1>4, <3>3 DEF LastEventOf
    <3> QED
      BY <1>1, <1>4, <3>2, <3>4 DEF Says
  <2> QED
    BY <2>1, <2>2
<1> QED
  BY <1>8, <1>9

LEMMA ToldStep ==
    ExecutionAssumption /\ TypeInv /\ SerialInv /\ LogAlone /\ Told /\ [Next]_vars => Told'
<1> SUFFICES ASSUME ExecutionAssumption, TypeInv, SerialInv, LogAlone, Told, [Next]_vars
             PROVE  Told'
  OBVIOUS
<1>1. ASSUME NEW r \in Requests,
             WriteFails(r) \/ \E op, t, to, limit, given, meta :
                                  Check(r, op, t, to, limit, given, meta)
      PROVE  Told'
  <2>1. /\ UNCHANGED <<rows, exists, audit, silent>> /\ clashed \subseteq clashed'
        /\ \A q \in Requests : /\ pc'[q] = "written" <=> pc[q] = "written"
                               /\ pc[q] = "written" => call'[q] = call[q]
    <3>1. CASE WriteFails(r)
      BY <3>1 DEF WriteFails, TypeInv, TypeOK
    <3>2. ASSUME NEW op, NEW t, NEW to, NEW limit, NEW given, NEW meta,
                 Check(r, op, t, to, limit, given, meta)
          PROVE  /\ UNCHANGED <<rows, exists, audit, silent>> /\ clashed \subseteq clashed'
                 /\ \A q \in Requests : /\ pc'[q] = "written" <=> pc[q] = "written"
                                        /\ pc[q] = "written" => call'[q] = call[q]
      <4>1. /\ UNCHANGED <<rows, exists, audit, silent>> /\ clashed \subseteq clashed'
            /\ pc[r] = "idle" /\ pc'[r] \in {"checked", "answered"}
        BY <3>2 DEF Check, TypeInv, TypeOK
      <4>2. \A q \in Requests : q # r => pc'[q] = pc[q] /\ call'[q] = call[q]
        BY <3>2 DEF Check, TypeInv, TypeOK
      <4> QED
        BY <4>1, <4>2
    <3> QED
      BY <1>1, <3>1, <3>2
  <2>2. \A q \in Requests : \A u : Writing(q, u)' <=> Writing(q, u)
    BY <2>1 DEF Writing, Logs
  <2>3. \A u : Says(u)' <=> Says(u)
    BY <2>1 DEF Says, LastEventOf
  <2>4. \A q \in Requests : \A u : Writing(q, u) => Target(call'[q]) = Target(call[q])
    BY <2>1 DEF Writing
  <2> SUFFICES ASSUME NEW u \in exists \ silent, <<u, "log">> \notin clashed
               PROVE  /\ \A q \in Requests : Writing(q, u)' => rows[u].status = Target(call'[q])
                      /\ (\A q \in Requests : ~Writing(q, u)') => Says(u)'
    BY <2>1 DEF Told, Writing, Target, WillRetry
  <2> QED
    BY <2>2, <2>3, <2>4 DEF Told
<1>2. CASE UNCHANGED vars
  BY <1>2 DEF vars, Told, Writing, Says, LastEventOf
<1>3. CASE Next
  BY <1>1, <1>3, Steps, ToldWrite, ToldPublish
<1> QED
  BY <1>2, <1>3

\* When no request is between its UPDATE of a task and its events, the last event of
\* the task tells the status of its row, with the exceptions that LogTellsStatus names.
THEOREM LogTellsTheStatus == Spec => []LogTellsStatus
<1>1. Init => TypeInv
  BY ExecutionAssumption, TypeInit
<1>2. TypeInv /\ [Next]_vars => TypeInv'
  BY ExecutionAssumption, TypeStep
<1>3. TypeInv /\ SerialInv /\ [Next]_vars => SerialInv'
  BY ExecutionAssumption, SerialStep
<1>4. Init => LogAlone
  BY DEF Init, LogAlone, Active
<1>5. TypeInv /\ LogAlone /\ [Next]_vars => LogAlone'
  BY ExecutionAssumption, LogAloneStep
<1>6. TypeInv /\ SerialInv /\ LogAlone /\ Told /\ [Next]_vars => Told'
  BY ExecutionAssumption, ToldStep
<1>7. Told => LogTellsStatus
  BY DEF Told, LogTellsStatus, Says, Writing
<1> QED
  BY <1>1, <1>2, <1>3, <1>4, <1>5, <1>6, <1>7, SerialInit, ToldInit, PTL DEF Spec

=============================================================================
