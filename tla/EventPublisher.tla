--------------------------- MODULE EventPublisher ---------------------------
(***************************************************************************)
(* The buffered audit log of fastify_apps/task-graph: EventPublisher, the  *)
(* plugin that owns it, and the requests of TaskService as its callers.    *)
(*                                                                         *)
(* A request has written its task row and then publishes its events in     *)
(* groups: the events of a group are pushed in one turn (Promise.all), and *)
(* a group is awaited before the next one. It ends with an explicit flush. *)
(* Where none of these awaits waits for the database, only microtasks run  *)
(* up to that flush: no timer, no other request, no answer gets a turn.    *)
(***************************************************************************)
EXTENDS Integers, Sequences, FiniteSets

CONSTANTS
    Clients,        \* requests that publish events
    Script,         \* Script[c]: one group of 1 or 2 events, or two groups of one event
    TaskOf,         \* TaskOf[c]: the task whose row the events of c refer to
    BufferSize,
    MaxFailures,    \* bound: inserts the database fails without cause
    LostAcks,       \* such a failure may come after the rows were written
    MayShutDown,    \* an operator may stop the server
    GraceExpires,   \* the 30 s that close-with-grace allows may run out
    MayDelete       \* tasks that may be deleted

Events == UNION {UNION {{Script[c][g][i] : i \in DOMAIN Script[c][g]} :
                            g \in DOMAIN Script[c]} : c \in Clients}
Tasks == {TaskOf[c] : c \in Clients}

ASSUME PublisherAssumption ==
    /\ IsFiniteSet(Clients)
    /\ \A c \in Clients : Script[c] \in Seq(Seq(Events))
    /\ \A c \in Clients : \A g \in DOMAIN Script[c] : Len(Script[c][g]) \in {1, 2}
    /\ \A c \in Clients : \/ Len(Script[c]) = 1
                          \/ Len(Script[c]) = 2 /\ \A g \in {1, 2} : Len(Script[c][g]) = 1
    \* every call of publishEvent makes an event of its own
    /\ \A c, d \in Clients : \A g \in DOMAIN Script[c], h \in DOMAIN Script[d] :
         \A i \in DOMAIN Script[c][g], j \in DOMAIN Script[d][h] :
            Script[c][g][i] = Script[d][h][j] => c = d /\ g = h /\ i = j
    /\ BufferSize \in Nat \ {0}
    /\ MaxFailures \in Nat
    /\ {LostAcks, MayShutDown, GraceExpires} \subseteq BOOLEAN
    /\ MayDelete \subseteq Tasks
    /\ Clients \cap {"timer", "cleanup"} = {}

VARIABLES
    \* EventPublisher
    buffer,       \* eventBuffer
    flights,      \* bulkCreate calls under way: who awaits them, and their rows
    timerOn,      \* flushTimer # null
    \* the requests
    pc,           \* "idle", "publishing", "flushing", "ok" (replied), "error" (500)
    next,         \* next[c]: the next group c publishes
    \* the process and the database
    server,       \* "open", "closing", "draining" (after cleanup), "closed", "killed"
    logged,       \* rows of ExecutionLog, as the sequence of inserted events
    alive,        \* tasks whose row exists
    failures,     \* failures so far
    published     \* history: events pushed by publishEvent

vars == <<buffer, flights, timerOn, pc, next, server, logged, alive, failures, published>>

Elems(s) == {s[i] : i \in DOMAIN s}
Owners == Clients \cup {"timer", "cleanup"}
EventsOf(c) == UNION {Elems(Script[c][g]) : g \in DOMAIN Script[c]}
PublishedBy(c) == UNION {Elems(Script[c][g]) : g \in 1..(next[c] - 1)}
InFlight(c) == \E f \in flights : f.owner = c
Flying == UNION {Elems(f.batch) : f \in flights}

\* A request that awaits no database answer goes on before any callback runs.
Runnable(c) == pc[c] = "publishing" /\ ~InFlight(c)
Quiet == \A c \in Clients : ~Runnable(c)

Init ==
    /\ buffer = <<>> /\ flights = {} /\ timerOn = TRUE
    /\ pc = [c \in Clients |-> "idle"]
    /\ next = [c \in Clients |-> 1]
    /\ server = "open" /\ logged = <<>> /\ alive = Tasks
    /\ failures = 0 /\ published = {}

-----------------------------------------------------------------------------
(* Publishing *)

Full(b) == Len(b) >= BufferSize

\* publishEvent: push, and flush once the buffer is full. What it leaves in the
\* buffer, and the batch it sends off, if any.
Push(b, e) == IF Full(Append(b, e)) THEN <<>> ELSE Append(b, e)
Sent(b, e) == IF Full(Append(b, e)) THEN {Append(b, e)} ELSE {}

\* The buffer after the pushes of a group, and the batches its flushes take.
Pushed(g) == IF Len(g) = 1 THEN Push(buffer, g[1])
                           ELSE Push(Push(buffer, g[1]), g[2])
Taken(g) == IF Len(g) = 1 THEN Sent(buffer, g[1])
                          ELSE Sent(buffer, g[1]) \cup Sent(Push(buffer, g[1]), g[2])

Depart(owner, batches) ==
    flights' = flights \cup {[owner |-> owner, batch |-> b] : b \in batches}

\* A request has committed its row and turns to its events.
Begin(c) ==
    /\ Quiet
    /\ server = "open"
    /\ pc[c] = "idle"
    /\ TaskOf[c] \in alive
    /\ pc' = [pc EXCEPT ![c] = "publishing"]
    /\ UNCHANGED <<buffer, flights, timerOn, next, server, logged, alive, failures, published>>

PublishGroup(c) ==
    /\ Runnable(c)
    /\ next[c] \in DOMAIN Script[c]
    /\ LET g == Script[c][next[c]]
       IN  /\ buffer' = Pushed(g)
           /\ Depart(c, Taken(g))
           /\ published' = published \cup Elems(g)
    /\ next' = [next EXCEPT ![c] = @ + 1]
    /\ UNCHANGED <<timerOn, pc, server, logged, alive, failures>>

\* Mutant: no early return for an empty buffer.
Flush_EvenEmpty(owner) == Depart(owner, {buffer}) /\ buffer' = <<>>

\* Mutant: the buffer is emptied only once the insert has been answered.
Flush_NotTaken(owner) ==
    /\ Depart(owner, IF buffer = <<>> THEN {} ELSE {buffer})
    /\ UNCHANGED buffer

\* flush(): take the whole buffer, or return at once when it is empty.
Flush(owner) ==
    /\ Depart(owner, IF buffer = <<>> THEN {} ELSE {buffer})
    /\ buffer' = <<>>

\* The flush every TaskService operation ends with.
FinalFlush(c) ==
    /\ Runnable(c)
    /\ next[c] \notin DOMAIN Script[c]
    /\ Flush(c)
    /\ pc' = [pc EXCEPT ![c] = IF buffer = <<>> THEN "ok" ELSE "flushing"]
    /\ UNCHANGED <<timerOn, next, server, logged, alive, failures, published>>

TimerFlush ==
    /\ Quiet
    /\ timerOn
    /\ buffer # <<>>
    /\ Flush("timer")
    /\ UNCHANGED <<timerOn, pc, next, server, logged, alive, failures, published>>

-----------------------------------------------------------------------------
(* The database answers a bulkCreate, one INSERT statement *)

Insertable(f) == \A i \in DOMAIN f.batch :
                    \E c \in Clients : f.batch[i] \in EventsOf(c) /\ TaskOf[c] \in alive

Inserted(f) ==
    /\ Quiet
    /\ f \in flights
    /\ Insertable(f)
    /\ logged' = logged \o f.batch
    /\ flights' = flights \ {f}
    /\ pc' = [c \in Clients |-> IF c = f.owner /\ pc[c] = "flushing" THEN "ok" ELSE pc[c]]
    /\ server' = IF f.owner = "cleanup" THEN "draining" ELSE server
    /\ UNCHANGED <<buffer, timerOn, next, alive, failures, published>>

\* process.exit: what the process holds in memory is gone.
Die ==
    /\ server' = "killed"
    /\ buffer' = <<>> /\ flights' = {} /\ timerOn' = FALSE
    /\ pc' = [c \in Clients |-> IF pc[c] \in {"publishing", "flushing"} THEN "error"
                                                                       ELSE pc[c]]
    /\ UNCHANGED <<next, alive, published>>

\* What the error of a flush does to those who await it.
Failed(f) ==
    /\ flights' = flights \ {f}
    /\ pc' = [c \in Clients |-> IF c = f.owner /\ pc[c] \in {"publishing", "flushing"}
                                THEN "error" ELSE pc[c]]
    /\ server' = CASE f.owner = "cleanup" -> "draining"
                   [] f.owner = "timer"   -> "closing"
                   [] OTHER               -> server
    /\ UNCHANGED <<timerOn, next, alive, published>>

\* Mutant: the catch block forgets the batch.
PutBack_Not(f) == Failed(f) /\ UNCHANGED buffer

\* Mutant: the batch goes to the back of the buffer.
PutBack_Last(f) == Failed(f) /\ buffer' = buffer \o f.batch

\* Mutant: onClose does not go on after a flush that failed.
PutBack_HangsClose(f) ==
    /\ buffer' = f.batch \o buffer
    /\ IF f.owner = "cleanup"
       THEN flights' = flights \ {f} /\ UNCHANGED <<pc, server, timerOn, next, alive, published>>
       ELSE Failed(f)

\* flush's catch block: the batch goes back to the front of the buffer and the
\* caller gets the error. Nobody awaits the timer's flush: its rejection is an
\* unhandled one, on which close-with-grace closes the server, or ends the
\* process at once when it is closing already.
PutBack(f) ==
    IF f.owner = "timer" /\ server # "open"
    THEN Die
    ELSE Failed(f) /\ buffer' = f.batch \o buffer

\* A row refers to a task that is gone: the statement fails as a whole.
Refused(f) ==
    /\ Quiet
    /\ f \in flights
    /\ ~Insertable(f)
    /\ PutBack(f)
    /\ UNCHANGED <<logged, failures>>

\* A transient fault; with LostAcks, possibly after the rows were written.
Fault(f) ==
    /\ Quiet
    /\ f \in flights
    /\ failures < MaxFailures
    /\ failures' = failures + 1
    /\ PutBack(f)
    /\ \/ UNCHANGED logged
       \/ LostAcks /\ Insertable(f) /\ logged' = logged \o f.batch

\* The rows already logged stay (their reference is set to null).
DeleteTask(t) ==
    /\ server = "open"
    /\ t \in MayDelete \cap alive
    /\ alive' = alive \ {t}
    /\ UNCHANGED <<buffer, flights, timerOn, pc, next, server, logged, failures, published>>

-----------------------------------------------------------------------------
(* Shutdown *)

Shutdown ==
    /\ Quiet
    /\ MayShutDown
    /\ server = "open"
    /\ server' = "closing"
    /\ UNCHANGED <<buffer, flights, timerOn, pc, next, logged, alive, failures, published>>

\* Mutant: onClose clears the timer and does not flush.
Cleanup_NoFlush ==
    /\ server = "closing"
    /\ timerOn
    /\ \A c \in Clients : pc[c] \notin {"publishing", "flushing"}
    /\ timerOn' = FALSE
    /\ server' = "draining"
    /\ UNCHANGED <<buffer, flights, pc, next, logged, alive, failures, published>>

\* onClose, after the in-flight requests have been answered.
Cleanup ==
    /\ server = "closing"
    /\ timerOn
    /\ \A c \in Clients : pc[c] \notin {"publishing", "flushing"}
    /\ timerOn' = FALSE
    /\ Flush("cleanup")
    /\ server' = IF buffer = <<>> THEN "draining" ELSE server
    /\ UNCHANGED <<pc, next, logged, alive, failures, published>>

\* db.close() waits for the statements under way; then the process exits.
Exit ==
    /\ server = "draining"
    /\ flights = {}
    /\ server' = "closed"
    /\ UNCHANGED <<buffer, flights, timerOn, pc, next, logged, alive, failures, published>>

GraceRunsOut ==
    /\ Quiet
    /\ GraceExpires
    /\ server \in {"closing", "draining"}
    /\ Die
    /\ UNCHANGED <<logged, failures>>

Next ==
    \/ \E c \in Clients : Begin(c) \/ PublishGroup(c) \/ FinalFlush(c)
    \/ TimerFlush
    \/ \E f \in flights : Inserted(f) \/ Refused(f) \/ Fault(f)
    \/ \E t \in Tasks : DeleteTask(t)
    \/ Shutdown
    \/ Cleanup
    \/ Exit
    \/ GraceRunsOut

Spec == Init /\ [][Next]_vars

\* The database answers a statement that somebody awaits.
Answered(o) == \E f \in flights : f.owner = o /\ (Inserted(f) \/ Refused(f))

(***************************************************************************)
(* A request runs to its end, the interval timer keeps firing, the         *)
(* database answers every statement, a server that closes goes on closing. *)
(***************************************************************************)
Fairness ==
    /\ \A c \in Clients : WF_vars(PublishGroup(c) \/ FinalFlush(c))
    /\ WF_vars(TimerFlush)
    /\ \A o \in Owners : WF_vars(Answered(o))
    /\ WF_vars(Cleanup)
    /\ WF_vars(Exit)

LiveSpec == Spec /\ Fairness

-----------------------------------------------------------------------------
(* Properties *)

TypeOK ==
    /\ buffer \in Seq(Events)
    /\ flights \subseteq [owner : Owners, batch : Seq(Events) \ {<<>>}]
    /\ timerOn \in BOOLEAN
    /\ pc \in [Clients -> {"idle", "publishing", "flushing", "ok", "error"}]
    /\ next \in [Clients -> Nat \ {0}]
    /\ server \in {"open", "closing", "draining", "closed", "killed"}
    /\ logged \in Seq(Events)
    /\ alive \subseteq Tasks
    /\ failures \in 0..MaxFailures
    /\ published \subseteq Events

\* As long as the process lives, whatever fails and whoever flushes, a published
\* event is still in the buffer, in a batch under way, or in the log: swapping the
\* buffer for an empty one and putting batches back never drops one.
NoEventForgotten ==
    server # "killed" => published \subseteq Elems(buffer) \cup Flying \cup Elems(logged)

Once(s) == \A i, j \in DOMAIN s : s[i] = s[j] => i = j

\* An event is in one place, once: overlapping flushes never take it twice, so it
\* gets one row.
NoEventTwice ==
    /\ Once(buffer)
    /\ \A f \in flights : Once(f.batch) /\ Elems(f.batch) \cap Elems(buffer) = {}
    /\ \A f, g \in flights : f # g => Elems(f.batch) \cap Elems(g.batch) = {}
    /\ ~LostAcks => Once(logged) /\ (Elems(buffer) \cup Flying) \cap Elems(logged) = {}

Position(c, e) == CHOOSE p \in {<<g, i>> : g \in 1..Len(Script[c]), i \in 1..2} :
                    p[2] \in DOMAIN Script[c][p[1]] /\ Script[c][p[1]][p[2]] = e
Before(p, q) == p[1] < q[1] \/ (p[1] = q[1] /\ p[2] < q[2])

InPublishOrder(s) ==
    \A c \in Clients : \A i, j \in DOMAIN s :
        (i < j /\ {s[i], s[j]} \subseteq EventsOf(c) /\ s[i] # s[j])
            => Before(Position(c, s[i]), Position(c, s[j]))

\* The events of one request keep their order in the buffer and in every batch, also
\* when a batch comes back to a buffer that has grown meanwhile. Before the first failure
\* no request has events in two places, and it takes two more to bring two batches of a
\* request back, the later one last and so to the front. A buffer of one event is a
\* batch per event: there two failures are enough. The order of rows in the log is
\* another matter: batches under way are inserted in any order.
OrderKept ==
    failures <= 2 /\ BufferSize > 1 /\ alive = Tasks =>
        InPublishOrder(buffer) /\ \A f \in flights : InPublishOrder(f.batch)

\* A server that has shut down in time leaves every published event in the log.
\* One failed insert is survived: the batch comes back and onClose flushes it. When
\* the flush of onClose is the one that fails, nothing tries again.
NothingLostAtExit == server = "closed" => published \subseteq Elems(logged)

\* "Flush events immediately to ensure logs are persisted": a request that
\* replies has its events in the log.
PersistedWhenAnswered ==
    \A c \in Clients : pc[c] = "ok" => EventsOf(c) \subseteq Elems(logged)

\* Every published event reaches the log, unless its own task is deleted or the
\* process is killed: after a fault the interval timer, or the flush at shutdown,
\* delivers what came back.
EventuallyLogged ==
    \A c \in Clients : \A e \in EventsOf(c) :
        e \in published ~> \/ e \in Elems(logged)
                           \/ TaskOf[c] \notin alive
                           \/ server = "killed"

\* What the publisher promises (AuditLog): it accepts the events of a group at once,
\* they wait in the buffer or in a batch under way, and a process that has ended,
\* in time or not, forgets those that still do.
Promise == INSTANCE AuditLog WITH
    MayRepeat <- LostAcks,
    waiting <- IF server = "closed" THEN {} ELSE Elems(buffer) \cup Flying,
    log <- logged,
    up <- server \notin {"closed", "killed"}

\* The publisher keeps the promise: buffering, flushes that overlap, batches that come
\* back and shutdown are nothing but acceptances, inserts, and the end of the process.
KeepsPromise == Promise!Spec

\* A server that begins to close ends, whatever the database refuses meanwhile and
\* without the help of the 30 s limit: no request, and no batch that keeps coming
\* back, holds the shutdown up.
ShutsDown == server = "closing" ~> server \in {"closed", "killed"}

=============================================================================
