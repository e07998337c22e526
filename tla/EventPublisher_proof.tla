----------------------- MODULE EventPublisher_proof -----------------------
(***************************************************************************)
(* Proofs about EventPublisher, for any set of requests, any scripts, any  *)
(* buffer size and any number of faults: the typing of the state, and that *)
(* no published event is forgotten while the process lives.                *)
(***************************************************************************)
EXTENDS EventPublisher, SequenceTheorems, TLAPS

-----------------------------------------------------------------------------
(* Sequences and their elements *)

LEMMA ElemsOfConcat ==
    ASSUME NEW S, NEW s \in Seq(S), NEW t \in Seq(S)
    PROVE  Elems(s \o t) = Elems(s) \cup Elems(t)
<1>1. /\ Len(s) \in Nat /\ Len(t) \in Nat
      /\ DOMAIN s = 1..Len(s) /\ DOMAIN t = 1..Len(t)
      /\ s \o t \in Seq(S)
      /\ DOMAIN (s \o t) = 1..(Len(s) + Len(t))
  BY ConcatProperties, LenProperties
<1>2. \A i \in 1..(Len(s) + Len(t)) :
        (s \o t)[i] = IF i <= Len(s) THEN s[i] ELSE t[i - Len(s)]
  BY ConcatProperties
<1>3. ASSUME NEW x \in Elems(s \o t) PROVE x \in Elems(s) \cup Elems(t)
  <2>1. PICK i \in 1..(Len(s) + Len(t)) : x = (s \o t)[i]
    BY <1>1, <1>3 DEF Elems
  <2>2. CASE i <= Len(s)
    <3>1. i \in 1..Len(s) /\ x = s[i]
      BY <1>1, <1>2, <2>1, <2>2
    <3> QED
      BY <1>1, <3>1 DEF Elems
  <2>3. CASE ~(i <= Len(s))
    <3>1. i - Len(s) \in 1..Len(t) /\ x = t[i - Len(s)]
      BY <1>1, <1>2, <2>1, <2>3
    <3> QED
      BY <1>1, <3>1 DEF Elems
  <2> QED
    BY <2>2, <2>3
<1>4. ASSUME NEW x \in Elems(s) PROVE x \in Elems(s \o t)
  <2>1. PICK i \in 1..Len(s) : x = s[i]
    BY <1>1, <1>4 DEF Elems
  <2>2. i \in 1..(Len(s) + Len(t)) /\ x = (s \o t)[i]
    BY <1>1, <1>2, <2>1
  <2> QED
    BY <1>1, <2>2 DEF Elems
<1>5. ASSUME NEW x \in Elems(t) PROVE x \in Elems(s \o t)
  <2>1. PICK i \in 1..Len(t) : x = t[i]
    BY <1>1, <1>5 DEF Elems
  <2>2. /\ i + Len(s) \in 1..(Len(s) + Len(t))
        /\ ~(i + Len(s) <= Len(s))
        /\ (i + Len(s)) - Len(s) = i
    BY <1>1, <2>1
  <2>3. x = (s \o t)[i + Len(s)]
    BY <1>2, <2>1, <2>2
  <2> QED
    BY <1>1, <2>2, <2>3 DEF Elems
<1> QED
  BY <1>3, <1>4, <1>5

LEMMA ElemsOfAppend ==
    ASSUME NEW S, NEW s \in Seq(S), NEW x \in S
    PROVE  /\ Append(s, x) \in Seq(S) \ {<<>>}
           /\ Elems(s) \cup {x} \subseteq Elems(Append(s, x))
<1>1. /\ Append(s, x) \in Seq(S)
      /\ Len(Append(s, x)) = Len(s) + 1
      /\ Len(s) \in Nat
      /\ DOMAIN s = 1..Len(s)
      /\ DOMAIN Append(s, x) = 1..(Len(s) + 1)
  BY AppendProperties, LenProperties
<1>2. /\ \A i \in 1..Len(s) : Append(s, x)[i] = s[i]
      /\ Append(s, x)[Len(s) + 1] = x
  BY AppendProperties
<1>3. Append(s, x) # <<>>
  BY <1>1
<1>4. ASSUME NEW y \in Elems(s) PROVE y \in Elems(Append(s, x))
  <2>1. PICK i \in 1..Len(s) : y = s[i]
    BY <1>1, <1>4 DEF Elems
  <2>2. i \in 1..(Len(s) + 1) /\ y = Append(s, x)[i]
    BY <1>1, <1>2, <2>1
  <2> QED
    BY <1>1, <2>2 DEF Elems
<1>5. x \in Elems(Append(s, x))
  <2>1. Len(s) + 1 \in 1..(Len(s) + 1)
    BY <1>1
  <2> QED
    BY <1>1, <1>2, <2>1 DEF Elems
<1> QED
  BY <1>1, <1>3, <1>4, <1>5

-----------------------------------------------------------------------------
(* What publishing a group leaves in the buffer and what it sends off *)

\* One push drops nothing: the old buffer and the event are in the new buffer or
\* in the batch sent off.
LEMMA PushKeeps ==
    ASSUME NEW b \in Seq(Events), NEW e \in Events
    PROVE  /\ Push(b, e) \in Seq(Events)
           /\ Sent(b, e) \subseteq Seq(Events) \ {<<>>}
           /\ Elems(b) \cup {e} \subseteq
                Elems(Push(b, e)) \cup UNION {Elems(s) : s \in Sent(b, e)}
<1>1. /\ Append(b, e) \in Seq(Events) \ {<<>>}
      /\ Elems(b) \cup {e} \subseteq Elems(Append(b, e))
  BY ElemsOfAppend
<1>2. CASE Full(Append(b, e))
  <2>1. Push(b, e) = <<>> /\ Sent(b, e) = {Append(b, e)}
    BY <1>2 DEF Push, Sent
  <2>2. <<>> \in Seq(Events)
    OBVIOUS
  <2> QED
    BY <1>1, <2>1, <2>2
<1>3. CASE ~Full(Append(b, e))
  <2>1. Push(b, e) = Append(b, e) /\ Sent(b, e) = {}
    BY <1>3 DEF Push, Sent
  <2> QED
    BY <1>1, <2>1
<1> QED
  BY <1>2, <1>3

\* Neither does a group, with up to two flushes on the way.
LEMMA GroupKeeps ==
    ASSUME buffer \in Seq(Events), NEW g \in Seq(Events), Len(g) \in {1, 2}
    PROVE  /\ Pushed(g) \in Seq(Events)
           /\ Taken(g) \subseteq Seq(Events) \ {<<>>}
           /\ Elems(buffer) \cup Elems(g) \subseteq
                Elems(Pushed(g)) \cup UNION {Elems(s) : s \in Taken(g)}
<1>1. CASE Len(g) = 1
  <2>1. g[1] \in Events /\ Elems(g) = {g[1]}
    <3>1. DOMAIN g = 1..1 /\ 1 \in 1..1
      BY <1>1, LenProperties
    <3>2. g[1] \in Events
      BY <1>1, <3>1, ElementOfSeq
    <3>3. DOMAIN g = {1}
      BY <3>1
    <3> QED
      BY <3>2, <3>3 DEF Elems
  <2>2. Pushed(g) = Push(buffer, g[1]) /\ Taken(g) = Sent(buffer, g[1])
    BY <1>1 DEF Pushed, Taken
  <2>3. /\ Push(buffer, g[1]) \in Seq(Events)
        /\ Sent(buffer, g[1]) \subseteq Seq(Events) \ {<<>>}
        /\ Elems(buffer) \cup {g[1]} \subseteq
              Elems(Push(buffer, g[1])) \cup UNION {Elems(s) : s \in Sent(buffer, g[1])}
    BY <2>1, PushKeeps
  <2> QED
    BY <2>1, <2>2, <2>3
<1>2. CASE Len(g) = 2
  <2>1. g[1] \in Events /\ g[2] \in Events /\ Elems(g) = {g[1], g[2]}
    <3>1. DOMAIN g = 1..2 /\ 1 \in 1..2 /\ 2 \in 1..2
      BY <1>2, LenProperties
    <3>2. g[1] \in Events /\ g[2] \in Events
      BY <1>2, <3>1, ElementOfSeq
    <3>3. DOMAIN g = {1, 2}
      BY <3>1
    <3> QED
      BY <3>2, <3>3 DEF Elems
  <2> DEFINE b == Push(buffer, g[1])
  <2>2. /\ Pushed(g) = Push(b, g[2])
        /\ Taken(g) = Sent(buffer, g[1]) \cup Sent(b, g[2])
    BY <1>2 DEF Pushed, Taken
  <2>3. /\ b \in Seq(Events)
        /\ Sent(buffer, g[1]) \subseteq Seq(Events) \ {<<>>}
        /\ Elems(buffer) \cup {g[1]} \subseteq
              Elems(b) \cup UNION {Elems(s) : s \in Sent(buffer, g[1])}
    BY <2>1, PushKeeps
  <2> HIDE DEF b
  <2>4. /\ Push(b, g[2]) \in Seq(Events)
        /\ Sent(b, g[2]) \subseteq Seq(Events) \ {<<>>}
        /\ Elems(b) \cup {g[2]} \subseteq
              Elems(Push(b, g[2])) \cup UNION {Elems(s) : s \in Sent(b, g[2])}
    BY <2>1, <2>3, PushKeeps
  <2> QED
    BY <2>1, <2>2, <2>3, <2>4
<1> QED
  BY <1>1, <1>2

-----------------------------------------------------------------------------
(* The steps of the publisher, by what they do to events *)

LEMMA ScriptType ==
    ASSUME NEW c \in Clients, NEW n \in DOMAIN Script[c]
    PROVE  /\ Script[c][n] \in Seq(Events)
           /\ Len(Script[c][n]) \in {1, 2}
<1>1. Script[c] \in Seq(Seq(Events))
  BY PublisherAssumption
<1>2. n \in 1..Len(Script[c])
  BY <1>1, LenProperties
<1>3. Script[c][n] \in Seq(Events)
  BY <1>1, <1>2, ElementOfSeq
<1> QED
  BY <1>3, PublisherAssumption

LEMMA EventsOfGroup ==
    ASSUME NEW g \in Seq(Events)
    PROVE  Elems(g) \subseteq Events
BY LenProperties, ElementOfSeq DEF Elems

\* A flush takes the buffer along, or finds it empty.
LEMMA FlushKeeps ==
    ASSUME buffer \in Seq(Events), NEW o \in Owners, Flush(o),
           flights \subseteq [owner : Owners, batch : Seq(Events) \ {<<>>}]
    PROVE  /\ buffer' = <<>>
           /\ flights' \subseteq [owner : Owners, batch : Seq(Events) \ {<<>>}]
           /\ Elems(buffer) \cup Flying \subseteq Flying'
<1>1. CASE buffer = <<>>
  <2>1. flights' = flights /\ buffer' = <<>>
    BY <1>1 DEF Flush, Depart
  <2>2. Elems(buffer) = {}
    BY <1>1 DEF Elems
  <2> QED
    BY <2>1, <2>2 DEF Flying
<1>2. CASE buffer # <<>>
  <2>1. flights' = flights \cup {[owner |-> o, batch |-> buffer]} /\ buffer' = <<>>
    BY <1>2 DEF Flush, Depart
  <2> DEFINE own == [owner |-> o, batch |-> buffer]
  <2>2. own \in [owner : Owners, batch : Seq(Events) \ {<<>>}] /\ own.batch = buffer
    BY <1>2
  <2>3. flights' = flights \cup {own}
    BY <2>1
  <2> HIDE DEF own
  <2>4. Elems(buffer) \cup Flying \subseteq Flying'
    BY <2>2, <2>3 DEF Flying
  <2> QED
    BY <2>1, <2>2, <2>3, <2>4
<1> QED
  BY <1>1, <1>2

\* A flight that ends took nothing but its own batch along.
LEMMA LandingKeeps ==
    ASSUME NEW f \in flights, flights' = flights \ {f}
    PROVE  Flying \subseteq Flying' \cup Elems(f.batch)
BY DEF Flying

-----------------------------------------------------------------------------
(* Types *)

LEMMA FlushTypes ==
    ASSUME TypeOK, NEW o \in Owners, Flush(o)
    PROVE  /\ buffer' \in Seq(Events)
           /\ flights' \subseteq [owner : Owners, batch : Seq(Events) \ {<<>>}]
<1>1. /\ buffer \in Seq(Events)
      /\ flights \subseteq [owner : Owners, batch : Seq(Events) \ {<<>>}]
  BY DEF TypeOK
<1>2. /\ buffer' = <<>>
      /\ flights' \subseteq [owner : Owners, batch : Seq(Events) \ {<<>>}]
  BY <1>1, FlushKeeps
<1> QED
  BY <1>2

LEMMA DieTypes ==
    ASSUME TypeOK, Die
    PROVE  /\ buffer' = <<>> /\ flights' = {} /\ timerOn' = FALSE /\ server' = "killed"
           /\ pc' \in [Clients -> {"idle", "publishing", "flushing", "ok", "error"}]
           /\ UNCHANGED <<next, alive, published>>
<1>1. pc' \in [Clients -> {"idle", "publishing", "flushing", "ok", "error"}]
  BY DEF Die, TypeOK
<1> QED
  BY <1>1 DEF Die

\* What comes back to the buffer are events.
LEMMA PutBackTypes ==
    ASSUME TypeOK, NEW f \in flights, PutBack(f)
    PROVE  /\ buffer' \in Seq(Events)
           /\ flights' \subseteq flights
           /\ timerOn' \in BOOLEAN
           /\ server' \in {"open", "closing", "draining", "closed", "killed"}
           /\ pc' \in [Clients -> {"idle", "publishing", "flushing", "ok", "error"}]
           /\ UNCHANGED <<next, alive, published>>
<1>1. f.batch \in Seq(Events)
  BY DEF TypeOK
<1>2. CASE f.owner = "timer" /\ server # "open"
  <2>1. Die
    BY <1>2 DEF PutBack
  <2>2. /\ buffer' = <<>> /\ flights' = {} /\ timerOn' = FALSE /\ server' = "killed"
        /\ pc' \in [Clients -> {"idle", "publishing", "flushing", "ok", "error"}]
        /\ UNCHANGED <<next, alive, published>>
    BY <2>1, DieTypes
  <2>3. timerOn' \in BOOLEAN
    BY <2>2, Zenon
  <2>4. buffer' \in Seq(Events)
    BY <2>2
  <2> QED
    BY <2>2, <2>3, <2>4
<1>3. CASE ~(f.owner = "timer" /\ server # "open")
  <2>1. Failed(f) /\ buffer' = f.batch \o buffer
    BY <1>3 DEF PutBack
  <2>2. buffer' \in Seq(Events)
    BY <1>1, <2>1, ConcatProperties DEF TypeOK
  <2>3. server' \in {"closing", "draining", server}
    BY <2>1 DEF Failed
  <2>4. pc' \in [Clients -> {"idle", "publishing", "flushing", "ok", "error"}]
    BY <2>1 DEF Failed, TypeOK
  <2> QED
    BY <2>1, <2>2, <2>3, <2>4 DEF Failed, TypeOK
<1> QED
  BY <1>2, <1>3

LEMMA TypeInit == Init => TypeOK
<1>1. 0 \in 0..MaxFailures
  BY PublisherAssumption
<1> QED
  BY <1>1 DEF Init, TypeOK

LEMMA TypeStep == TypeOK /\ [Next]_vars => TypeOK'
<1> SUFFICES ASSUME TypeOK, [Next]_vars PROVE TypeOK'
  OBVIOUS
<1>1. ASSUME NEW c \in Clients, Begin(c) PROVE TypeOK'
  BY <1>1 DEF Begin, TypeOK
<1>2. ASSUME NEW c \in Clients, PublishGroup(c) PROVE TypeOK'
  <2> DEFINE g == Script[c][next[c]]
  <2>1. g \in Seq(Events) /\ Len(g) \in {1, 2}
    BY <1>2, ScriptType DEF PublishGroup
  <2>2. /\ buffer' = Pushed(g)
        /\ flights' = flights \cup {[owner |-> c, batch |-> b] : b \in Taken(g)}
        /\ published' = published \cup Elems(g)
    BY <1>2 DEF PublishGroup, Depart
  <2> HIDE DEF g
  <2>3. Pushed(g) \in Seq(Events) /\ Taken(g) \subseteq Seq(Events) \ {<<>>}
    BY <2>1, GroupKeeps DEF TypeOK
  <2>4. Elems(g) \subseteq Events
    BY <2>1, EventsOfGroup
  <2>5. flights' \subseteq [owner : Owners, batch : Seq(Events) \ {<<>>}]
    BY <2>2, <2>3 DEF TypeOK, Owners
  <2>6. next' \in [Clients -> Nat \ {0}]
    BY <1>2 DEF PublishGroup, TypeOK
  <2> QED
    BY <1>2, <2>2, <2>3, <2>4, <2>5, <2>6 DEF PublishGroup, TypeOK
<1>3. ASSUME NEW c \in Clients, FinalFlush(c) PROVE TypeOK'
  <2>1. /\ buffer' \in Seq(Events)
        /\ flights' \subseteq [owner : Owners, batch : Seq(Events) \ {<<>>}]
    <3>1. c \in Owners /\ Flush(c)
      BY <1>3 DEF FinalFlush, Owners
    <3> QED
      BY <3>1, FlushTypes
  <2> QED
    BY <1>3, <2>1 DEF FinalFlush, TypeOK
<1>4. ASSUME TimerFlush PROVE TypeOK'
  <2>1. /\ buffer' \in Seq(Events)
        /\ flights' \subseteq [owner : Owners, batch : Seq(Events) \ {<<>>}]
    <3>1. "timer" \in Owners /\ Flush("timer")
      BY <1>4 DEF TimerFlush, Owners
    <3> QED
      BY <3>1, FlushTypes
  <2> QED
    BY <1>4, <2>1 DEF TimerFlush, TypeOK
<1>5. ASSUME NEW f \in flights, Inserted(f) PROVE TypeOK'
  <2>1. logged' \in Seq(Events)
    BY <1>5, ConcatProperties DEF Inserted, TypeOK
  <2>2. pc' \in [Clients -> {"idle", "publishing", "flushing", "ok", "error"}]
    BY <1>5 DEF Inserted, TypeOK
  <2> QED
    BY <1>5, <2>1, <2>2 DEF Inserted, TypeOK
<1>6. ASSUME NEW f \in flights, Refused(f) PROVE TypeOK'
  BY <1>6, PutBackTypes DEF Refused, TypeOK
<1>7. ASSUME NEW f \in flights, Fault(f) PROVE TypeOK'
  <2>1. logged' \in Seq(Events)
    <3>1. logged \in Seq(Events) /\ f.batch \in Seq(Events)
      BY DEF TypeOK
    <3>2. logged' = logged \/ logged' = logged \o f.batch
      BY <1>7 DEF Fault
    <3> QED
      BY <3>1, <3>2, ConcatProperties
  <2>2. failures' \in 0..MaxFailures
    BY <1>7, PublisherAssumption DEF Fault, TypeOK
  <2>3. PutBack(f)
    BY <1>7 DEF Fault
  <2> QED
    BY <2>1, <2>2, <2>3, PutBackTypes DEF TypeOK
<1>8. ASSUME NEW t \in Tasks, DeleteTask(t) PROVE TypeOK'
  BY <1>8 DEF DeleteTask, TypeOK
<1>9. CASE Shutdown
  BY <1>9 DEF Shutdown, TypeOK
<1>10. CASE Cleanup
  <2>1. /\ buffer' \in Seq(Events)
        /\ flights' \subseteq [owner : Owners, batch : Seq(Events) \ {<<>>}]
    <3>1. "cleanup" \in Owners /\ Flush("cleanup")
      BY <1>10 DEF Cleanup, Owners
    <3> QED
      BY <3>1, FlushTypes
  <2> QED
    BY <1>10, <2>1 DEF Cleanup, TypeOK
<1>11. CASE Exit
  BY <1>11 DEF Exit, TypeOK
<1>12. CASE GraceRunsOut
  <2>1. Die /\ UNCHANGED <<logged, failures>>
    BY <1>12 DEF GraceRunsOut
  <2>2. /\ buffer' = <<>> /\ flights' = {} /\ timerOn' = FALSE /\ server' = "killed"
        /\ pc' \in [Clients -> {"idle", "publishing", "flushing", "ok", "error"}]
        /\ UNCHANGED <<next, alive, published>>
    BY <2>1, DieTypes
  <2>3. timerOn' \in BOOLEAN
    BY <2>2, Zenon
  <2>4. /\ buffer' \in Seq(Events)
        /\ flights' \subseteq [owner : Owners, batch : Seq(Events) \ {<<>>}]
    BY <2>2
  <2> QED
    BY <2>1, <2>2, <2>3, <2>4 DEF TypeOK
<1>13. CASE UNCHANGED vars
  BY <1>13 DEF vars, TypeOK
<1> QED
  BY <1>1, <1>2, <1>3, <1>4, <1>5, <1>6, <1>7, <1>8, <1>9, <1>10, <1>11, <1>12,
     <1>13 DEF Next

\* Every reachable state is well typed.
THEOREM TypeCorrect == Spec => []TypeOK
BY TypeInit, TypeStep, PTL DEF Spec

-----------------------------------------------------------------------------
(* No event is forgotten *)

\* A killed process does nothing more: without this NoEventForgotten is not
\* inductive, for a killed process could come back to "draining".
Dead ==
    server = "killed" =>
        /\ flights = {}
        /\ timerOn = FALSE
        /\ \A c \in Clients : pc[c] \notin {"publishing", "flushing"}

LEMMA DeadInit == Init => Dead
BY DEF Init, Dead

LEMMA DeadStep == TypeOK /\ Dead /\ [Next]_vars => Dead'
<1> SUFFICES ASSUME TypeOK, Dead, [Next]_vars PROVE Dead'
  OBVIOUS
<1>1. CASE server = "killed"
  <2>1. /\ flights = {} /\ timerOn = FALSE
        /\ \A c \in Clients : pc[c] \notin {"publishing", "flushing"}
    BY <1>1 DEF Dead
  <2>2. UNCHANGED vars
    BY <1>1, <2>1 DEF Next, Begin, PublishGroup, Runnable, FinalFlush, TimerFlush, DeleteTask,
       Shutdown, Cleanup, Exit, GraceRunsOut
  <2> QED
    BY <2>2 DEF Dead, vars
<1>2. CASE server # "killed"
  <2>1. Die => Dead'
    BY DEF Die, Dead, TypeOK
  <2>2. ASSUME NEW f \in flights, PutBack(f) PROVE Dead'
    <3>1. Die \/ Failed(f)
      BY <2>2 DEF PutBack
    <3>2. Failed(f) => server' # "killed"
      BY <1>2 DEF Failed
    <3> QED
      BY <2>1, <3>1, <3>2 DEF Dead
  <2>3. ASSUME NEW c \in Clients, Begin(c) \/ PublishGroup(c) \/ FinalFlush(c)
        PROVE  server' # "killed"
    BY <1>2, <2>3 DEF Begin, PublishGroup, FinalFlush
  <2>4. TimerFlush \/ Shutdown \/ Cleanup \/ Exit => server' # "killed"
    BY <1>2 DEF TimerFlush, Shutdown, Cleanup, Exit
  <2>5. ASSUME NEW f \in flights, Inserted(f) PROVE server' # "killed"
    BY <1>2, <2>5 DEF Inserted
  <2>6. ASSUME NEW f \in flights, Refused(f) \/ Fault(f) PROVE Dead'
    BY <2>2, <2>6 DEF Refused, Fault
  <2>7. ASSUME NEW t \in Tasks, DeleteTask(t) PROVE server' # "killed"
    BY <1>2, <2>7 DEF DeleteTask
  <2>8. GraceRunsOut => Dead'
    BY <2>1 DEF GraceRunsOut
  <2>9. UNCHANGED vars => server' # "killed"
    BY <1>2 DEF vars
  <2> QED
    BY <2>3, <2>4, <2>5, <2>6, <2>7, <2>8, <2>9 DEF Next, Dead
<1> QED
  BY <1>1, <1>2

Kept == Elems(buffer) \cup Flying \cup Elems(logged)

\* A batch that comes back is in the buffer again, unless the process dies.
LEMMA PutBackKeeps ==
    ASSUME TypeOK, NEW f \in flights, PutBack(f)
    PROVE  /\ published' = published
           /\ server' # "killed" =>
                Elems(buffer) \cup Flying \subseteq Elems(buffer') \cup Flying'
<1>1. CASE Die
  BY <1>1 DEF Die
<1>2. CASE Failed(f) /\ buffer' = f.batch \o buffer
  <2>1. f.batch \in Seq(Events) /\ buffer \in Seq(Events)
    BY DEF TypeOK
  <2>2. Elems(buffer') = Elems(f.batch) \cup Elems(buffer)
    BY <1>2, <2>1, ElemsOfConcat
  <2>3. Flying \subseteq Flying' \cup Elems(f.batch)
    BY <1>2, LandingKeeps DEF Failed
  <2>4. published' = published
    BY <1>2 DEF Failed
  <2> QED
    BY <2>2, <2>3, <2>4
<1> QED
  BY <1>1, <1>2 DEF PutBack

LEMMA ForgottenInit == Init => NoEventForgotten
BY DEF Init, NoEventForgotten

LEMMA ForgottenStep ==
    TypeOK /\ Dead /\ NoEventForgotten /\ [Next]_vars => NoEventForgotten'
<1> SUFFICES ASSUME TypeOK, Dead, NoEventForgotten, [Next]_vars, server' # "killed"
             PROVE  published' \subseteq Kept'
  BY DEF NoEventForgotten, Kept
<1>0. /\ buffer \in Seq(Events)
      /\ logged \in Seq(Events)
      /\ flights \subseteq [owner : Owners, batch : Seq(Events) \ {<<>>}]
  BY DEF TypeOK
<1>a. server # "killed"
  \* Nothing leaves "killed".
  BY DEF Next, vars, Dead, Begin, PublishGroup, FinalFlush, TimerFlush, DeleteTask,
     Shutdown, Cleanup, Exit, GraceRunsOut
<1>b. published \subseteq Elems(buffer) \cup Flying \cup Elems(logged)
  BY <1>a DEF NoEventForgotten
<1>c. ASSUME UNCHANGED <<buffer, flights, logged, published>> PROVE published' \subseteq Kept'
  BY <1>b, <1>c DEF Kept, Flying
<1>d. ASSUME NEW o \in Owners, Flush(o), UNCHANGED <<logged, published>>
      PROVE  published' \subseteq Kept'
  <2>1. Elems(buffer) \cup Flying \subseteq Flying'
    BY <1>0, <1>d, FlushKeeps
  <2> QED
    BY <1>b, <1>d, <2>1 DEF Kept
<1>1. ASSUME NEW c \in Clients, Begin(c) PROVE published' \subseteq Kept'
  BY <1>1, <1>c DEF Begin
<1>2. ASSUME NEW c \in Clients, PublishGroup(c) PROVE published' \subseteq Kept'
  <2> DEFINE g == Script[c][next[c]]
  <2>1. g \in Seq(Events) /\ Len(g) \in {1, 2}
    BY <1>2, ScriptType DEF PublishGroup
  <2>2. /\ buffer' = Pushed(g)
        /\ flights' = flights \cup {[owner |-> c, batch |-> b] : b \in Taken(g)}
        /\ published' = published \cup Elems(g)
        /\ logged' = logged
    BY <1>2 DEF PublishGroup, Depart
  <2> HIDE DEF g
  <2>3. Elems(buffer) \cup Elems(g) \subseteq
            Elems(Pushed(g)) \cup UNION {Elems(s) : s \in Taken(g)}
    BY <1>0, <2>1, GroupKeeps
  <2>4. Flying \cup UNION {Elems(s) : s \in Taken(g)} \subseteq Flying'
    <3>1. ASSUME NEW s \in Taken(g) PROVE \E f \in flights' : f.batch = s
      <4>1. [owner |-> c, batch |-> s] \in flights'
        BY <2>2
      <4>2. [owner |-> c, batch |-> s].batch = s
        OBVIOUS
      <4> QED
        BY <4>1, <4>2
    <3>2. flights \subseteq flights'
      BY <2>2
    <3> QED
      BY <3>1, <3>2 DEF Flying
  <2> QED
    BY <1>b, <2>2, <2>3, <2>4 DEF Kept
<1>3. ASSUME NEW c \in Clients, FinalFlush(c) PROVE published' \subseteq Kept'
  <2>1. c \in Owners /\ Flush(c) /\ UNCHANGED <<logged, published>>
    BY <1>3 DEF FinalFlush, Owners
  <2> QED
    BY <2>1, <1>d
<1>4. CASE TimerFlush
  <2>1. "timer" \in Owners /\ Flush("timer") /\ UNCHANGED <<logged, published>>
    BY <1>4 DEF TimerFlush, Owners
  <2> QED
    BY <2>1, <1>d
<1>5. ASSUME NEW f \in flights, Inserted(f) PROVE published' \subseteq Kept'
  <2>1. Flying \subseteq Flying' \cup Elems(f.batch)
    BY <1>5, LandingKeeps DEF Inserted
  <2>2. Elems(logged') = Elems(logged) \cup Elems(f.batch)
    BY <1>0, <1>5, ElemsOfConcat DEF Inserted
  <2> QED
    BY <1>5, <1>b, <2>1, <2>2 DEF Inserted, Kept
<1>6. ASSUME NEW f \in flights, PutBack(f), Elems(logged) \subseteq Elems(logged')
      PROVE  published' \subseteq Kept'
  <2>1. published' = published
    BY <1>6, PutBackKeeps
  <2>2. Elems(buffer) \cup Flying \subseteq Elems(buffer') \cup Flying'
    BY <1>6, PutBackKeeps
  <2> QED
    BY <1>6, <1>b, <2>1, <2>2 DEF Kept
<1>7. ASSUME NEW f \in flights, Refused(f) PROVE published' \subseteq Kept'
  BY <1>6, <1>7 DEF Refused
<1>8. ASSUME NEW f \in flights, Fault(f) PROVE published' \subseteq Kept'
  <2>1. PutBack(f) /\ (logged' = logged \/ logged' = logged \o f.batch)
    BY <1>8 DEF Fault
  <2>2. Elems(logged \o f.batch) = Elems(logged) \cup Elems(f.batch)
    BY <1>0, ElemsOfConcat
  <2>3. Elems(logged) \subseteq Elems(logged')
    BY <2>1, <2>2
  <2> QED
    BY <1>6, <2>1, <2>3
<1>9. ASSUME NEW t \in Tasks, DeleteTask(t) PROVE published' \subseteq Kept'
  BY <1>9, <1>c DEF DeleteTask
<1>10. CASE Shutdown
  BY <1>10, <1>c DEF Shutdown
<1>11. CASE Cleanup
  <2>1. "cleanup" \in Owners /\ Flush("cleanup") /\ UNCHANGED <<logged, published>>
    BY <1>11 DEF Cleanup, Owners
  <2> QED
    BY <2>1, <1>d
<1>12. CASE Exit
  BY <1>12, <1>c DEF Exit
<1>13. CASE GraceRunsOut
  BY <1>13 DEF GraceRunsOut, Die
<1>14. CASE UNCHANGED vars
  BY <1>14, <1>c DEF vars
<1> QED
  BY <1>1, <1>2, <1>3, <1>4, <1>5, <1>7, <1>8, <1>9, <1>10, <1>11, <1>12, <1>13,
     <1>14 DEF Next

\* Whatever fails and whoever flushes, a published event is in the buffer, in a
\* batch under way or in the log for as long as the process lives.
THEOREM NothingForgotten == Spec => []NoEventForgotten
<1>1. Init => TypeOK /\ Dead /\ NoEventForgotten
  BY TypeInit, DeadInit, ForgottenInit
<1>2. TypeOK /\ Dead /\ NoEventForgotten /\ [Next]_vars
        => TypeOK' /\ Dead' /\ NoEventForgotten'
  BY TypeStep, DeadStep, ForgottenStep
<1> QED
  BY <1>1, <1>2, PTL DEF Spec

-----------------------------------------------------------------------------
(* A shutdown that meets at most one fault loses nothing *)

\* Without a fault the buffer only holds events of requests that will flush it.
FlushPending ==
    failures = 0 /\ buffer # <<>> => \E c \in Clients : pc[c] = "publishing"

\* The flush of onClose finds events only after a fault.
CleanupAfterFault ==
    \A f \in flights : f.owner = "cleanup" =>
        server = "closing" /\ timerOn = FALSE /\ failures > 0

\* A request waits for its batches, unless one of them failed.
RequestWaits ==
    \A f \in flights : f.owner \in Clients =>
        pc[f.owner] \in {"publishing", "flushing"} \/ failures > 0

\* Who awaits the answer of the final flush awaits nothing else.
OneAwaited ==
    \A f, g \in flights :
        /\ f.owner = g.owner
        /\ \/ f.owner = "cleanup"
           \/ f.owner \in Clients /\ pc[f.owner] = "flushing"
        => f = g

\* Once onClose has run, nobody publishes and the buffer stays empty.
AfterCleanup ==
    timerOn = FALSE /\ server # "killed" =>
        /\ server # "open"
        /\ buffer = <<>>
        /\ \A c \in Clients : pc[c] \notin {"publishing", "flushing"}

Closing ==
    /\ server \in {"draining", "closed"} => timerOn = FALSE
    /\ server = "closed" => flights = {}

OneFault ==
    /\ alive = Tasks
    /\ FlushPending
    /\ CleanupAfterFault
    /\ RequestWaits
    /\ OneAwaited
    /\ AfterCleanup
    /\ Closing

LEMMA OneFaultInit == Init => OneFault
BY DEF Init, OneFault, FlushPending, CleanupAfterFault, RequestWaits, OneAwaited,
   AfterCleanup, Closing

\* While every task exists the database refuses nothing.
LEMMA NoneRefused ==
    ASSUME TypeOK, alive = Tasks, NEW f \in flights
    PROVE  Insertable(f)
<1>1. f.batch \in Seq(Events)
  BY DEF TypeOK
<1>2. \A i \in DOMAIN f.batch : f.batch[i] \in Events
  BY <1>1, LenProperties, ElementOfSeq
<1>3. \A e \in Events : \E c \in Clients : e \in EventsOf(c) /\ TaskOf[c] \in Tasks
  BY DEF Events, EventsOf, Elems, Tasks
<1> QED
  BY <1>2, <1>3 DEF Insertable

\* A flight somebody departs with, added to those under way.
LEMMA Departure ==
    ASSUME TypeOK, NEW o \in Owners, Flush(o)
    PROVE  /\ buffer' = <<>>
           /\ \A f \in flights' : f \in flights \/ f.owner = o
           /\ \A f, g \in flights' : f.owner = o /\ g.owner = o =>
                    f = g \/ f \in flights \/ g \in flights
           /\ buffer = <<>> => flights' = flights
<1>1. flights' = flights \cup {[owner |-> o, batch |-> b] : b \in IF buffer = <<>> THEN {} ELSE {buffer}}
  BY DEF Flush, Depart
<1>2. buffer' = <<>>
  BY DEF Flush
<1>3. CASE buffer = <<>>
  BY <1>1, <1>2, <1>3
<1>4. CASE buffer # <<>>
  <2> DEFINE own == [owner |-> o, batch |-> buffer]
  <2>1. flights' = flights \cup {own}
    BY <1>1, <1>4
  <2>2. own.owner = o
    OBVIOUS
  <2> QED
    BY <1>2, <1>4, <2>1, <2>2
<1> QED
  BY <1>3, <1>4

LEMMA OneFaultStep ==
    ASSUME MaxFailures <= 1, MayDelete = {}
    PROVE  TypeOK /\ Dead /\ OneFault /\ [Next]_vars => OneFault'
<1> SUFFICES ASSUME TypeOK, Dead, OneFault, [Next]_vars PROVE OneFault'
  OBVIOUS
<1> USE DEF OneFault
<1>0. /\ failures \in 0..MaxFailures /\ MaxFailures \in Nat
      /\ pc \in [Clients -> {"idle", "publishing", "flushing", "ok", "error"}]
      /\ \A f \in flights : f.owner \in Owners
      /\ "timer" \notin Clients /\ "cleanup" \notin Clients
      /\ timerOn \in BOOLEAN
  BY PublisherAssumption DEF TypeOK
<1>1. ASSUME NEW c \in Clients, Begin(c) PROVE OneFault'
  <2>1. /\ pc' = [pc EXCEPT ![c] = "publishing"] /\ pc[c] = "idle" /\ server = "open"
        /\ UNCHANGED <<buffer, flights, timerOn, server, alive, failures>>
    BY <1>1 DEF Begin
  <2>2. FlushPending' /\ RequestWaits' /\ OneAwaited'
    BY <1>0, <2>1 DEF FlushPending, RequestWaits, OneAwaited
  <2> QED
    BY <1>0, <2>1, <2>2 DEF CleanupAfterFault, AfterCleanup, Closing
<1>2. ASSUME NEW c \in Clients, PublishGroup(c) PROVE OneFault'
  <2>1. /\ pc[c] = "publishing"
        /\ flights' = flights \cup {[owner |-> c, batch |-> b] :
                                        b \in Taken(Script[c][next[c]])}
        /\ UNCHANGED <<pc, timerOn, server, alive, failures>>
    BY <1>2 DEF PublishGroup, Runnable, Depart
  <2>2. \A f \in flights' : f \in flights \/ f.owner = c
    BY <2>1
  <2>3. FlushPending' /\ AfterCleanup'
    BY <2>1 DEF FlushPending, AfterCleanup
  <2>4. CleanupAfterFault'
    BY <1>0, <2>1, <2>2 DEF CleanupAfterFault
  <2>5. RequestWaits'
    BY <1>0, <2>1, <2>2 DEF RequestWaits
  <2>6. OneAwaited'
    BY <1>0, <2>1, <2>2 DEF OneAwaited
  <2>7. Closing'
    <3>1. server # "closed"
      BY <2>1 DEF Closing, AfterCleanup
    <3> QED
      BY <2>1, <3>1 DEF Closing
  <2> QED
    BY <2>1, <2>3, <2>4, <2>5, <2>6, <2>7
<1>3. ASSUME NEW c \in Clients, FinalFlush(c) PROVE OneFault'
  <2>1. /\ pc[c] = "publishing" /\ Flush(c)
        /\ \A f \in flights : f.owner # c
        /\ pc' = [pc EXCEPT ![c] = IF buffer = <<>> THEN "ok" ELSE "flushing"]
        /\ UNCHANGED <<timerOn, server, alive, failures>>
    BY <1>3 DEF FinalFlush, Runnable, InFlight
  <2>2. /\ buffer' = <<>>
        /\ \A f \in flights' : f \in flights \/ f.owner = c
        /\ \A f, g \in flights' : f.owner = c /\ g.owner = c => f = g
        /\ buffer = <<>> => flights' = flights
    BY <2>1, Departure DEF Owners
  <2>3. FlushPending' /\ AfterCleanup' /\ Closing'
    BY <2>1, <2>2 DEF FlushPending, AfterCleanup, Closing
  <2>4. CleanupAfterFault'
    BY <1>0, <2>1, <2>2 DEF CleanupAfterFault
  <2>5. RequestWaits' /\ OneAwaited'
    BY <1>0, <2>1, <2>2 DEF RequestWaits, OneAwaited
  <2> QED
    BY <2>1, <2>3, <2>4, <2>5
<1>4. CASE TimerFlush
  <2>1. /\ timerOn /\ Flush("timer")
        /\ UNCHANGED <<pc, timerOn, server, alive, failures>>
    BY <1>4 DEF TimerFlush
  <2>2. /\ buffer' = <<>>
        /\ \A f \in flights' : f \in flights \/ f.owner = "timer"
    BY <2>1, Departure DEF Owners
  <2>3. FlushPending' /\ AfterCleanup' /\ Closing'
    BY <2>1, <2>2 DEF FlushPending, AfterCleanup, Closing
  <2>4. CleanupAfterFault' /\ RequestWaits' /\ OneAwaited'
    BY <1>0, <2>1, <2>2 DEF CleanupAfterFault, RequestWaits, OneAwaited
  <2> QED
    BY <2>1, <2>3, <2>4
<1>5. ASSUME NEW f \in flights, Inserted(f) PROVE OneFault'
  <2>1. /\ flights' = flights \ {f}
        /\ \A c \in Clients : pc'[c] = IF c = f.owner /\ pc[c] = "flushing"
                                       THEN "ok" ELSE pc[c]
        /\ server' = IF f.owner = "cleanup" THEN "draining" ELSE server
        /\ UNCHANGED <<buffer, timerOn, alive, failures>>
    BY <1>5 DEF Inserted
  <2>2. FlushPending'
    BY <2>1 DEF FlushPending
  <2>3. CleanupAfterFault'
    BY <1>0, <2>1 DEF CleanupAfterFault, OneAwaited
  <2>4. RequestWaits'
    BY <1>0, <2>1 DEF RequestWaits, OneAwaited
  <2>5. OneAwaited'
    BY <1>0, <2>1 DEF OneAwaited
  <2>6. AfterCleanup' /\ Closing'
    BY <1>0, <2>1 DEF AfterCleanup, Closing, CleanupAfterFault
  <2> QED
    BY <2>1, <2>2, <2>3, <2>4, <2>5, <2>6
<1>6. ASSUME NEW f \in flights, Refused(f) PROVE OneFault'
  BY <1>6, NoneRefused DEF Refused
<1>7. ASSUME NEW f \in flights, Fault(f) PROVE OneFault'
  <2>1. failures = 0 /\ failures' = 1 /\ PutBack(f)
    BY <1>0, <1>7 DEF Fault
  <2>2. CASE Die
    BY <2>1, <2>2 DEF Die, FlushPending, CleanupAfterFault, RequestWaits, OneAwaited,
       AfterCleanup, Closing
  <2>3. CASE ~(f.owner = "timer" /\ server # "open") /\ Failed(f)
    <3>1. /\ flights' = flights \ {f}
          /\ \A c \in Clients : pc'[c] = pc[c] \/ pc'[c] = "error"
          /\ f.owner # "cleanup"
          /\ server' = IF f.owner = "timer" THEN "closing" ELSE server
          /\ UNCHANGED <<timerOn, alive>>
      BY <2>1, <2>3 DEF Failed, CleanupAfterFault
    <3>2. timerOn # FALSE
      <4>1. server # "killed"
        BY DEF Dead
      <4>2. CASE f.owner = "timer"
        BY <2>3, <4>1, <4>2 DEF AfterCleanup
      <4>3. CASE f.owner \in Clients
        <5>1. pc[f.owner] \in {"publishing", "flushing"}
          BY <2>1, <4>3 DEF RequestWaits
        <5> QED
          BY <4>1, <4>3, <5>1 DEF AfterCleanup
      <4> QED
        BY <1>0, <3>1, <4>2, <4>3 DEF Owners
    <3>3. /\ FlushPending'
          /\ AfterCleanup'
          /\ RequestWaits'
      <4>1. FlushPending'
        BY <2>1 DEF FlushPending
      <4>2. AfterCleanup'
        BY <3>1, <3>2 DEF AfterCleanup
      <4>3. RequestWaits'
        BY <2>1 DEF RequestWaits
      <4> QED
        BY <4>1, <4>2, <4>3
    <3>4. CleanupAfterFault' /\ OneAwaited'
      BY <1>0, <3>1, <3>2 DEF CleanupAfterFault, OneAwaited
    <3>5. Closing'
      BY <3>1, <3>2 DEF Closing
    <3> QED
      BY <3>1, <3>3, <3>4, <3>5
  <2> QED
    BY <2>1, <2>2, <2>3 DEF PutBack
<1>8. ASSUME NEW t \in Tasks, DeleteTask(t) PROVE OneFault'
  BY <1>8 DEF DeleteTask
<1>9. CASE Shutdown
  BY <1>9 DEF Shutdown, FlushPending, CleanupAfterFault, RequestWaits, OneAwaited,
     AfterCleanup, Closing
<1>10. CASE Cleanup
  <2>1. /\ server = "closing" /\ timerOn /\ timerOn' = FALSE /\ Flush("cleanup")
        /\ \A c \in Clients : pc[c] \notin {"publishing", "flushing"}
        /\ server' = IF buffer = <<>> THEN "draining" ELSE server
        /\ UNCHANGED <<pc, alive, failures>>
    BY <1>10 DEF Cleanup
  <2>2. /\ buffer' = <<>>
        /\ \A f \in flights' : f \in flights \/ f.owner = "cleanup"
        /\ \A f, g \in flights' : f.owner = "cleanup" /\ g.owner = "cleanup" =>
                f = g \/ f \in flights \/ g \in flights
        /\ buffer = <<>> => flights' = flights
    BY <2>1, Departure DEF Owners
  <2>3. \A f \in flights : f.owner # "cleanup"
    BY <2>1 DEF CleanupAfterFault
  <2>4. FlushPending' /\ AfterCleanup' /\ Closing'
    BY <2>1, <2>2 DEF FlushPending, AfterCleanup, Closing
  <2>5. CleanupAfterFault'
    BY <1>0, <2>1, <2>2, <2>3 DEF CleanupAfterFault, FlushPending
  <2>6. RequestWaits' /\ OneAwaited'
    BY <1>0, <2>1, <2>2, <2>3 DEF RequestWaits, OneAwaited
  <2> QED
    BY <2>1, <2>4, <2>5, <2>6
<1>11. CASE Exit
  BY <1>11 DEF Exit, FlushPending, CleanupAfterFault, RequestWaits, OneAwaited,
     AfterCleanup, Closing
<1>12. CASE GraceRunsOut
  BY <1>12 DEF GraceRunsOut, Die, FlushPending, CleanupAfterFault, RequestWaits,
     OneAwaited, AfterCleanup, Closing
<1>13. CASE UNCHANGED vars
  BY <1>13 DEF vars, FlushPending, CleanupAfterFault, RequestWaits, OneAwaited,
     AfterCleanup, Closing
<1> QED
  BY <1>1, <1>2, <1>3, <1>4, <1>5, <1>6, <1>7, <1>8, <1>9, <1>10, <1>11, <1>12,
     <1>13 DEF Next

LEMMA LostOnlyInMemory ==
    OneFault /\ NoEventForgotten => NothingLostAtExit
<1> SUFFICES ASSUME OneFault, NoEventForgotten, server = "closed"
             PROVE  published \subseteq Elems(logged)
  BY DEF NothingLostAtExit
<1>1. buffer = <<>> /\ flights = {}
  BY DEF OneFault, Closing, AfterCleanup
<1>2. Elems(buffer) = {} /\ Flying = {}
  BY <1>1 DEF Elems, Flying
<1> QED
  BY <1>2 DEF NoEventForgotten

\* A server that shuts down in time after at most one fault, and of which no task
\* is deleted, has written every published event to the log.
THEOREM OneFaultSurvived ==
    ASSUME MaxFailures <= 1, MayDelete = {}
    PROVE  Spec => []NothingLostAtExit
<1>1. Init => TypeOK /\ Dead /\ NoEventForgotten /\ OneFault
  BY TypeInit, DeadInit, ForgottenInit, OneFaultInit
<1>2. TypeOK /\ Dead /\ NoEventForgotten /\ OneFault /\ [Next]_vars
        => TypeOK' /\ Dead' /\ NoEventForgotten' /\ OneFault'
  BY TypeStep, DeadStep, ForgottenStep, OneFaultStep
<1>3. OneFault /\ NoEventForgotten => NothingLostAtExit
  BY LostOnlyInMemory
<1> HIDE DEF OneFault
<1> QED
  BY <1>1, <1>2, <1>3, PTL DEF Spec

=============================================================================
