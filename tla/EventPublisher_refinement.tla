---------------------- MODULE EventPublisher_refinement ----------------------
(***************************************************************************)
(* Proof that EventPublisher keeps the promise of AuditLog, for any set of *)
(* requests, any scripts, any buffer size and any number of faults, and of *)
(* the invariant this rests on: an event is in one place, once.  Then the  *)
(* order in which the events of a request are stored while nothing fails,  *)
(* and what a reply of the server says about the log.                      *)
(***************************************************************************)
EXTENDS EventPublisher_proof

-----------------------------------------------------------------------------
(* Sequences without repetitions *)

LEMMA OnceConcat ==
    ASSUME NEW S, NEW s \in Seq(S), NEW t \in Seq(S), Once(s), Once(t),
           Elems(s) \cap Elems(t) = {}
    PROVE  Once(s \o t)
<1>1. /\ Len(s) \in Nat /\ Len(t) \in Nat
      /\ DOMAIN s = 1..Len(s) /\ DOMAIN t = 1..Len(t)
      /\ DOMAIN (s \o t) = 1..(Len(s) + Len(t))
      /\ \A i \in 1..(Len(s) + Len(t)) :
            (s \o t)[i] = IF i <= Len(s) THEN s[i] ELSE t[i - Len(s)]
  BY ConcatProperties, LenProperties
<1> SUFFICES ASSUME NEW i \in 1..(Len(s) + Len(t)), NEW j \in 1..(Len(s) + Len(t)),
                    (s \o t)[i] = (s \o t)[j]
             PROVE  i = j
  BY <1>1 DEF Once
<1>2. ASSUME NEW n \in 1..(Len(s) + Len(t)), n <= Len(s)
      PROVE  n \in DOMAIN s /\ (s \o t)[n] = s[n] /\ (s \o t)[n] \in Elems(s)
  BY <1>1, <1>2 DEF Elems
<1>3. ASSUME NEW n \in 1..(Len(s) + Len(t)), ~(n <= Len(s))
      PROVE  n - Len(s) \in DOMAIN t /\ (s \o t)[n] = t[n - Len(s)] /\ (s \o t)[n] \in Elems(t)
  BY <1>1, <1>3 DEF Elems
<1>4. CASE i <= Len(s) /\ j <= Len(s)
  BY <1>2, <1>4 DEF Once
<1>5. CASE ~(i <= Len(s)) /\ ~(j <= Len(s))
  <2>1. i - Len(s) = j - Len(s)
    BY <1>3, <1>5 DEF Once
  <2> QED
    BY <1>1, <2>1
<1> QED
  BY <1>2, <1>3, <1>4, <1>5

LEMMA OnceAppend ==
    ASSUME NEW S, NEW s \in Seq(S), NEW x \in S, Once(s), x \notin Elems(s)
    PROVE  Once(Append(s, x)) /\ Elems(Append(s, x)) = Elems(s) \cup {x}
<1>1. /\ Len(s) \in Nat /\ DOMAIN s = 1..Len(s)
      /\ DOMAIN Append(s, x) = 1..(Len(s) + 1)
      /\ \A i \in 1..Len(s) : Append(s, x)[i] = s[i]
      /\ Append(s, x)[Len(s) + 1] = x
  BY AppendProperties, LenProperties
<1>2. \A i \in 1..(Len(s) + 1) : i \in 1..Len(s) \/ i = Len(s) + 1
  BY <1>1
<1>3. \A i \in 1..Len(s) : s[i] \in Elems(s)
  BY <1>1 DEF Elems
<1>4. Once(Append(s, x))
  BY <1>1, <1>2, <1>3 DEF Once
<1>5. Elems(Append(s, x)) \subseteq Elems(s) \cup {x}
  BY <1>1, <1>2, <1>3 DEF Elems
<1> QED
  BY <1>4, <1>5, ElemsOfAppend

-----------------------------------------------------------------------------
(* Pushing a group takes nothing twice *)

LEMMA PushOnce ==
    ASSUME NEW b \in Seq(Events), NEW e \in Events, Once(b), e \notin Elems(b)
    PROVE  /\ Once(Push(b, e)) /\ Elems(Push(b, e)) \subseteq Elems(b) \cup {e}
           /\ \A s \in Sent(b, e) :
                /\ Once(s) /\ Elems(s) \subseteq Elems(b) \cup {e}
                /\ Elems(s) \cap Elems(Push(b, e)) = {}
           /\ \A s, t \in Sent(b, e) : s = t
<1>1. Once(Append(b, e)) /\ Elems(Append(b, e)) = Elems(b) \cup {e}
  BY OnceAppend
<1>2. CASE Full(Append(b, e))
  <2>1. Push(b, e) = <<>> /\ Sent(b, e) = {Append(b, e)}
    BY <1>2 DEF Push, Sent
  <2>2. Elems(<<>>) = {} /\ Once(<<>>)
    BY DEF Elems, Once
  <2> QED
    BY <1>1, <2>1, <2>2
<1>3. CASE ~Full(Append(b, e))
  <2>1. Push(b, e) = Append(b, e) /\ Sent(b, e) = {}
    BY <1>3 DEF Push, Sent
  <2> QED
    BY <1>1, <2>1
<1> QED
  BY <1>2, <1>3

LEMMA GroupOnce ==
    ASSUME buffer \in Seq(Events), NEW g \in Seq(Events), Len(g) \in {1, 2},
           Once(buffer), Once(g), Elems(g) \cap Elems(buffer) = {}
    PROVE  /\ Once(Pushed(g)) /\ Elems(Pushed(g)) \subseteq Elems(buffer) \cup Elems(g)
           /\ \A s \in Taken(g) :
                /\ Once(s) /\ Elems(s) \subseteq Elems(buffer) \cup Elems(g)
                /\ Elems(s) \cap Elems(Pushed(g)) = {}
           /\ \A s, t \in Taken(g) : s # t => Elems(s) \cap Elems(t) = {}
<1>0. DOMAIN g = 1..Len(g) /\ \A i \in 1..Len(g) : g[i] \in Events /\ g[i] \in Elems(g)
  BY LenProperties, ElementOfSeq DEF Elems
<1>1. CASE Len(g) = 1
  <2>1. g[1] \in Events /\ g[1] \in Elems(g)
    BY <1>0, <1>1
  <2>2. Pushed(g) = Push(buffer, g[1]) /\ Taken(g) = Sent(buffer, g[1])
    BY <1>1 DEF Pushed, Taken
  <2>3. g[1] \notin Elems(buffer)
    BY <2>1
  <2> QED
    BY <2>1, <2>2, <2>3, PushOnce
<1>2. CASE Len(g) = 2
  <2>1. /\ g[1] \in Events /\ g[2] \in Events /\ g[1] \in Elems(g) /\ g[2] \in Elems(g)
        /\ g[1] # g[2]
    <3>1. 1 \in 1..2 /\ 2 \in 1..2
      OBVIOUS
    <3> QED
      BY <1>0, <1>2, <3>1 DEF Once
  <2>2. PICK b \in Seq(Events) : b = Push(buffer, g[1])
    BY <2>1, PushKeeps
  <2>3. Pushed(g) = Push(b, g[2]) /\ Taken(g) = Sent(buffer, g[1]) \cup Sent(b, g[2])
    BY <1>2, <2>2 DEF Pushed, Taken
  <2>4. /\ Once(b) /\ Elems(b) \subseteq Elems(buffer) \cup {g[1]}
        /\ \A s \in Sent(buffer, g[1]) :
                /\ Once(s) /\ Elems(s) \subseteq Elems(buffer) \cup {g[1]}
                /\ Elems(s) \cap Elems(b) = {}
        /\ \A s, t \in Sent(buffer, g[1]) : s = t
    <3>1. g[1] \notin Elems(buffer)
      BY <2>1
    <3> QED
      BY <2>1, <2>2, <3>1, PushOnce
  <2>5. /\ Once(Push(b, g[2])) /\ Elems(Push(b, g[2])) \subseteq Elems(b) \cup {g[2]}
        /\ \A s \in Sent(b, g[2]) :
                /\ Once(s) /\ Elems(s) \subseteq Elems(b) \cup {g[2]}
                /\ Elems(s) \cap Elems(Push(b, g[2])) = {}
        /\ \A s, t \in Sent(b, g[2]) : s = t
    <3>1. g[2] \notin Elems(b)
      BY <2>1, <2>4
    <3> QED
      BY <2>1, <2>4, <3>1, PushOnce
  <2>6. ASSUME NEW s \in Sent(buffer, g[1])
        PROVE  g[2] \notin Elems(s) /\ Elems(s) \cap (Elems(b) \cup {g[2]}) = {}
    BY <2>1, <2>4
  <2>7. ASSUME NEW s \in Taken(g)
        PROVE  /\ Once(s) /\ Elems(s) \subseteq Elems(buffer) \cup Elems(g)
               /\ Elems(s) \cap Elems(Pushed(g)) = {}
    BY <2>1, <2>3, <2>4, <2>5, <2>6, <2>7
  <2>8. ASSUME NEW s \in Taken(g), NEW t \in Taken(g), s # t
        PROVE  Elems(s) \cap Elems(t) = {}
    BY <2>3, <2>4, <2>5, <2>6, <2>8
  <2> QED
    BY <2>1, <2>3, <2>4, <2>5, <2>7, <2>8
<1> QED
  BY <1>1, <1>2

-----------------------------------------------------------------------------
(* An event is in one place, once *)

Waiting == Elems(buffer) \cup Flying

\* The part of NoEventTwice about what waits.
WaitsOnce ==
    /\ Once(buffer)
    /\ \A f \in flights : Once(f.batch) /\ Elems(f.batch) \cap Elems(buffer) = {}
    /\ \A f, g \in flights : f # g => Elems(f.batch) \cap Elems(g.batch) = {}

WrittenOnce == ~LostAcks => Once(logged) /\ Waiting \cap Elems(logged) = {}

\* The groups a request has not published yet are nowhere.
Unpublished ==
    \A c \in Clients : \A g \in DOMAIN Script[c] :
        g >= next[c] => Elems(Script[c][g]) \cap (Waiting \cup Elems(logged)) = {}

TwiceInv == WaitsOnce /\ WrittenOnce /\ Unpublished

LEMMA TwiceInit == Init => TwiceInv
BY DEF Init, TwiceInv, WaitsOnce, WrittenOnce, Unpublished, Waiting, Flying, Elems, Once

LEMMA TwiceIsNever == TwiceInv => NoEventTwice
BY DEF TwiceInv, WaitsOnce, WrittenOnce, Waiting, NoEventTwice

\* Batches of new or buffered events depart.
LEMMA DepartOnce ==
    ASSUME WaitsOnce, NEW o, NEW B, Depart(o, B), Once(buffer'),
           \A f \in flights : Elems(f.batch) \cap Elems(buffer') = {},
           \A b \in B : /\ Once(b) /\ Elems(b) \cap Elems(buffer') = {}
                        /\ Elems(b) \cap Flying = {},
           \A a, b \in B : a # b => Elems(a) \cap Elems(b) = {}
    PROVE  WaitsOnce' /\ Flying' = Flying \cup UNION {Elems(b) : b \in B}
<1>1. \A f \in flights' : f \in flights \/ \E b \in B : f = [owner |-> o, batch |-> b]
  BY DEF Depart
<1>2. \A f \in flights : f \in flights' /\ Elems(f.batch) \subseteq Flying
  BY DEF Depart, Flying
<1>3. \A b \in B : [owner |-> o, batch |-> b] \in flights'
  BY DEF Depart
<1>4. ASSUME NEW f \in flights'
      PROVE  \/ f \in flights
             \/ \E b \in B : f.batch = b /\ f = [owner |-> o, batch |-> b]
  BY <1>1
<1>5. ASSUME NEW f \in flights'
      PROVE  Once(f.batch) /\ Elems(f.batch) \cap Elems(buffer') = {}
  BY <1>4 DEF WaitsOnce
<1>6. ASSUME NEW f \in flights', NEW g \in flights', f # g
      PROVE  Elems(f.batch) \cap Elems(g.batch) = {}
  <2>1. CASE f \in flights /\ g \in flights
    BY <1>6, <2>1 DEF WaitsOnce
  <2>2. CASE f \in flights /\ g \notin flights
    BY <1>2, <1>4, <2>2
  <2>3. CASE f \notin flights /\ g \in flights
    BY <1>2, <1>4, <2>3
  <2>4. CASE f \notin flights /\ g \notin flights
    BY <1>4, <1>6, <2>4
  <2> QED
    BY <2>1, <2>2, <2>3, <2>4
<1>7. ASSUME NEW e \in Flying' PROVE e \in Flying \cup UNION {Elems(b) : b \in B}
  <2>1. PICK f \in flights' : e \in Elems(f.batch)
    BY <1>7 DEF Flying
  <2> QED
    BY <1>2, <1>4, <2>1
<1>8. ASSUME NEW b \in B, NEW e \in Elems(b) PROVE e \in Flying'
  <2>1. PICK f \in flights' : f = [owner |-> o, batch |-> b]
    BY <1>3
  <2>2. f.batch = b
    BY <2>1
  <2> QED
    BY <1>8, <2>2 DEF Flying
<1>9. Flying \subseteq Flying'
  BY <1>2 DEF Flying
<1> QED
  BY <1>5, <1>6, <1>7, <1>8, <1>9 DEF WaitsOnce

\* The whole buffer departs, or there is nothing to flush.
LEMMA FlushOnce ==
    ASSUME WaitsOnce, NEW o, Flush(o)
    PROVE  WaitsOnce' /\ Waiting' = Waiting
<1>1. Elems(buffer') = {} /\ Once(buffer')
  BY DEF Flush, Elems, Once
<1>2. \A f \in flights : Elems(f.batch) \cap Elems(buffer) = {}
  BY DEF WaitsOnce
<1>3. Flying \cap Elems(buffer) = {}
  BY <1>2 DEF Flying
<1>4. CASE buffer = <<>>
  <2>1. Depart(o, {}) /\ Elems(buffer) = {}
    BY <1>4 DEF Flush, Elems
  <2>2. WaitsOnce' /\ Flying' = Flying \cup UNION {Elems(b) : b \in {}}
    BY <1>1, <2>1, DepartOnce
  <2> QED
    BY <1>1, <2>1, <2>2 DEF Waiting
<1>5. CASE buffer # <<>>
  <2>1. Depart(o, {buffer})
    BY <1>5 DEF Flush
  <2>2. WaitsOnce' /\ Flying' = Flying \cup UNION {Elems(b) : b \in {buffer}}
    BY <1>1, <1>3, <2>1, DepartOnce DEF WaitsOnce
  <2> QED
    BY <1>1, <2>2 DEF Waiting
<1> QED
  BY <1>4, <1>5

\* A flight ends; its events are nowhere else.
LEMMA Landing ==
    ASSUME WaitsOnce, NEW f \in flights, flights' = flights \ {f}
    PROVE  /\ Elems(f.batch) \subseteq Flying
           /\ Flying' = Flying \ Elems(f.batch)
           /\ Elems(f.batch) \cap Elems(buffer) = {}
<1>1. \A g \in flights' : Elems(g.batch) \cap Elems(f.batch) = {}
  BY DEF WaitsOnce
<1>2. Flying' \cap Elems(f.batch) = {}
  BY <1>1 DEF Flying
<1>3. Flying = Flying' \cup Elems(f.batch)
  BY DEF Flying
<1> QED
  BY <1>2, <1>3 DEF WaitsOnce

\* A batch comes back to the buffer, or the process dies.
LEMMA PutBackOnce ==
    ASSUME TypeOK, WaitsOnce, NEW f \in flights, PutBack(f)
    PROVE  /\ WaitsOnce'
           /\ \/ Die /\ Waiting' = {}
              \/ Failed(f) /\ Waiting' = Waiting
<1>1. CASE Die
  <2>1. flights' = {} /\ Elems(buffer') = {} /\ Once(buffer')
    BY <1>1 DEF Die, Elems, Once
  <2> QED
    BY <1>1, <2>1 DEF WaitsOnce, Waiting, Flying
<1>2. CASE Failed(f) /\ buffer' = f.batch \o buffer
  <2>1. /\ f.batch \in Seq(Events) /\ buffer \in Seq(Events) /\ flights' = flights \ {f}
    BY <1>2 DEF TypeOK, Failed
  <2>2. /\ Elems(f.batch) \subseteq Flying /\ Flying' = Flying \ Elems(f.batch)
        /\ Elems(f.batch) \cap Elems(buffer) = {}
    BY <2>1, Landing
  <2>3. Once(buffer') /\ Elems(buffer') = Elems(f.batch) \cup Elems(buffer)
    BY <1>2, <2>1, <2>2, OnceConcat, ElemsOfConcat DEF WaitsOnce
  <2>4. \A g \in flights' : Elems(g.batch) \subseteq Flying'
    BY DEF Flying
  <2>5. \A g \in flights' : Elems(g.batch) \cap Elems(buffer') = {}
    BY <2>1, <2>2, <2>3, <2>4 DEF WaitsOnce
  <2>6. WaitsOnce'
    BY <2>1, <2>3, <2>5 DEF WaitsOnce
  <2> QED
    BY <1>2, <2>2, <2>3, <2>6 DEF Waiting
<1> QED
  BY <1>1, <1>2 DEF PutBack

-----------------------------------------------------------------------------
(* The end of the process *)

Busy == \E c \in Clients : pc[c] \in {"publishing", "flushing"}

\* onClose runs once, when nobody publishes any more, and is the last to flush.
Ending ==
    /\ timerOn = FALSE => server # "open" /\ ~Busy
    /\ server \in {"draining", "closed"} => timerOn = FALSE
    /\ server \in {"closed", "killed"} => flights = {} /\ timerOn = FALSE
    /\ \A f \in flights : f.owner = "cleanup" => server = "closing" /\ timerOn = FALSE
    /\ \A f, g \in flights : f.owner = "cleanup" /\ g.owner = "cleanup" => f = g

LEMMA EndingInit == Init => Ending
BY DEF Init, Ending

LEMMA EndingDie ==
    ASSUME TypeOK, Die PROVE Ending'
BY DEF Die, Ending, Busy, TypeOK

LEMMA EndingPutBack ==
    ASSUME TypeOK, Ending, NEW f \in flights, PutBack(f)
    PROVE  Ending'
<1>1. CASE Die
  BY <1>1, EndingDie
<1>2. CASE ~(f.owner = "timer" /\ server # "open") /\ Failed(f)
  <2>1. /\ flights' = flights \ {f} /\ timerOn' = timerOn
        /\ pc' = [c \in Clients |-> IF c = f.owner /\ pc[c] \in {"publishing", "flushing"}
                                    THEN "error" ELSE pc[c]]
        /\ server' = CASE f.owner = "cleanup" -> "draining"
                       [] f.owner = "timer"   -> "closing"
                       [] OTHER               -> server
    BY <1>2 DEF Failed
  <2>2. Busy' => Busy
    BY <2>1 DEF Busy
  <2>3. CASE f.owner = "cleanup"
    <3>1. /\ server' = "draining" /\ server = "closing" /\ timerOn = FALSE
          /\ \A g \in flights' : g.owner # "cleanup"
      BY <2>1, <2>3 DEF Ending
    <3> QED
      BY <2>1, <2>2, <3>1 DEF Ending
  <2>4. CASE f.owner = "timer"
    <3>1. server' = "closing" /\ server = "open" /\ timerOn # FALSE
      BY <1>2, <2>1, <2>4 DEF Ending
    <3> QED
      BY <2>1, <2>2, <3>1 DEF Ending
  <2>5. CASE f.owner \notin {"cleanup", "timer"}
    <3>1. server' = server
      BY <2>1, <2>5
    <3> QED
      BY <2>1, <2>2, <3>1 DEF Ending
  <2> QED
    BY <2>3, <2>4, <2>5
<1> QED
  BY <1>1, <1>2 DEF PutBack

LEMMA EndingStep == TypeOK /\ Ending /\ [Next]_vars => Ending'
<1> SUFFICES ASSUME TypeOK, Ending, [Next]_vars PROVE Ending'
  OBVIOUS
<1>0. timerOn \in BOOLEAN /\ "timer" \notin Clients /\ "cleanup" \notin Clients
      /\ pc \in [Clients -> {"idle", "publishing", "flushing", "ok", "error"}]
  BY PublisherAssumption DEF TypeOK
<1>1. ASSUME NEW c \in Clients, Begin(c) PROVE Ending'
  <2>1. server = "open" /\ timerOn # FALSE /\ UNCHANGED <<flights, timerOn, server>>
    BY <1>1 DEF Begin, Ending
  <2> QED
    BY <2>1 DEF Ending
<1>2. ASSUME NEW c \in Clients, PublishGroup(c) PROVE Ending'
  <2>1. /\ pc[c] = "publishing" /\ UNCHANGED <<pc, timerOn, server>>
        /\ flights' = flights \cup {[owner |-> c, batch |-> b] :
                                        b \in Taken(Script[c][next[c]])}
    BY <1>2 DEF PublishGroup, Runnable, Depart
  <2>2. \A f \in flights' : f \in flights \/ f.owner = c
    BY <2>1
  <2>3. Busy /\ Busy' = Busy /\ timerOn # FALSE
    BY <2>1 DEF Busy, Ending
  <2> QED
    BY <1>0, <2>1, <2>2, <2>3 DEF Ending
<1>3. ASSUME NEW c \in Clients, FinalFlush(c) PROVE Ending'
  <2>1. pc[c] = "publishing" /\ Flush(c) /\ UNCHANGED <<timerOn, server>>
    BY <1>3 DEF FinalFlush, Runnable
  <2>2. \A f \in flights' : f \in flights \/ f.owner = c
    BY <2>1, Departure DEF Owners
  <2>3. timerOn # FALSE
    BY <2>1 DEF Busy, Ending
  <2> QED
    BY <1>0, <2>1, <2>2, <2>3 DEF Ending
<1>4. CASE TimerFlush
  <2>1. timerOn # FALSE /\ Flush("timer") /\ UNCHANGED <<timerOn, server>>
    BY <1>4 DEF TimerFlush
  <2>2. \A f \in flights' : f \in flights \/ f.owner = "timer"
    BY <2>1, Departure DEF Owners
  <2> QED
    BY <2>1, <2>2 DEF Ending
<1>5. ASSUME NEW f \in flights, Inserted(f) PROVE Ending'
  <2>1. /\ flights' = flights \ {f} /\ timerOn' = timerOn
        /\ pc' = [c \in Clients |-> IF c = f.owner /\ pc[c] = "flushing"
                                    THEN "ok" ELSE pc[c]]
        /\ server' = IF f.owner = "cleanup" THEN "draining" ELSE server
    BY <1>5 DEF Inserted
  <2>2. Busy' => Busy
    BY <2>1 DEF Busy
  <2>3. CASE f.owner = "cleanup"
    <3>1. /\ server' = "draining" /\ timerOn = FALSE
          /\ \A g \in flights' : g.owner # "cleanup"
      BY <2>1, <2>3 DEF Ending
    <3> QED
      BY <2>1, <2>2, <2>3, <3>1 DEF Ending
  <2>4. CASE f.owner # "cleanup"
    BY <2>1, <2>2, <2>4 DEF Ending
  <2> QED
    BY <2>3, <2>4
<1>6. ASSUME NEW f \in flights, Refused(f) \/ Fault(f) PROVE Ending'
  BY <1>6, EndingPutBack DEF Refused, Fault
<1>7. CASE Cleanup
  <2>1. /\ server = "closing" /\ timerOn # FALSE /\ timerOn' = FALSE /\ Flush("cleanup")
        /\ ~Busy /\ UNCHANGED pc
        /\ server' = IF buffer = <<>> THEN "draining" ELSE server
    BY <1>7 DEF Cleanup, Busy
  <2>2. /\ \A f \in flights' : f \in flights \/ f.owner = "cleanup"
        /\ \A f, g \in flights' : f.owner = "cleanup" /\ g.owner = "cleanup" =>
                f = g \/ f \in flights \/ g \in flights
        /\ buffer = <<>> => flights' = flights
    BY <2>1, Departure DEF Owners
  <2>3. \A f \in flights : f.owner # "cleanup"
    BY <2>1 DEF Ending
  <2>4. ~Busy'
    BY <2>1 DEF Busy
  <2> QED
    BY <2>1, <2>2, <2>3, <2>4 DEF Ending
<1>8. ASSUME NEW t \in Tasks, DeleteTask(t) PROVE Ending'
  BY <1>8 DEF DeleteTask, Ending, Busy
<1>9. CASE Shutdown
  BY <1>9 DEF Shutdown, Ending, Busy
<1>10. CASE Exit
  BY <1>10 DEF Exit, Ending, Busy
<1>11. CASE GraceRunsOut
  BY <1>11, EndingDie DEF GraceRunsOut
<1>12. CASE UNCHANGED vars
  BY <1>12 DEF vars, Ending, Busy
<1> QED
  BY <1>1, <1>2, <1>3, <1>4, <1>5, <1>6, <1>7, <1>8, <1>9, <1>10, <1>11, <1>12 DEF Next

-----------------------------------------------------------------------------
(* The steps, and what they are for the promise *)

Running == server \notin {"closed", "killed"}

\* The groups of all scripts have no event in common, and none twice.
LEMMA GroupsApart ==
    ASSUME NEW c \in Clients, NEW g \in DOMAIN Script[c]
    PROVE  /\ Once(Script[c][g])
           /\ \A d \in Clients : \A h \in DOMAIN Script[d] :
                c # d \/ g # h => Elems(Script[c][g]) \cap Elems(Script[d][h]) = {}
BY PublisherAssumption DEF Once, Elems

\* Nothing new waits or is written.
LEMMA NothingNew ==
    ASSUME Unpublished, next' = next,
           (Waiting \cup Elems(logged))' \subseteq Waiting \cup Elems(logged)
    PROVE  Unpublished'
BY DEF Unpublished

LEMMA Stutters ==
    ASSUME WrittenOnce, Unpublished, Running, Running',
           Waiting' = Waiting, UNCHANGED <<logged, next>>
    PROVE  WrittenOnce' /\ Unpublished' /\ UNCHANGED Promise!vars
<1>1. Elems(logged)' = Elems(logged) /\ Once(logged)' = Once(logged)
  OBVIOUS
<1>2. WrittenOnce' /\ Unpublished'
  BY <1>1, NothingNew DEF WrittenOnce
<1>3. (Elems(buffer) \cup Flying)' = Elems(buffer) \cup Flying
  BY DEF Waiting
<1> QED
  BY <1>2, <1>3 DEF Promise!vars, Running

\* An insert of a batch that waits appends to the log as promised.
LEMMA BatchAppends ==
    ASSUME TypeOK, Running, NEW b \in Seq(Events), Once(b), Elems(b) \subseteq Waiting,
           logged' = logged \o b
    PROVE  Promise!Appends /\ Promise!NewRows = Elems(b)
<1>1. /\ logged \in Seq(Events) /\ logged' \in Seq(Events)
      /\ Len(logged) \in Nat /\ Len(b) \in Nat
      /\ DOMAIN logged = 1..Len(logged) /\ DOMAIN b = 1..Len(b)
      /\ Len(logged') = Len(logged) + Len(b)
      /\ \A i \in 1..(Len(logged) + Len(b)) :
            logged'[i] = IF i <= Len(logged) THEN logged[i] ELSE b[i - Len(logged)]
  BY ConcatProperties, LenProperties DEF TypeOK
<1>2. Promise!New = (Len(logged) + 1)..(Len(logged) + Len(b))
  BY <1>1 DEF Promise!New
<1>3. ASSUME NEW i \in Promise!New
      PROVE  i - Len(logged) \in DOMAIN b /\ logged'[i] = b[i - Len(logged)]
  BY <1>1, <1>2
<1>4. ASSUME NEW j \in DOMAIN b
      PROVE  j + Len(logged) \in Promise!New /\ logged'[j + Len(logged)] = b[j]
  <2>1. /\ j + Len(logged) \in 1..(Len(logged) + Len(b))
        /\ ~(j + Len(logged) <= Len(logged)) /\ (j + Len(logged)) - Len(logged) = j
    BY <1>1
  <2> QED
    BY <1>1, <1>2, <2>1
<1>5. Promise!NewRows = Elems(b)
  <2>1. Promise!NewRows = {logged'[i] : i \in Promise!New}
    BY DEF Promise!NewRows
  <2>2. Elems(b) = {b[j] : j \in DOMAIN b}
    BY DEF Elems
  <2>3. ASSUME NEW e \in Promise!NewRows PROVE e \in Elems(b)
    <3>1. PICK i \in Promise!New : e = logged'[i]
      BY <2>1, <2>3
    <3> QED
      BY <1>3, <2>2, <3>1
  <2>4. ASSUME NEW e \in Elems(b) PROVE e \in Promise!NewRows
    <3>1. PICK j \in DOMAIN b : e = b[j]
      BY <2>2, <2>4
    <3>2. j + Len(logged) \in Promise!New /\ logged'[j + Len(logged)] = e
      BY <1>4, <3>1
    <3> HIDE DEF Promise!New
    <3> QED
      BY <2>1, <3>2
  <2> QED
    BY <2>3, <2>4
<1>6. ASSUME NEW i \in Promise!New, NEW j \in Promise!New, logged'[i] = logged'[j]
      PROVE  i = j
  <2>1. i - Len(logged) = j - Len(logged)
    BY <1>3, <1>6 DEF Once
  <2> QED
    BY <1>1, <1>2, <2>1
<1>7. \A i \in DOMAIN logged : logged'[i] = logged[i]
  BY <1>1
<1>8. Promise!NewRows \subseteq IF server = "closed" THEN {} ELSE Elems(buffer) \cup Flying
  BY <1>5 DEF Running, Waiting
<1>9. logged' \in Seq(Events) /\ Len(logged) <= Len(logged')
  BY <1>1
<1> QED
  BY <1>5, <1>6, <1>7, <1>8, <1>9, Zenon DEF Promise!Appends

\* A batch is inserted: the flight ends and the log grows by its events.
LEMMA InsertKeeps ==
    ASSUME TypeOK, TwiceInv, NEW f \in flights, flights' = flights \ {f},
           logged' = logged \o f.batch, UNCHANGED <<buffer, next>>, Running, Running'
    PROVE  TwiceInv' /\ Promise!Persist
<1>1. /\ f.batch \in Seq(Events) /\ logged \in Seq(Events) /\ Once(f.batch) /\ WaitsOnce
  BY DEF TypeOK, TwiceInv, WaitsOnce
<1>2. /\ Elems(f.batch) \subseteq Flying /\ Flying' = Flying \ Elems(f.batch)
      /\ Elems(f.batch) \cap Elems(buffer) = {}
  BY <1>1, Landing
<1>3. Elems(f.batch) \subseteq Waiting /\ Waiting' = Waiting \ Elems(f.batch)
  BY <1>2 DEF Waiting
<1>4. Elems(logged)' = Elems(logged) \cup Elems(f.batch)
  BY <1>1, ElemsOfConcat
<1>5. WaitsOnce'
  BY <1>1 DEF WaitsOnce
<1>6. WrittenOnce'
  <2>1. ~LostAcks => Once(logged')
    BY <1>1, <1>3, OnceConcat DEF TwiceInv, WrittenOnce
  <2> QED
    BY <1>3, <1>4, <2>1 DEF TwiceInv, WrittenOnce
<1>7. Unpublished'
  BY <1>3, <1>4, NothingNew DEF TwiceInv
<1>8. Promise!Appends /\ Promise!NewRows = Elems(f.batch)
  BY <1>1, <1>3, BatchAppends
<1>9. Promise!Persist
  <2>1. (IF server = "closed" THEN {} ELSE Elems(buffer) \cup Flying)' =
            (IF server = "closed" THEN {} ELSE Elems(buffer) \cup Flying) \ Elems(f.batch)
    BY <1>3 DEF Waiting, Running
  <2> QED
    BY <1>8, <2>1 DEF Promise!Persist, Running
<1> QED
  BY <1>5, <1>6, <1>7, <1>9 DEF TwiceInv

\* A group is published: its events were nowhere, and now they wait.
LEMMA PublishKeeps ==
    ASSUME TypeOK, TwiceInv, Running, NEW c \in Clients, PublishGroup(c)
    PROVE  TwiceInv' /\ \E events \in SUBSET Events : Promise!Accept(events)
<1>1. PICK n \in DOMAIN Script[c] : n = next[c]
  BY DEF PublishGroup
<1>2. PICK g \in Seq(Events) : g = Script[c][n] /\ Len(g) \in {1, 2}
  BY ScriptType
<1>3. /\ buffer' = Pushed(g) /\ Depart(c, Taken(g)) /\ next' = [next EXCEPT ![c] = n + 1]
      /\ UNCHANGED <<server, logged>>
  BY <1>1, <1>2 DEF PublishGroup
<1>4. /\ buffer \in Seq(Events) /\ next \in [Clients -> Nat \ {0}] /\ WaitsOnce
      /\ n \in Nat
  BY <1>1 DEF TypeOK, TwiceInv
<1>5. Once(g) /\ Elems(g) \cap (Waiting \cup Elems(logged)) = {}
  BY <1>1, <1>2, <1>4, GroupsApart DEF TwiceInv, Unpublished
<1>6. /\ Once(buffer') /\ Elems(buffer') \subseteq Elems(buffer) \cup Elems(g)
      /\ \A s \in Taken(g) :
            /\ Once(s) /\ Elems(s) \subseteq Elems(buffer) \cup Elems(g)
            /\ Elems(s) \cap Elems(buffer') = {}
      /\ \A s, t \in Taken(g) : s # t => Elems(s) \cap Elems(t) = {}
  BY <1>2, <1>3, <1>4, <1>5, GroupOnce DEF WaitsOnce, Waiting
<1>7. Elems(buffer) \cup Elems(g) = Elems(buffer') \cup UNION {Elems(s) : s \in Taken(g)}
  BY <1>2, <1>3, <1>4, <1>6, GroupKeeps
<1>8. \A f \in flights : /\ Elems(f.batch) \subseteq Flying
                         /\ Elems(f.batch) \cap (Elems(buffer) \cup Elems(g)) = {}
  BY <1>4, <1>5 DEF WaitsOnce, Waiting, Flying
<1>9. Flying \cap (Elems(buffer) \cup Elems(g)) = {}
  BY <1>8 DEF Flying
<1>10. WaitsOnce' /\ Flying' = Flying \cup UNION {Elems(s) : s \in Taken(g)}
  <2>1. \A f \in flights : Elems(f.batch) \cap Elems(buffer') = {}
    BY <1>6, <1>8
  <2>2. \A b \in Taken(g) : /\ Once(b) /\ Elems(b) \cap Elems(buffer') = {}
                            /\ Elems(b) \cap Flying = {}
    BY <1>6, <1>9
  <2> QED
    BY <1>3, <1>4, <1>6, <2>1, <2>2, DepartOnce
<1>11. Waiting' = Waiting \cup Elems(g)
  BY <1>7, <1>10 DEF Waiting
<1>12. WrittenOnce'
  BY <1>3, <1>5, <1>11 DEF TwiceInv, WrittenOnce
<1>13. Unpublished'
  <2> SUFFICES ASSUME NEW d \in Clients, NEW h \in DOMAIN Script[d], h >= next'[d]
               PROVE  Elems(Script[d][h]) \cap (Waiting' \cup Elems(logged)) = {}
    BY <1>3 DEF Unpublished
  <2>0. h \in Nat
    <3>1. Script[d] \in Seq(Seq(Events))
      BY PublisherAssumption
    <3> QED
      BY <3>1, LenProperties
  <2>1. h >= next[d] /\ (c # d \/ n # h)
    BY <1>1, <1>3, <1>4, <2>0
  <2>2. Elems(g) \cap Elems(Script[d][h]) = {}
    BY <1>2, <2>1, GroupsApart
  <2>3. Elems(Script[d][h]) \cap (Waiting \cup Elems(logged)) = {}
    BY <2>1 DEF TwiceInv, Unpublished
  <2> QED
    BY <1>11, <2>2, <2>3
<1>14. Promise!Accept(Elems(g))
  <2>1. (IF server = "closed" THEN {} ELSE Elems(buffer) \cup Flying)' =
            (IF server = "closed" THEN {} ELSE Elems(buffer) \cup Flying) \cup Elems(g)
    BY <1>3, <1>11 DEF Waiting, Running
  <2>2. Promise!Rows = Elems(logged)
    BY DEF Promise!Rows, Elems
  <2>3. Elems(g) \cap (Elems(buffer) \cup Flying) = {} /\ Elems(g) \cap Promise!Rows = {}
    BY <1>5, <2>2 DEF Waiting
  <2> QED
    BY <1>3, <2>1, <2>3 DEF Promise!Accept, Running
<1>15. Elems(g) \in SUBSET Events
  BY <1>2, EventsOfGroup
<1> QED
  BY <1>10, <1>12, <1>13, <1>14, <1>15 DEF TwiceInv

\* The process ends; the last batch may have been written.
LEMMA StopKeeps ==
    ASSUME TypeOK, TwiceInv, Running, Die \/ UNCHANGED <<buffer, flights, next>>,
           server' \in {"closed", "killed"}, server' = "killed" => Die,
           \/ UNCHANGED logged
           \/ LostAcks /\ \E f \in flights : logged' = logged \o f.batch
    PROVE  TwiceInv' /\ Promise!Stop
<1>1. next' = next /\ Waiting' \subseteq Waiting /\ WaitsOnce'
  <2>1. CASE Die
    <3>1. /\ flights' = {} /\ Elems(buffer') = {} /\ Once(buffer') /\ next' = next
      BY <2>1 DEF Die, Elems, Once
    <3> QED
      BY <3>1 DEF Waiting, Flying, WaitsOnce
  <2>2. CASE UNCHANGED <<buffer, flights, next>>
    BY <2>2 DEF Waiting, Flying, WaitsOnce, TwiceInv
  <2> QED
    BY <2>1, <2>2
<1>2. /\ (server \notin {"closed", "killed"})' = FALSE
      /\ (IF server = "closed" THEN {} ELSE Elems(buffer) \cup Flying)' = {}
  <2>1. CASE server' = "closed"
    BY <2>1
  <2>2. CASE server' = "killed"
    BY <2>2 DEF Die, Elems, Flying
  <2> QED
    BY <2>1, <2>2
<1>3. CASE UNCHANGED logged
  <2>1. WrittenOnce' /\ Unpublished'
    BY <1>1, <1>3, NothingNew DEF TwiceInv, WrittenOnce
  <2> QED
    BY <1>1, <1>2, <1>3, <2>1 DEF TwiceInv, Promise!Stop, Running
<1>4. ASSUME LostAcks, NEW f \in flights, logged' = logged \o f.batch
      PROVE  TwiceInv' /\ Promise!Stop
  <2>1. /\ f.batch \in Seq(Events) /\ logged \in Seq(Events) /\ Once(f.batch)
        /\ Elems(f.batch) \subseteq Waiting
    BY DEF TypeOK, TwiceInv, WaitsOnce, Waiting, Flying
  <2>2. Elems(logged)' = Elems(logged) \cup Elems(f.batch)
    BY <1>4, <2>1, ElemsOfConcat
  <2>3. WrittenOnce' /\ Unpublished'
    BY <1>1, <1>4, <2>1, <2>2, NothingNew DEF TwiceInv, WrittenOnce
  <2>4. Promise!Appends
    BY <1>4, <2>1, BatchAppends
  <2> QED
    BY <1>1, <1>2, <1>4, <2>3, <2>4 DEF TwiceInv, Promise!Stop, Running
<1> QED
  BY <1>3, <1>4

LEMMA TwiceStep ==
    TypeOK /\ Ending /\ TwiceInv /\ [Next]_vars
        => TwiceInv' /\ [Promise!Next]_(Promise!vars)
<1> SUFFICES ASSUME TypeOK, Ending, TwiceInv, [Next]_vars
             PROVE  TwiceInv' /\ (Promise!Next \/ UNCHANGED Promise!vars)
  OBVIOUS
<1>0. /\ WaitsOnce /\ WrittenOnce /\ Unpublished
      /\ \A f \in flights : Running
      /\ \A c \in Clients : pc[c] = "publishing" => Running
      /\ timerOn => Running
  BY DEF TwiceInv, Ending, Busy, Running
<1>1. ASSUME NEW c \in Clients, Begin(c) PROVE TwiceInv' /\ UNCHANGED Promise!vars
  <2>1. /\ Running /\ Running' /\ Waiting' = Waiting /\ WaitsOnce'
        /\ UNCHANGED <<logged, next>>
    BY <1>0, <1>1 DEF Begin, Running, Waiting, Flying, WaitsOnce
  <2> QED
    BY <1>0, <2>1, Stutters DEF TwiceInv
<1>2. ASSUME NEW c \in Clients, PublishGroup(c) PROVE TwiceInv' /\ Promise!Next
  <2>1. Running
    BY <1>0, <1>2 DEF PublishGroup, Runnable
  <2> QED
    BY <1>2, <2>1, PublishKeeps DEF Promise!Next
<1>3. ASSUME NEW o, Flush(o), Running, Running', UNCHANGED <<logged, next>>
      PROVE  TwiceInv' /\ UNCHANGED Promise!vars
  <2>1. WaitsOnce' /\ Waiting' = Waiting
    BY <1>0, <1>3, FlushOnce
  <2> QED
    BY <1>0, <1>3, <2>1, Stutters DEF TwiceInv
<1>4. ASSUME NEW c \in Clients, FinalFlush(c) PROVE TwiceInv' /\ UNCHANGED Promise!vars
  <2>1. Running /\ Running' /\ Flush(c) /\ UNCHANGED <<logged, next>>
    BY <1>0, <1>4 DEF FinalFlush, Runnable, Running
  <2> QED
    BY <1>3, <2>1
<1>5. CASE TimerFlush
  <2>1. Running /\ Running' /\ Flush("timer") /\ UNCHANGED <<logged, next>>
    BY <1>0, <1>5 DEF TimerFlush, Running
  <2> QED
    BY <1>3, <2>1
<1>6. CASE Cleanup
  <2>1. Running /\ Running' /\ Flush("cleanup") /\ UNCHANGED <<logged, next>>
    BY <1>6 DEF Cleanup, Running
  <2> QED
    BY <1>3, <2>1
<1>7. ASSUME NEW f \in flights, Inserted(f) PROVE TwiceInv' /\ Promise!Next
  <2>1. /\ flights' = flights \ {f} /\ logged' = logged \o f.batch
        /\ UNCHANGED <<buffer, next>> /\ Running /\ Running'
    BY <1>0, <1>7 DEF Inserted, Running
  <2> QED
    BY <2>1, InsertKeeps DEF Promise!Next
<1>8. ASSUME NEW f \in flights, PutBack(f),
             UNCHANGED logged \/ (LostAcks /\ logged' = logged \o f.batch)
      PROVE  TwiceInv' /\ (Promise!Next \/ UNCHANGED Promise!vars)
  <2>0. Running
    BY <1>0
  <2>1. CASE Die
    <3>1. server' = "killed"
      BY <2>1 DEF Die
    <3> QED
      BY <1>8, <2>0, <2>1, <3>1, StopKeeps DEF Promise!Next
  <2>2. CASE Failed(f) /\ WaitsOnce' /\ Waiting' = Waiting
    <3>1. Running' /\ next' = next
      BY <2>0, <2>2 DEF Failed, Running
    <3>2. CASE UNCHANGED logged
      BY <1>0, <2>0, <2>2, <3>1, <3>2, Stutters DEF TwiceInv
    <3>3. CASE LostAcks /\ logged' = logged \o f.batch
      <4>1. /\ f.batch \in Seq(Events) /\ logged \in Seq(Events) /\ Once(f.batch)
            /\ Elems(f.batch) \subseteq Waiting
        BY <1>0 DEF TypeOK, WaitsOnce, Waiting, Flying
      <4>2. Elems(logged)' = Elems(logged) \cup Elems(f.batch)
        BY <3>3, <4>1, ElemsOfConcat
      <4>3. WrittenOnce' /\ Unpublished'
        BY <1>0, <2>2, <3>1, <3>3, <4>1, <4>2, NothingNew DEF WrittenOnce
      <4>4. Promise!Appends
        BY <2>0, <3>3, <4>1, BatchAppends
      <4>5. (Elems(buffer) \cup Flying)' = Elems(buffer) \cup Flying
        BY <2>2 DEF Waiting
      <4>6. Promise!PersistUnheard
        BY <2>0, <3>1, <3>3, <4>4, <4>5 DEF Promise!PersistUnheard, Running
      <4> QED
        BY <2>2, <4>3, <4>6 DEF TwiceInv, Promise!Next
    <3> QED
      BY <1>8, <3>2, <3>3
  <2> QED
    BY <1>0, <1>8, <2>1, <2>2, PutBackOnce
<1>9. ASSUME NEW f \in flights, Refused(f) \/ Fault(f)
      PROVE  TwiceInv' /\ (Promise!Next \/ UNCHANGED Promise!vars)
  <2>1. PutBack(f)
    BY <1>9 DEF Refused, Fault
  <2>2. UNCHANGED logged \/ (LostAcks /\ logged' = logged \o f.batch)
    <3>1. CASE Refused(f)
      BY <3>1 DEF Refused
    <3>2. CASE Fault(f)
      BY <3>2, Zenon DEF Fault
    <3> QED
      BY <1>9, <3>1, <3>2
  <2> QED
    BY <1>8, <2>1, <2>2
<1>10. ASSUME NEW t \in Tasks, DeleteTask(t) PROVE TwiceInv' /\ UNCHANGED Promise!vars
  <2>1. /\ Running /\ Running' /\ Waiting' = Waiting /\ WaitsOnce'
        /\ UNCHANGED <<logged, next>>
    BY <1>0, <1>10 DEF DeleteTask, Running, Waiting, Flying, WaitsOnce
  <2> QED
    BY <1>0, <2>1, Stutters DEF TwiceInv
<1>11. CASE Shutdown
  <2>1. /\ Running /\ Running' /\ Waiting' = Waiting /\ WaitsOnce'
        /\ UNCHANGED <<logged, next>>
    BY <1>0, <1>11 DEF Shutdown, Running, Waiting, Flying, WaitsOnce
  <2> QED
    BY <1>0, <2>1, Stutters DEF TwiceInv
<1>12. CASE Exit
  <2>1. /\ Running /\ server' = "closed" /\ UNCHANGED <<buffer, flights, next, logged>>
    BY <1>12 DEF Exit, Running
  <2> QED
    BY <2>1, StopKeeps DEF Promise!Next
<1>13. CASE GraceRunsOut
  <2>1. /\ Running /\ server' = "killed" /\ Die /\ UNCHANGED logged
    BY <1>13 DEF GraceRunsOut, Running, Die
  <2> QED
    BY <2>1, StopKeeps DEF Promise!Next
<1>14. CASE UNCHANGED vars
  <2>1. /\ UNCHANGED <<buffer, flights, next, logged>> /\ WaitsOnce' /\ Waiting' = Waiting
    BY <1>0, <1>14 DEF vars, WaitsOnce, Waiting, Flying
  <2>2. TwiceInv'
    BY <1>0, <2>1, NothingNew DEF TwiceInv, WrittenOnce
  <2>3. UNCHANGED Promise!vars
    BY <1>14 DEF vars, Promise!vars, Flying
  <2> QED
    BY <2>2, <2>3
<1> QED
  BY <1>1, <1>2, <1>4, <1>5, <1>6, <1>7, <1>9, <1>10, <1>11, <1>12, <1>13, <1>14 DEF Next

LEMMA PromiseInit == Init => Promise!Init
BY DEF Init, Promise!Init, Elems, Flying

\* However flushes overlap, fail and are repeated, an event is in the buffer, in one
\* batch or in the log, and nowhere twice.
THEOREM NothingTwice == Spec => []NoEventTwice
BY TypeInit, TypeStep, EndingInit, EndingStep, TwiceInit, TwiceStep, TwiceIsNever, PTL
DEF Spec

\* The publisher implements the log that AuditLog promises.
THEOREM PromiseKept == Spec => KeepsPromise
BY TypeInit, TypeStep, EndingInit, EndingStep, TwiceInit, TwiceStep, PromiseInit, PTL
DEF Spec, KeepsPromise, Promise!Spec

-----------------------------------------------------------------------------
(* Before the first failure *)

\* No event of a request is left behind in the buffer when it has to wait, every batch
\* is awaited by the request whose events it holds, and unless every push is a batch of
\* its own, no request has two of them.
Calm ==
    /\ \A f \in flights : /\ f.owner \in Clients
                          /\ pc[f.owner] \in {"publishing", "flushing"}
                          /\ Elems(f.batch) \subseteq EventsOf(f.owner)
    /\ \A f, g \in flights :
            f.owner = g.owner /\ (BufferSize > 1 \/ pc[f.owner] = "flushing") => f = g
    /\ Quiet => buffer = <<>>
    /\ \A c \in Clients : Runnable(c) =>
            /\ Elems(buffer) \subseteq EventsOf(c)
            /\ next[c] = 1 => buffer = <<>>
            /\ \A d \in Clients : Runnable(d) => d = c

CalmInv == failures = 0 /\ alive = Tasks => Calm

LEMMA CalmInit == Init => CalmInv
BY DEF Init, CalmInv, Calm, Quiet, Runnable

\* A group of two is the first of its request and finds the buffer empty: what it does
\* not send off it keeps as a whole.
LEMMA GroupWhole ==
    ASSUME buffer \in Seq(Events), NEW g \in Seq(Events),
           Len(g) = 1 \/ (Len(g) = 2 /\ buffer = <<>>)
    PROVE  /\ Taken(g) # {} => Pushed(g) = <<>>
           /\ BufferSize > 1 => \A s, t \in Taken(g) : s = t
<1>0. BufferSize \in Nat \ {0}
  BY PublisherAssumption
<1>1. \A b, e : Sent(b, e) # {} => Push(b, e) = <<>>
  BY DEF Sent, Push
<1>2. \A b, e : \A s, t \in Sent(b, e) : s = t
  BY DEF Sent
<1>3. CASE Len(g) = 1
  <2>1. Pushed(g) = Push(buffer, g[1]) /\ Taken(g) = Sent(buffer, g[1])
    BY <1>3 DEF Pushed, Taken
  <2> QED
    BY <1>1, <1>2, <2>1
<1>4. CASE Len(g) = 2 /\ buffer = <<>>
  <2>1. /\ Pushed(g) = Push(Push(buffer, g[1]), g[2])
        /\ Taken(g) = Sent(buffer, g[1]) \cup Sent(Push(buffer, g[1]), g[2])
    BY <1>4 DEF Pushed, Taken
  <2>2. \A e : Full(Append(<<>>, e)) <=> BufferSize = 1
    <3>1. \A e : Len(Append(<<>>, e)) = 1
      OBVIOUS
    <3> QED
      BY <1>0, <3>1 DEF Full
  <2>3. CASE BufferSize = 1
    <3>1. Push(buffer, g[1]) = <<>>
      BY <1>4, <2>2, <2>3 DEF Push
    <3>2. Pushed(g) = <<>>
      BY <2>1, <2>2, <2>3, <3>1 DEF Push
    <3> QED
      BY <2>3, <3>2
  <2>4. CASE BufferSize # 1
    <3>1. Sent(buffer, g[1]) = {}
      BY <1>4, <2>2, <2>4 DEF Sent
    <3> QED
      BY <1>1, <1>2, <2>1, <3>1
  <2> QED
    BY <2>3, <2>4
<1> QED
  BY <1>3, <1>4

\* The rows of a batch refer to tasks that exist, so only a fault refuses it.
LEMMA NothingRefused ==
    ASSUME TypeOK, alive = Tasks, NEW f \in flights
    PROVE  Insertable(f)
<1>1. f.batch \in Seq(Events)
  BY DEF TypeOK
<1> SUFFICES ASSUME NEW i \in DOMAIN f.batch
             PROVE  \E c \in Clients : f.batch[i] \in EventsOf(c) /\ TaskOf[c] \in alive
  BY DEF Insertable
<1>2. f.batch[i] \in Events
  BY <1>1, LenProperties, ElementOfSeq
<1>3. PICK c \in Clients : f.batch[i] \in EventsOf(c)
  BY <1>2 DEF Events, EventsOf, Elems
<1> QED
  BY <1>3 DEF Tasks

LEMMA GroupOfEvents ==
    ASSUME NEW c \in Clients, NEW n \in DOMAIN Script[c]
    PROVE  /\ Elems(Script[c][n]) \subseteq EventsOf(c)
           /\ Len(Script[c][n]) = 1 \/ (Len(Script[c][n]) = 2 /\ n = 1)
<1>1. Script[c] \in Seq(Seq(Events)) /\ DOMAIN Script[c] = 1..Len(Script[c])
  <2>1. Script[c] \in Seq(Seq(Events))
    BY PublisherAssumption
  <2> QED
    BY <2>1, LenProperties
<1>2. \/ Len(Script[c]) = 1
      \/ Len(Script[c]) = 2 /\ \A g \in {1, 2} : Len(Script[c][g]) = 1
  BY PublisherAssumption
<1>3. Len(Script[c][n]) = 1 \/ (Len(Script[c][n]) = 2 /\ n = 1)
  BY <1>1, <1>2, ScriptType
<1> QED
  BY <1>3 DEF EventsOf

\* A request publishes its next group while the log is calm.
LEMMA CalmGroup ==
    ASSUME TypeOK, TwiceInv, Calm, NEW c \in Clients, PublishGroup(c)
    PROVE  Calm'
<1>1. PICK n \in DOMAIN Script[c] : n = next[c]
  BY DEF PublishGroup
<1>2. PICK g \in Seq(Events) : g = Script[c][n] /\ Len(g) \in {1, 2}
  BY ScriptType
<1>3. /\ buffer' = Pushed(g) /\ next' = [next EXCEPT ![c] = n + 1] /\ pc' = pc
      /\ flights' = flights \cup {[owner |-> c, batch |-> b] : b \in Taken(g)}
      /\ pc[c] = "publishing" /\ \A f \in flights : f.owner # c
  BY <1>1, <1>2 DEF PublishGroup, Depart, Runnable, InFlight
<1>4. /\ Elems(buffer) \subseteq EventsOf(c) /\ (n = 1 => buffer = <<>>)
      /\ \A d \in Clients : Runnable(d) => d = c
  BY <1>1 DEF Calm, PublishGroup
<1>5. Elems(g) \subseteq EventsOf(c) /\ (Len(g) = 1 \/ (Len(g) = 2 /\ buffer = <<>>))
  BY <1>2, <1>4, GroupOfEvents
<1>6. buffer \in Seq(Events) /\ Once(buffer) /\ Once(g) /\ Elems(g) \cap Elems(buffer) = {}
  BY <1>1, <1>2, GroupsApart DEF TypeOK, TwiceInv, WaitsOnce, Unpublished, Waiting
<1>7. /\ Elems(Pushed(g)) \subseteq Elems(buffer) \cup Elems(g)
      /\ \A s \in Taken(g) : Elems(s) \subseteq Elems(buffer) \cup Elems(g)
  BY <1>2, <1>6, GroupOnce
<1>8. /\ Taken(g) # {} => Pushed(g) = <<>>
      /\ BufferSize > 1 => \A s, t \in Taken(g) : s = t
  BY <1>5, <1>6, GroupWhole
<1>9. \A f \in flights' : \/ f \in flights /\ f.owner # c
                          \/ f.owner = c /\ f.batch \in Taken(g)
                                /\ f = [owner |-> c, batch |-> f.batch]
  BY <1>3
<1>10. \A f \in flights' : /\ f.owner \in Clients
                           /\ pc'[f.owner] \in {"publishing", "flushing"}
                           /\ Elems(f.batch) \subseteq EventsOf(f.owner)
  BY <1>3, <1>4, <1>5, <1>7, <1>9 DEF Calm
<1>11. ASSUME NEW f \in flights', NEW h \in flights', f.owner = h.owner,
              BufferSize > 1 \/ pc'[f.owner] = "flushing"
       PROVE  f = h
  <2>1. CASE f.owner = c
    <3>1. BufferSize > 1
      BY <1>3, <1>11, <2>1
    <3>2. f.batch = h.batch
      BY <1>8, <1>9, <1>11, <2>1, <3>1
    <3> QED
      BY <1>9, <1>11, <2>1, <3>2
  <2>2. CASE f.owner # c
    BY <1>3, <1>9, <1>11, <2>2 DEF Calm
  <2> QED
    BY <2>1, <2>2
<1>12. \A d \in Clients : Runnable(d)' => Runnable(d)
  BY <1>3 DEF Runnable, InFlight
<1>13. CASE Taken(g) = {}
  <2>1. Runnable(c)'
    BY <1>3, <1>13 DEF Runnable, InFlight
  <2>2. next'[c] # 1
    <3>1. next[c] \in Nat \ {0} /\ next \in [Clients -> Nat \ {0}]
      BY DEF TypeOK
    <3> QED
      BY <1>1, <1>3, <3>1
  <2>3. ~Quiet'
    BY <2>1 DEF Quiet
  <2>4. \A d \in Clients : Runnable(d)' => d = c
    BY <1>4, <1>12
  <2>5. Elems(buffer') \subseteq EventsOf(c)
    BY <1>3, <1>4, <1>5, <1>7
  <2> QED
    BY <1>10, <1>11, <2>2, <2>3, <2>4, <2>5 DEF Calm
<1>14. CASE Taken(g) # {}
  <2>1. \A d \in Clients : ~Runnable(d)'
    <3>1. PICK b \in Taken(g) : TRUE
      BY <1>14
    <3>2. [owner |-> c, batch |-> b] \in flights' /\ [owner |-> c, batch |-> b].owner = c
      BY <1>3
    <3>3. InFlight(c)'
      BY <3>2 DEF InFlight
    <3> QED
      BY <1>4, <1>12, <3>3 DEF Runnable
  <2>2. buffer' = <<>>
    BY <1>3, <1>8, <1>14
  <2> QED
    BY <1>10, <1>11, <2>1, <2>2 DEF Calm
<1> QED
  BY <1>13, <1>14

\* A request flushes what it has left in the buffer.
LEMMA CalmFlush ==
    ASSUME TypeOK, Calm, NEW c \in Clients, FinalFlush(c)
    PROVE  Calm'
<1>1. /\ pc[c] = "publishing" /\ (\A f \in flights : f.owner # c) /\ Flush(c)
      /\ pc' = [pc EXCEPT ![c] = IF buffer = <<>> THEN "ok" ELSE "flushing"]
      /\ pc \in [Clients -> {"idle", "publishing", "flushing", "ok", "error"}]
  BY DEF FinalFlush, Runnable, InFlight, TypeOK
<1>2. /\ Elems(buffer) \subseteq EventsOf(c)
      /\ \A d \in Clients : Runnable(d) => d = c
  BY DEF Calm, FinalFlush
<1>3. /\ buffer' = <<>> /\ flights \subseteq flights'
      /\ \A f \in flights' : \/ f \in flights /\ f.owner # c
                             \/ f = [owner |-> c, batch |-> buffer] /\ buffer # <<>>
  BY <1>1 DEF Flush, Depart
<1>4. \A f \in flights' : \/ f \in flights /\ f.owner # c
                          \/ /\ f = [owner |-> c, batch |-> buffer] /\ f.owner = c
                             /\ f.batch = buffer /\ pc'[c] = "flushing"
  BY <1>1, <1>3
<1>5. \A f \in flights' : /\ f.owner \in Clients
                          /\ pc'[f.owner] \in {"publishing", "flushing"}
                          /\ Elems(f.batch) \subseteq EventsOf(f.owner)
  BY <1>1, <1>2, <1>4 DEF Calm
<1>6. ASSUME NEW f \in flights', NEW h \in flights', f.owner = h.owner,
             BufferSize > 1 \/ pc'[f.owner] = "flushing"
      PROVE  f = h
  <2>1. CASE f.owner = c
    BY <1>4, <1>6, <2>1
  <2>2. CASE f.owner # c
    <3>1. f \in flights /\ h \in flights /\ f.owner \in Clients /\ pc'[f.owner] = pc[f.owner]
      BY <1>1, <1>4, <1>5, <1>6, <2>2
    <3> QED
      BY <1>6, <3>1 DEF Calm
  <2> QED
    BY <2>1, <2>2
<1>7. \A d \in Clients : ~Runnable(d)'
  <2>1. ASSUME NEW d \in Clients, Runnable(d)' PROVE FALSE
    <3>1. d # c
      BY <1>1, <2>1 DEF Runnable
    <3>2. Runnable(d)
      BY <1>1, <1>3, <2>1, <3>1 DEF Runnable, InFlight
    <3> QED
      BY <1>2, <3>1, <3>2
  <2> QED
    BY <2>1
<1> QED
  BY <1>3, <1>5, <1>6, <1>7 DEF Calm

\* A request that awaits its batch hears that the rows are written.
LEMMA CalmInserted ==
    ASSUME TypeOK, Calm, NEW f \in flights, Inserted(f)
    PROVE  Calm'
<1>1. /\ Quiet /\ flights' = flights \ {f} /\ buffer' = buffer
      /\ \A c \in Clients : pc'[c] = IF c = f.owner /\ pc[c] = "flushing" THEN "ok" ELSE pc[c]
  BY DEF Inserted
<1>2. buffer' = <<>> /\ \A c \in Clients : ~Runnable(c)
  BY <1>1 DEF Calm, Quiet
<1>3. ASSUME NEW g \in flights'
      PROVE  /\ g \in flights /\ g.owner \in Clients /\ pc'[g.owner] = pc[g.owner]
             /\ pc[g.owner] \in {"publishing", "flushing"}
             /\ Elems(g.batch) \subseteq EventsOf(g.owner)
  BY <1>1 DEF Calm
<1>4. ASSUME NEW c \in Clients, Runnable(c)' PROVE c = f.owner
  BY <1>1, <1>2, <1>4 DEF Runnable, InFlight
<1>5. Elems(buffer') = {}
  BY <1>2 DEF Elems
<1> QED
  BY <1>1, <1>2, <1>3, <1>4, <1>5 DEF Calm

LEMMA CalmStep == TypeOK /\ TwiceInv /\ CalmInv /\ [Next]_vars => CalmInv'
<1> SUFFICES ASSUME TypeOK, TwiceInv, CalmInv, [Next]_vars, failures' = 0, alive' = Tasks
             PROVE  Calm'
  BY DEF CalmInv
<1>0. failures \in Nat /\ alive \subseteq Tasks
  BY PublisherAssumption DEF TypeOK
<1>1. alive = Tasks /\ failures = 0 /\ Calm
  <2>1. alive' \subseteq alive /\ failures' \in {failures, failures + 1}
    BY DEF Next, Begin, PublishGroup, FinalFlush, TimerFlush, Inserted, Refused, Fault, PutBack,
           Failed, Die, DeleteTask, Shutdown, Cleanup, Exit, GraceRunsOut, vars
  <2>2. failures = 0
    BY <1>0, <2>1
  <2>3. Tasks \subseteq alive
    BY <2>1
  <2>4. alive = Tasks
    BY <1>0, <2>3
  <2> QED
    BY <2>2, <2>4 DEF CalmInv
<1>2. ASSUME UNCHANGED <<buffer, flights, pc, next>> PROVE Calm'
  BY <1>1, <1>2 DEF Calm, Quiet, Runnable, InFlight
<1>3. ASSUME NEW c \in Clients, Begin(c) PROVE Calm'
  <2>1. /\ Quiet /\ pc[c] = "idle" /\ pc' = [pc EXCEPT ![c] = "publishing"]
        /\ UNCHANGED <<buffer, flights, next>>
        /\ pc \in [Clients -> {"idle", "publishing", "flushing", "ok", "error"}]
    BY <1>3 DEF Begin, TypeOK
  <2>2. buffer' = <<>> /\ \A d \in Clients : ~Runnable(d)
    BY <1>1, <2>1 DEF Calm, Quiet
  <2>3. ASSUME NEW d \in Clients, Runnable(d)' PROVE d = c
    BY <2>1, <2>2, <2>3 DEF Runnable, InFlight
  <2>4. \A f \in flights' : f \in flights /\ f.owner # c /\ f.owner \in Clients
    BY <1>1, <2>1 DEF Calm
  <2>5. Elems(buffer') = {}
    BY <2>2 DEF Elems
  <2> QED
    BY <1>1, <2>1, <2>2, <2>3, <2>4, <2>5 DEF Calm
<1>4. ASSUME NEW c \in Clients, PublishGroup(c) \/ FinalFlush(c) PROVE Calm'
  BY <1>1, <1>4, CalmGroup, CalmFlush
<1>5. ~TimerFlush
  BY <1>1 DEF Calm, TimerFlush
<1>6. ASSUME NEW f \in flights, Inserted(f) PROVE Calm'
  BY <1>1, <1>6, CalmInserted
<1>7. ASSUME NEW f \in flights, Refused(f) \/ Fault(f) PROVE FALSE
  BY <1>0, <1>1, <1>7, NothingRefused DEF Refused, Fault
<1>8. ASSUME NEW t \in Tasks, DeleteTask(t) PROVE Calm'
  BY <1>2, <1>8 DEF DeleteTask
<1>9. CASE Shutdown \/ Exit \/ UNCHANGED vars
  BY <1>2, <1>9 DEF Shutdown, Exit, vars
<1>10. CASE Cleanup
  <2>1. Quiet
    BY <1>10 DEF Cleanup, Quiet, Runnable
  <2>2. buffer = <<>>
    BY <1>1, <2>1 DEF Calm
  <2>3. UNCHANGED <<buffer, flights, pc, next>>
    BY <1>10, <2>2 DEF Cleanup, Flush, Depart
  <2> QED
    BY <1>2, <2>3
<1>11. CASE GraceRunsOut
  <2>1. /\ buffer' = <<>> /\ flights' = {}
        /\ \A c \in Clients : pc'[c] # "publishing"
    BY <1>11 DEF GraceRunsOut, Die
  <2> QED
    BY <2>1 DEF Calm, Runnable
<1> QED
  BY <1>3, <1>4, <1>5, <1>6, <1>7, <1>8, <1>9, <1>10, <1>11 DEF Next

-----------------------------------------------------------------------------
(* The events of a request keep their order *)

LEMMA PositionOf ==
    ASSUME NEW c \in Clients, NEW g \in DOMAIN Script[c], NEW i \in DOMAIN Script[c][g]
    PROVE  Position(c, Script[c][g][i]) = <<g, i>>
<1> DEFINE S == {<<h, j>> : h \in 1..Len(Script[c]), j \in 1..2}
           At(p) == p[2] \in DOMAIN Script[c][p[1]] /\ Script[c][p[1]][p[2]] = Script[c][g][i]
<1>1. DOMAIN Script[c] = 1..Len(Script[c])
  <2>1. Script[c] \in Seq(Seq(Events))
    BY PublisherAssumption
  <2> QED
    BY <2>1, LenProperties
<1>2. i \in 1..2
  BY ScriptType, LenProperties
<1>3. <<g, i>> \in S /\ At(<<g, i>>)
  BY <1>1, <1>2
<1>4. ASSUME NEW p \in S, At(p) PROVE p = <<g, i>>
  <2>1. PICK h \in DOMAIN Script[c], j \in 1..2 : p = <<h, j>>
    BY <1>1
  <2>2. j \in DOMAIN Script[c][h] /\ Script[c][h][j] = Script[c][g][i]
    BY <1>4, <2>1
  <2>3. h = g /\ j = i
    BY <2>2, PublisherAssumption
  <2> QED
    BY <2>1, <2>3
<1>5. Position(c, Script[c][g][i]) = CHOOSE p \in S : At(p)
  BY DEF Position
<1> HIDE DEF S, At
<1> QED
  BY <1>3, <1>4, <1>5

LEMMA OneRequest ==
    ASSUME NEW c \in Clients, NEW n \in DOMAIN Script[c], NEW i \in DOMAIN Script[c][n],
           NEW d \in Clients, Script[c][n][i] \in EventsOf(d)
    PROVE  d = c
<1>1. PICK h \in DOMAIN Script[d] : Script[c][n][i] \in Elems(Script[d][h])
  BY DEF EventsOf
<1>2. PICK j \in DOMAIN Script[d][h] : Script[c][n][i] = Script[d][h][j]
  BY <1>1 DEF Elems
<1> QED
  BY <1>2, PublisherAssumption

\* e comes after the events of its request that are in s.
Follows(s, e) ==
    \A c \in Clients : \A x \in Elems(s) \cap EventsOf(c) :
        e \in EventsOf(c) /\ x # e => Before(Position(c, x), Position(c, e))

LEMMA OrderAppend ==
    ASSUME NEW s \in Seq(Events), NEW e \in Events, InPublishOrder(s), Follows(s, e)
    PROVE  InPublishOrder(Append(s, e))
<1>1. /\ Len(s) \in Nat /\ DOMAIN s = 1..Len(s)
      /\ DOMAIN Append(s, e) = 1..(Len(s) + 1)
      /\ \A i \in 1..Len(s) : Append(s, e)[i] = s[i]
      /\ Append(s, e)[Len(s) + 1] = e
  BY AppendProperties, LenProperties
<1> SUFFICES ASSUME NEW c \in Clients, NEW i \in 1..(Len(s) + 1), NEW j \in 1..(Len(s) + 1), i < j,
                    Append(s, e)[i] \in EventsOf(c), Append(s, e)[j] \in EventsOf(c),
                    Append(s, e)[i] # Append(s, e)[j]
             PROVE  Before(Position(c, Append(s, e)[i]), Position(c, Append(s, e)[j]))
  BY <1>1 DEF InPublishOrder
<1>2. i \in 1..Len(s) /\ Append(s, e)[i] = s[i] /\ s[i] \in Elems(s)
  BY <1>1 DEF Elems
<1>3. CASE j \in 1..Len(s)
  BY <1>1, <1>2, <1>3 DEF InPublishOrder
<1>4. CASE j = Len(s) + 1
  BY <1>1, <1>2, <1>4 DEF Follows
<1> QED
  BY <1>1, <1>3, <1>4

\* The buffer b and the batches B under way are in order; until the second failure, also
\* what the buffer would be if a batch came back.
Straight(n, B, b) ==
    /\ InPublishOrder(b)
    /\ \A s \in B : InPublishOrder(s) /\ (n <= 1 => InPublishOrder(s \o b))

LEMMA PushStraight ==
    ASSUME NEW n, NEW B \in SUBSET Seq(Events), NEW b \in Seq(Events), NEW e \in Events,
           Straight(n, B, b), Follows(b, e), \A s \in B : Follows(s, e)
    PROVE  Straight(n, B \cup Sent(b, e), Push(b, e))
<1>1. InPublishOrder(Append(b, e)) /\ Append(b, e) \in Seq(Events)
  BY OrderAppend, AppendProperties DEF Straight
<1>2. CASE Full(Append(b, e))
  <2>1. Push(b, e) = <<>> /\ Sent(b, e) = {Append(b, e)}
    BY <1>2 DEF Push, Sent
  <2>2. InPublishOrder(<<>>)
    BY DEF InPublishOrder
  <2>3. \A s \in B \cup Sent(b, e) : s \o <<>> = s /\ InPublishOrder(s)
    BY <1>1, <2>1, ConcatEmptySeq DEF Straight
  <2> QED
    BY <2>1, <2>2, <2>3 DEF Straight
<1>3. CASE ~Full(Append(b, e))
  <2>1. Push(b, e) = Append(b, e) /\ Sent(b, e) = {}
    BY <1>3 DEF Push, Sent
  <2>2. ASSUME NEW s \in B, n <= 1 PROVE InPublishOrder(s \o Append(b, e))
    <3>1. s \o b \in Seq(Events) /\ Elems(s \o b) = Elems(s) \cup Elems(b)
      BY ConcatProperties, ElemsOfConcat
    <3>2. Follows(s \o b, e)
      BY <3>1 DEF Follows
    <3>3. InPublishOrder(Append(s \o b, e))
      BY <2>2, <3>1, <3>2, OrderAppend DEF Straight
    <3>4. s \o Append(b, e) = Append(s \o b, e)
      BY AppendProperties, ConcatProperties
    <3> QED
      BY <3>3, <3>4
  <2> QED
    BY <1>1, <2>1, <2>2 DEF Straight
<1> QED
  BY <1>2, <1>3

\* The next group of c comes after everything of c that waits.
LEMMA GroupFollows ==
    ASSUME TwiceInv, TypeOK, NEW c \in Clients, NEW n \in DOMAIN Script[c], n = next[c],
           NEW i \in DOMAIN Script[c][n], NEW s, Elems(s) \subseteq Waiting
    PROVE  Follows(s, Script[c][n][i])
<1> SUFFICES ASSUME NEW d \in Clients, NEW x \in Waiting, x \in EventsOf(d),
                    Script[c][n][i] \in EventsOf(d)
             PROVE  Before(Position(d, x), Position(d, Script[c][n][i]))
  BY DEF Follows
<1>1. PICK g \in DOMAIN Script[d] : \E j \in DOMAIN Script[d][g] : x = Script[d][g][j]
  BY DEF EventsOf, Elems
<1>2. PICK j \in DOMAIN Script[d][g] : x = Script[d][g][j]
  BY <1>1
<1>3. d = c
  BY OneRequest DEF EventsOf
<1>4. g \in Nat /\ n \in Nat
  <2>1. Script[c] \in Seq(Seq(Events))
    BY PublisherAssumption
  <2> QED
    BY <1>3, <2>1, LenProperties
<1>5. ~(g >= n)
  BY <1>2, <1>3 DEF TwiceInv, Unpublished, Elems
<1>6. Position(d, x) = <<g, j>> /\ Position(d, Script[c][n][i]) = <<n, i>>
  BY <1>2, <1>3, PositionOf
<1> QED
  BY <1>4, <1>5, <1>6 DEF Before

Batches == {f.batch : f \in flights}

LEMMA GroupStraight ==
    ASSUME TwiceInv, TypeOK, NEW c \in Clients, NEW n \in DOMAIN Script[c], n = next[c],
           Straight(failures, Batches, buffer)
    PROVE  Straight(failures, Batches \cup Taken(Script[c][n]), Pushed(Script[c][n]))
<1> DEFINE g == Script[c][n]
<1>1. g \in Seq(Events) /\ Len(g) \in {1, 2} /\ DOMAIN g = 1..Len(g)
  BY ScriptType, LenProperties
<1>2. /\ \A i \in DOMAIN g : g[i] \in Events
      /\ buffer \in Seq(Events) /\ Batches \in SUBSET Seq(Events)
  BY <1>1, ElementOfSeq DEF TypeOK, Batches
<1>3. Elems(buffer) \subseteq Waiting /\ \A s \in Batches : Elems(s) \subseteq Waiting
  BY DEF Waiting, Flying, Batches
<1>4. \A i \in DOMAIN g : Follows(buffer, g[i]) /\ \A s \in Batches : Follows(s, g[i])
  BY <1>3, GroupFollows
<1>5. g[1] \in Events /\ Straight(failures, Batches \cup Sent(buffer, g[1]), Push(buffer, g[1]))
  BY <1>1, <1>2, <1>4, PushStraight
<1>6. CASE Len(g) = 1
  BY <1>5, <1>6 DEF Pushed, Taken
<1>7. CASE Len(g) = 2
  <2> DEFINE b == Push(buffer, g[1])
             B == Batches \cup Sent(buffer, g[1])
  <2>1. 1 \in DOMAIN g /\ 2 \in DOMAIN g /\ g[2] \in Events
    BY <1>1, <1>2, <1>7
  <2>2. b \in Seq(Events) /\ B \in SUBSET Seq(Events)
    BY <1>2, <1>5, PushKeeps
  <2>3. /\ Elems(b) \subseteq Elems(buffer) \cup {g[1]}
        /\ \A s \in Sent(buffer, g[1]) : Elems(s) \subseteq Elems(buffer) \cup {g[1]}
    <3>1. Elems(Append(buffer, g[1])) = Elems(buffer) \cup {g[1]}
      <4>1. Once(buffer) /\ g[1] \notin Elems(buffer)
        <5>1. g[1] \in Elems(g) /\ n >= next[c]
          BY <2>1 DEF Elems, TypeOK
        <5>2. Elems(g) \cap Waiting = {}
          BY <5>1 DEF TwiceInv, Unpublished
        <5> QED
          BY <1>3, <5>1, <5>2 DEF TwiceInv, WaitsOnce
      <4> QED
        BY <1>2, <1>5, <4>1, OnceAppend
    <3>2. Elems(<<>>) = {}
      BY DEF Elems
    <3> QED
      BY <3>1, <3>2 DEF Push, Sent
  <2>4. ASSUME NEW s, Elems(s) \subseteq Elems(buffer) \cup {g[1]} PROVE Follows(s, g[2])
    <3> SUFFICES ASSUME NEW d \in Clients, NEW x \in Elems(s), x \in EventsOf(d),
                        g[2] \in EventsOf(d), x # g[2]
                 PROVE  Before(Position(d, x), Position(d, g[2]))
      BY DEF Follows
    <3>1. CASE x \in Elems(buffer)
      BY <1>4, <2>1, <3>1 DEF Follows
    <3>2. CASE x = g[1]
      <4>1. d = c
        BY <2>1, OneRequest
      <4>2. Position(d, x) = <<n, 1>> /\ Position(d, g[2]) = <<n, 2>>
        BY <2>1, <3>2, <4>1, PositionOf
      <4> QED
        BY <4>2 DEF Before
    <3> QED
      BY <2>4, <3>1, <3>2
  <2>5. Follows(b, g[2]) /\ \A s \in B : Follows(s, g[2])
    BY <1>4, <2>1, <2>3, <2>4
  <2>6. Straight(failures, B, b)
    BY <1>5
  <2> HIDE DEF b, B, g
  <2>7. Straight(failures, B \cup Sent(b, g[2]), Push(b, g[2]))
    BY <2>1, <2>2, <2>5, <2>6, PushStraight
  <2>8. /\ Pushed(g) = Push(b, g[2])
        /\ Taken(g) = Sent(buffer, g[1]) \cup Sent(b, g[2])
    BY <1>7 DEF Pushed, Taken, b
  <2>9. Batches \cup Taken(g) = B \cup Sent(b, g[2])
    BY <2>8 DEF B
  <2> QED
    BY <2>7, <2>8, <2>9 DEF g
<1> QED
  BY <1>1, <1>6, <1>7

OrderInv ==
    failures <= 2 /\ BufferSize > 1 /\ alive = Tasks => Straight(failures, Batches, buffer)

LEMMA OrderInit == Init => OrderInv
BY DEF Init, OrderInv, Straight, Batches, InPublishOrder

LEMMA OrderIsKept == OrderInv => OrderKept
BY DEF OrderInv, Straight, Batches, OrderKept

LEMMA FlushStraight ==
    ASSUME TypeOK, NEW o, Flush(o), Straight(failures, Batches, buffer)
    PROVE  Straight(failures, Batches', buffer')
<1>1. buffer' = <<>> /\ \A s \in Batches' : s \in Batches \/ s = buffer
  BY DEF Flush, Depart, Batches
<1>2. InPublishOrder(<<>>)
  BY DEF InPublishOrder
<1>3. \A s \in Batches' : InPublishOrder(s) /\ s \in Seq(Events)
  <2>1. \A s \in Batches : s \in Seq(Events)
    BY DEF TypeOK, Batches
  <2> QED
    BY <1>1, <2>1 DEF Straight, TypeOK
<1>4. \A s \in Batches' : s \o <<>> = s
  BY <1>3, ConcatEmptySeq
<1> QED
  BY <1>1, <1>2, <1>3, <1>4 DEF Straight

\* Batches of different requests in a row are in order when each is.
LEMMA OrderApart ==
    ASSUME NEW s \in Seq(Events), NEW t \in Seq(Events), NEW c \in Clients, NEW d \in Clients,
           c # d, Elems(s) \subseteq EventsOf(c), Elems(t) \subseteq EventsOf(d),
           InPublishOrder(s), InPublishOrder(t)
    PROVE  InPublishOrder(s \o t)
<1>1. /\ Len(s) \in Nat /\ Len(t) \in Nat /\ DOMAIN s = 1..Len(s) /\ DOMAIN t = 1..Len(t)
      /\ DOMAIN (s \o t) = 1..(Len(s) + Len(t))
      /\ \A i \in 1..(Len(s) + Len(t)) :
            (s \o t)[i] = IF i <= Len(s) THEN s[i] ELSE t[i - Len(s)]
  BY ConcatProperties, LenProperties
<1>2. ASSUME NEW a \in Clients, NEW e, e \in EventsOf(a), NEW b \in Clients, e \in EventsOf(b)
      PROVE  a = b
  <2>1. PICK n \in DOMAIN Script[a] : e \in Elems(Script[a][n])
    BY <1>2 DEF EventsOf
  <2>2. PICK i \in DOMAIN Script[a][n] : e = Script[a][n][i]
    BY <2>1 DEF Elems
  <2> QED
    BY <1>2, <2>2, OneRequest
<1> SUFFICES ASSUME NEW a \in Clients, NEW i \in DOMAIN (s \o t), NEW j \in DOMAIN (s \o t),
                    i < j, (s \o t)[i] \in EventsOf(a), (s \o t)[j] \in EventsOf(a),
                    (s \o t)[i] # (s \o t)[j]
             PROVE  Before(Position(a, (s \o t)[i]), Position(a, (s \o t)[j]))
  BY DEF InPublishOrder
<1>3. CASE j <= Len(s)
  <2>1. i \in DOMAIN s /\ j \in DOMAIN s /\ (s \o t)[i] = s[i] /\ (s \o t)[j] = s[j]
    BY <1>1, <1>3
  <2> QED
    BY <2>1 DEF InPublishOrder
<1>4. CASE ~(i <= Len(s))
  <2>1. /\ i - Len(s) \in DOMAIN t /\ j - Len(s) \in DOMAIN t /\ i - Len(s) < j - Len(s)
        /\ (s \o t)[i] = t[i - Len(s)] /\ (s \o t)[j] = t[j - Len(s)]
    BY <1>1, <1>4
  <2> QED
    BY <2>1 DEF InPublishOrder
<1>5. CASE i <= Len(s) /\ ~(j <= Len(s))
  <2>1. /\ i \in DOMAIN s /\ j - Len(s) \in DOMAIN t
        /\ (s \o t)[i] = s[i] /\ (s \o t)[j] = t[j - Len(s)]
    BY <1>1, <1>5
  <2>2. (s \o t)[i] \in EventsOf(c) /\ (s \o t)[j] \in EventsOf(d)
    BY <2>1 DEF Elems
  <2>3. a = c /\ a = d
    BY <1>2, <2>2
  <2> QED
    BY <2>3
<1> QED
  BY <1>1, <1>3, <1>4, <1>5

\* The first batch that fails comes back to an empty buffer; any other belongs to
\* another request.
LEMMA FirstFailure ==
    ASSUME TypeOK, Calm, Quiet, BufferSize > 1, NEW f \in flights, Failed(f),
           buffer' = f.batch \o buffer, Straight(0, Batches, buffer)
    PROVE  Straight(1, Batches', buffer')
<1>1. f.batch \in Seq(Events) /\ f.batch \in Batches /\ flights' = flights \ {f}
  BY DEF TypeOK, Batches, Failed
<1>2. buffer = <<>>
  BY DEF Calm
<1>3. buffer' = f.batch
  BY <1>1, <1>2, ConcatEmptySeq
<1>4. ASSUME NEW g \in flights' PROVE InPublishOrder(g.batch) /\ InPublishOrder(g.batch \o f.batch)
  <2>1. g \in flights /\ g # f /\ g.batch \in Seq(Events) /\ g.batch \in Batches
    BY <1>1 DEF TypeOK, Batches
  <2>2. /\ g.owner \in Clients /\ f.owner \in Clients /\ g.owner # f.owner
        /\ Elems(g.batch) \subseteq EventsOf(g.owner) /\ Elems(f.batch) \subseteq EventsOf(f.owner)
    BY <2>1 DEF Calm
  <2>3. InPublishOrder(g.batch) /\ InPublishOrder(f.batch)
    BY <1>1, <2>1 DEF Straight
  <2> QED
    BY <1>1, <2>1, <2>2, <2>3, OrderApart
<1> QED
  BY <1>1, <1>3, <1>4 DEF Straight, Batches

LEMMA OrderStep == TypeOK /\ TwiceInv /\ CalmInv /\ OrderInv /\ [Next]_vars => OrderInv'
<1> SUFFICES ASSUME TypeOK, TwiceInv, CalmInv, OrderInv, [Next]_vars, failures' <= 2,
                    BufferSize > 1, alive' = Tasks
             PROVE  Straight(failures', Batches', buffer')
  BY DEF OrderInv
<1>0. failures \in Nat /\ alive \subseteq Tasks
  BY PublisherAssumption DEF TypeOK
<1>1. alive = Tasks /\ failures <= 2 /\ Straight(failures, Batches, buffer)
  <2>1. alive' \subseteq alive /\ failures' \in {failures, failures + 1}
    BY DEF Next, Begin, PublishGroup, FinalFlush, TimerFlush, Inserted, Refused, Fault, PutBack,
           Failed, Die, DeleteTask, Shutdown, Cleanup, Exit, GraceRunsOut, vars
  <2> QED
    BY <1>0, <2>1 DEF OrderInv
<1>2. ASSUME UNCHANGED <<buffer, failures>>, flights' \subseteq flights
      PROVE  Straight(failures', Batches', buffer')
  BY <1>1, <1>2 DEF Straight, Batches
<1>3. ASSUME Die PROVE Straight(failures', Batches', buffer')
  BY <1>3 DEF Die, Straight, Batches, InPublishOrder
<1>4. ASSUME NEW c \in Clients, PublishGroup(c) PROVE Straight(failures', Batches', buffer')
  <2>1. PICK n \in DOMAIN Script[c] : n = next[c]
    BY <1>4 DEF PublishGroup
  <2>2. /\ buffer' = Pushed(Script[c][n]) /\ Depart(c, Taken(Script[c][n]))
        /\ failures' = failures
    BY <1>4, <2>1 DEF PublishGroup
  <2>3. \A s \in Batches' : s \in Batches \cup Taken(Script[c][n])
    BY <2>2 DEF Depart, Batches
  <2> QED
    BY <1>1, <2>1, <2>2, <2>3, GroupStraight DEF Straight
<1>5. ASSUME NEW o, Flush(o), failures' = failures PROVE Straight(failures', Batches', buffer')
  BY <1>1, <1>5, FlushStraight
<1>6. ASSUME NEW f \in flights, Fault(f) PROVE Straight(failures', Batches', buffer')
  <2>1. failures' = failures + 1 /\ failures \in {0, 1}
    BY <1>0, <1>6 DEF Fault
  <2>2. CASE Failed(f) /\ buffer' = f.batch \o buffer
    <3>1. CASE failures = 0
      <4>1. Calm /\ Quiet
        BY <1>1, <1>6, <3>1 DEF CalmInv, Fault
      <4> QED
        <5>1. failures' = 1 /\ Straight(0, Batches, buffer)
          BY <1>1, <2>1, <3>1
        <5>2. Straight(1, Batches', buffer')
          BY <2>2, <4>1, <5>1, FirstFailure
        <5> QED
          BY <5>1, <5>2
    <3>2. CASE failures = 1
      <4>1. f.batch \in Batches /\ \A s \in Batches' : s \in Batches
        BY <2>2 DEF Failed, Batches
      <4>2. ~(2 <= 1) /\ 1 <= 1
        OBVIOUS
      <4> QED
        BY <1>1, <2>1, <2>2, <3>2, <4>1, <4>2 DEF Straight
    <3> QED
      BY <2>1, <3>1, <3>2
  <2> QED
    BY <1>3, <1>6, <2>2 DEF Fault, PutBack
<1>7. ASSUME NEW f \in flights, Refused(f) PROVE FALSE
  BY <1>1, <1>7, NothingRefused DEF Refused
<1>8. ASSUME NEW f \in flights, Inserted(f) PROVE Straight(failures', Batches', buffer')
  BY <1>2, <1>8 DEF Inserted
<1>9. ASSUME NEW c \in Clients, Begin(c) \/ FinalFlush(c)
      PROVE  Straight(failures', Batches', buffer')
  BY <1>2, <1>5, <1>9 DEF Begin, FinalFlush
<1>10. CASE TimerFlush \/ Cleanup
  BY <1>5, <1>10 DEF TimerFlush, Cleanup
<1>11. ASSUME NEW t \in Tasks, DeleteTask(t) PROVE Straight(failures', Batches', buffer')
  BY <1>2, <1>11 DEF DeleteTask
<1>12. CASE Shutdown \/ Exit \/ UNCHANGED vars
  BY <1>2, <1>12 DEF Shutdown, Exit, vars
<1>13. CASE GraceRunsOut
  BY <1>3, <1>13 DEF GraceRunsOut
<1> QED
  BY <1>4, <1>6, <1>7, <1>8, <1>9, <1>10, <1>11, <1>12, <1>13 DEF Next

\* Until a third failure, and while no task is deleted, the events of one request keep
\* their order in the buffer and in every batch, whoever flushes in between: the batch
\* that comes back goes before what was published meanwhile.
THEOREM OrderHeld == Spec => []OrderKept
BY TypeInit, TypeStep, EndingInit, EndingStep, TwiceInit, TwiceStep, CalmInit, CalmStep,
   OrderInit, OrderStep, OrderIsKept, PTL DEF Spec

-----------------------------------------------------------------------------
(* What a reply vouches for *)

\* The promise PersistedWhenAnswered holds until something fails: a request that has
\* replied then has its events in the log.
AnsweredLogged ==
    failures = 0 /\ alive = Tasks /\ server # "killed" => PersistedWhenAnswered

\* From its final flush on, a request has nothing left in the buffer.
FlushedSent ==
    failures = 0 /\ alive = Tasks /\ server # "killed" =>
        \A c \in Clients :
            pc[c] \in {"flushing", "ok"} => EventsOf(c) \subseteq Elems(logged) \cup Flying

\* The groups that a request has behind it have been published.
BehindPublished == \A c \in Clients : PublishedBy(c) \subseteq published

LEMMA BehindInit == Init => BehindPublished
BY DEF Init, BehindPublished, PublishedBy

LEMMA BehindStep == TypeOK /\ BehindPublished /\ [Next]_vars => BehindPublished'
<1> SUFFICES ASSUME TypeOK, BehindPublished, [Next]_vars PROVE BehindPublished'
  OBVIOUS
<1>1. ASSUME NEW c \in Clients, PublishGroup(c) PROVE BehindPublished'
  <2> SUFFICES ASSUME NEW d \in Clients, NEW h \in 1..(next'[d] - 1)
               PROVE  Elems(Script[d][h]) \subseteq published'
    BY DEF BehindPublished, PublishedBy
  <2>1. /\ next \in [Clients -> Nat \ {0}] /\ next' = [next EXCEPT ![c] = @ + 1]
        /\ published' = published \cup Elems(Script[c][next[c]])
    BY <1>1 DEF PublishGroup, TypeOK
  <2>2. h \in 1..(next[d] - 1) \/ (d = c /\ h = next[c])
    BY <2>1
  <2>3. CASE h \in 1..(next[d] - 1)
    BY <2>1, <2>3 DEF BehindPublished, PublishedBy
  <2>4. CASE d = c /\ h = next[c]
    BY <2>1, <2>4
  <2> QED
    BY <2>2, <2>3, <2>4
<1>2. ASSUME UNCHANGED <<next, published>> PROVE BehindPublished'
  BY <1>2 DEF BehindPublished, PublishedBy
<1>3. ASSUME NEW f \in flights, PutBack(f) PROVE UNCHANGED <<next, published>>
  BY <1>3 DEF PutBack, Die, Failed
<1>4. ASSUME NEW f \in flights, Inserted(f) \/ Refused(f) \/ Fault(f) PROVE BehindPublished'
  BY <1>2, <1>3, <1>4 DEF Inserted, Refused, Fault
<1>5. ASSUME NEW c \in Clients, Begin(c) \/ FinalFlush(c) PROVE BehindPublished'
  BY <1>2, <1>5 DEF Begin, FinalFlush
<1>6. ASSUME NEW t \in Tasks, DeleteTask(t) PROVE BehindPublished'
  BY <1>2, <1>6 DEF DeleteTask
<1>7. CASE TimerFlush \/ Shutdown \/ Cleanup \/ Exit \/ GraceRunsOut \/ UNCHANGED vars
  BY <1>2, <1>7 DEF TimerFlush, Shutdown, Cleanup, Exit, GraceRunsOut, Die, vars
<1> QED
  BY <1>1, <1>4, <1>5, <1>6, <1>7 DEF Next

LEMMA AllPublished ==
    ASSUME TypeOK, BehindPublished, NEW c \in Clients, next[c] \notin DOMAIN Script[c]
    PROVE  EventsOf(c) \subseteq published
<1>1. DOMAIN Script[c] = 1..Len(Script[c]) /\ Len(Script[c]) \in Nat
  <2>1. Script[c] \in Seq(Seq(Events))
    BY PublisherAssumption
  <2> QED
    BY <2>1, LenProperties
<1>2. next[c] \in Nat \ {0}
  BY DEF TypeOK
<1>3. DOMAIN Script[c] \subseteq 1..(next[c] - 1)
  BY <1>1, <1>2
<1> QED
  BY <1>3 DEF EventsOf, BehindPublished, PublishedBy

LEMMA KilledStays ==
    ASSUME Dead, server = "killed", [Next]_vars
    PROVE  UNCHANGED vars
BY DEF Dead, Next, Begin, PublishGroup, Runnable, FinalFlush, TimerFlush, DeleteTask, Shutdown,
       Cleanup, Exit, GraceRunsOut

LEMMA FlushedInit == Init => FlushedSent
BY DEF Init, FlushedSent

LEMMA FlushedStep ==
    TypeOK /\ Dead /\ NoEventForgotten /\ BehindPublished /\ FlushedSent /\ [Next]_vars
        => FlushedSent'
<1> SUFFICES ASSUME TypeOK, Dead, NoEventForgotten, BehindPublished, FlushedSent, [Next]_vars,
                    failures' = 0, alive' = Tasks, server' # "killed",
                    NEW c \in Clients, pc'[c] \in {"flushing", "ok"}
             PROVE  EventsOf(c) \subseteq Elems(logged)' \cup Flying'
  BY DEF FlushedSent
<1>0. /\ failures \in Nat /\ alive \subseteq Tasks /\ server # "killed"
      /\ pc \in [Clients -> {"idle", "publishing", "flushing", "ok", "error"}]
      /\ buffer \in Seq(Events) /\ logged \in Seq(Events)
      /\ flights \subseteq [owner : Owners, batch : Seq(Events) \ {<<>>}]
      /\ Clients \subseteq Owners /\ {"timer", "cleanup"} \subseteq Owners
  BY PublisherAssumption, KilledStays DEF TypeOK, vars, Owners
<1>1. alive = Tasks /\ failures = 0
  <2>1. alive' \subseteq alive /\ failures' \in {failures, failures + 1}
    BY DEF Next, Begin, PublishGroup, FinalFlush, TimerFlush, Inserted, Refused, Fault, PutBack,
           Failed, Die, DeleteTask, Shutdown, Cleanup, Exit, GraceRunsOut, vars
  <2>2. failures = 0
    BY <1>0, <2>1
  <2>3. alive = Tasks
    <3>1. Tasks \subseteq alive
      BY <2>1
    <3> QED
      BY <1>0, <3>1
  <2> QED
    BY <2>2, <2>3
<1>2. pc[c] \in {"flushing", "ok"} => EventsOf(c) \subseteq Elems(logged) \cup Flying
  BY <1>0, <1>1 DEF FlushedSent
<1>3. ASSUME pc[c] \in {"flushing", "ok"},
             Elems(logged) \cup Flying \subseteq Elems(logged)' \cup Flying'
      PROVE  EventsOf(c) \subseteq Elems(logged)' \cup Flying'
  BY <1>2, <1>3
<1>4. ASSUME pc' = pc, logged' = logged, flights \subseteq flights'
      PROVE  EventsOf(c) \subseteq Elems(logged)' \cup Flying'
  BY <1>2, <1>4 DEF Flying
<1>5. ASSUME NEW d \in Clients, Begin(d)
      PROVE  EventsOf(c) \subseteq Elems(logged)' \cup Flying'
  <2>1. pc[c] \in {"flushing", "ok"} /\ UNCHANGED <<logged, flights>>
    BY <1>0, <1>5 DEF Begin
  <2> QED
    BY <1>2, <2>1 DEF Flying
<1>6. ASSUME NEW d \in Clients, FinalFlush(d)
      PROVE  EventsOf(c) \subseteq Elems(logged)' \cup Flying'
  <2>1. Flush(d) /\ logged' = logged /\ \A b \in Clients \ {d} : pc'[b] = pc[b]
    BY <1>0, <1>6 DEF FinalFlush
  <2>2. Elems(buffer) \cup Flying \subseteq Flying'
    BY <1>0, <2>1, FlushKeeps
  <2>3. CASE c = d
    <3>1. EventsOf(c) \subseteq published
      BY <1>6, <2>3, AllPublished DEF FinalFlush
    <3>2. published \subseteq Elems(buffer) \cup Flying \cup Elems(logged)
      BY <1>0 DEF NoEventForgotten
    <3> QED
      BY <2>1, <2>2, <3>1, <3>2
  <2>4. CASE c # d
    BY <1>2, <2>1, <2>2, <2>4
  <2> QED
    BY <2>3, <2>4
<1>7. CASE TimerFlush \/ Cleanup
  <2>1. \E o \in Owners : Flush(o)
    BY <1>0, <1>7 DEF TimerFlush, Cleanup
  <2>2. Elems(buffer) \cup Flying \subseteq Flying' /\ UNCHANGED <<pc, logged>>
    BY <1>0, <1>7, <2>1, FlushKeeps DEF TimerFlush, Cleanup
  <2> QED
    BY <1>2, <2>2
<1>8. ASSUME NEW f \in flights, Inserted(f)
      PROVE  EventsOf(c) \subseteq Elems(logged)' \cup Flying'
  <2>1. /\ flights' = flights \ {f} /\ logged' = logged \o f.batch /\ f.batch \in Seq(Events)
        /\ pc[c] \in {"flushing", "ok"}
    BY <1>0, <1>8 DEF Inserted
  <2>2. Elems(logged)' = Elems(logged) \cup Elems(f.batch)
    BY <1>0, <2>1, ElemsOfConcat
  <2>3. Flying \subseteq Flying' \cup Elems(f.batch)
    BY <2>1, LandingKeeps
  <2> QED
    BY <1>3, <2>1, <2>2, <2>3
<1>9. ASSUME NEW f \in flights, Refused(f) \/ Fault(f) PROVE FALSE
  BY <1>0, <1>1, <1>9, NothingRefused DEF Refused, Fault
<1>10. ASSUME NEW d \in Clients, PublishGroup(d)
       PROVE  EventsOf(c) \subseteq Elems(logged)' \cup Flying'
  BY <1>4, <1>10 DEF PublishGroup, Depart
<1>11. ASSUME NEW t \in Tasks, DeleteTask(t)
       PROVE  EventsOf(c) \subseteq Elems(logged)' \cup Flying'
  BY <1>4, <1>11 DEF DeleteTask
<1>12. CASE Shutdown \/ Exit \/ UNCHANGED vars
  BY <1>4, <1>12 DEF Shutdown, Exit, vars
<1>13. ~GraceRunsOut
  BY DEF GraceRunsOut, Die
<1> QED
  BY <1>5, <1>6, <1>7, <1>8, <1>9, <1>10, <1>11, <1>12, <1>13 DEF Next

\* The batches under way belong to requests that still wait for them.
LEMMA NothingOutstanding ==
    ASSUME FlushedSent, CalmInv
    PROVE  AnsweredLogged
<1> SUFFICES ASSUME failures = 0, alive = Tasks, server # "killed",
                    NEW c \in Clients, pc[c] = "ok", NEW e \in EventsOf(c)
             PROVE  e \in Elems(logged)
  BY DEF AnsweredLogged, PersistedWhenAnswered
<1>1. e \in Elems(logged) \cup Flying /\ Calm
  BY DEF FlushedSent, CalmInv
<1>2. ASSUME e \in Flying PROVE FALSE
  <2>1. PICK f \in flights : e \in Elems(f.batch)
    BY <1>2 DEF Flying
  <2>2. /\ f.owner \in Clients /\ e \in EventsOf(f.owner)
        /\ pc[f.owner] \in {"publishing", "flushing"}
    BY <1>1, <2>1 DEF Calm
  <2>3. PICK n \in DOMAIN Script[c] : e \in Elems(Script[c][n])
    BY DEF EventsOf
  <2>4. PICK i \in DOMAIN Script[c][n] : e = Script[c][n][i]
    BY <2>3 DEF Elems
  <2>5. f.owner = c
    BY <2>2, <2>4, OneRequest
  <2> QED
    BY <2>2, <2>5
<1> QED
  BY <1>1, <1>2

\* A request whose reply is ok has its events in the log, as long as no insert has failed,
\* no task was deleted and the process was not killed: the final flush, or that of a full
\* buffer before it, took all of them, and nobody else took one.
THEOREM ReplyVouches == Spec => []AnsweredLogged
BY TypeInit, TypeStep, DeadInit, DeadStep, ForgottenInit, ForgottenStep, EndingInit, EndingStep,
   TwiceInit, TwiceStep, CalmInit, CalmStep, BehindInit, BehindStep, FlushedInit, FlushedStep,
   NothingOutstanding, PTL DEF Spec

=============================================================================
