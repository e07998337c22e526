------------------------- MODULE RateLimiter_proof -------------------------
(***************************************************************************)
(* Proofs about RateLimiter, for any set of requests, any priorities, any  *)
(* quota, interval, queue size and retry limits, and for a store that      *)
(* answers at once or late: the typing of the state, that the limiter      *)
(* never stops with requests in its queue, what its windows and those of   *)
(* the remote API count, and the place, the turn and the answer of a       *)
(* request.                                                                *)
(***************************************************************************)
EXTENDS RateLimiter, SequenceTheorems, FiniteSetTheorems, TLAPS

-----------------------------------------------------------------------------
(* Helpers *)

LEMMA LeastBound ==
    ASSUME NEW a \in Int, NEW b \in Int
    PROVE  /\ Least(a, b) \in {a, b}
           /\ Least(a, b) <= a /\ Least(a, b) <= b
BY DEF Least

\* Rounding down to a multiple does not increase a number.
LEMMA RoundedDown ==
    ASSUME NEW n \in Nat, NEW t \in Nat \ {0}
    PROVE  (n \div t) * t \in 0..n
<1>1. (n \div t) * t <= n
  BY Z3
<1>2. n \div t \in Nat
  OBVIOUS
<1>3. (n \div t) * t \in Nat
  BY <1>2
<1> QED
  BY <1>1, <1>3

\* The TTL rounded up to seconds is a delay a timer can be given.
LEMMA DelayOfTTL ==
    ASSUME windowAge \in 0..Interval
    PROVE  (IF TTL > 0 THEN TTL ELSE Interval) \in 0..MaxDelay
<1>1. /\ Interval \in Nat /\ TicksPerSecond \in Nat \ {0} /\ MaxDelay \in Nat
      /\ MaxDelay >= Interval + TicksPerSecond
  BY LimiterAssumption, DelayAssumption
<1>2. CASE WindowLive
  <2> DEFINE d == Interval - windowAge
             n == d + TicksPerSecond - 1
  <2>1. n \in Nat /\ n <= MaxDelay
    BY <1>1, <1>2 DEF WindowLive
  <2>2. TTL = (n \div TicksPerSecond) * TicksPerSecond
    BY <1>2 DEF TTL, CeilToSecond
  <2> HIDE DEF n
  <2>3. TTL \in 0..n
    BY <1>1, <2>1, <2>2, RoundedDown
  <2> QED
    BY <1>1, <2>1, <2>3
<1>3. CASE ~WindowLive
  BY <1>1, <1>3 DEF TTL
<1> QED
  BY <1>2, <1>3

\* So is the backoff after an error.
LEMMA DelayOfBackoff ==
    ASSUME NEW e \in 1..5
    PROVE  Backoff(e) \in 0..MaxDelay
<1>1. /\ RetryDelay \in Nat /\ BackoffCap \in Nat /\ MaxDelay \in Nat
      /\ BackoffCap <= MaxDelay
  BY LimiterAssumption, DelayAssumption
<1>2. <<2, 4, 8, 16, 32>>[e] \in Nat
  OBVIOUS
<1>3. RetryDelay * <<2, 4, 8, 16, 32>>[e] \in Nat
  BY <1>1, <1>2
<1> QED
  BY <1>1, <1>3, LeastBound DEF Backoff

-----------------------------------------------------------------------------
(* The queue *)

\* A piece of a sequence, cut where it exists.
LEMMA Piece ==
    ASSUME NEW S, NEW s \in Seq(S), NEW m \in 1..(Len(s) + 1), NEW n \in 0..Len(s)
    PROVE  /\ SubSeq(s, m, n) \in Seq(S)
           /\ Len(SubSeq(s, m, n)) = IF m <= n THEN n - m + 1 ELSE 0
<1>1. Len(s) \in Nat
  BY LenProperties
<1>2. \A i \in m..n : s[i] \in S
  BY <1>1, ElementOfSeq
<1>3. m \in Int /\ n \in Int
  BY <1>1
<1> QED
  BY <1>2, <1>3, SubSeqProperties

LEMMA InsertType ==
    ASSUME NEW S, NEW s \in Seq(S), NEW r \in S
    PROVE  InsertByPriority(s, r) \in Seq(S)
<1> DEFINE before == {i \in DOMAIN s : Prio[s[i]] >= Prio[r]}
           ahead  == Cardinality(before)
<1>1. Len(s) \in Nat /\ DOMAIN s = 1..Len(s)
  BY LenProperties
<1>2. /\ IsFiniteSet(1..Len(s))
      /\ Cardinality(1..Len(s)) = Len(s)
  BY <1>1, FS_Interval
<1>3. before \in SUBSET (1..Len(s))
  BY <1>1
<1>4. IsFiniteSet(before) /\ ahead <= Len(s)
  BY <1>2, <1>3, FS_Subset
<1>5. ahead \in 0..Len(s)
  BY <1>1, <1>4, FS_CardinalityType
<1>6. InsertByPriority(s, r) = SubSeq(s, 1, ahead) \o <<r>> \o SubSeq(s, ahead + 1, Len(s))
  BY DEF InsertByPriority
<1> HIDE DEF ahead
<1>7. SubSeq(s, 1, ahead) \in Seq(S) /\ SubSeq(s, ahead + 1, Len(s)) \in Seq(S)
  BY <1>1, <1>5, Piece
<1>8. <<r>> \in Seq(S)
  OBVIOUS
<1>9. SubSeq(s, 1, ahead) \o <<r>> \in Seq(S)
  BY <1>7, <1>8, ConcatProperties
<1> QED
  BY <1>6, <1>7, <1>9, ConcatProperties

\* What dequeue(n) takes is at most n requests, and what it leaves are queues.
LEMMA Dequeue ==
    ASSUME queue \in Seq(Reqs \ DOMAIN Prio), priorityQueue \in Seq(DOMAIN Prio),
           NEW n \in Nat
    PROVE  /\ Taken(n) \in Seq(Reqs)
           /\ Len(Taken(n)) <= n
           /\ SubSeq(priorityQueue, FromPriority(n) + 1, Len(priorityQueue))
                    \in Seq(DOMAIN Prio)
           /\ SubSeq(queue, FromNormal(n) + 1, Len(queue)) \in Seq(Reqs \ DOMAIN Prio)
<1> DEFINE p == FromPriority(n)
           q == FromNormal(n)
<1>1. Len(queue) \in Nat /\ Len(priorityQueue) \in Nat
  BY LenProperties
<1>2. p \in 0..Len(priorityQueue) /\ p <= n
  BY <1>1, LeastBound DEF FromPriority
<1>3. q \in 0..Len(queue) /\ p + q <= n
  BY <1>1, <1>2, LeastBound DEF FromNormal
<1>4. Taken(n) = SubSeq(priorityQueue, 1, p) \o SubSeq(queue, 1, q)
  BY DEF Taken
<1> HIDE DEF p, q
<1>5. /\ SubSeq(priorityQueue, 1, p) \in Seq(DOMAIN Prio)
      /\ Len(SubSeq(priorityQueue, 1, p)) = p
      /\ SubSeq(priorityQueue, p + 1, Len(priorityQueue)) \in Seq(DOMAIN Prio)
  BY <1>1, <1>2, Piece
<1>6. /\ SubSeq(queue, 1, q) \in Seq(Reqs \ DOMAIN Prio)
      /\ Len(SubSeq(queue, 1, q)) = q
      /\ SubSeq(queue, q + 1, Len(queue)) \in Seq(Reqs \ DOMAIN Prio)
  BY <1>1, <1>3, Piece
<1>7. /\ SubSeq(priorityQueue, 1, p) \in Seq(Reqs)
      /\ SubSeq(queue, 1, q) \in Seq(Reqs)
  BY <1>5, <1>6, LimiterAssumption
<1>8. Taken(n) \in Seq(Reqs) /\ Len(Taken(n)) = p + q
  BY <1>4, <1>5, <1>6, <1>7, ConcatProperties
<1> QED
  BY <1>3, <1>5, <1>6, <1>8 DEF p, q

-----------------------------------------------------------------------------
(* Types *)

LEMMA ConstantTypes ==
    /\ Options \subseteq [dynamic : BOOLEAN, maxRequests : Nat]
    /\ MaxRetries \in Nat /\ Interval \in Nat \ {0}
    /\ MaxDelay \in Nat /\ Interval <= MaxDelay
    /\ \A d \in StatusResets : d \in 0..MaxDelay
BY LimiterAssumption, DelayAssumption

LEMMA EnqueueType ==
    ASSUME TypeOK, NEW r \in Reqs, Enqueue(r)
    PROVE  queue' \in Seq(Reqs \ DOMAIN Prio) /\ priorityQueue' \in Seq(DOMAIN Prio)
<1>1. queue \in Seq(Reqs \ DOMAIN Prio) /\ priorityQueue \in Seq(DOMAIN Prio)
  BY DEF TypeOK
<1>2. CASE r \in DOMAIN Prio
  BY <1>1, <1>2, InsertType DEF Enqueue
<1>3. CASE r \notin DOMAIN Prio
  <2>1. queue' = Append(queue, r) /\ priorityQueue' = priorityQueue
    BY <1>3 DEF Enqueue
  <2>2. r \in Reqs \ DOMAIN Prio
    BY <1>3
  <2> QED
    BY <1>1, <2>1, <2>2, AppendProperties
<1> QED
  BY <1>2, <1>3

LEMMA ElemsType ==
    ASSUME NEW S, NEW s \in Seq(S)
    PROVE  Elems(s) \subseteq S
BY LenProperties, ElementOfSeq DEF Elems

LEMMA StartType ==
    ASSUME TypeOK, NEW b \in Seq(Reqs), Start(b)
    PROVE  /\ running' \in SUBSET Reqs
           /\ attempts' \in [Reqs -> Nat]
           /\ meter' \in [age : 0..Interval, calls : Nat, resets : Nat]
<1>1. Elems(b) \subseteq Reqs
  BY ElemsType
<1>2. Len(b) \in Nat
  BY LenProperties
<1>3. /\ meter.age \in 0..Interval /\ meter.calls \in Nat /\ meter.resets \in Nat
      /\ attempts \in [Reqs -> Nat]
      /\ Interval \in Nat
  BY ConstantTypes DEF TypeOK
<1>4. attempts' \in [Reqs -> Nat]
  BY <1>3 DEF Start
<1>5. meter' = [age    |-> IF meter.age < Interval THEN meter.age ELSE 0,
                calls  |-> IF meter.age < Interval THEN meter.calls + Len(b) ELSE Len(b),
                resets |-> IF meter.age < Interval THEN meter.resets ELSE 0]
  BY DEF Start
<1>6. meter' \in [age : 0..Interval, calls : Nat, resets : Nat]
  BY <1>2, <1>3, <1>5
<1> QED
  BY <1>1, <1>4, <1>6 DEF Start

LEMMA ScheduleRetryType ==
    ASSUME TypeOK, NEW d \in 0..MaxDelay, ScheduleRetry(d)
    PROVE  waiting' \in 0..MaxDelay /\ timers' \in [0..MaxDelay -> Nat]
<1>1. timers \in [0..MaxDelay -> Nat]
  BY DEF TypeOK
<1> QED
  BY <1>1 DEF ScheduleRetry

\* What UseCapacity writes, whichever way it goes.
LEMMA UseCapacityType ==
    ASSUME TypeOK, NEW n \in Nat, NEW d \in 0..MaxDelay, UseCapacity(n, d)
    PROVE  /\ queue' \in Seq(Reqs \ DOMAIN Prio)
           /\ priorityQueue' \in Seq(DOMAIN Prio)
           /\ pc' \in {"idle", "record", "execute"}
           /\ waiting' \in 0..MaxDelay
           /\ timers' \in [0..MaxDelay -> Nat]
           /\ batch' \in Seq(Reqs)
           /\ running' \in SUBSET Reqs
           /\ attempts' \in [Reqs -> Nat]
           /\ meter' \in [age : 0..Interval, calls : Nat, resets : Nat]
<1>0. /\ queue \in Seq(Reqs \ DOMAIN Prio) /\ priorityQueue \in Seq(DOMAIN Prio)
      /\ waiting \in 0..MaxDelay /\ timers \in [0..MaxDelay -> Nat]
      /\ batch \in Seq(Reqs) /\ running \in SUBSET Reqs /\ attempts \in [Reqs -> Nat]
      /\ meter \in [age : 0..Interval, calls : Nat, resets : Nat]
  BY DEF TypeOK
<1>1. CASE /\ ScheduleRetry(d) /\ pc' = "idle"
           /\ UNCHANGED <<queueVars, batch, running, attempts, meter>>
  BY <1>0, <1>1, ScheduleRetryType DEF queueVars
<1>2. CASE /\ pc' = "idle"
           /\ UNCHANGED <<queueVars, batch, running, attempts, meter, waiting, timers>>
  BY <1>0, <1>2 DEF queueVars
<1>3. CASE /\ LeaveQueue(n) /\ UNCHANGED <<waiting, timers>>
           /\ IF opts.dynamic
              THEN Start(Taken(n)) /\ pc' = "execute" /\ UNCHANGED batch
              ELSE /\ batch' = Taken(n) /\ pc' = "record"
                   /\ UNCHANGED <<running, attempts, meter>>
  <2>1. /\ Taken(n) \in Seq(Reqs)
        /\ queue' \in Seq(Reqs \ DOMAIN Prio)
        /\ priorityQueue' \in Seq(DOMAIN Prio)
    BY <1>0, <1>3, Dequeue DEF LeaveQueue
  <2>2. CASE opts.dynamic
    <3>1. /\ running' \in SUBSET Reqs
          /\ attempts' \in [Reqs -> Nat]
          /\ meter' \in [age : 0..Interval, calls : Nat, resets : Nat]
      BY <1>3, <2>1, <2>2, StartType
    <3> QED
      BY <1>0, <1>3, <2>1, <2>2, <3>1
  <2>3. CASE ~opts.dynamic
    BY <1>0, <1>3, <2>1, <2>3
  <2> QED
    BY <2>2, <2>3
<1> QED
  BY <1>1, <1>2, <1>3 DEF UseCapacity

LEMMA TypeInit == Init => TypeOK
BY ConstantTypes DEF Init, TypeOK

\* The answer of getRateLimitStatus and that of the store's TTL.
LEMMA StatusType ==
    ASSUME TypeOK, NEW n \in {0} \cup StatusLimits, NEW reported \in {0} \cup StatusLimits,
           NEW d \in StatusResets \cup {Interval}, StatusReturned(n, reported, d)
    PROVE  TypeOK'
<1>1. n \in Nat /\ reported \in Nat /\ d \in 0..MaxDelay
  BY LimiterAssumption, ConstantTypes
<1>2. UseCapacity(n, d)
  BY DEF StatusReturned
<1>3. limit' \in Nat
  BY <1>1 DEF StatusReturned, TypeOK
<1> QED
  BY <1>1, <1>2, <1>3, UseCapacityType DEF StatusReturned, TypeOK, storeVars

LEMMA TTLType ==
    ASSUME TypeOK, TTLReturned
    PROVE  TypeOK'
<1> DEFINE d == IF TTL > 0 THEN TTL ELSE Interval
<1>1. windowAge \in 0..Interval /\ remaining \in Nat
  BY DEF TypeOK
<1>2. d \in 0..MaxDelay
  BY <1>1, DelayOfTTL
<1>3. UseCapacity(remaining, d)
  BY DEF TTLReturned
<1> HIDE DEF d
<1> QED
  BY <1>1, <1>2, <1>3, UseCapacityType DEF TTLReturned, TypeOK, storeVars

LEMMA SettleType ==
    ASSUME TypeOK, NEW r \in Reqs, Settle(r)
    PROVE  TypeOK'
<1>1. running' = running \ {r} /\ r \in Reqs
  BY DEF Settle, CallSucceeds, CallFails, CallRateLimited
<1>2. CASE CallSucceeds(r) \/ CallFails(r)
  BY <1>2 DEF CallSucceeds, CallFails, TypeOK, queueVars, storeVars, loopVars
<1>3. CASE CallRateLimited(r)
  <2>1. /\ queue' \in Seq(Reqs \ DOMAIN Prio)
        /\ priorityQueue' \in Seq(DOMAIN Prio)
    <3>1. CASE Enqueue(r)
      BY <3>1, EnqueueType
    <3>2. CASE UNCHANGED queueVars
      BY <3>2 DEF queueVars, TypeOK
    <3> QED
      BY <1>3, <3>1, <3>2 DEF CallRateLimited
  <2>2. retries' \in [Reqs -> 0..MaxRetries]
    <3>1. retries \in [Reqs -> 0..MaxRetries] /\ MaxRetries \in Nat
      BY ConstantTypes DEF TypeOK
    <3>2. \/ retries[r] < MaxRetries /\ retries' = [retries EXCEPT ![r] = @ + 1]
          \/ retries' = retries
      BY <1>3 DEF CallRateLimited
    <3> QED
      BY <3>1, <3>2
  <2>3. promise' \in [Reqs -> {"none", "pending", "resolved", "rejected"}]
    BY <1>3 DEF CallRateLimited, TypeOK
  <2> QED
    BY <1>1, <1>3, <2>1, <2>2, <2>3 DEF CallRateLimited, TypeOK, storeVars, loopVars
<1> QED
  BY <1>2, <1>3 DEF Settle

LEMMA TickType ==
    ASSUME TypeOK, Tick
    PROVE  TypeOK'
<1>1. /\ waiting \in 0..MaxDelay /\ timers \in [0..MaxDelay -> Nat]
      /\ windowAge \in 0..Interval /\ MaxDelay \in Nat /\ Interval \in Nat
      /\ meter \in [age : 0..Interval, calls : Nat, resets : Nat]
  BY ConstantTypes DEF TypeOK
<1>2. waiting' \in 0..MaxDelay
  BY <1>1 DEF Tick
<1>3. timers' \in [0..MaxDelay -> Nat]
  <2>1. \A d \in 0..MaxDelay : (IF d = 0 THEN timers[0] ELSE 0) +
                               (IF d < MaxDelay THEN timers[d + 1] ELSE 0) \in Nat
    BY <1>1
  <2> QED
    BY <2>1 DEF Tick
<1>4. windowAge' \in 0..Interval
  BY <1>1, LeastBound DEF Tick, Least
<1>5. meter' \in [age : 0..Interval, calls : Nat, resets : Nat]
  <2>1. Least(meter.age + 1, Interval) \in 0..Interval
    BY <1>1 DEF Least
  <2> QED
    BY <1>1, <2>1 DEF Tick
<1> QED
  BY <1>2, <1>3, <1>4, <1>5 DEF Tick, TypeOK, queueVars, runVars, callerVars

LEMMA TypeStep == TypeOK /\ [Next]_vars => TypeOK'
<1> SUFFICES ASSUME TypeOK, [Next]_vars PROVE TypeOK'
  OBVIOUS
<1>1. ASSUME NEW r \in Reqs, Schedule(r) PROVE TypeOK'
  <2>1. /\ queue' \in Seq(Reqs \ DOMAIN Prio)
        /\ priorityQueue' \in Seq(DOMAIN Prio)
    <3>1. CASE Enqueue(r)
      BY <3>1, EnqueueType
    <3>2. CASE UNCHANGED queueVars
      BY <3>2 DEF queueVars, TypeOK
    <3> QED
      BY <1>1, <3>1, <3>2 DEF Schedule
  <2>2. promise' \in [Reqs -> {"none", "pending", "resolved", "rejected"}]
    BY <1>1 DEF Schedule, TypeOK
  <2>3. immediates' \in Nat
    BY <1>1 DEF Schedule, TypeOK
  <2> QED
    BY <1>1, <2>1, <2>2, <2>3 DEF Schedule, TypeOK, runVars, storeVars
<1>2. ASSUME NEW r \in Reqs, Settle(r) PROVE TypeOK'
  BY <1>2, SettleType
<1>3. CASE ClearQueue
  <2>1. /\ queue' \in Seq(Reqs \ DOMAIN Prio)
        /\ priorityQueue' \in Seq(DOMAIN Prio)
    BY <1>3 DEF ClearQueue
  <2> QED
    BY <1>3, <2>1 DEF ClearQueue, TypeOK, runVars, storeVars, loopVars, callerVars
<1>4. CASE ProcessQueue
  BY <1>4 DEF ProcessQueue, TypeOK, queueVars, storeVars, callerVars
<1>5. ASSUME NEW n \in {0} \cup StatusLimits, NEW reported \in {0} \cup StatusLimits,
             NEW d \in StatusResets \cup {Interval}, StatusReturned(n, reported, d)
      PROVE  TypeOK'
  BY <1>5, StatusType
<1>6. CASE StatusMissing
  BY <1>6 DEF StatusMissing, TypeOK, queueVars, storeVars, loopVars, callerVars
<1>7. CASE CountReturned
  <2>1. remaining' \in Nat
    BY <1>7 DEF CountReturned, Used, TypeOK
  <2> QED
    BY <1>7, <2>1 DEF CountReturned, TypeOK, queueVars, storeVars, loopVars, callerVars
<1>8. CASE TTLReturned
  BY <1>8, TTLType
<1>9. CASE UsageRecorded
  <2>1. batch \in Seq(Reqs) /\ Start(batch)
    BY <1>9 DEF UsageRecorded, TypeOK
  <2>2. /\ running' \in SUBSET Reqs
        /\ attempts' \in [Reqs -> Nat]
        /\ meter' \in [age : 0..Interval, calls : Nat, resets : Nat]
    BY <2>1, StartType
  <2>3. count' \in Nat /\ windowAge' \in 0..Interval
    <3>1. Len(batch) \in Nat
      BY <2>1, LenProperties
    <3> QED
      BY <1>9, <3>1, ConstantTypes DEF UsageRecorded, StoreIncrBy, TypeOK
  <2>4. batch' \in Seq(Reqs)
    BY <1>9 DEF UsageRecorded
  <2> QED
    BY <1>9, <2>2, <2>3, <2>4 DEF UsageRecorded, TypeOK, queueVars, loopVars
<1>10. CASE StoreFails
  <2>1. errors' \in 1..5
    <3>1. errors \in 0..5
      BY DEF TypeOK
    <3> QED
      BY <1>10, <3>1 DEF StoreFails, Least
  <2>2. Backoff(errors') \in 0..MaxDelay
    <3> DEFINE e == errors'
    <3> e \in 1..5
      BY <2>1
    <3> HIDE DEF e
    <3> Backoff(e) \in 0..MaxDelay
      BY DelayOfBackoff
    <3> QED
      BY DEF e
  <2>3. waiting' \in 0..MaxDelay /\ timers' \in [0..MaxDelay -> Nat]
    BY <1>10, <2>2, ScheduleRetryType DEF StoreFails
  <2>4. batch' \in Seq(Reqs)
    BY <1>10 DEF StoreFails
  <2> QED
    BY <1>10, <2>1, <2>3, <2>4 DEF StoreFails, TypeOK, queueVars, storeVars, callerVars
<1>11. CASE BatchSettled
  BY <1>11 DEF BatchSettled, TypeOK, queueVars, storeVars, callerVars
<1>12. CASE TimerFires
  <2>1. timers' \in [0..MaxDelay -> Nat]
    <3>1. timers \in [0..MaxDelay -> Nat] /\ 0 \in 0..MaxDelay
      BY ConstantTypes DEF TypeOK
    <3> QED
      BY <1>12, <3>1 DEF TimerFires
  <2>2. errors' \in 0..5 /\ immediates' \in Nat /\ resetting' \in Nat
    BY <1>12 DEF TimerFires, TypeOK
  <2>3. UNCHANGED <<opts, queueVars, runVars, waiting, limit, storeVars, callerVars,
                   meter>>
    BY <1>12 DEF TimerFires
  <2> QED
    BY <2>1, <2>2, <2>3 DEF TypeOK, queueVars, runVars, storeVars, callerVars
<1>13. CASE ResetDone
  <2>1. meter' \in [age : 0..Interval, calls : Nat, resets : Nat]
    <3>1. meter \in [age : 0..Interval, calls : Nat, resets : Nat]
      BY DEF TypeOK
    <3>2. meter' = meter \/ meter' = [meter EXCEPT !.resets = @ + 1]
      BY <1>13 DEF ResetDone
    <3> QED
      BY <3>1, <3>2
  <2>2. count' \in Nat /\ windowAge' \in 0..Interval
    BY <1>13, ConstantTypes DEF ResetDone, StoreReset
  <2>3. errors' \in 0..5 /\ immediates' \in Nat /\ resetting' \in Nat
    BY <1>13 DEF ResetDone, TypeOK
  <2>4. UNCHANGED <<opts, queueVars, runVars, waiting, limit, timers, callerVars>>
    BY <1>13 DEF ResetDone
  <2> QED
    BY <2>1, <2>2, <2>3, <2>4 DEF TypeOK, queueVars, runVars, callerVars
<1>14. CASE ResetFails
  BY <1>14 DEF ResetFails, TypeOK, queueVars, runVars, storeVars, callerVars
<1>15. CASE Tick
  BY <1>15, TickType
<1>16. CASE UNCHANGED vars
  BY <1>16 DEF vars, TypeOK
<1> QED
  BY <1>1, <1>2, <1>3, <1>4, <1>5, <1>6, <1>7, <1>8, <1>9, <1>10, <1>11, <1>12,
     <1>13, <1>14, <1>15, <1>16 DEF Next, Answer

\* Every reachable state is well typed; in particular no delay a timer is given
\* exceeds MaxDelay.
THEOREM TypeCorrect == Spec => []TypeOK
BY TypeInit, TypeStep, PTL DEF Spec

-----------------------------------------------------------------------------
(* The limiter never stops with requests in its queue *)

\* The wait in waitingUntil ends with a timer: what ProcessQueue relies on when
\* it gives up.
WaitHasTimer == waiting > 0 => timers[waiting] > 0

\* Calls run inside the active _processQueue: what a requeued retry relies on.
CallsInRun == running # {} => pc = "execute"

\* What may wake the limiter up: the right-hand side of NoStall.
Awake ==
    \/ pc # "idle"
    \/ immediates > 0
    \/ resetting > 0
    \/ \E d \in 0..MaxDelay : timers[d] > 0

StallInv == WaitHasTimer /\ CallsInRun /\ (Queued # {} => Awake)

LEMMA StallInit == Init => StallInv
BY DEF Init, StallInv, WaitHasTimer, CallsInRun, Queued, Elems

LEMMA EmptyQueue ==
    ASSUME TypeOK, Size = 0
    PROVE  Queued = {}
<1>1. queue \in Seq(Reqs \ DOMAIN Prio) /\ priorityQueue \in Seq(DOMAIN Prio)
  BY DEF TypeOK
<1>2. /\ Len(queue) \in Nat /\ DOMAIN queue = 1..Len(queue)
      /\ Len(priorityQueue) \in Nat /\ DOMAIN priorityQueue = 1..Len(priorityQueue)
  BY <1>1, LenProperties
<1>3. Len(queue) = 0 /\ Len(priorityQueue) = 0
  BY <1>2 DEF Size
<1>4. DOMAIN queue = {} /\ DOMAIN priorityQueue = {}
  BY <1>2, <1>3
<1> QED
  BY <1>4 DEF Queued, Elems

LEMMA ScheduleRetryWakes ==
    ASSUME TypeOK, NEW d \in 0..MaxDelay, ScheduleRetry(d)
    PROVE  WaitHasTimer' /\ Awake'
<1>1. timers \in [0..MaxDelay -> Nat]
  BY DEF TypeOK
<1>2. waiting' = d /\ timers'[d] > 0
  BY <1>1 DEF ScheduleRetry
<1> QED
  BY <1>2 DEF WaitHasTimer, Awake

\* Whichever way UseCapacity goes it leaves a wake-up behind or an empty queue.
LEMMA UseCapacityWakes ==
    ASSUME TypeOK, StallInv, running = {}, NEW n \in Nat, NEW d \in 0..MaxDelay,
           UseCapacity(n, d)
    PROVE  StallInv'
<1>1. CASE /\ ScheduleRetry(d) /\ pc' = "idle"
           /\ UNCHANGED <<queueVars, batch, running, attempts, meter>>
  BY <1>1, ScheduleRetryWakes DEF StallInv, CallsInRun
<1>2. CASE /\ Size = 0 /\ pc' = "idle"
           /\ UNCHANGED <<queueVars, batch, running, attempts, meter, waiting, timers>>
  <2>1. Queued' = {}
    BY <1>2, EmptyQueue DEF queueVars, Queued
  <2> QED
    BY <1>2, <2>1 DEF StallInv, WaitHasTimer, CallsInRun
<1>3. CASE /\ LeaveQueue(n) /\ UNCHANGED <<waiting, timers>>
           /\ IF opts.dynamic
              THEN Start(Taken(n)) /\ pc' = "execute" /\ UNCHANGED batch
              ELSE /\ batch' = Taken(n) /\ pc' = "record"
                   /\ UNCHANGED <<running, attempts, meter>>
  <2>1. /\ pc' \in {"execute", "record"}
        /\ pc' = "record" => running' = running
    BY <1>3
  <2> QED
    BY <1>3, <2>1 DEF StallInv, WaitHasTimer, CallsInRun, Awake
<1> QED
  BY <1>1, <1>2, <1>3 DEF UseCapacity

\* A tick moves every timer and loses none.
LEMMA TickKeepsTimers ==
    ASSUME TypeOK, Tick, NEW d \in 0..MaxDelay, timers[d] > 0
    PROVE  /\ timers'[IF d > 0 THEN d - 1 ELSE 0] > 0
           /\ (IF d > 0 THEN d - 1 ELSE 0) \in 0..MaxDelay
<1>1. timers \in [0..MaxDelay -> Nat] /\ MaxDelay \in Nat
  BY ConstantTypes DEF TypeOK
<1>2. timers' = [e \in 0..MaxDelay |-> (IF e = 0 THEN timers[0] ELSE 0) +
                                       (IF e < MaxDelay THEN timers[e + 1] ELSE 0)]
  BY DEF Tick
<1>3. CASE d = 0
  <2>1. timers'[0] = timers[0] + (IF 0 < MaxDelay THEN timers[0 + 1] ELSE 0)
    BY <1>1, <1>2
  <2>2. timers[0] > 0 /\ (IF 0 < MaxDelay THEN timers[0 + 1] ELSE 0) \in Nat
    BY <1>1, <1>3
  <2> QED
    BY <1>1, <1>3, <2>1, <2>2
<1>4. CASE d > 0
  <2>1. d - 1 \in 0..MaxDelay /\ d - 1 < MaxDelay /\ (d - 1) + 1 = d
    BY <1>1, <1>4
  <2>2. timers'[d - 1] = (IF d - 1 = 0 THEN timers[0] ELSE 0) + timers[d]
    BY <1>2, <2>1
  <2>3. (IF d - 1 = 0 THEN timers[0] ELSE 0) \in Nat /\ timers[d] \in Nat
    BY <1>1
  <2> QED
    BY <1>4, <2>1, <2>2, <2>3
<1> QED
  BY <1>1, <1>3, <1>4

LEMMA StallStep == TypeOK /\ StallInv /\ [Next]_vars => StallInv'
<1> SUFFICES ASSUME TypeOK, StallInv, [Next]_vars PROVE StallInv'
  OBVIOUS
<1>0. /\ immediates \in Nat /\ resetting \in Nat /\ waiting \in 0..MaxDelay
      /\ timers \in [0..MaxDelay -> Nat] /\ MaxDelay \in Nat
  BY ConstantTypes DEF TypeOK
<1>1. ASSUME NEW r \in Reqs, Schedule(r) PROVE StallInv'
  <2>1. UNCHANGED <<pc, running, waiting, timers, resetting>>
    BY <1>1 DEF Schedule, runVars
  <2>2. \/ immediates' > 0
        \/ Queued' = Queued /\ immediates' = immediates
    <3>1. \/ immediates' = immediates + 1
          \/ UNCHANGED <<queueVars, immediates>>
      BY <1>1 DEF Schedule
    <3> QED
      BY <1>0, <3>1 DEF queueVars, Queued
  <2> QED
    BY <2>1, <2>2 DEF StallInv, WaitHasTimer, CallsInRun, Awake
<1>2. ASSUME NEW r \in Reqs, Settle(r) PROVE StallInv'
  <2>1. /\ r \in running /\ running' = running \ {r}
        /\ UNCHANGED <<pc, waiting, timers>>
    BY <1>2 DEF Settle, CallSucceeds, CallFails, CallRateLimited, loopVars
  <2>2. pc = "execute"
    BY <2>1 DEF StallInv, CallsInRun
  <2> QED
    BY <2>1, <2>2 DEF StallInv, WaitHasTimer, CallsInRun, Awake
<1>3. CASE ClearQueue
  <2>1. Queued' = {} /\ UNCHANGED <<pc, running, waiting, timers>>
    BY <1>3 DEF ClearQueue, Queued, Elems, runVars, loopVars
  <2> QED
    BY <2>1 DEF StallInv, WaitHasTimer, CallsInRun
<1>4. CASE ProcessQueue
  <2>1. UNCHANGED <<queueVars, running, waiting, timers, resetting>>
    BY <1>4 DEF ProcessQueue
  <2>2. pc # "idle" => pc' = pc
    BY <1>4 DEF ProcessQueue
  <2>3. pc' # "idle" \/ waiting > 0
    BY <1>0, <1>4 DEF ProcessQueue
  <2>4. waiting > 0 => timers'[waiting] > 0
    BY <2>1 DEF StallInv, WaitHasTimer
  <2>5. Awake'
    BY <1>0, <2>3, <2>4 DEF Awake
  <2> QED
    BY <2>1, <2>2, <2>5 DEF StallInv, WaitHasTimer, CallsInRun
<1>5. ASSUME NEW n \in {0} \cup StatusLimits, NEW reported \in {0} \cup StatusLimits,
             NEW d \in StatusResets \cup {Interval}, StatusReturned(n, reported, d)
      PROVE  StallInv'
  <2>1. n \in Nat /\ d \in 0..MaxDelay
    BY LimiterAssumption, ConstantTypes
  <2>2. running = {} /\ UseCapacity(n, d)
    BY <1>5 DEF StatusReturned, StallInv, CallsInRun
  <2> QED
    BY <2>1, <2>2, UseCapacityWakes
<1>6. CASE StatusMissing \/ CountReturned
  <2>1. /\ pc' # "idle" /\ pc # "execute"
        /\ UNCHANGED <<running, waiting, timers>>
    BY <1>6 DEF StatusMissing, CountReturned, loopVars
  <2> QED
    BY <2>1 DEF StallInv, WaitHasTimer, CallsInRun, Awake
<1>7. CASE TTLReturned
  <2> DEFINE d == IF TTL > 0 THEN TTL ELSE Interval
  <2>1. d \in 0..MaxDelay /\ remaining \in Nat
    BY DelayOfTTL DEF TypeOK
  <2>2. running = {} /\ UseCapacity(remaining, d)
    BY <1>7 DEF TTLReturned, StallInv, CallsInRun
  <2> HIDE DEF d
  <2> QED
    BY <2>1, <2>2, UseCapacityWakes
<1>8. CASE UsageRecorded
  <2>1. pc' = "execute" /\ UNCHANGED <<waiting, timers>>
    BY <1>8 DEF UsageRecorded, loopVars
  <2> QED
    BY <2>1 DEF StallInv, WaitHasTimer, CallsInRun, Awake
<1>9. CASE StoreFails
  <2> DEFINE e == errors'
  <2>1. e \in 1..5
    <3>1. errors \in 0..5
      BY DEF TypeOK
    <3> QED
      BY <1>9, <3>1 DEF StoreFails, Least
  <2>2. /\ ScheduleRetry(Backoff(e))
        /\ running = {} /\ running' = running
    BY <1>9 DEF StoreFails, StallInv, CallsInRun
  <2> HIDE DEF e
  <2>3. Backoff(e) \in 0..MaxDelay
    BY <2>1, DelayOfBackoff
  <2>4. WaitHasTimer' /\ Awake'
    BY <2>2, <2>3, ScheduleRetryWakes
  <2> QED
    BY <2>2, <2>4 DEF StallInv, CallsInRun
<1>10. CASE BatchSettled
  <2>1. /\ running' = {} /\ UNCHANGED <<queueVars, waiting, timers>>
        /\ Size > 0 => immediates' > 0
    BY <1>0, <1>10 DEF BatchSettled
  <2>2. Size = 0 \/ Size > 0
    BY LenProperties DEF Size, TypeOK
  <2>3. Size = 0 => Queued' = {}
    BY <2>1, EmptyQueue DEF queueVars, Queued
  <2> QED
    BY <2>1, <2>2, <2>3 DEF StallInv, WaitHasTimer, CallsInRun, Awake
<1>11. CASE TimerFires
  <2>1. /\ UNCHANGED <<pc, running, waiting>>
        /\ timers' = [timers EXCEPT ![0] = @ - 1]
        /\ immediates' > 0 \/ resetting' > 0
    BY <1>0, <1>11 DEF TimerFires, runVars
  <2>2. waiting > 0 => timers'[waiting] = timers[waiting]
    BY <1>0, <2>1
  <2> QED
    BY <2>1, <2>2 DEF StallInv, WaitHasTimer, CallsInRun, Awake
<1>12. CASE ResetDone \/ ResetFails
  <2>1. immediates' > 0 /\ UNCHANGED <<pc, running, waiting, timers>>
    BY <1>0, <1>12 DEF ResetDone, ResetFails, runVars
  <2> QED
    BY <2>1 DEF StallInv, WaitHasTimer, CallsInRun, Awake
<1>13. CASE Tick
  <2>1. /\ UNCHANGED <<pc, running, queueVars, immediates, resetting>>
        /\ waiting' = IF waiting > 0 THEN waiting - 1 ELSE 0
    BY <1>13 DEF Tick, runVars
  <2>2. WaitHasTimer'
    <3>1. SUFFICES ASSUME waiting' > 0 PROVE timers'[waiting'] > 0
      BY DEF WaitHasTimer
    <3>2. waiting > 0 /\ waiting' = waiting - 1 /\ timers[waiting] > 0
      BY <1>0, <2>1, <3>1 DEF StallInv, WaitHasTimer
    <3> QED
      BY <1>0, <1>13, <3>2, TickKeepsTimers
  <2>3. Awake => Awake'
    <3>1. ASSUME NEW d \in 0..MaxDelay, timers[d] > 0
          PROVE  \E e \in 0..MaxDelay : timers'[e] > 0
      BY <1>13, <3>1, TickKeepsTimers
    <3> QED
      BY <2>1, <3>1 DEF Awake
  <2> QED
    BY <2>1, <2>2, <2>3 DEF StallInv, CallsInRun, Queued, queueVars
<1>14. CASE UNCHANGED vars
  BY <1>14 DEF vars, StallInv, WaitHasTimer, CallsInRun, Awake, Queued
<1> QED
  BY <1>1, <1>2, <1>3, <1>4, <1>5, <1>6, <1>7, <1>8, <1>9, <1>10, <1>11, <1>12,
     <1>13, <1>14 DEF Next, Answer

\* As long as requests are queued somebody will look at the queue: a run is active
\* or due, a timer is set, or a timer's reset is under way.
THEOREM NeverStalls == Spec => []NoStall
<1>1. StallInv => NoStall
  BY DEF StallInv, Awake, NoStall
<1>2. TypeOK /\ StallInv /\ [Next]_vars => TypeOK' /\ StallInv'
  BY TypeStep, StallStep
<1> QED
  BY <1>1, <1>2, TypeInit, StallInit, PTL DEF Spec

-----------------------------------------------------------------------------
(* A live window counts no more than the limit *)

\* Only the strategy records usage, and only the status callback moves the limit.
ModeKept ==
    /\ opts.dynamic => count = 0 /\ pc # "record"
    /\ ~opts.dynamic => pc # "status"

\* What the active run read is still there when it dequeues: meanwhile the window
\* can only have aged or been reset.
CapacityHolds == pc = "ttl" => remaining = 0 \/ Used + remaining <= limit

\* So is what it dequeued when it is recorded.
BatchFits == pc = "record" => Used + Len(batch) <= limit

QuotaInv == ModeKept /\ CapacityHolds /\ BatchFits /\ UsageWithinQuota

LEMMA QuotaInit == Init => QuotaInv
BY ConstantTypes DEF Init, QuotaInv, ModeKept, CapacityHolds, BatchFits,
   UsageWithinQuota, Used, WindowLive

LEMMA UsedType ==
    ASSUME TypeOK
    PROVE  Used \in Nat /\ limit \in Nat /\ Len(batch) \in Nat /\ remaining \in Nat
BY LenProperties DEF TypeOK, Used

\* A step that only starts, ends or skips calls leaves the quota alone.
LEMMA QuotaUntouched ==
    ASSUME QuotaInv, UNCHANGED <<opts, pc, limit, remaining, batch, storeVars>>
    PROVE  QuotaInv'
BY DEF QuotaInv, ModeKept, CapacityHolds, BatchFits, UsageWithinQuota, Used,
   WindowLive, storeVars

\* A batch of at most n requests fits where n requests fit.
LEMMA UseCapacityQuota ==
    ASSUME TypeOK, NEW n \in Nat, NEW d, UseCapacity(n, d),
           ~opts.dynamic => n = 0 \/ Used + n <= limit
    PROVE  /\ pc' \in {"idle", "record", "execute"}
           /\ pc' = "record" => ~opts.dynamic /\ Used + Len(batch') <= limit
<1>1. pc' \in {"idle", "record", "execute"}
  BY DEF UseCapacity
<1>2. ASSUME pc' = "record"
      PROVE  ~opts.dynamic /\ n > 0 /\ batch' = Taken(n)
  BY <1>2 DEF UseCapacity
<1>3. Taken(n) \in Seq(Reqs) /\ Len(Taken(n)) <= n
  BY Dequeue DEF TypeOK
<1>4. Len(Taken(n)) \in Nat /\ Used \in Nat /\ limit \in Nat
  BY <1>3, LenProperties, UsedType
<1> QED
  BY <1>1, <1>2, <1>3, <1>4

LEMMA QuotaStep == TypeOK /\ QuotaInv /\ [Next]_vars => QuotaInv'
<1> SUFFICES ASSUME TypeOK, QuotaInv, [Next]_vars PROVE QuotaInv'
  OBVIOUS
<1>0. /\ Used \in Nat /\ limit \in Nat /\ Len(batch) \in Nat /\ remaining \in Nat
      /\ windowAge \in 0..Interval /\ Interval \in Nat \ {0} /\ count \in Nat
  BY UsedType, ConstantTypes DEF TypeOK
<1>1. ASSUME NEW r \in Reqs, Schedule(r) \/ Settle(r) PROVE QuotaInv'
  BY <1>1, QuotaUntouched DEF Schedule, Settle, CallSucceeds, CallFails, CallRateLimited,
     runVars
<1>2. CASE ClearQueue
  BY <1>2, QuotaUntouched DEF ClearQueue, runVars
<1>3. CASE ProcessQueue
  <2>1. /\ UNCHANGED <<opts, limit, remaining, batch, storeVars>>
        /\ pc' = pc \/ pc' = IF opts.dynamic THEN "status" ELSE "count"
    BY <1>3 DEF ProcessQueue
  <2>2. CASE pc' = pc
    BY <2>1, <2>2, QuotaUntouched
  <2>3. CASE pc' = IF opts.dynamic THEN "status" ELSE "count"
    BY <2>1, <2>3 DEF QuotaInv, ModeKept, CapacityHolds, BatchFits, UsageWithinQuota,
       Used, WindowLive, storeVars
  <2> QED
    BY <2>1, <2>2, <2>3
<1>4. ASSUME NEW n \in {0} \cup StatusLimits, NEW reported \in {0} \cup StatusLimits,
             NEW d \in StatusResets \cup {Interval}, StatusReturned(n, reported, d)
      PROVE  QuotaInv'
  <2>1. opts.dynamic /\ count = 0 /\ Used = 0
    BY <1>4 DEF StatusReturned, QuotaInv, ModeKept, Used
  <2>2. n \in Nat /\ reported \in Nat /\ UseCapacity(n, d) /\ UNCHANGED <<opts, storeVars>>
    BY <1>4, LimiterAssumption DEF StatusReturned
  <2>3. pc' \in {"idle", "execute"}
    BY <2>1, <2>2, UseCapacityQuota
  <2>4. limit' \in Nat
    BY <1>0, <1>4, <2>2 DEF StatusReturned
  <2> QED
    BY <2>1, <2>2, <2>3, <2>4 DEF QuotaInv, ModeKept, CapacityHolds, BatchFits,
       UsageWithinQuota, Used, storeVars
<1>5. CASE StatusMissing
  BY <1>5 DEF StatusMissing, QuotaInv, ModeKept, CapacityHolds, BatchFits,
     UsageWithinQuota, Used, WindowLive, storeVars
<1>6. CASE CountReturned
  <2>1. /\ UNCHANGED <<opts, limit, batch, storeVars>> /\ pc' = "ttl"
        /\ remaining' = IF limit > Used THEN limit - Used ELSE 0
    BY <1>6 DEF CountReturned
  <2>2. Used' = Used
    BY <2>1 DEF Used, WindowLive, storeVars
  <2>3. CapacityHolds'
    BY <1>0, <2>1, <2>2 DEF CapacityHolds
  <2> QED
    BY <2>1, <2>2, <2>3 DEF QuotaInv, ModeKept, BatchFits, UsageWithinQuota, storeVars
<1>7. CASE TTLReturned
  <2>1. /\ UseCapacity(remaining, IF TTL > 0 THEN TTL ELSE Interval)
        /\ remaining = 0 \/ Used + remaining <= limit
        /\ UNCHANGED <<opts, limit, remaining, storeVars>>
    BY <1>7 DEF TTLReturned, QuotaInv, CapacityHolds
  <2>2. /\ pc' \in {"idle", "record", "execute"}
        /\ pc' = "record" => ~opts.dynamic /\ Used + Len(batch') <= limit
    BY <1>0, <2>1, UseCapacityQuota
  <2>3. Used' = Used
    BY <2>1 DEF Used, WindowLive, storeVars
  <2> QED
    BY <2>1, <2>2, <2>3 DEF QuotaInv, ModeKept, CapacityHolds, BatchFits,
       UsageWithinQuota, storeVars
<1>8. CASE UsageRecorded
  <2>1. /\ pc' = "execute" /\ UNCHANGED <<opts, limit>> /\ StoreIncrBy(Len(batch)) /\ pc = "record"
    BY <1>8 DEF UsageRecorded
  <2>2. Used + Len(batch) <= limit /\ ~opts.dynamic
    BY <2>1 DEF QuotaInv, BatchFits, ModeKept
  <2>3. Used' = Used + Len(batch)
    BY <1>0, <2>1 DEF StoreIncrBy, Used, WindowLive
  <2> QED
    BY <2>1, <2>2, <2>3 DEF QuotaInv, ModeKept, CapacityHolds, BatchFits, UsageWithinQuota
<1>9. CASE StoreFails
  BY <1>9 DEF StoreFails, QuotaInv, ModeKept, CapacityHolds, BatchFits,
     UsageWithinQuota, Used, WindowLive, storeVars
<1>10. CASE BatchSettled
  BY <1>10 DEF BatchSettled, QuotaInv, ModeKept, CapacityHolds, BatchFits,
     UsageWithinQuota, Used, WindowLive, storeVars
<1>11. CASE TimerFires
  BY <1>11, QuotaUntouched DEF TimerFires, runVars
<1>12. CASE ResetDone
  <2>1. /\ UNCHANGED <<opts, pc, remaining, batch, limit>>
        /\ count' = 0 /\ Used' = 0
    BY <1>12 DEF ResetDone, StoreReset, runVars, Used
  <2> QED
    BY <1>0, <2>1 DEF QuotaInv, ModeKept, CapacityHolds, BatchFits, UsageWithinQuota
<1>13. CASE ResetFails
  BY <1>13, QuotaUntouched DEF ResetFails, runVars
<1>14. CASE Tick
  <2>1. /\ UNCHANGED <<opts, pc, remaining, batch, limit, count>>
        /\ windowAge' = Least(windowAge + 1, Interval)
    BY <1>14 DEF Tick, runVars
  <2>2. Used' = Used \/ Used' = 0
    BY <1>0, <2>1 DEF Used, WindowLive, Least
  <2> QED
    BY <1>0, <2>1, <2>2 DEF QuotaInv, ModeKept, CapacityHolds, BatchFits, UsageWithinQuota
<1>15. CASE UNCHANGED vars
  BY <1>15, QuotaUntouched DEF vars, storeVars
<1> QED
  BY <1>1, <1>2, <1>3, <1>4, <1>5, <1>6, <1>7, <1>8, <1>9, <1>10, <1>11, <1>12,
     <1>13, <1>14, <1>15 DEF Next, Answer

\* Although the capacity is read, the batch dequeued and the usage recorded in
\* different turns, a live window never counts more than the limit.
THEOREM QuotaRespected == Spec => []UsageWithinQuota
<1>1. QuotaInv => UsageWithinQuota
  BY DEF QuotaInv
<1>2. TypeOK /\ QuotaInv /\ [Next]_vars => TypeOK' /\ QuotaInv'
  BY TypeStep, QuotaStep
<1> QED
  BY <1>1, <1>2, TypeInit, QuotaInit, PTL DEF Spec

-----------------------------------------------------------------------------
(* A request is in one place, in its turn *)

\* A sequence cut in two.
LEMMA Cut ==
    ASSUME NEW S, NEW s \in Seq(S), NEW m \in 0..Len(s)
    PROVE  /\ SubSeq(s, 1, m) \in Seq(S) /\ SubSeq(s, m + 1, Len(s)) \in Seq(S)
           /\ DOMAIN SubSeq(s, 1, m) = 1..m
           /\ DOMAIN SubSeq(s, m + 1, Len(s)) = 1..(Len(s) - m)
           /\ \A i \in 1..m : SubSeq(s, 1, m)[i] = s[i]
           /\ \A i \in 1..(Len(s) - m) : SubSeq(s, m + 1, Len(s))[i] = s[m + i]
<1>1. Len(s) \in Nat /\ m \in Nat /\ m <= Len(s)
  BY LenProperties
<1>2. \A i \in 1..Len(s) : s[i] \in S
  BY ElementOfSeq
<1>3. /\ SubSeq(s, 1, m) \in Seq(S)
      /\ Len(SubSeq(s, 1, m)) = m
      /\ \A i \in 1..m : SubSeq(s, 1, m)[i] = s[i]
  <2>1. \A i \in 1..m : s[i] \in S
    BY <1>1, <1>2
  <2> QED
    BY <1>1, <2>1, SubSeqProperties
<1>4. /\ SubSeq(s, m + 1, Len(s)) \in Seq(S)
      /\ Len(SubSeq(s, m + 1, Len(s))) = Len(s) - m
      /\ \A i \in 1..(Len(s) - m) : SubSeq(s, m + 1, Len(s))[i] = s[m + i]
  <2>1. \A i \in (m + 1)..Len(s) : s[i] \in S
    BY <1>1, <1>2
  <2>2. m + 1 \in Int /\ Len(s) \in Int
    BY <1>1
  <2> QED
    BY <1>1, <2>1, <2>2, SubSeqProperties
<1> QED
  BY <1>1, <1>3, <1>4, LenProperties

\* What stands once stands once in either part, and in one of them.
LEMMA CutOnce ==
    ASSUME NEW S, NEW s \in Seq(S), NEW m \in 0..Len(s), Once(s)
    PROVE  /\ Once(SubSeq(s, 1, m)) /\ Once(SubSeq(s, m + 1, Len(s)))
           /\ Elems(SubSeq(s, 1, m)) \cap Elems(SubSeq(s, m + 1, Len(s))) = {}
           /\ Elems(SubSeq(s, 1, m)) \cup Elems(SubSeq(s, m + 1, Len(s))) = Elems(s)
<1> DEFINE a == SubSeq(s, 1, m)
           b == SubSeq(s, m + 1, Len(s))
<1>1. /\ DOMAIN s = 1..Len(s) /\ Len(s) \in Nat /\ m \in Nat /\ m <= Len(s)
  BY LenProperties
<1>2. /\ DOMAIN a = 1..m /\ DOMAIN b = 1..(Len(s) - m)
      /\ \A i \in 1..m : a[i] = s[i]
      /\ \A i \in 1..(Len(s) - m) : b[i] = s[m + i]
  BY Cut
<1> HIDE DEF a, b
<1>3. Once(a)
  BY <1>1, <1>2 DEF Once
<1>4. ASSUME NEW i \in DOMAIN b, NEW j \in DOMAIN b, b[i] = b[j] PROVE i = j
  <2>1. m + i \in DOMAIN s /\ m + j \in DOMAIN s /\ s[m + i] = s[m + j]
    BY <1>1, <1>2, <1>4
  <2>2. m + i = m + j
    BY <2>1 DEF Once
  <2> QED
    BY <1>1, <1>2, <2>2
<1>5. ASSUME NEW i \in DOMAIN a, NEW j \in DOMAIN b, a[i] = b[j] PROVE FALSE
  <2>1. i \in DOMAIN s /\ m + j \in DOMAIN s /\ s[i] = s[m + j]
    BY <1>1, <1>2, <1>5
  <2>2. i = m + j
    BY <2>1 DEF Once
  <2> QED
    BY <1>1, <1>2, <2>2
<1>6. Elems(a) \cap Elems(b) = {}
  BY <1>5 DEF Elems
<1>7. Elems(a) \subseteq Elems(s)
  BY <1>1, <1>2 DEF Elems
<1>8. Elems(b) \subseteq Elems(s)
  <2>1. \A i \in DOMAIN b : m + i \in DOMAIN s /\ b[i] = s[m + i]
    BY <1>1, <1>2
  <2> QED
    BY <2>1 DEF Elems
<1>9. Once(b)
  BY <1>4 DEF Once
<1>10. Elems(s) \subseteq Elems(a) \cup Elems(b)
  <2>1. ASSUME NEW i \in DOMAIN s PROVE s[i] \in Elems(a) \cup Elems(b)
    <3>1. CASE i <= m
      <4>1. i \in DOMAIN a /\ a[i] = s[i]
        BY <1>1, <1>2, <3>1
      <4> QED
        BY <4>1 DEF Elems
    <3>2. CASE ~(i <= m)
      <4>1. i - m \in DOMAIN b /\ m + (i - m) = i
        BY <1>1, <1>2, <3>2
      <4>2. b[i - m] = s[i]
        BY <1>2, <4>1
      <4> QED
        BY <4>1, <4>2 DEF Elems
    <3> QED
      BY <3>1, <3>2
  <2> QED
    BY <2>1 DEF Elems
<1> QED
  BY <1>3, <1>6, <1>7, <1>8, <1>9, <1>10 DEF a, b

\* Two sequences with nothing in common, one after the other.
LEMMA ConcatOnce ==
    ASSUME NEW S, NEW s \in Seq(S), NEW t \in Seq(S), Once(s), Once(t),
           Elems(s) \cap Elems(t) = {}
    PROVE  Once(s \o t) /\ Elems(s \o t) = Elems(s) \cup Elems(t)
<1>1. /\ DOMAIN s = 1..Len(s) /\ Len(s) \in Nat
      /\ DOMAIN t = 1..Len(t) /\ Len(t) \in Nat
  BY LenProperties
<1>2. /\ DOMAIN (s \o t) = 1..(Len(s) + Len(t))
      /\ \A i \in 1..Len(s) : (s \o t)[i] = s[i]
      /\ \A i \in 1..Len(t) : (s \o t)[Len(s) + i] = t[i]
  <2>1. s \o t \in Seq(S) /\ Len(s \o t) = Len(s) + Len(t)
    BY ConcatProperties
  <2>2. \A i \in 1..Len(s) + Len(t) :
          (s \o t)[i] = IF i <= Len(s) THEN s[i] ELSE t[i - Len(s)]
    BY ConcatProperties
  <2>3. DOMAIN (s \o t) = 1..(Len(s) + Len(t))
    BY <2>1, LenProperties
  <2>4. ASSUME NEW i \in 1..Len(t) PROVE (s \o t)[Len(s) + i] = t[i]
    <3>1. /\ Len(s) + i \in 1..(Len(s) + Len(t)) /\ ~(Len(s) + i <= Len(s))
          /\ (Len(s) + i) - Len(s) = i
      BY <1>1
    <3> QED
      BY <2>2, <3>1
  <2>5. \A i \in 1..Len(s) : (s \o t)[i] = s[i]
    BY <1>1, <2>2
  <2> QED
    BY <2>3, <2>4, <2>5
<1> DEFINE u == s \o t
<1> HIDE DEF u
<1>3. \A i \in DOMAIN u : \/ i \in DOMAIN s /\ u[i] = s[i]
                          \/ /\ i - Len(s) \in DOMAIN t /\ u[i] = t[i - Len(s)]
                             /\ i \notin DOMAIN s
  <2> SUFFICES ASSUME NEW i \in 1..(Len(s) + Len(t)), i \notin 1..Len(s)
               PROVE  i - Len(s) \in 1..Len(t) /\ u[i] = t[i - Len(s)]
    BY <1>1, <1>2 DEF u
  <2>1. i - Len(s) \in 1..Len(t) /\ Len(s) + (i - Len(s)) = i
    BY <1>1
  <2> QED
    BY <1>2, <2>1 DEF u
<1>4. DOMAIN u = 1..(Len(s) + Len(t))
  BY <1>2 DEF u
<1>5. Once(u)
  <2> SUFFICES ASSUME NEW i \in DOMAIN u, NEW j \in DOMAIN u, u[i] = u[j]
               PROVE  i = j
    BY DEF Once
  <2>1. i \in DOMAIN s <=> j \in DOMAIN s
    <3>1. /\ i \in DOMAIN s => u[i] \in Elems(s)
          /\ i \notin DOMAIN s => u[i] \in Elems(t)
      BY <1>3 DEF Elems
    <3>2. /\ j \in DOMAIN s => u[j] \in Elems(s)
          /\ j \notin DOMAIN s => u[j] \in Elems(t)
      BY <1>3 DEF Elems
    <3> QED
      BY <3>1, <3>2
  <2>2. CASE i \in DOMAIN s
    BY <1>3, <2>1, <2>2 DEF Once
  <2>3. CASE i \notin DOMAIN s
    <3>1. i - Len(s) = j - Len(s)
      BY <1>3, <2>1, <2>3 DEF Once
    <3> QED
      BY <1>1, <1>4, <3>1
  <2> QED
    BY <2>2, <2>3
<1>6. Elems(u) \subseteq Elems(s) \cup Elems(t)
  BY <1>3 DEF Elems
<1>7. Elems(s) \subseteq Elems(u)
  <2>1. \A i \in DOMAIN s : i \in DOMAIN u /\ u[i] = s[i]
    BY <1>1, <1>2, <1>4 DEF u
  <2> QED
    BY <2>1 DEF Elems
<1>8. Elems(t) \subseteq Elems(u)
  <2>1. ASSUME NEW i \in DOMAIN t
        PROVE  Len(s) + i \in DOMAIN u /\ u[Len(s) + i] = t[i]
    <3>1. i \in 1..Len(t) /\ Len(s) + i \in 1..(Len(s) + Len(t))
      BY <1>1
    <3> QED
      BY <1>2, <1>4, <3>1 DEF u
  <2> QED
    BY <2>1 DEF Elems
<1> QED
  BY <1>5, <1>6, <1>7, <1>8 DEF u

\* The queue of the requests with a priority is in order.
Sorted(s) == \A i, j \in DOMAIN s : i < j => Prio[s[i]] >= Prio[s[j]]

LEMMA UpTo ==
    ASSUME NEW n \in Nat
    PROVE  IsFiniteSet(1..n) /\ Cardinality(1..n) = n
BY FS_Interval

\* In a sorted queue those that stay ahead of r are the first ones.
LEMMA AheadFirst ==
    ASSUME NEW s \in Seq(DOMAIN Prio), NEW r \in DOMAIN Prio, Sorted(s),
           NEW B, B = {i \in DOMAIN s : Prio[s[i]] >= Prio[r]}
    PROVE  Cardinality(B) \in 0..Len(s) /\ B = 1..Cardinality(B)
<1>1. Len(s) \in Nat /\ DOMAIN s = 1..Len(s)
  BY LenProperties
<1>2. \A i \in 1..Len(s) : Prio[s[i]] \in Int
  BY ElementOfSeq, LimiterAssumption
<1>3. Prio[r] \in Int
  BY LimiterAssumption
<1>4. /\ IsFiniteSet(B) /\ Cardinality(B) \in Nat /\ Cardinality(B) <= Len(s)
  <2>1. IsFiniteSet(1..Len(s)) /\ Cardinality(1..Len(s)) = Len(s)
    BY <1>1, UpTo
  <2>2. B \in SUBSET (1..Len(s))
    BY <1>1
  <2>3. IsFiniteSet(B) /\ Cardinality(B) <= Len(s)
    BY <2>1, <2>2, FS_Subset
  <2> QED
    BY <2>3, FS_CardinalityType
<1>5. ASSUME NEW i \in B PROVE i \in 1..Cardinality(B)
  <2>1. i \in 1..Len(s) /\ Prio[s[i]] >= Prio[r]
    BY <1>1
  <2>2. ASSUME NEW j \in 1..i PROVE j \in B
    <3>1. j \in 1..Len(s) /\ i \in Nat /\ j \in Nat
      BY <1>1, <2>1
    <3>2. j = i \/ Prio[s[j]] >= Prio[s[i]]
      BY <1>1, <2>1, <3>1 DEF Sorted
    <3>3. Prio[s[j]] >= Prio[r]
      BY <1>2, <1>3, <2>1, <3>1, <3>2
    <3> QED
      BY <1>1, <3>1, <3>3
  <2>3. i \in Nat /\ Cardinality(1..i) = i
    BY <1>1, <2>1, UpTo
  <2>4. (1..i) \in SUBSET B
    BY <2>2
  <2>5. Cardinality(1..i) <= Cardinality(B)
    BY <1>4, <2>4, FS_Subset
  <2> QED
    BY <1>4, <2>1, <2>3, <2>5
<1> DEFINE n == Cardinality(B)
<1> HIDE DEF n
<1>6. n \in Nat /\ IsFiniteSet(1..n) /\ Cardinality(1..n) = n
  BY <1>4, UpTo DEF n
<1>7. B \in SUBSET (1..n)
  BY <1>5 DEF n
<1>8. Cardinality(1..n) = Cardinality(B)
  BY <1>6 DEF n
<1>9. B = 1..n
  BY <1>6, <1>7, <1>8, FS_Subset
<1> QED
  BY <1>1, <1>4, <1>9 DEF n

\* The push and the sort keep the order, and put the request in one place.
LEMMA InsertSorted ==
    ASSUME NEW s \in Seq(DOMAIN Prio), NEW r \in DOMAIN Prio, Sorted(s), Once(s),
           r \notin Elems(s), NEW u, u = InsertByPriority(s, r)
    PROVE  Sorted(u) /\ Once(u) /\ Elems(u) = Elems(s) \cup {r}
<1> DEFINE B == {i \in DOMAIN s : Prio[s[i]] >= Prio[r]}
           n == Cardinality(B)
           a == SubSeq(s, 1, n)
           b == SubSeq(s, n + 1, Len(s))
<1>1. n \in 0..Len(s) /\ B = 1..n
  BY AheadFirst
<1>2. /\ \A i \in DOMAIN s : i <= n => Prio[s[i]] >= Prio[r]
      /\ \A i \in DOMAIN s : i > n => ~(Prio[s[i]] >= Prio[r])
  <2>1. \A i \in DOMAIN s : i \in 1..n <=> Prio[s[i]] >= Prio[r]
    BY <1>1
  <2>2. DOMAIN s = 1..Len(s) /\ Len(s) \in Nat
    BY LenProperties
  <2> HIDE DEF B
  <2> QED
    BY <1>1, <2>1, <2>2
<1>3. u = a \o <<r>> \o b
  BY DEF InsertByPriority
<1> HIDE DEF B, n
<1>4. /\ a \in Seq(DOMAIN Prio) /\ b \in Seq(DOMAIN Prio)
      /\ DOMAIN a = 1..n /\ DOMAIN b = 1..(Len(s) - n)
      /\ \A i \in 1..n : a[i] = s[i]
      /\ \A i \in 1..(Len(s) - n) : b[i] = s[n + i]
  BY <1>1, Cut
<1>5. /\ Once(a) /\ Once(b) /\ Elems(a) \cap Elems(b) = {}
      /\ Elems(a) \cup Elems(b) = Elems(s)
  BY <1>1, CutOnce
<1> HIDE DEF a, b
<1>6. /\ Len(s) \in Nat /\ n \in Nat /\ DOMAIN s = 1..Len(s)
      /\ Len(a) = n /\ Len(b) = Len(s) - n
  BY <1>1, <1>4, LenProperties
<1> DEFINE one == <<r>>
           c == a \o one
<1>7. /\ one \in Seq(DOMAIN Prio) /\ Len(one) = 1 /\ one[1] = r
      /\ Once(one) /\ Elems(one) = {r}
  BY DEF Once, Elems
<1> HIDE DEF one
<1>8. /\ c \in Seq(DOMAIN Prio) /\ Len(c) = n + 1
      /\ \A i \in 1..(n + 1) : c[i] = IF i <= n THEN a[i] ELSE one[i - n]
  <2>1. /\ c \in Seq(DOMAIN Prio) /\ Len(c) = Len(a) + Len(one)
        /\ \A i \in 1..Len(a) + Len(one) :
              c[i] = IF i <= Len(a) THEN a[i] ELSE one[i - Len(a)]
    BY <1>4, <1>7, ConcatProperties
  <2> HIDE DEF c
  <2> QED
    BY <1>6, <1>7, <2>1
<1>9. Once(c) /\ Elems(c) = Elems(a) \cup {r}
  BY <1>4, <1>5, <1>7, ConcatOnce
<1> HIDE DEF c
<1>10. u = c \o b
  BY <1>3 DEF c, one
<1>11. /\ u \in Seq(DOMAIN Prio) /\ Len(u) = Len(s) + 1
       /\ \A i \in 1..(Len(s) + 1) : u[i] = IF i <= n + 1 THEN c[i] ELSE b[i - (n + 1)]
  <2>1. /\ u \in Seq(DOMAIN Prio) /\ Len(u) = Len(c) + Len(b)
        /\ \A i \in 1..Len(c) + Len(b) :
              u[i] = IF i <= Len(c) THEN c[i] ELSE b[i - Len(c)]
    BY <1>4, <1>8, <1>10, ConcatProperties
  <2>2. Len(c) = n + 1 /\ Len(c) + Len(b) = Len(s) + 1
    BY <1>6, <1>8
  <2> QED
    BY <2>1, <2>2
<1>12. Once(u) /\ Elems(u) = Elems(s) \cup {r}
  BY <1>4, <1>5, <1>8, <1>9, <1>10, ConcatOnce
<1>13. ASSUME NEW i \in 1..(Len(s) + 1)
       PROVE  /\ i <= n => i \in DOMAIN s /\ u[i] = s[i]
              /\ i = n + 1 => u[i] = r
              /\ i > n + 1 => i - 1 \in DOMAIN s /\ u[i] = s[i - 1]
  <2>1. CASE i <= n
    BY <1>4, <1>6, <1>8, <1>11, <2>1
  <2>2. CASE i = n + 1
    BY <1>6, <1>7, <1>8, <1>11, <2>2
  <2>3. CASE i > n + 1
    <3>1. i - (n + 1) \in 1..(Len(s) - n) /\ n + (i - (n + 1)) = i - 1
      BY <1>6, <2>3
    <3>2. u[i] = b[i - (n + 1)]
      <4>1. ~(i <= n + 1)
        BY <1>6, <2>3
      <4> QED
        BY <1>11, <4>1
    <3>3. i - 1 \in DOMAIN s
      BY <1>6, <2>3
    <3> QED
      BY <1>4, <1>6, <2>3, <3>1, <3>2, <3>3
  <2> QED
    BY <1>6, <2>1, <2>2, <2>3
<1>14. \A i \in DOMAIN s : Prio[s[i]] \in Int
  BY <1>6, ElementOfSeq, LimiterAssumption
<1>15. Sorted(u)
  <2> SUFFICES ASSUME NEW i \in 1..(Len(s) + 1), NEW j \in 1..(Len(s) + 1), i < j
               PROVE  Prio[u[i]] >= Prio[u[j]]
    BY <1>11, LenProperties DEF Sorted
  <2>1. Prio[r] \in Int
    BY LimiterAssumption
  <2>2. CASE j <= n
    <3>1. u[i] = s[i] /\ u[j] = s[j] /\ i \in DOMAIN s /\ j \in DOMAIN s
      BY <1>6, <1>13, <2>2
    <3> QED
      BY <3>1 DEF Sorted
  <2>3. CASE i <= n /\ j = n + 1
    <3>1. u[i] = s[i] /\ u[j] = r /\ i \in DOMAIN s
      BY <1>6, <1>13, <2>3
    <3> QED
      BY <1>2, <2>3, <3>1
  <2>4. CASE i <= n /\ j > n + 1
    <3>1. u[i] = s[i] /\ u[j] = s[j - 1] /\ i \in DOMAIN s /\ j - 1 \in DOMAIN s
      BY <1>6, <1>13, <2>4
    <3>2. i < j - 1
      BY <1>6, <2>4
    <3> QED
      BY <3>1, <3>2 DEF Sorted
  <2>5. CASE i = n + 1
    <3>1. u[i] = r /\ u[j] = s[j - 1] /\ j - 1 \in DOMAIN s /\ j - 1 > n
      BY <1>6, <1>13, <2>5
    <3>2. ~(Prio[s[j - 1]] >= Prio[r])
      BY <1>2, <3>1
    <3>3. Prio[s[j - 1]] \in Int
      BY <1>14, <3>1
    <3> QED
      BY <2>1, <3>1, <3>2, <3>3
  <2>6. CASE i > n + 1
    <3>1. /\ u[i] = s[i - 1] /\ u[j] = s[j - 1]
          /\ i - 1 \in DOMAIN s /\ j - 1 \in DOMAIN s
      BY <1>6, <1>13, <2>6
    <3>2. i - 1 < j - 1
      OBVIOUS
    <3> QED
      BY <3>1, <3>2 DEF Sorted
  <2> QED
    BY <1>6, <2>2, <2>3, <2>4, <2>5, <2>6
<1> QED
  BY <1>12, <1>15

\* Everybody who has a place still waits for an answer.
WaitersPending == \A r \in Queued \cup Elems(batch) \cup running : promise[r] = "pending"

PlaceInv == OnePlace /\ Sorted(priorityQueue) /\ WaitersPending

\* What a step may do to the promises, and to the order of the queue.
SettledStay == \A r \in Reqs : promise[r] \in {"resolved", "rejected"} =>
                   promise'[r] = promise[r] /\ attempts'[r] = attempts[r]
InTurn == \A r \in Dequeued, s \in Queued' : ~Outranks(s, r)

LEMMA PlaceInit == Init => PlaceInv
BY DEF Init, PlaceInv, OnePlace, Once, Sorted, WaitersPending, Queued, Elems

LEMMA EnqueueOnce ==
    ASSUME TypeOK, PlaceInv, NEW r \in Reqs, r \notin Queued, Enqueue(r)
    PROVE  /\ Once(queue)' /\ Once(priorityQueue)' /\ Sorted(priorityQueue)'
           /\ Queued' = Queued \cup {r}
<1>1. /\ queue \in Seq(Reqs \ DOMAIN Prio) /\ priorityQueue \in Seq(DOMAIN Prio)
      /\ Once(queue) /\ Once(priorityQueue) /\ Sorted(priorityQueue)
      /\ r \notin Elems(queue) /\ r \notin Elems(priorityQueue)
  BY DEF TypeOK, PlaceInv, OnePlace, Queued
<1>2. CASE r \in DOMAIN Prio
  <2>1. queue' = queue /\ priorityQueue' = InsertByPriority(priorityQueue, r)
    BY <1>2 DEF Enqueue
  <2>2. /\ Sorted(priorityQueue') /\ Once(priorityQueue')
        /\ Elems(priorityQueue') = Elems(priorityQueue) \cup {r}
    BY <1>1, <1>2, <2>1, InsertSorted
  <2> QED
    BY <1>1, <2>1, <2>2 DEF Queued
<1>3. CASE r \notin DOMAIN Prio
  <2>1. queue' = Append(queue, r) /\ priorityQueue' = priorityQueue
    BY <1>3 DEF Enqueue
  <2> DEFINE one == <<r>>
  <2>2. Append(queue, r) = queue \o one
    BY <1>1
  <2>3. one \in Seq(Reqs \ DOMAIN Prio) /\ Once(one) /\ Elems(one) = {r}
    BY <1>3 DEF Once, Elems
  <2> HIDE DEF one
  <2>4. Elems(queue) \cap Elems(one) = {}
    BY <1>1, <2>3
  <2>5. Once(queue \o one) /\ Elems(queue \o one) = Elems(queue) \cup Elems(one)
    BY <1>1, <2>3, <2>4, ConcatOnce
  <2> QED
    BY <1>1, <2>1, <2>2, <2>3, <2>5 DEF Queued
<1> QED
  BY <1>2, <1>3

\* Those that dequeue(n) takes are in one place, were queued, are not any more, and
\* nobody who outranks one of them stays.
LEMMA DequeueInTurn ==
    ASSUME TypeOK, PlaceInv, NEW n \in Nat, LeaveQueue(n)
    PROVE  /\ Once(Taken(n)) /\ Once(queue)' /\ Once(priorityQueue)'
           /\ Sorted(priorityQueue)'
           /\ Elems(Taken(n)) \cup Queued' = Queued
           /\ Elems(Taken(n)) \cap Queued' = {}
           /\ \A r \in Elems(Taken(n)), s \in Queued' : ~Outranks(s, r)
<1> DEFINE p == FromPriority(n)
           q == FromNormal(n)
           pa == SubSeq(priorityQueue, 1, p)
           pb == SubSeq(priorityQueue, p + 1, Len(priorityQueue))
           qa == SubSeq(queue, 1, q)
           qb == SubSeq(queue, q + 1, Len(queue))
<1>1. /\ queue \in Seq(Reqs \ DOMAIN Prio) /\ priorityQueue \in Seq(DOMAIN Prio)
      /\ Once(queue) /\ Once(priorityQueue) /\ Sorted(priorityQueue)
  BY DEF TypeOK, PlaceInv, OnePlace
<1>2. Len(queue) \in Nat /\ Len(priorityQueue) \in Nat
  BY <1>1, LenProperties
<1>3. p \in 0..Len(priorityQueue) /\ p <= n /\ (p = n \/ p = Len(priorityQueue))
  BY <1>2, LeastBound DEF FromPriority
<1>4. q \in 0..Len(queue) /\ (p = n => q = 0)
  BY <1>2, <1>3, LeastBound DEF FromNormal
<1>5. priorityQueue' = pb /\ queue' = qb /\ Taken(n) = pa \o qa
  BY DEF LeaveQueue, Taken
<1> HIDE DEF p, q
<1>6. /\ pa \in Seq(DOMAIN Prio) /\ pb \in Seq(DOMAIN Prio)
      /\ DOMAIN pa = 1..p /\ DOMAIN pb = 1..(Len(priorityQueue) - p)
      /\ \A i \in 1..p : pa[i] = priorityQueue[i]
      /\ \A i \in 1..(Len(priorityQueue) - p) : pb[i] = priorityQueue[p + i]
  BY <1>1, <1>3, Cut
<1>7. /\ Once(pa) /\ Once(pb) /\ Elems(pa) \cap Elems(pb) = {}
      /\ Elems(pa) \cup Elems(pb) = Elems(priorityQueue)
  BY <1>1, <1>3, CutOnce
<1>8. /\ qa \in Seq(Reqs \ DOMAIN Prio) /\ qb \in Seq(Reqs \ DOMAIN Prio)
      /\ DOMAIN qa = 1..q
  BY <1>1, <1>4, Cut
<1>9. /\ Once(qa) /\ Once(qb) /\ Elems(qa) \cap Elems(qb) = {}
      /\ Elems(qa) \cup Elems(qb) = Elems(queue)
  BY <1>1, <1>4, CutOnce
<1> HIDE DEF pa, pb, qa, qb
<1>10. Elems(queue) \subseteq Reqs \ DOMAIN Prio /\ Elems(priorityQueue) \subseteq DOMAIN Prio
  BY <1>1, ElemsType
<1>11. Once(Taken(n)) /\ Elems(Taken(n)) = Elems(pa) \cup Elems(qa)
  <2>1. pa \in Seq(Reqs) /\ qa \in Seq(Reqs) /\ Elems(pa) \cap Elems(qa) = {}
    BY <1>6, <1>7, <1>8, <1>9, <1>10, LimiterAssumption, SeqMonotonic
  <2> QED
    BY <1>5, <1>7, <1>9, <2>1, ConcatOnce
<1>12. Queued' = Elems(pb) \cup Elems(qb)
  BY <1>5 DEF Queued
<1>13. DOMAIN priorityQueue = 1..Len(priorityQueue)
  BY <1>1, LenProperties
<1>14. Sorted(pb)
  <2> SUFFICES ASSUME NEW i \in DOMAIN pb, NEW j \in DOMAIN pb, i < j
               PROVE  Prio[pb[i]] >= Prio[pb[j]]
    BY DEF Sorted
  <2>1. /\ p + i \in DOMAIN priorityQueue /\ p + j \in DOMAIN priorityQueue
        /\ p + i < p + j
    <3>1. i \in 1..(Len(priorityQueue) - p) /\ j \in 1..(Len(priorityQueue) - p)
      BY <1>6
    <3>2. /\ p + i \in 1..Len(priorityQueue) /\ p + j \in 1..Len(priorityQueue)
          /\ p + i < p + j
      BY <1>2, <1>3, <3>1
    <3> QED
      BY <1>13, <3>2
  <2>2. Prio[priorityQueue[p + i]] >= Prio[priorityQueue[p + j]]
    BY <1>1, <2>1 DEF Sorted
  <2> QED
    BY <1>6, <2>2
<1>15. ASSUME NEW r \in Elems(pa), NEW s \in Elems(pb) PROVE Prio[r] >= Prio[s]
  <2>1. PICK i \in DOMAIN pa : r = pa[i]
    BY DEF Elems
  <2>2. PICK j \in DOMAIN pb : s = pb[j]
    BY DEF Elems
  <2>3. /\ i \in DOMAIN priorityQueue /\ p + j \in DOMAIN priorityQueue /\ i < p + j
        /\ r = priorityQueue[i] /\ s = priorityQueue[p + j]
    <3>1. i \in 1..p /\ j \in 1..(Len(priorityQueue) - p)
      BY <1>6
    <3>2. i \in 1..Len(priorityQueue) /\ p + j \in 1..Len(priorityQueue) /\ i < p + j
      BY <1>2, <1>3, <3>1
    <3> QED
      BY <1>6, <1>13, <2>1, <2>2, <3>1, <3>2
  <2> QED
    BY <1>1, <2>3 DEF Sorted
<1>16. Elems(qa) # {} => Elems(pb) = {}
  <2> SUFFICES ASSUME Elems(qa) # {} PROVE Elems(pb) = {}
    OBVIOUS
  <2>1. q # 0
    BY <1>8 DEF Elems
  <2>2. p = Len(priorityQueue)
    BY <1>3, <1>4, <2>1
  <2>3. DOMAIN pb = {}
    BY <1>2, <1>6, <2>2
  <2> QED
    BY <2>3 DEF Elems
<1>17. ASSUME NEW r \in Elems(Taken(n)), NEW s \in Queued' PROVE ~Outranks(s, r)
  <2>1. CASE s \in Elems(qb)
    <3>1. s \notin DOMAIN Prio /\ Rank(s) = <<0, 0>>
      BY <1>9, <1>10, <2>1 DEF Rank
    <3>2. CASE r \in DOMAIN Prio
      BY <3>1, <3>2 DEF Outranks, Rank
    <3>3. CASE r \notin DOMAIN Prio
      BY <3>1, <3>3 DEF Outranks, Rank
    <3> QED
      BY <3>2, <3>3
  <2>2. CASE s \in Elems(pb)
    <3>1. r \in Elems(pa)
      BY <1>11, <1>16, <2>2
    <3>2. r \in DOMAIN Prio /\ s \in DOMAIN Prio /\ Prio[r] >= Prio[s]
      BY <1>7, <1>10, <1>15, <2>2, <3>1
    <3>3. Prio[r] \in Int /\ Prio[s] \in Int
      BY <3>2, LimiterAssumption
    <3>4. Rank(r) = <<1, Prio[r]>> /\ Rank(s) = <<1, Prio[s]>>
      BY <3>2 DEF Rank
    <3> QED
      BY <3>2, <3>3, <3>4 DEF Outranks
  <2> QED
    BY <1>12, <2>1, <2>2
<1>18. /\ Elems(Taken(n)) \cup Queued' = Queued
       /\ Elems(Taken(n)) \cap Queued' = {}
  BY <1>7, <1>9, <1>10, <1>11, <1>12 DEF Queued
<1> QED
  BY <1>5, <1>7, <1>9, <1>11, <1>14, <1>17, <1>18

\* A step that moves nobody.
LEMMA PlacesKept ==
    ASSUME PlaceInv, UNCHANGED <<queueVars, batch, running, promise, attempts>>
    PROVE  PlaceInv' /\ SettledStay /\ InTurn
BY DEF PlaceInv, OnePlace, Once, Sorted, WaitersPending, SettledStay, InTurn, Dequeued,
   Queued, Elems, queueVars

LEMMA UseCapacityPlaces ==
    ASSUME TypeOK, PlaceInv, UNCHANGED <<opts, promise>>, NEW n \in Nat, NEW d,
           UseCapacity(n, d)
    PROVE  PlaceInv' /\ SettledStay /\ InTurn
<1>1. CASE UNCHANGED <<queueVars, batch, running, attempts, meter>>
  BY <1>1, PlacesKept
<1>2. CASE /\ LeaveQueue(n)
           /\ IF opts.dynamic
              THEN Start(Taken(n)) /\ UNCHANGED batch
              ELSE batch' = Taken(n) /\ UNCHANGED <<running, attempts, meter>>
  <2> DEFINE taken == Elems(Taken(n))
  <2>1. /\ Once(Taken(n)) /\ Once(queue)' /\ Once(priorityQueue)' /\ Sorted(priorityQueue)'
        /\ taken \cup Queued' = Queued /\ taken \cap Queued' = {}
        /\ \A r \in taken, s \in Queued' : ~Outranks(s, r)
    BY <1>2, DequeueInTurn
  <2>2. /\ Once(batch)
        /\ Queued \cap (Elems(batch) \cup running) = {} /\ Elems(batch) \cap running = {}
        /\ \A r \in Queued \cup Elems(batch) \cup running : promise[r] = "pending"
    BY DEF PlaceInv, OnePlace, WaitersPending
  <2>3. CASE opts.dynamic
    <3>1. /\ running' = taken /\ batch' = batch
          /\ \A r \in Reqs : r \notin taken => attempts'[r] = attempts[r]
      BY <1>2, <2>3 DEF Start
    <3>2. Elems(batch') = Elems(batch) /\ Once(batch)'
      BY <2>2, <3>1
    <3> HIDE DEF taken
    <3>3. OnePlace'
      BY <2>1, <2>2, <3>1, <3>2 DEF OnePlace
    <3>4. WaitersPending'
      BY <2>1, <2>2, <3>1, <3>2 DEF WaitersPending
    <3>5. SettledStay
      BY <2>1, <2>2, <3>1 DEF SettledStay
    <3>6. InTurn
      BY <2>1, <3>1, <3>2 DEF InTurn, Dequeued
    <3> QED
      BY <2>1, <3>3, <3>4, <3>5, <3>6 DEF PlaceInv
  <2>4. CASE ~opts.dynamic
    <3>1. /\ running' = running /\ batch' = Taken(n) /\ attempts' = attempts
      BY <1>2, <2>4
    <3>2. Elems(batch') = taken /\ Once(batch)'
      BY <2>1, <3>1
    <3> HIDE DEF taken
    <3>3. OnePlace'
      BY <2>1, <2>2, <3>1, <3>2 DEF OnePlace
    <3>4. WaitersPending'
      BY <2>1, <2>2, <3>1, <3>2 DEF WaitersPending
    <3>5. SettledStay
      BY <3>1 DEF SettledStay
    <3>6. InTurn
      BY <2>1, <3>1, <3>2 DEF InTurn, Dequeued
    <3> QED
      BY <2>1, <3>3, <3>4, <3>5, <3>6 DEF PlaceInv
  <2> QED
    BY <2>3, <2>4
<1> QED
  BY <1>1, <1>2 DEF UseCapacity

LEMMA SchedulePlaces ==
    ASSUME TypeOK, PlaceInv, NEW r \in Reqs, Schedule(r)
    PROVE  PlaceInv' /\ SettledStay /\ InTurn
<1>1. /\ promise[r] = "none"
      /\ UNCHANGED <<batch, running, attempts>>
      /\ \A q \in Reqs : q # r => promise'[q] = promise[q]
  BY DEF Schedule, runVars, TypeOK
<1>2. r \notin Queued \cup Elems(batch) \cup running
  BY <1>1 DEF PlaceInv, WaitersPending
<1>3. Queued \cup Elems(batch) \cup running \subseteq Reqs
  BY ElemsType, LimiterAssumption DEF Queued, TypeOK
<1>4. SettledStay
  BY <1>1 DEF SettledStay
<1>5. InTurn
  BY <1>1 DEF InTurn, Dequeued
<1>6. CASE UNCHANGED queueVars
  <2>1. OnePlace' /\ Sorted(priorityQueue)' /\ Queued' = Queued
    BY <1>1, <1>6 DEF PlaceInv, OnePlace, queueVars, Queued
  <2>2. WaitersPending'
    BY <1>1, <1>2, <1>3, <2>1 DEF PlaceInv, WaitersPending
  <2> QED
    BY <1>4, <1>5, <2>1, <2>2 DEF PlaceInv
<1>7. CASE Enqueue(r) /\ promise' = [promise EXCEPT ![r] = "pending"]
  <2>1. /\ Once(queue)' /\ Once(priorityQueue)' /\ Sorted(priorityQueue)'
        /\ Queued' = Queued \cup {r}
    BY <1>2, <1>7, EnqueueOnce
  <2>2. OnePlace'
    BY <1>1, <1>2, <2>1 DEF PlaceInv, OnePlace
  <2>3. promise'[r] = "pending"
    BY <1>7 DEF TypeOK
  <2>4. WaitersPending'
    BY <1>1, <1>2, <1>3, <2>1, <2>3 DEF PlaceInv, WaitersPending
  <2> QED
    BY <1>4, <1>5, <2>1, <2>2, <2>4 DEF PlaceInv
<1> QED
  BY <1>6, <1>7 DEF Schedule

LEMMA SettlePlaces ==
    ASSUME TypeOK, PlaceInv, NEW r \in Reqs, Settle(r)
    PROVE  PlaceInv' /\ SettledStay /\ InTurn
<1>1. /\ r \in running /\ running' = running \ {r}
      /\ UNCHANGED <<batch, attempts>>
      /\ \A q \in Reqs : q # r => promise'[q] = promise[q]
  BY DEF Settle, CallSucceeds, CallFails, CallRateLimited, TypeOK
<1>2. promise[r] = "pending" /\ r \notin Queued /\ r \notin Elems(batch)
  BY <1>1 DEF PlaceInv, OnePlace, WaitersPending
<1>3. Queued \cup Elems(batch) \cup running \subseteq Reqs
  BY ElemsType, LimiterAssumption DEF Queued, TypeOK
<1>4. SettledStay
  BY <1>1, <1>2 DEF SettledStay
<1>5. InTurn
  BY <1>1 DEF InTurn, Dequeued
<1>6. CASE UNCHANGED queueVars
  <2>1. OnePlace' /\ Sorted(priorityQueue)' /\ Queued' = Queued
    BY <1>1, <1>6 DEF PlaceInv, OnePlace, queueVars, Queued
  <2>2. WaitersPending'
    BY <1>1, <1>2, <1>3, <2>1 DEF PlaceInv, WaitersPending
  <2> QED
    BY <1>4, <1>5, <2>1, <2>2 DEF PlaceInv
<1>7. CASE Enqueue(r) /\ UNCHANGED promise
  <2>1. /\ Once(queue)' /\ Once(priorityQueue)' /\ Sorted(priorityQueue)'
        /\ Queued' = Queued \cup {r}
    BY <1>2, <1>7, EnqueueOnce
  <2>2. OnePlace'
    BY <1>1, <1>2, <2>1 DEF PlaceInv, OnePlace
  <2>3. WaitersPending'
    BY <1>1, <1>2, <1>7, <2>1 DEF PlaceInv, WaitersPending
  <2> QED
    BY <1>4, <1>5, <2>1, <2>2, <2>3 DEF PlaceInv
<1> QED
  BY <1>6, <1>7 DEF Settle, CallSucceeds, CallFails, CallRateLimited

LEMMA PlaceStep ==
    TypeOK /\ PlaceInv /\ [Next]_vars => PlaceInv' /\ [SettledStay]_vars /\ [InTurn]_vars
<1> SUFFICES ASSUME TypeOK, PlaceInv, [Next]_vars
             PROVE  PlaceInv' /\ SettledStay /\ InTurn
  OBVIOUS
<1>1. ASSUME NEW r \in Reqs, Schedule(r) PROVE PlaceInv' /\ SettledStay /\ InTurn
  BY <1>1, SchedulePlaces
<1>2. ASSUME NEW r \in Reqs, Settle(r) PROVE PlaceInv' /\ SettledStay /\ InTurn
  BY <1>2, SettlePlaces
<1>3. CASE ClearQueue
  <2>1. /\ queue' = <<>> /\ priorityQueue' = <<>>
        /\ UNCHANGED <<batch, running, promise, attempts>>
    BY <1>3 DEF ClearQueue, runVars, callerVars
  <2>2. Queued' = {} /\ Once(queue)' /\ Once(priorityQueue)' /\ Sorted(priorityQueue)'
    BY <2>1 DEF Queued, Elems, Once, Sorted
  <2>3. OnePlace' /\ WaitersPending' /\ SettledStay
    BY <2>1, <2>2 DEF PlaceInv, OnePlace, WaitersPending, SettledStay
  <2>4. InTurn
    BY <2>2 DEF InTurn
  <2> QED
    BY <2>2, <2>3, <2>4 DEF PlaceInv
<1>4. CASE ProcessQueue \/ StatusMissing \/ CountReturned
  BY <1>4, PlacesKept DEF ProcessQueue, StatusMissing, CountReturned, callerVars
<1>5. ASSUME NEW n \in {0} \cup StatusLimits, NEW reported \in {0} \cup StatusLimits,
             NEW d \in StatusResets \cup {Interval}, StatusReturned(n, reported, d)
      PROVE  PlaceInv' /\ SettledStay /\ InTurn
  <2>1. n \in Nat /\ UseCapacity(n, d) /\ UNCHANGED <<opts, promise>>
    BY <1>5, LimiterAssumption DEF StatusReturned
  <2> QED
    BY <2>1, UseCapacityPlaces
<1>6. CASE TTLReturned
  <2>1. /\ remaining \in Nat /\ UNCHANGED <<opts, promise>>
        /\ UseCapacity(remaining, IF TTL > 0 THEN TTL ELSE Interval)
    BY <1>6 DEF TTLReturned, TypeOK
  <2> QED
    BY <2>1, UseCapacityPlaces
<1>7. CASE UsageRecorded
  <2>1. /\ running' = Elems(batch) /\ batch' = <<>>
        /\ UNCHANGED <<queueVars, promise>>
        /\ \A r \in Reqs : r \notin Elems(batch) => attempts'[r] = attempts[r]
    BY <1>7 DEF UsageRecorded, Start
  <2>2. Elems(batch') = {} /\ Once(batch)'
    BY <2>1 DEF Elems, Once
  <2>3. Queued' = Queued /\ Once(queue)' /\ Once(priorityQueue)' /\ Sorted(priorityQueue)'
    BY <2>1 DEF queueVars, Queued, PlaceInv, OnePlace
  <2>4. OnePlace' /\ WaitersPending'
    BY <2>1, <2>2, <2>3 DEF PlaceInv, OnePlace, WaitersPending
  <2>5. SettledStay
    BY <2>1 DEF PlaceInv, WaitersPending, SettledStay
  <2>6. InTurn
    BY <2>1, <2>2 DEF InTurn, Dequeued
  <2> QED
    BY <2>3, <2>4, <2>5, <2>6 DEF PlaceInv
<1>8. CASE StoreFails
  <2>1. batch' = <<>> /\ UNCHANGED <<queueVars, running, promise, attempts>>
    BY <1>8 DEF StoreFails, callerVars
  <2>2. Elems(batch') = {} /\ Once(batch)'
    BY <2>1 DEF Elems, Once
  <2>3. Queued' = Queued /\ Once(queue)' /\ Once(priorityQueue)' /\ Sorted(priorityQueue)'
    BY <2>1 DEF queueVars, Queued, PlaceInv, OnePlace
  <2>4. OnePlace' /\ WaitersPending' /\ SettledStay /\ InTurn
    BY <2>1, <2>2, <2>3 DEF PlaceInv, OnePlace, WaitersPending, SettledStay, InTurn, Dequeued
  <2> QED
    BY <2>3, <2>4 DEF PlaceInv
<1>9. CASE BatchSettled
  BY <1>9, PlacesKept DEF BatchSettled, callerVars
<1>10. CASE TimerFires \/ ResetDone \/ ResetFails \/ Tick
  BY <1>10, PlacesKept DEF TimerFires, ResetDone, ResetFails, Tick, runVars, callerVars
<1>11. CASE UNCHANGED vars
  BY <1>11, PlacesKept DEF vars, queueVars
<1> QED
  BY <1>1, <1>2, <1>3, <1>4, <1>5, <1>6, <1>7, <1>8, <1>9, <1>10, <1>11 DEF Next, Answer

\* No request is in two places, so that no place in the queue starts fn() twice.
THEOREM PlacesApart == Spec => []OnePlace
<1>1. PlaceInv => OnePlace
  BY DEF PlaceInv
<1>2. TypeOK /\ PlaceInv /\ [Next]_vars => TypeOK' /\ PlaceInv'
  BY TypeStep, PlaceStep
<1> QED
  BY <1>1, <1>2, TypeInit, PlaceInit, PTL DEF Spec

\* A settled promise stays as it is and its fn() is not called again.
THEOREM SettlesOnce == Spec => SettledOnce
<1>1. SettledOnce <=> [][SettledStay]_vars
  BY PTL DEF SettledOnce, SettledStay
<1> QED
  BY <1>1, TypeStep, PlaceStep, TypeInit, PlaceInit, PTL DEF Spec

\* Nobody is dequeued while a request that outranks it stays in the queue.
THEOREM DequeuesInTurn == Spec => PriorityRespected
<1>1. PriorityRespected <=> [][InTurn]_vars
  BY PTL DEF PriorityRespected, InTurn
<1> QED
  BY <1>1, TypeStep, PlaceStep, TypeInit, PlaceInit, PTL DEF Spec

-----------------------------------------------------------------------------
(* Nobody is forgotten, as long as the queue has room for everybody *)

\* A batch is between its dequeue and its record.
BatchInRun == Elems(batch) # {} => pc = "record"

StrandInv == BatchInRun /\ NoRequestStranded

LEMMA StrandInit == Init => StrandInv
BY DEF Init, StrandInv, BatchInRun, NoRequestStranded, Elems

\* The queue has room for whoever is not in it.
LEMMA RoomForOne ==
    ASSUME TypeOK, OnePlace, IsFiniteSet(Reqs), Cardinality(Reqs) <= MaxQueueSize,
           NEW r \in Reqs, r \notin Queued
    PROVE  Size < MaxQueueSize
<1> DEFINE line == queue \o priorityQueue
           others == Reqs \ {r}
<1>1. /\ queue \in Seq(Reqs) /\ priorityQueue \in Seq(Reqs)
      /\ Elems(queue) \cap Elems(priorityQueue) = {}
  <2>1. queue \in Seq(Reqs \ DOMAIN Prio) /\ priorityQueue \in Seq(DOMAIN Prio)
    BY DEF TypeOK
  <2>2. queue \in Seq(Reqs) /\ priorityQueue \in Seq(Reqs)
    BY <2>1, LimiterAssumption, SeqMonotonic
  <2>3. Elems(queue) \subseteq Reqs \ DOMAIN Prio /\ Elems(priorityQueue) \subseteq DOMAIN Prio
    BY <2>1, ElemsType
  <2> QED
    BY <2>2, <2>3
<1>2. /\ Once(line) /\ Elems(line) = Queued
      /\ line \in Seq(Reqs) /\ Len(line) = Size
  BY <1>1, ConcatOnce, ConcatProperties DEF OnePlace, Queued, Size
<1> HIDE DEF line
<1>3. Size \in Nat /\ DOMAIN line = 1..Size /\ line \in [1..Size -> Reqs]
  BY <1>2, LenProperties
<1>4. line \in [1..Size -> others]
  <2>1. \A i \in 1..Size : line[i] \in Queued
    BY <1>2, <1>3 DEF Elems
  <2> QED
    BY <1>3, <2>1
<1>5. IsFiniteSet(others) /\ Cardinality(others) = Cardinality(Reqs) - 1
  BY FS_RemoveElement
<1>6. /\ IsFiniteSet(1..Size) /\ Cardinality(1..Size) = Size
      /\ Cardinality(Reqs) \in Nat /\ MaxQueueSize \in Nat
  BY <1>3, UpTo, FS_CardinalityType, LimiterAssumption
<1>7. ~(Cardinality(others) < Cardinality(1..Size))
  <2>1. ~\E x, y \in 1..Size : x # y /\ line[x] = line[y]
    BY <1>2, <1>3 DEF Once
  <2> HIDE DEF others
  <2> QED
    BY <1>4, <1>5, <1>6, <2>1, FS_PigeonHole
<1> QED
  BY <1>3, <1>5, <1>6, <1>7

LEMMA UseCapacityStrands ==
    ASSUME TypeOK, PlaceInv, StrandInv, UNCHANGED <<opts, promise>>,
           running = {}, pc # "record", NEW n \in Nat, NEW d, UseCapacity(n, d)
    PROVE  StrandInv'
<1>1. Elems(batch) = {}
  BY DEF StrandInv, BatchInRun
<1>2. CASE UNCHANGED <<queueVars, batch, running, attempts, meter>>
  BY <1>1, <1>2 DEF StrandInv, BatchInRun, NoRequestStranded, queueVars, Queued
<1>3. CASE /\ LeaveQueue(n)
           /\ IF opts.dynamic
              THEN Start(Taken(n)) /\ pc' = "execute" /\ UNCHANGED batch
              ELSE batch' = Taken(n) /\ pc' = "record" /\ UNCHANGED <<running, attempts, meter>>
  <2>1. Elems(Taken(n)) \cup Queued' = Queued
    BY <1>3, DequeueInTurn
  <2>2. \/ running' = Elems(Taken(n)) /\ batch' = batch
        \/ batch' = Taken(n) /\ pc' = "record"
    BY <1>3 DEF Start
  <2>3. Elems(Taken(n)) \subseteq Elems(batch') \cup running'
    BY <2>2
  <2>4. BatchInRun'
    BY <1>1, <2>2 DEF BatchInRun
  <2> QED
    BY <1>1, <2>1, <2>3, <2>4 DEF StrandInv, NoRequestStranded
<1> QED
  BY <1>2, <1>3 DEF UseCapacity

LEMMA StrandStep ==
    ASSUME ~AsyncStore, ~ClearAllowed, IsFiniteSet(Reqs), Cardinality(Reqs) <= MaxQueueSize
    PROVE  TypeOK /\ StallInv /\ PlaceInv /\ StrandInv /\ [Next]_vars => StrandInv'
<1> SUFFICES ASSUME TypeOK, StallInv, PlaceInv, StrandInv, [Next]_vars PROVE StrandInv'
  OBVIOUS
<1>0. running # {} => pc = "execute"
  BY DEF StallInv, CallsInRun
<1>1. ASSUME NEW r \in Reqs, Schedule(r) PROVE StrandInv'
  <2>1. /\ UNCHANGED <<pc, batch, running>> /\ promise[r] = "none"
        /\ \A q \in Reqs : q # r => promise'[q] = promise[q]
    BY <1>1 DEF Schedule, runVars, TypeOK
  <2>2. r \notin Queued
    BY <2>1 DEF PlaceInv, WaitersPending
  <2>3. Enqueue(r)
    <3>1. Size < MaxQueueSize /\ Size \in Nat /\ MaxQueueSize \in Nat
      BY <2>2, RoomForOne, LenProperties, LimiterAssumption DEF PlaceInv, Size, TypeOK
    <3> QED
      BY <1>1, <3>1 DEF Schedule
  <2>4. Queued' = Queued \cup {r}
    BY <2>2, <2>3, EnqueueOnce
  <2> QED
    BY <2>1, <2>4 DEF StrandInv, BatchInRun, NoRequestStranded
<1>2. ASSUME NEW r \in Reqs, Settle(r) PROVE StrandInv'
  <2>1. /\ r \in running /\ running' = running \ {r} /\ UNCHANGED <<pc, batch>>
        /\ \A q \in Reqs : q # r => promise'[q] = promise[q]
    BY <1>2 DEF Settle, CallSucceeds, CallFails, CallRateLimited, TypeOK
  <2>2. r \notin Queued
    BY <2>1 DEF PlaceInv, OnePlace
  <2>3. Size < MaxQueueSize
    BY <2>2, RoomForOne DEF PlaceInv
  <2>4. CASE Enqueue(r)
    <3>1. Queued' = Queued \cup {r}
      BY <2>2, <2>4, EnqueueOnce
    <3> QED
      BY <2>1, <3>1 DEF StrandInv, BatchInRun, NoRequestStranded
  <2>5. CASE UNCHANGED queueVars /\ promise'[r] \in {"resolved", "rejected"}
    <3>1. Queued' = Queued
      BY <2>5 DEF queueVars, Queued
    <3> QED
      BY <2>1, <2>5, <3>1 DEF StrandInv, BatchInRun, NoRequestStranded
  <2>6. promise \in [Reqs -> {"none", "pending", "resolved", "rejected"}]
    BY DEF TypeOK
  <2> QED
    BY <1>2, <2>3, <2>4, <2>5, <2>6 DEF Settle, CallSucceeds, CallFails, CallRateLimited
<1>3. CASE ProcessQueue
  <2>1. /\ UNCHANGED <<queueVars, batch, running, promise>>
        /\ pc = "record" => pc' = pc
    BY <1>3 DEF ProcessQueue, callerVars
  <2> QED
    BY <2>1 DEF StrandInv, BatchInRun, NoRequestStranded, queueVars, Queued
<1>4. ASSUME NEW n \in {0} \cup StatusLimits, NEW reported \in {0} \cup StatusLimits,
             NEW d \in StatusResets \cup {Interval}, StatusReturned(n, reported, d)
      PROVE  StrandInv'
  <2>1. /\ n \in Nat /\ UseCapacity(n, d) /\ UNCHANGED <<opts, promise>>
        /\ running = {} /\ pc # "record"
    BY <1>0, <1>4, LimiterAssumption DEF StatusReturned
  <2> QED
    BY <2>1, UseCapacityStrands
<1>5. CASE StatusMissing \/ CountReturned
  <2>1. UNCHANGED <<queueVars, batch, running, promise>> /\ pc # "record"
    BY <1>5 DEF StatusMissing, CountReturned, callerVars
  <2> QED
    BY <2>1 DEF StrandInv, BatchInRun, NoRequestStranded, queueVars, Queued
<1>6. CASE TTLReturned
  <2>1. /\ remaining \in Nat /\ UNCHANGED <<opts, promise>>
        /\ UseCapacity(remaining, IF TTL > 0 THEN TTL ELSE Interval)
        /\ running = {} /\ pc # "record"
    BY <1>0, <1>6 DEF TTLReturned, TypeOK
  <2> QED
    BY <2>1, UseCapacityStrands
<1>7. CASE UsageRecorded
  <2>1. /\ running' = Elems(batch) /\ batch' = <<>> /\ running = {}
        /\ UNCHANGED <<queueVars, promise>>
    BY <1>0, <1>7 DEF UsageRecorded, Start
  <2>2. Elems(batch') = {} /\ Queued' = Queued
    BY <2>1 DEF Elems, queueVars, Queued
  <2> QED
    BY <2>1, <2>2 DEF StrandInv, BatchInRun, NoRequestStranded
<1>8. CASE BatchSettled
  <2>1. UNCHANGED <<queueVars, batch, running, promise>> /\ pc # "record"
    BY <1>8 DEF BatchSettled, callerVars
  <2> QED
    BY <2>1 DEF StrandInv, BatchInRun, NoRequestStranded, queueVars, Queued
<1>9. CASE TimerFires \/ ResetDone \/ Tick
  <2>1. UNCHANGED <<queueVars, pc, batch, running, promise>>
    BY <1>9 DEF TimerFires, ResetDone, Tick, runVars, callerVars
  <2> QED
    BY <2>1 DEF StrandInv, BatchInRun, NoRequestStranded, queueVars, Queued
<1>10. CASE UNCHANGED vars
  BY <1>10 DEF vars, StrandInv, BatchInRun, NoRequestStranded, Queued
<1>11. ~ClearQueue /\ ~StoreFails /\ ~ResetFails
  BY DEF ClearQueue, StoreFails, ResetFails
<1> QED
  BY <1>1, <1>2, <1>3, <1>4, <1>5, <1>6, <1>7, <1>8, <1>9, <1>10, <1>11 DEF Next, Answer

\* With a store that does not fail, nobody clearing the queue, and a queue with room
\* for all that are ever scheduled, a pending request always has a place.
THEOREM NobodyStranded ==
    ASSUME ~AsyncStore, ~ClearAllowed, IsFiniteSet(Reqs), Cardinality(Reqs) <= MaxQueueSize
    PROVE  Spec => []NoRequestStranded
<1>1. TypeOK /\ StallInv /\ PlaceInv /\ StrandInv /\ [Next]_vars => StrandInv'
  BY StrandStep
<1>2. StrandInv => NoRequestStranded
  BY DEF StrandInv
<1> QED
  BY <1>1, <1>2, TypeInit, StallInit, PlaceInit, StrandInit, TypeStep, StallStep, PlaceStep,
     PTL DEF Spec

-----------------------------------------------------------------------------
(* What the remote API's own meter sees *)

\* What the windows that a timer erased may have let through.
Erased == limit * meter.resets

\* In a window of the meter: the limiter's live window began before it, or in it
\* after another one, or there is none at present.
MeterInv ==
    meter.age < Interval =>
        /\ WindowLive /\ windowAge >= meter.age => meter.calls <= Erased + count
        /\ WindowLive /\ windowAge < meter.age => meter.calls <= Erased + limit + count
        /\ ~WindowLive => meter.calls <= Erased + limit
        /\ ~WindowLive /\ meter.age = 0 => meter.calls <= Erased

LEMMA Times ==
    ASSUME NEW l \in Nat, NEW n \in Nat
    PROVE  l * n \in Nat /\ l * (n + 1) = l * n + l /\ l * (2 + n) = l * n + l + l
BY Z3

LEMMA TwiceAtMost ==
    ASSUME NEW d \in Nat, NEW e \in Nat, NEW l \in Nat, NEW c \in Nat, c <= l,
           d <= e + c \/ d <= e + l + c
    PROVE  d <= e + l + l
OBVIOUS

LEMMA ErasedTwice ==
    ASSUME TypeOK
    PROVE  /\ Erased \in Nat
           /\ QuotaUpToResets <=> meter.calls <= Erased + limit + limit
<1>1. limit \in Nat /\ meter.resets \in Nat
  BY DEF TypeOK
<1>2. limit * meter.resets \in Nat
      /\ limit * (2 + meter.resets) = limit * meter.resets + limit + limit
  BY <1>1, Times
<1> QED
  BY <1>2 DEF Erased, QuotaUpToResets

LEMMA MeterInit == Init => MeterInv /\ QuotaUpToResets
<1> SUFFICES ASSUME Init PROVE MeterInv /\ QuotaUpToResets
  OBVIOUS
<1>1. TypeOK
  BY TypeInit
<1>2. meter.calls = 0 /\ meter.age = Interval /\ Interval \in Nat
  BY ConstantTypes DEF Init
<1>3. limit \in Nat /\ Erased \in Nat /\ (QuotaUpToResets <=> meter.calls <= Erased + limit + limit)
  BY <1>1, ErasedTwice DEF TypeOK
<1> QED
  BY <1>2, <1>3 DEF MeterInv

\* A step that neither starts calls nor touches the store.
LEMMA MeterUntouched ==
    ASSUME MeterInv, QuotaUpToResets, UNCHANGED <<limit, storeVars, meter>>
    PROVE  MeterInv' /\ QuotaUpToResets'
BY DEF MeterInv, QuotaUpToResets, Erased, WindowLive, storeVars

LEMMA MeterStep ==
    ASSUME \A o \in Options : ~o.dynamic
    PROVE  TypeOK /\ TypeOK' /\ QuotaInv /\ QuotaInv' /\ MeterInv /\ QuotaUpToResets
             /\ [Next]_vars => MeterInv' /\ QuotaUpToResets'
<1> SUFFICES ASSUME TypeOK, TypeOK', QuotaInv, QuotaInv', MeterInv, QuotaUpToResets, [Next]_vars
             PROVE  MeterInv' /\ QuotaUpToResets'
  OBVIOUS
<1>0. ~opts.dynamic /\ pc # "status"
  BY DEF TypeOK, QuotaInv, ModeKept
<1> DEFINE E == Erased
           F == Erased'
           A == meter.age
           B == meter'.age
           C == meter.calls
           D == meter'.calls
<1>1. /\ limit \in Nat /\ limit' \in Nat /\ count \in Nat /\ count' \in Nat
      /\ windowAge \in 0..Interval /\ windowAge' \in 0..Interval /\ Interval \in Nat \ {0}
      /\ A \in 0..Interval /\ B \in 0..Interval /\ C \in Nat /\ D \in Nat
      /\ meter.resets \in Nat /\ meter'.resets \in Nat
  BY ConstantTypes DEF TypeOK
<1>2. /\ E \in Nat /\ F \in Nat
      /\ C <= E + limit + limit
      /\ QuotaUpToResets' <=> D <= F + limit' + limit'
  <2>1. E \in Nat /\ C <= E + limit + limit
    BY ErasedTwice
  <2>2. F \in Nat /\ (QuotaUpToResets' <=> D <= F + limit' + limit')
    <3>1. limit' * meter'.resets \in Nat
          /\ limit' * (2 + meter'.resets) = limit' * meter'.resets + limit' + limit'
      BY <1>1, Times
    <3> QED
      BY <3>1 DEF Erased, QuotaUpToResets
  <2> QED
    BY <2>1, <2>2
<1>3. /\ WindowLive => count <= limit
      /\ windowAge' < Interval => count' <= limit'
  BY DEF QuotaInv, UsageWithinQuota, Used, WindowLive
<1>4. A < Interval =>
        /\ windowAge < Interval /\ windowAge >= A => C <= E + count
        /\ windowAge < Interval /\ windowAge < A => C <= E + limit + count
        /\ ~(windowAge < Interval) => C <= E + limit
        /\ ~(windowAge < Interval) /\ A = 0 => C <= E
  BY DEF MeterInv, WindowLive
<1>5. MeterInv' <=>
        (B < Interval =>
            /\ windowAge' < Interval /\ windowAge' >= B => D <= F + count'
            /\ windowAge' < Interval /\ windowAge' < B => D <= F + limit' + count'
            /\ ~(windowAge' < Interval) => D <= F + limit'
            /\ ~(windowAge' < Interval) /\ B = 0 => D <= F)
  BY DEF MeterInv, WindowLive
<1>6. CASE UsageRecorded
  <2>1. /\ limit' = limit /\ Len(batch) \in Nat
        /\ IF windowAge < Interval
           THEN count' = count + Len(batch) /\ windowAge' = windowAge
           ELSE count' = Len(batch) /\ windowAge' = 0
        /\ B = IF A < Interval THEN A ELSE 0
        /\ D = IF A < Interval THEN C + Len(batch) ELSE Len(batch)
        /\ meter'.resets = IF A < Interval THEN meter.resets ELSE 0
    BY <1>6, UsedType DEF UsageRecorded, StoreIncrBy, Start, WindowLive
  <2>2. A < Interval => F = E
    BY <2>1 DEF Erased
  <2> HIDE DEF E, F, A, B, C, D
  <2>3. MeterInv'
    BY <1>1, <1>2, <1>4, <1>5, <2>1, <2>2
  <2>4. D <= F + limit' + limit'
    <3>1. windowAge' < Interval /\ B < Interval
      BY <1>1, <2>1
    <3>2. count' <= limit'
      BY <1>3, <3>1
    <3>3. D \in Nat /\ F \in Nat /\ limit' \in Nat /\ count' \in Nat
      BY <1>1, <1>2
    <3>4. CASE windowAge' >= B
      <4>1. D <= F + count'
        BY <1>5, <2>3, <3>1, <3>4
      <4> QED
        BY <3>2, <3>3, <4>1, TwiceAtMost
    <3>5. CASE windowAge' < B
      <4>1. D <= F + limit' + count'
        BY <1>5, <2>3, <3>1, <3>5
      <4> QED
        BY <3>2, <3>3, <4>1, TwiceAtMost
    <3> QED
      BY <1>1, <3>4, <3>5
  <2> QED
    BY <1>2, <2>3, <2>4
<1>7. CASE ResetDone
  <2>1. /\ limit' = limit /\ count' = 0 /\ windowAge' = Interval
        /\ B = A /\ D = C
        /\ meter'.resets = IF windowAge < Interval /\ count > 0 /\ A < Interval
                           THEN meter.resets + 1 ELSE meter.resets
    BY <1>1, <1>7 DEF ResetDone, StoreReset, WindowLive, TypeOK
  <2>2. F = IF windowAge < Interval /\ count > 0 /\ A < Interval THEN E + limit ELSE E
    <3>1. limit * (meter.resets + 1) = limit * meter.resets + limit
      BY <1>1, Times
    <3> QED
      BY <2>1, <3>1 DEF Erased
  <2>3. windowAge < Interval => count <= limit
    BY <1>3 DEF WindowLive
  <2> HIDE DEF E, F, A, B, C, D
  <2>4. MeterInv'
    BY <1>1, <1>2, <1>4, <1>5, <2>1, <2>2, <2>3
  <2>5. D <= F + limit' + limit'
    BY <1>1, <1>2, <2>1, <2>2
  <2> QED
    BY <1>2, <2>4, <2>5
<1>8. CASE Tick
  <2>1. /\ limit' = limit /\ count' = count
        /\ windowAge' = Least(windowAge + 1, Interval)
        /\ B = Least(A + 1, Interval) /\ D = C /\ meter'.resets = meter.resets
    BY <1>8 DEF Tick, TypeOK
  <2>2. F = E
    BY <2>1 DEF Erased
  <2>3. windowAge < Interval => count <= limit
    BY <1>3 DEF WindowLive
  <2> HIDE DEF E, F, A, B, C, D
  <2>4. MeterInv'
    BY <1>1, <1>2, <1>4, <1>5, <2>1, <2>2, <2>3 DEF Least
  <2>5. D <= F + limit' + limit'
    BY <1>2, <2>1, <2>2
  <2> QED
    BY <1>2, <2>4, <2>5
<1>9. ASSUME NEW r \in Reqs, Schedule(r) \/ Settle(r)
      PROVE  UNCHANGED <<limit, storeVars, meter>>
  BY <1>9 DEF Schedule, Settle, CallSucceeds, CallFails, CallRateLimited
<1>10. CASE TTLReturned
  BY <1>0, <1>10, MeterUntouched DEF TTLReturned, UseCapacity
<1>11. CASE \/ ClearQueue \/ ProcessQueue \/ StatusMissing \/ CountReturned
            \/ StoreFails \/ BatchSettled \/ TimerFires \/ ResetFails
  BY <1>11, MeterUntouched DEF ClearQueue, ProcessQueue, StatusMissing, CountReturned,
     StoreFails, BatchSettled, TimerFires, ResetFails
<1>12. CASE UNCHANGED vars
  BY <1>12, MeterUntouched DEF vars, storeVars
<1>13. ~\E available, reported \in {0} \cup StatusLimits,
           resetIn \in StatusResets \cup {Interval} :
             StatusReturned(available, reported, resetIn)
  BY <1>0 DEF StatusReturned
<1> QED
  BY <1>6, <1>7, <1>8, <1>9, <1>10, <1>11, <1>12, <1>13, MeterUntouched DEF Next, Answer

\* A limiter with its own quota lets through, in any window of the remote API, at
\* most twice the quota, and the quota once more for each live window a timer erased.
THEOREM MeteredQuota ==
    ASSUME \A o \in Options : ~o.dynamic
    PROVE  Spec => []QuotaUpToResets
<1>1. TypeOK /\ QuotaInv /\ [Next]_vars => TypeOK' /\ QuotaInv'
  BY TypeStep, QuotaStep
<1>2. TypeOK /\ TypeOK' /\ QuotaInv /\ QuotaInv' /\ MeterInv /\ QuotaUpToResets
        /\ [Next]_vars => MeterInv' /\ QuotaUpToResets'
  BY MeterStep
<1> QED
  BY <1>1, <1>2, TypeInit, QuotaInit, MeterInit, PTL DEF Spec

=============================================================================
