---------------------------- MODULE AuditLog_proof ----------------------------
(***************************************************************************)
(* Proof that the promise of AuditLog includes one row per event.          *)
(***************************************************************************)
EXTENDS AuditLog, SequenceTheorems, TLAPS

\* Unless rows may be repeated, what waits has no row yet.
Unwritten ==
    /\ log \in Seq(Events)
    /\ MayRepeat \/ waiting \cap Rows = {}

OneRowInv == Unwritten /\ OneRowEach

LEMMA OneRowInit == Init => OneRowInv
BY DEF Init, OneRowInv, Unwritten, Rows, OneRowEach

\* Appended rows are of events that waited, and so had none.
LEMMA AppendsOneRow ==
    ASSUME OneRowInv, ~MayRepeat, Appends
    PROVE  /\ Rows' = Rows \cup NewRows
           /\ \A i, j \in DOMAIN log' : log'[i] = log'[j] => i = j
<1>1. /\ DOMAIN log = 1..Len(log) /\ DOMAIN log' = 1..Len(log')
      /\ Len(log) \in Nat /\ Len(log') \in Nat /\ Len(log) <= Len(log')
  BY LenProperties DEF OneRowInv, Unwritten, Appends
<1>2. DOMAIN log' = DOMAIN log \cup New
  BY <1>1 DEF New
<1>3. \A i \in DOMAIN log : log'[i] = log[i] /\ log[i] \in Rows
  BY DEF Appends, Rows
<1>4. \A i \in New : log'[i] \in NewRows /\ log'[i] \notin Rows
  BY DEF NewRows, Appends, OneRowInv, Unwritten
<1>5. Rows' = Rows \cup NewRows
  BY <1>2, <1>3 DEF Rows, NewRows
<1>6. ASSUME NEW i \in DOMAIN log', NEW j \in DOMAIN log', log'[i] = log'[j] PROVE i = j
  <2>1. CASE i \in DOMAIN log /\ j \in DOMAIN log
    BY <1>3, <1>6, <2>1 DEF OneRowInv, OneRowEach
  <2>2. CASE i \in New /\ j \in New
    BY <1>6, <2>2 DEF Appends
  <2> QED
    BY <1>2, <1>3, <1>4, <1>6, <2>1, <2>2
<1> QED
  BY <1>5, <1>6

LEMMA OneRowStep == OneRowInv /\ [Next]_vars => OneRowInv'
<1> SUFFICES ASSUME OneRowInv, [Next]_vars PROVE OneRowInv'
  OBVIOUS
<1>1. ASSUME NEW events \in SUBSET Events, Accept(events) PROVE OneRowInv'
  BY <1>1 DEF Accept, OneRowInv, Unwritten, OneRowEach, Rows
<1>2. CASE Persist
  <2>1. log' \in Seq(Events)
    BY <1>2 DEF Persist, Appends
  <2>2. CASE MayRepeat
    BY <2>1, <2>2 DEF OneRowInv, Unwritten, OneRowEach
  <2>3. CASE ~MayRepeat
    <3>1. Rows' = Rows \cup NewRows /\ waiting' = waiting \ NewRows
      BY <1>2, <2>3, AppendsOneRow DEF Persist
    <3>2. waiting' \cap Rows' = {}
      BY <2>3, <3>1 DEF OneRowInv, Unwritten
    <3>3. OneRowEach'
      BY <1>2, <2>3, AppendsOneRow DEF Persist, OneRowEach
    <3> QED
      BY <2>1, <3>2, <3>3 DEF OneRowInv, Unwritten
  <2> QED
    BY <2>2, <2>3
<1>3. CASE PersistUnheard
  BY <1>3 DEF PersistUnheard, Appends, OneRowInv, Unwritten, OneRowEach
<1>4. CASE Stop
  BY <1>4 DEF Stop, Appends, OneRowInv, Unwritten, OneRowEach, Rows
<1>5. CASE UNCHANGED vars
  BY <1>5 DEF vars, OneRowInv, Unwritten, OneRowEach, Rows
<1> QED
  BY <1>1, <1>2, <1>3, <1>4, <1>5 DEF Next

\* Whoever keeps the promise of the log writes one row for an event at most, unless
\* acknowledgements get lost.
THEOREM OneRow == Spec => []OneRowEach
BY OneRowInit, OneRowStep, PTL DEF Spec, OneRowInv

=============================================================================
