-------------------------- MODULE FileStore_proof --------------------------
(***************************************************************************)
(* Proofs about FileStore, for any number of concurrent calls and keys,    *)
(* any values, lifetimes and any number of crashes.                        *)
(***************************************************************************)
EXTENDS FileStore, TLAPS

Contents == Entries \cup {Absent, Empty, Torn}

\* A content that is no entry is not a value to be mistaken for one.
LEMMA Distinct ==
    /\ Absent \notin Entries /\ Empty \notin Entries /\ Torn \notin Entries /\ None \notin Entries
    /\ Empty \notin [value: Long, expires: Nat] /\ Absent \notin [value: Long, expires: Nat]
    /\ Absent # Empty /\ Absent # Torn /\ Empty # Torn /\ None \notin Keys
<1>1. Entries \subseteq [value: Values, expires: Nat]
  BY FileAssumption DEF Entries
<1>2. [value: Long, expires: Nat] \subseteq [value: Values, expires: Nat]
  BY FileAssumption
<1> QED
  BY <1>1, <1>2, FileAssumption

-----------------------------------------------------------------------------
(* Types, and what each stage of a call is about *)

\* A call that works on a file knows its key and its entry, and an entry that was found
\* expired is.
Purpose(p) ==
    /\ pc[p] \in {"opening", "writing", "expiring"} =>
          target[p] \in Keys /\ entry[p] \in Entries
    /\ linked[p] => pc[p] = "writing"
    /\ pc[p] \in {"listing", "sweeping"} => Sweeping(p)
    /\ pc[p] = "expiring" => mode[p] # "none" /\ Expired(entry[p], now)
    /\ since[p] <= now

Purposes == \A p \in Calls : Purpose(p)

TypeInv == TypeOK /\ Purposes

LEMMA TypeInit == Init => TypeInv
BY FileAssumption DEF Init, TypeInv, TypeOK, Purposes, Purpose

LEMMA OverwrittenType ==
    ASSUME NEW content, NEW e \in Entries
    PROVE  Overwritten(content, e) \in {e, Torn}
BY DEF Overwritten

\* What has expired stays so.
LEMMA ExpiredStays ==
    ASSUME NEW e \in Entries, NEW t \in Nat, NEW u \in Nat, t <= u, Expired(e, t)
    PROVE  Expired(e, u)
BY DEF Expired, Entries

LEMMA TypeStep == TypeInv /\ [Next]_vars => TypeInv'
<1> SUFFICES ASSUME TypeInv, [Next]_vars PROVE TypeInv'
  OBVIOUS
<1> USE DEF TypeInv, TypeOK, Purposes, Purpose, Sweeping
<1>1. ASSUME NEW p \in Calls, NEW k \in Keys, NEW v \in Values, NEW ttl \in Ttls,
             Save(p, k, v, ttl)
      PROVE  TypeInv'
  <2>1. [value |-> v, expires |-> IF ttl = 0 THEN 0 ELSE now + ttl] \in Entries
    BY FileAssumption DEF Entries
  <2> QED
    BY <1>1, <2>1 DEF Save
<1>2. ASSUME NEW p \in Calls, Open(p) PROVE TypeInv'
  BY <1>2 DEF Open, Written
<1>3. ASSUME NEW p \in Calls, Write(p) PROVE TypeInv'
  <2>1. target[p] \in Keys /\ entry[p] \in Entries
    BY <1>3 DEF Write
  <2>2. Overwritten(file[target[p]], entry[p]) \in Contents
    BY <2>1, OverwrittenType DEF Contents
  <2>3. file' \in [Keys -> Contents]
    BY <1>3, <2>1, <2>2 DEF Write, Contents
  <2>4. TypeOK'
    <3>1. touched' \in [Calls -> SUBSET Keys]
      BY <1>3, <2>1 DEF Write, Written
    <3>2. /\ pc' \in [Calls -> {"idle", "opening", "writing", "expiring", "listing",
                            "sweeping"}]
          /\ target' \in [Calls -> Keys \cup {None}]
          /\ entry' \in [Calls -> Entries \cup {None}]
          /\ linked' \in [Calls -> BOOLEAN]
      BY <1>3 DEF Write, Ends
    <3>3. /\ mode' \in [Calls -> {"none", "load", "clear", "cleanup"}]
          /\ since' \in [Calls -> 0..MaxTime]
          /\ todo' \in [Calls -> SUBSET Keys] /\ now' \in 0..MaxTime
          /\ damaged' \subseteq Keys
      BY <1>3, <2>1, FileAssumption DEF Write, Ends
    <3> QED
      BY <2>3, <3>1, <3>2, <3>3, Zenon DEF Contents
  <2>5. Purposes'
    BY <1>3, FileAssumption DEF Write, Ends
  <2> QED
    BY <2>4, <2>5
<1>4. ASSUME NEW p \in Calls, SaveFails(p) PROVE TypeInv'
  <2>1. linked[p] => target[p] \in Keys
    BY <1>4
  <2>2. file' \in [Keys -> Contents] /\ damaged' \subseteq Keys
    BY <1>4, <2>1 DEF SaveFails, Contents
  <2>3. TypeOK'
    <3>1. touched' \in [Calls -> SUBSET Keys]
      BY <1>4, <2>1 DEF SaveFails, Written
    <3>2. /\ pc' \in [Calls -> {"idle", "opening", "writing", "expiring", "listing",
                            "sweeping"}]
          /\ target' \in [Calls -> Keys \cup {None}]
          /\ entry' \in [Calls -> Entries \cup {None}]
          /\ linked' \in [Calls -> BOOLEAN]
      BY <1>4 DEF SaveFails, Ends
    <3>3. /\ mode' \in [Calls -> {"none", "load", "clear", "cleanup"}]
          /\ since' \in [Calls -> 0..MaxTime]
          /\ todo' \in [Calls -> SUBSET Keys] /\ now' \in 0..MaxTime
          /\ damaged' \subseteq Keys
      BY <1>4, <2>2, FileAssumption DEF SaveFails, Ends
    <3> QED
      BY <2>2, <3>1, <3>2, <3>3, Zenon DEF Contents
  <2>4. Purposes'
    BY <1>4, FileAssumption DEF SaveFails, Ends
  <2> QED
    BY <2>3, <2>4
<1>5. ASSUME NEW p \in Calls, NEW k \in Keys, Delete(p, k) \/ ClearOne(p, k) PROVE TypeInv'
  BY <1>5 DEF Delete, ClearOne, Unlink
<1>6. ASSUME NEW p \in Calls, NEW k \in Keys, Load(p, k) PROVE TypeInv'
  BY <1>6 DEF Load, Condemn
<1>7. ASSUME NEW p \in Calls, NEW k \in Keys, CleanOne(p, k) PROVE TypeInv'
  <2>1. file[k] \in Entries /\ Expired(file[k], since[p]) => Expired(file[k], now)
    BY FileAssumption, ExpiredStays
  <2>2. TypeOK'
    BY <1>7 DEF CleanOne, Condemn
  <2>3. Purposes'
    BY <1>7, <2>1 DEF CleanOne, Condemn
  <2> QED
    BY <2>2, <2>3
<1>8. ASSUME NEW p \in Calls, Expire(p) PROVE TypeInv'
  <2>1. TypeOK'
    BY <1>8, FileAssumption DEF Expire, Unlink, Ends
  <2>2. Purposes'
    BY <1>8, FileAssumption DEF Expire, Unlink, Ends
  <2> QED
    BY <2>1, <2>2
<1>9. ASSUME NEW p \in Calls, NEW what \in {"clear", "cleanup"}, Sweep(p, what)
      PROVE  TypeInv'
  BY <1>9 DEF Sweep
<1>10. ASSUME NEW p \in Calls, List(p) \/ Swept(p) PROVE TypeInv'
  BY <1>10, FileAssumption DEF List, Swept, Ends
<1>11. CASE Crash
  BY <1>11, FileAssumption DEF Crash
<1>12. CASE Tick
  <2>1. \A p \in Calls : pc[p] = "expiring" => Expired(entry[p], now')
    BY <1>12, FileAssumption, ExpiredStays DEF Tick
  <2> QED
    BY <1>12, <2>1, FileAssumption DEF Tick, callVars
<1>13. CASE UNCHANGED vars
  BY <1>13 DEF vars, callVars
<1> QED
  BY <1>1, <1>2, <1>3, <1>4, <1>5, <1>6, <1>7, <1>8, <1>9, <1>10, <1>11, <1>12, <1>13
  DEF Next, Call

\* Whatever calls overlap, fail or crash, the model's state is well-formed.
THEOREM TypeCorrect == Spec => []TypeOK
BY TypeInit, TypeStep, PTL DEF Spec, TypeInv

-----------------------------------------------------------------------------
(* Whole files *)

\* The only writer of a file that no other writer has disturbed finds it empty.
Alone ==
    \A k \in Keys \ damaged : \A p \in Writers(k) :
        file[k] = Empty /\ \A q \in Writers(k) : q = p

WholeInv == AtRestWhole /\ Alone

LEMMA WholeInit == Init => WholeInv
BY Distinct DEF Init, WholeInv, AtRestWhole, Alone, Writers

\* A step that neither writes nor unlinks, and starts or ends no writer.
LEMMA WholeKept ==
    ASSUME WholeInv, UNCHANGED <<file, damaged>>,
           \A p \in Calls : pc'[p] = "writing" <=> pc[p] = "writing",
           \A p \in Calls : pc[p] = "writing" =>
                target'[p] = target[p] /\ linked'[p] = linked[p]
    PROVE  WholeInv'
<1>1. \A k \in Keys : Writers(k)' = Writers(k)
  BY DEF Writers
<1> QED
  BY <1>1 DEF WholeInv, AtRestWhole, Alone

\* A step that concerns one key's file.
LEMMA WholeFrom ==
    ASSUME NEW k \in Keys, WholeInv,
           \A h \in Keys \ {k} : /\ Writers(h)' = Writers(h) /\ file'[h] = file[h]
                                /\ (h \in damaged' <=> h \in damaged),
           \/ k \in damaged'
           \/ Writers(k)' = {} /\ file'[k] \notin {Empty, Torn}
           \/ file'[k] = Empty /\ \E p : Writers(k)' = {p}
    PROVE  WholeInv'
<1>1. ASSUME NEW h \in Keys, file'[h] \in {Empty, Torn}
      PROVE  h \in damaged' \/ Writers(h)' # {}
  <2>1. CASE h = k
    BY <1>1, <2>1
  <2>2. CASE h # k
    <3>1. /\ Writers(h)' = Writers(h) /\ file'[h] = file[h]
          /\ h \in damaged' <=> h \in damaged
      BY <2>2
    <3>2. file[h] \in {Empty, Torn} => h \in damaged \/ Writers(h) # {}
      BY DEF WholeInv, AtRestWhole
    <3> QED
      BY <1>1, <3>1, <3>2
  <2> QED
    BY <2>1, <2>2
<1>2. ASSUME NEW h \in Keys, h \notin damaged'
      PROVE  \A p \in Writers(h)' : file'[h] = Empty /\ \A q \in Writers(h)' : q = p
  <2>1. CASE h = k
    BY <1>2, <2>1
  <2>2. CASE h # k
    <3>1. /\ Writers(h)' = Writers(h) /\ file'[h] = file[h]
          /\ h \in damaged' <=> h \in damaged
      BY <2>2
    <3>2. \A p \in Writers(h) : file[h] = Empty /\ \A q \in Writers(h) : q = p
      BY <1>2, <3>1 DEF WholeInv, Alone
    <3> QED
      BY <3>1, <3>2
  <2> QED
    BY <2>1, <2>2
<1> QED
  BY <1>1, <1>2 DEF WholeInv, AtRestWhole, Alone

\* The writers when p stops writing.
LEMMA WritersEnd ==
    ASSUME TypeInv, NEW p \in Calls, pc[p] \in {"opening", "writing"}, Ends(p),
           linked' = [linked EXCEPT ![p] = FALSE]
    PROVE  \A h \in Keys : Writers(h)' = Writers(h) \ {p}
<1>1. /\ pc'[p] = "idle"
      /\ \A q \in Calls \ {p} : pc'[q] = pc[q] /\ target'[q] = target[q] /\ linked'[q] = linked[q]
  BY DEF Ends, TypeInv, TypeOK
<1> QED
  BY <1>1 DEF Writers

LEMMA UnlinkWhole ==
    ASSUME TypeInv, WholeInv, NEW k \in Keys, Unlink(k),
           \A p \in Calls : pc'[p] = "writing" <=> pc[p] = "writing",
           \A p \in Calls : pc[p] = "writing" => target'[p] = target[p]
    PROVE  WholeInv'
<1>1. Writers(k)' = {} /\ file'[k] = Absent
  BY DEF Unlink, Writers, TypeInv, TypeOK
<1>2. \A h \in Keys \ {k} : Writers(h)' = Writers(h) /\ file'[h] = file[h]
  BY DEF Unlink, Writers, TypeInv, TypeOK
<1>3. \A h \in Keys \ {k} : h \in damaged' <=> h \in damaged
  BY DEF Unlink
<1> QED
  BY <1>1, <1>2, <1>3, Distinct DEF WholeInv, AtRestWhole, Alone

LEMMA WholeStep == TypeInv /\ WholeInv /\ [Next]_vars => WholeInv'
<1> SUFFICES ASSUME TypeInv, WholeInv, [Next]_vars PROVE WholeInv'
  OBVIOUS
<1>0. /\ pc \in [Calls -> {"idle", "opening", "writing", "expiring", "listing", "sweeping"}]
      /\ target \in [Calls -> Keys \cup {None}]
      /\ \A p \in Calls : linked[p] => pc[p] = "writing"
      /\ \A p \in Calls : pc[p] \in {"opening", "writing", "expiring"} =>
            target[p] \in Keys /\ entry[p] \in Entries
      /\ file \in [Keys -> Contents]
  BY DEF TypeInv, TypeOK, Purposes, Purpose, Contents
<1>1. ASSUME NEW p \in Calls, Open(p) PROVE WholeInv'
  <2>1. PICK k \in Keys : k = target[p]
    BY <1>0, <1>1 DEF Open
  <2>2. /\ file'[k] = Empty /\ Writers(k)' = Writers(k) \cup {p}
        /\ k \in damaged' <=> Writers(k) # {}
    BY <1>0, <1>1, <2>1 DEF Open, Writers, TypeInv, TypeOK
  <2>3. \A h \in Keys \ {k} : /\ Writers(h)' = Writers(h) /\ file'[h] = file[h]
                              /\ h \in damaged' <=> h \in damaged
    BY <1>0, <1>1, <2>1 DEF Open, Writers, TypeInv, TypeOK
  <2> QED
    BY <2>2, <2>3, WholeFrom
<1>2. ASSUME NEW p \in Calls, Write(p) PROVE WholeInv'
  <2>1. PICK k \in Keys : k = target[p] /\ entry[p] \in Entries /\ UNCHANGED damaged
    BY <1>0, <1>2 DEF Write
  <2>2. \A h \in Keys : Writers(h)' = Writers(h) \ {p}
    BY <1>2, WritersEnd DEF Write
  <2>3. \A h \in Keys \ {k} : Writers(h)' = Writers(h) /\ file'[h] = file[h]
    <3>1. \A h \in Keys \ {k} : p \notin Writers(h)
      BY <2>1 DEF Writers
    <3>2. \A h \in Keys \ {k} : file'[h] = file[h]
      BY <1>0, <1>2, <2>1 DEF Write
    <3> QED
      BY <2>2, <3>1, <3>2
  <2>4. CASE linked[p] /\ k \notin damaged
    <3>1. p \in Writers(k)
      BY <1>2, <2>1, <2>4 DEF Write, Writers
    <3>2. Writers(k) = {p} /\ file[k] = Empty
      BY <2>4, <3>1 DEF WholeInv, Alone
    <3>3. file'[k] = entry[p]
      BY <1>0, <1>2, <2>1, <2>4, <3>2, Distinct DEF Write, Overwritten
    <3> QED
      BY <2>1, <2>2, <2>3, <3>2, <3>3, WholeFrom, Distinct
  <2>5. CASE linked[p] /\ k \in damaged
    BY <2>1, <2>3, <2>5, WholeFrom
  <2>6. CASE ~linked[p]
    <3>1. file' = file /\ \A h \in Keys : Writers(h)' = Writers(h)
      BY <1>2, <2>2, <2>6 DEF Write, Writers
    <3> QED
      BY <2>1, <3>1 DEF WholeInv, AtRestWhole, Alone
  <2> QED
    BY <2>4, <2>5, <2>6
<1>3. ASSUME NEW p \in Calls, SaveFails(p) PROVE WholeInv'
  <2>1. PICK k \in Keys : k = target[p]
    BY <1>0, <1>3 DEF SaveFails
  <2>2. \A h \in Keys : Writers(h)' = Writers(h) \ {p}
    BY <1>3, WritersEnd DEF SaveFails
  <2>3. CASE linked[p]
    <3>1. \A h \in Keys \ {k} : p \notin Writers(h)
      BY <2>1 DEF Writers
    <3>2. /\ \A h \in Keys \ {k} : file'[h] = file[h]
          /\ damaged' = damaged \cup {k}
      BY <1>0, <1>3, <2>1, <2>3 DEF SaveFails
    <3> QED
      BY <2>2, <3>1, <3>2, WholeFrom
  <2>4. CASE ~linked[p]
    <3>1. file' = file /\ damaged' = damaged /\ \A h \in Keys : Writers(h)' = Writers(h)
      BY <1>3, <2>2, <2>4 DEF SaveFails, Writers
    <3> QED
      BY <3>1 DEF WholeInv, AtRestWhole, Alone
  <2> QED
    BY <2>3, <2>4
<1>4. ASSUME NEW p \in Calls, NEW k \in Keys, Delete(p, k) \/ ClearOne(p, k) PROVE WholeInv'
  BY <1>4, UnlinkWhole DEF Delete, ClearOne
<1>5. ASSUME NEW p \in Calls, Expire(p) PROVE WholeInv'
  <2>1. PICK k \in Keys : Unlink(k)
    BY <1>0, <1>5 DEF Expire
  <2>2. \A q \in Calls : pc'[q] = "writing" <=> pc[q] = "writing"
    BY <1>0, <1>5 DEF Expire, Ends
  <2>3. \A q \in Calls : pc[q] = "writing" => target'[q] = target[q]
    BY <1>0, <1>5 DEF Expire, Ends
  <2> QED
    BY <2>1, <2>2, <2>3, UnlinkWhole
<1>6. ASSUME NEW p \in Calls, NEW k \in Keys, Load(p, k) \/ CleanOne(p, k) PROVE WholeInv'
  BY <1>0, <1>6, WholeKept DEF Load, CleanOne, Condemn
<1>7. ASSUME NEW p \in Calls,
             \/ \E k \in Keys, v \in Values, ttl \in Ttls : Save(p, k, v, ttl)
             \/ \E what \in {"clear", "cleanup"} : Sweep(p, what)
             \/ List(p) \/ Swept(p)
      PROVE  WholeInv'
  BY <1>0, <1>7, WholeKept DEF Save, Sweep, List, Swept, Ends
<1>8. CASE Crash
  BY <1>0, <1>8 DEF Crash, Writers, WholeInv, AtRestWhole, Alone
<1>9. CASE Tick \/ UNCHANGED vars
  BY <1>9, WholeKept DEF Tick, vars, callVars
<1> QED
  BY <1>1, <1>2, <1>3, <1>4, <1>5, <1>6, <1>7, <1>8, <1>9 DEF Next, Call

\* A file at rest holds a whole entry unless its last saves overlapped, failed or were
\* cut short by a crash.
THEOREM FilesWhole == Spec => []AtRestWhole
BY TypeInit, TypeStep, WholeInit, WholeStep, PTL DEF Spec, WholeInv

-----------------------------------------------------------------------------
(* Removals *)

LEMMA RemovalStep ==
    ASSUME TypeInv, [Next]_vars, NEW k \in Keys,
           file[k] \in Entries, ~Expired(file[k], now), file'[k] = Absent
    PROVE  \E p \in Calls :
            \/ Delete(p, k) \/ ClearOne(p, k)
            \/ pc[p] = "expiring" /\ target[p] = k /\ entry[p] # file[k]
<1>0. file \in [Keys -> Contents] /\ file[k] # Absent
  BY Distinct DEF TypeInv, TypeOK, Contents
<1>1. ASSUME NEW p \in Calls, Write(p) \/ Open(p) \/ SaveFails(p) PROVE FALSE
  <2>1. target[p] \in Keys /\ entry[p] \in Entries
    BY <1>1 DEF Write, Open, SaveFails, TypeInv, Purposes, Purpose
  <2>2. Overwritten(file[target[p]], entry[p]) # Absent
    BY <2>1, OverwrittenType, Distinct
  <2> QED
    BY <1>0, <1>1, <2>1, <2>2, Distinct DEF Write, Open, SaveFails
<1>2. ASSUME NEW p \in Calls, NEW h \in Keys, Delete(p, h) \/ ClearOne(p, h)
      PROVE  h = k
  BY <1>0, <1>2 DEF Delete, ClearOne, Unlink
<1>3. ASSUME NEW p \in Calls, Expire(p)
      PROVE  pc[p] = "expiring" /\ target[p] = k /\ entry[p] # file[k]
  <2>1. pc[p] = "expiring" /\ target[p] = k
    BY <1>0, <1>3 DEF Expire, Unlink
  <2>2. Expired(entry[p], now)
    BY <2>1 DEF TypeInv, Purposes, Purpose
  <2> QED
    BY <2>1, <2>2
<1>4. UNCHANGED file \/ \E p \in Calls :
         \/ Write(p) \/ Open(p) \/ SaveFails(p) \/ Expire(p)
         \/ \E h \in Keys : Delete(p, h) \/ ClearOne(p, h)
  BY DEF Next, Call, Save, Load, CleanOne, Sweep, List, Swept, Crash, Tick, vars
<1> QED
  BY <1>0, <1>1, <1>2, <1>3, <1>4

\* An entry that has not expired is only ever removed by who asked for it, or by a load
\* or cleanup that had read another, expired one.
THEOREM LiveEntriesKept == Spec => LiveEntriesStay
<1> DEFINE Stay == \A k \in Keys :
        /\ file[k] \in Entries
        /\ ~Expired(file[k], now)
        /\ file'[k] = Absent
        => \E p \in Calls :
            \/ Delete(p, k) \/ ClearOne(p, k)
            \/ pc[p] = "expiring" /\ target[p] = k /\ entry[p] # file[k]
<1>1. TypeInv /\ [Next]_vars => [Stay]_vars
  BY RemovalStep
<1> QED
  BY <1>1, TypeInit, TypeStep, PTL DEF Spec, LiveEntriesStay

-----------------------------------------------------------------------------
(* Sweeps *)

\* What a sweep leaves behind when it is done with a file.
Clean(p, k) ==
    IF mode[p] = "clear" THEN file[k] = Absent
    ELSE file[k] \in Entries => ~Expired(file[k], since[p])

\* A file that p has not to visit any more, and nobody wrote, is as p wants it.
Progress(p) ==
    pc[p] \in {"sweeping", "expiring"} /\ Sweeping(p) =>
        \A k \in Keys \ touched[p] :
            \/ k \in todo[p]
            \/ pc[p] = "expiring" /\ target[p] = k
            \/ Clean(p, k)

SweepInv == \A p \in Calls : Progress(p)

LEMMA CleanKept ==
    ASSUME NEW p \in Calls, NEW k \in Keys, Clean(p, k),
           mode'[p] = mode[p], since'[p] = since[p], file'[k] \in {file[k], Absent}
    PROVE  Clean(p, k)'
BY Distinct DEF Clean

\* A step in which p takes no part: files change by writes it will hear of, or go.
LEMMA Bystander ==
    ASSUME NEW p \in Calls, Progress(p),
           pc'[p] = pc[p], mode'[p] = mode[p], since'[p] = since[p], todo'[p] = todo[p],
           target'[p] = target[p], touched[p] \subseteq touched'[p],
           Sweeping(p) => \A k \in Keys \ touched'[p] : file'[k] \in {file[k], Absent}
    PROVE  Progress(p)'
<1> SUFFICES ASSUME pc[p] \in {"sweeping", "expiring"}, Sweeping(p),
                    NEW k \in Keys \ touched'[p], k \notin todo[p],
                    ~(pc[p] = "expiring" /\ target[p] = k)
             PROVE  Clean(p, k)'
  BY DEF Progress, Sweeping
<1>1. Clean(p, k)
  BY DEF Progress
<1> QED
  BY <1>1, CleanKept

LEMMA SweepInit == Init => SweepInv
BY DEF Init, SweepInv, Progress, Sweeping

LEMMA SweepStep == TypeInv /\ SweepInv /\ [Next]_vars => SweepInv'
<1> SUFFICES ASSUME TypeInv, SweepInv, [Next]_vars, NEW p \in Calls PROVE Progress(p)'
  BY DEF SweepInv
<1>0. /\ file \in [Keys -> Contents] /\ pc \in [Calls -> {"idle", "opening", "writing",
                                                "expiring", "listing", "sweeping"}]
      /\ target \in [Calls -> Keys \cup {None}]
      /\ mode \in [Calls -> {"none", "load", "clear", "cleanup"}]
      /\ since \in [Calls -> 0..MaxTime] /\ todo \in [Calls -> SUBSET Keys]
      /\ touched \in [Calls -> SUBSET Keys] /\ Progress(p)
      /\ \A q \in Calls : pc[q] \in {"opening", "writing", "expiring"} => target[q] \in Keys
  BY DEF TypeInv, TypeOK, Purposes, Purpose, SweepInv, Contents
<1>1. ASSUME NEW q \in Calls, Open(q) \/ Write(q) \/ SaveFails(q) PROVE Progress(p)'
  <2>1. PICK k \in Keys : k = target[q] /\ (linked[q] => k = target[q])
    BY <1>0, <1>1 DEF Open, Write, SaveFails
  <2>2. \A h \in Keys : file'[h] = file[h] \/ h = k
    BY <1>0, <1>1, <2>1 DEF Open, Write, SaveFails
  <2>3. UNCHANGED file \/ Written(k)
    BY <1>1, <2>1 DEF Open, Write, SaveFails
  <2>4. /\ touched[p] \subseteq touched'[p]
        /\ Sweeping(p) => \A h \in Keys \ touched'[p] : file'[h] \in {file[h], Absent}
    <3>1. CASE Written(k)
      BY <1>0, <2>2, <3>1 DEF Written
    <3>2. CASE UNCHANGED file
      BY <1>0, <1>1, <3>2 DEF Open, Write, SaveFails, Written
    <3> QED
      BY <2>3, <3>1, <3>2
  <2>5. CASE p = q
    BY <1>0, <1>1, <2>5 DEF Open, Write, SaveFails, Ends, Progress, Sweeping
  <2>6. CASE p # q
    <3>1. /\ pc'[p] = pc[p] /\ mode'[p] = mode[p] /\ since'[p] = since[p]
          /\ todo'[p] = todo[p] /\ target'[p] = target[p]
      BY <1>0, <1>1, <2>6 DEF Open, Write, SaveFails, Ends
    <3> QED
      BY <1>0, <2>4, <3>1, Bystander
  <2> QED
    BY <2>5, <2>6
<1>2. ASSUME NEW q \in Calls, NEW k \in Keys, Delete(q, k) PROVE Progress(p)'
  <2>1. \A h \in Keys : file'[h] \in {file[h], Absent}
    BY <1>0, <1>2 DEF Delete, Unlink
  <2> QED
    BY <1>0, <1>2, <2>1, Bystander DEF Delete
<1>3. ASSUME NEW q \in Calls, NEW k \in Keys, ClearOne(q, k) PROVE Progress(p)'
  <2>1. \A h \in Keys : file'[h] \in {file[h], Absent}
    BY <1>0, <1>3 DEF ClearOne, Unlink
  <2>2. CASE p # q
    BY <1>0, <1>3, <2>1, <2>2, Bystander DEF ClearOne
  <2>3. CASE p = q
    <3>1. /\ pc'[p] = pc[p] /\ mode'[p] = mode[p] /\ since'[p] = since[p] /\ touched' = touched
          /\ mode[p] = "clear" /\ pc[p] = "sweeping" /\ todo'[p] = todo[p] \ {k}
          /\ file'[k] = Absent
      BY <1>0, <1>3, <2>3 DEF ClearOne, Unlink
    <3>2. ASSUME NEW h \in Keys \ touched[p], h \notin todo'[p] PROVE file'[h] = Absent
      BY <1>0, <2>1, <3>1, <3>2 DEF Progress, Sweeping, Clean
    <3> QED
      BY <3>1, <3>2 DEF Progress, Clean
  <2> QED
    BY <2>2, <2>3
<1>4. ASSUME NEW q \in Calls, NEW k \in Keys, CleanOne(q, k) PROVE Progress(p)'
  <2>1. file' = file /\ touched' = touched
    BY <1>4 DEF CleanOne
  <2>2. CASE p # q
    BY <1>0, <1>4, <2>1, <2>2, Bystander DEF CleanOne, Condemn
  <2>3. CASE p = q
    <3>1. /\ mode'[p] = mode[p] /\ since'[p] = since[p]
          /\ mode[p] = "cleanup" /\ pc[p] = "sweeping" /\ todo'[p] = todo[p] \ {k}
      BY <1>0, <1>4, <2>3 DEF CleanOne
    <3>2. \/ pc'[p] = "expiring" /\ target'[p] = k
          \/ file[k] \in Entries => ~Expired(file[k], since[p])
      BY <1>0, <1>4, <2>3 DEF CleanOne, Condemn
    <3>3. ASSUME NEW h \in Keys \ touched[p], h \notin todo'[p], h # k PROVE Clean(p, h)'
      <4>1. Clean(p, h)
        BY <1>0, <3>1, <3>3 DEF Progress, Sweeping
      <4> QED
        BY <2>1, <3>1, <4>1, CleanKept
    <3>4. (pc'[p] = "expiring" /\ target'[p] = k) \/ Clean(p, k)'
      BY <2>1, <3>1, <3>2 DEF Clean
    <3> QED
      BY <2>1, <3>3, <3>4 DEF Progress
  <2> QED
    BY <2>2, <2>3
<1>5. ASSUME NEW q \in Calls, Expire(q) PROVE Progress(p)'
  <2>1. PICK k \in Keys : k = target[q] /\ file' = [file EXCEPT ![k] = Absent]
    BY <1>0, <1>5 DEF Expire, Unlink
  <2>2. \A h \in Keys : file'[h] \in {file[h], Absent}
    BY <1>0, <2>1
  <2>3. CASE p # q
    BY <1>0, <1>5, <2>2, <2>3, Bystander DEF Expire, Ends
  <2>4. CASE p = q /\ mode[p] = "load"
    BY <1>0, <1>5, <2>4 DEF Expire, Ends, Progress, Sweeping
  <2>5. CASE p = q /\ mode[p] # "load"
    <3>1. /\ mode'[p] = mode[p] /\ since'[p] = since[p] /\ todo'[p] = todo[p]
          /\ touched' = touched /\ pc'[p] = "sweeping" /\ pc[p] = "expiring"
      BY <1>0, <1>5, <2>5 DEF Expire
    <3>2. ASSUME Sweeping(p), NEW h \in Keys \ touched[p], h \notin todo[p]
          PROVE  Clean(p, h)'
      <4>1. CASE h = k
        BY <1>0, <2>1, <4>1, Distinct DEF Clean
      <4>2. CASE h # k
        <5>1. Clean(p, h)
          BY <1>0, <2>1, <2>5, <3>1, <3>2, <4>2 DEF Progress
        <5> QED
          BY <2>2, <3>1, <5>1, CleanKept
      <4> QED
        BY <4>1, <4>2
    <3> QED
      BY <3>1, <3>2 DEF Progress, Sweeping
  <2> QED
    BY <2>3, <2>4, <2>5
<1>6. ASSUME NEW q \in Calls, List(q) PROVE Progress(p)'
  <2>1. CASE p # q
    BY <1>0, <1>6, <2>1, Bystander DEF List
  <2>2. CASE p = q
    <3>1. \A k \in Keys : k \notin todo'[p] => file'[k] = Absent
      BY <1>0, <1>6, <2>2 DEF List
    <3> QED
      BY <3>1, Distinct DEF Progress, Clean
  <2> QED
    BY <2>1, <2>2
<1>7. ASSUME NEW q \in Calls,
             \/ \E k \in Keys, v \in Values, ttl \in Ttls : Save(q, k, v, ttl)
             \/ \E k \in Keys : Load(q, k)
             \/ \E what \in {"clear", "cleanup"} : Sweep(q, what)
             \/ Swept(q)
      PROVE  Progress(p)'
  <2>1. CASE p # q
    BY <1>0, <1>7, <2>1, Bystander DEF Save, Load, Condemn, Sweep, Swept, Ends
  <2>2. CASE p = q
    BY <1>0, <1>7, <2>2 DEF Save, Load, Condemn, Sweep, Swept, Ends, Progress, Sweeping
  <2> QED
    BY <2>1, <2>2
<1>8. CASE Crash
  BY <1>8 DEF Crash, Progress
<1>9. CASE Tick \/ UNCHANGED vars
  BY <1>0, <1>9, Bystander DEF Tick, vars, callVars
<1> QED
  BY <1>1, <1>2, <1>3, <1>4, <1>5, <1>6, <1>7, <1>8, <1>9 DEF Next, Call

\* When a sweep has no file left to visit, every file is as it wants it, or was written
\* since it began.
LEMMA SweptClean == TypeInv /\ SweepInv => SweepsThorough
BY DEF TypeInv, Purposes, Purpose, SweepInv, Progress, Clean, SweepsThorough

\* clear leaves no file that was there before it, and cleanupExpired no entry that had
\* expired before it.
THEOREM SweepsComplete == Spec => []SweepsThorough
BY TypeInit, TypeStep, SweepInit, SweepStep, SweptClean, PTL DEF Spec

=============================================================================
