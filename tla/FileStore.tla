------------------------------ MODULE FileStore ------------------------------
(***************************************************************************)
(* JsonFileStorage (packages_mjs/json_file_storage): one JSON file per key *)
(* in a directory that concurrent calls share, without locks and without   *)
(* atomic replacement. A save truncates the file and then writes it; an    *)
(* expired entry is read first and unlinked later; clear and cleanup visit *)
(* the files one by one. Calls interleave at every file operation, and the *)
(* process may crash between any two. What load and listKeys return is     *)
(* left out; a load matters here when it finds an expired entry.           *)
(***************************************************************************)
EXTENDS Naturals, FiniteSets

CONSTANTS
    Calls,              \* concurrent calls of the storage
    Keys,
    Values,
    Long,               \* the values whose JSON is longer than that of the others
    Ttls,               \* lifetimes that callers give; 0 stands for none
    MaxTime,            \* bound: the clock
    Absent, Empty, Torn,\* contents of a file that are no entry
    None

VARIABLES
    file,               \* key -> what its file holds
    pc,                 \* "idle", "opening", "writing", "expiring", "listing", "sweeping"
    target,             \* the key a call works on, if it works on one
    entry,              \* the entry a save writes, or the expired one that was read
    linked,             \* the file a save has open is still in the directory
    mode,               \* "load", or what a sweep does: "clear", "cleanup"; else "none"
    since,              \* when the sweep began
    todo,               \* the files it still has to visit
    now,
    damaged,            \* history: keys whose file was left by writes that overlapped
                        \* or broke off
    touched             \* history: keys written since a sweep began

callVars == <<pc, target, entry, linked, mode, since, todo>>
vars == <<file, callVars, now, damaged, touched>>

\* expiresAt is null, here 0, for an entry without a lifetime.
Entries == [value: Values, expires: 0..(MaxTime + MaxTime)]

ASSUME FileAssumption ==
    /\ Long \subseteq Values
    /\ MaxTime \in Nat
    /\ Ttls \subseteq 0..MaxTime
    /\ {Absent, Empty, Torn, None} \cap [value: Values, expires: Nat] = {}
    /\ None \notin Keys
    /\ Absent # Empty /\ Absent # Torn /\ Empty # Torn

Expired(e, time) == e.expires # 0 /\ e.expires < time

\* The calls that have the file of k open for writing.
Writers(k) == {p \in Calls : pc[p] = "writing" /\ linked[p] /\ target[p] = k}

Init ==
    /\ file = [k \in Keys |-> Absent]
    /\ pc = [p \in Calls |-> "idle"]
    /\ target = [p \in Calls |-> None]
    /\ entry = [p \in Calls |-> None]
    /\ linked = [p \in Calls |-> FALSE]
    /\ mode = [p \in Calls |-> "none"]
    /\ since = [p \in Calls |-> 0]
    /\ todo = [p \in Calls |-> {}]
    /\ now = 0
    /\ damaged = {}
    /\ touched = [p \in Calls |-> {}]

-----------------------------------------------------------------------------
(* Saves *)

Sweeping(p) == mode[p] \in {"clear", "cleanup"}

Written(k) ==
    touched' = [p \in Calls |-> IF Sweeping(p) THEN touched[p] \cup {k} ELSE touched[p]]

\* The call of p returns or throws.
Ends(p) ==
    /\ pc' = [pc EXCEPT ![p] = "idle"]
    /\ target' = [target EXCEPT ![p] = None]
    /\ entry' = [entry EXCEPT ![p] = None]
    /\ mode' = [mode EXCEPT ![p] = "none"]
    /\ since' = [since EXCEPT ![p] = 0]

\* Mutant: the lifetime is taken for milliseconds.
Save_Milliseconds(p, k, v, ttl) ==
    /\ pc[p] = "idle"
    /\ pc' = [pc EXCEPT ![p] = "opening"]
    /\ target' = [target EXCEPT ![p] = k]
    /\ entry' = [entry EXCEPT ![p] =
                    [value |-> v, expires |-> IF ttl = 0 THEN 0 ELSE now + 1000 * ttl]]
    /\ UNCHANGED <<file, linked, mode, since, todo, now, damaged, touched>>

\* save: the entry and its expiry are fixed before the file is touched.
Save(p, k, v, ttl) ==
    /\ pc[p] = "idle"
    /\ pc' = [pc EXCEPT ![p] = "opening"]
    /\ target' = [target EXCEPT ![p] = k]
    /\ entry' = [entry EXCEPT ![p] =
                    [value |-> v, expires |-> IF ttl = 0 THEN 0 ELSE now + ttl]]
    /\ UNCHANGED <<file, linked, mode, since, todo, now, damaged, touched>>

\* Mutant: the file is opened without being truncated.
Open_Keeps(p) ==
    /\ pc[p] = "opening"
    /\ pc' = [pc EXCEPT ![p] = "writing"]
    /\ linked' = [linked EXCEPT ![p] = TRUE]
    /\ file' = [file EXCEPT ![target[p]] = IF @ = Absent THEN Empty ELSE @]
    /\ damaged' = IF Writers(target[p]) = {} THEN damaged \ {target[p]}
                                              ELSE damaged \cup {target[p]}
    /\ Written(target[p])
    /\ UNCHANGED <<target, entry, mode, since, todo, now>>

\* writeFile opens the file, which creates or truncates it.
Open(p) ==
    /\ pc[p] = "opening"
    /\ pc' = [pc EXCEPT ![p] = "writing"]
    /\ linked' = [linked EXCEPT ![p] = TRUE]
    /\ file' = [file EXCEPT ![target[p]] = Empty]
    /\ damaged' = IF Writers(target[p]) = {} THEN damaged \ {target[p]}
                                              ELSE damaged \cup {target[p]}
    /\ Written(target[p])
    /\ UNCHANGED <<target, entry, mode, since, todo, now>>

\* What the file holds after e is written from its beginning: when the other writer of
\* an overlapping pair left more than that, its tail remains.
Overwritten(content, e) ==
    IF e.value \notin Long /\ (content = Torn \/ content \in [value: Long, expires: Nat])
    THEN Torn
    ELSE e

\* ... and writes it at once, or into a file that was unlinked meanwhile.
Write(p) ==
    LET k == target[p]
    IN  /\ pc[p] = "writing"
        /\ Ends(p)
        /\ linked' = [linked EXCEPT ![p] = FALSE]
        /\ IF linked[p]
           THEN /\ file' = [file EXCEPT ![k] = Overwritten(@, entry[p])]
                /\ Written(k)
           ELSE UNCHANGED <<file, touched>>
        /\ UNCHANGED <<todo, now, damaged>>

\* The file cannot be opened, or writing it fails, at once or half-way (a full disk).
SaveFails(p) ==
    /\ pc[p] \in {"opening", "writing"}
    /\ Ends(p)
    /\ linked' = [linked EXCEPT ![p] = FALSE]
    /\ IF linked[p]
       THEN /\ \E content \in {file[target[p]], Torn} :
                file' = [file EXCEPT ![target[p]] = content]
            /\ damaged' = damaged \cup {target[p]}
            /\ Written(target[p])
       ELSE UNCHANGED <<file, damaged, touched>>
    /\ UNCHANGED <<todo, now>>

-----------------------------------------------------------------------------
(* Removals *)

\* The file of k leaves the directory; whoever has it open writes into the void.
Unlink(k) ==
    /\ file' = [file EXCEPT ![k] = Absent]
    /\ linked' = [p \in Calls |-> linked[p] /\ target[p] # k]
    /\ damaged' = damaged \ {k}

Delete(p, k) ==
    /\ pc[p] = "idle"
    /\ Unlink(k)
    /\ UNCHANGED <<pc, target, entry, mode, since, todo, now, touched>>

\* p has read an expired entry and will unlink its file.
Condemn(p, k) ==
    /\ pc' = [pc EXCEPT ![p] = "expiring"]
    /\ target' = [target EXCEPT ![p] = k]
    /\ entry' = [entry EXCEPT ![p] = file[k]]

\* load (and exists) of an expired entry. All its other outcomes change nothing: no
\* file, a file that JSON.parse rejects, an entry that has not expired.
Load(p, k) ==
    /\ pc[p] = "idle"
    /\ file[k] \in Entries
    /\ Expired(file[k], now)
    /\ mode' = [mode EXCEPT ![p] = "load"]
    /\ Condemn(p, k)
    /\ UNCHANGED <<file, linked, since, todo, now, damaged, touched>>

\* The unlink that load or cleanupExpired decided on.
Expire(p) ==
    /\ pc[p] = "expiring"
    /\ Unlink(target[p])
    /\ IF mode[p] = "load"
       THEN Ends(p)
       ELSE /\ pc' = [pc EXCEPT ![p] = "sweeping"]
            /\ target' = [target EXCEPT ![p] = None]
            /\ entry' = [entry EXCEPT ![p] = None]
            /\ UNCHANGED <<mode, since>>
    /\ UNCHANGED <<todo, now, touched>>

-----------------------------------------------------------------------------
(* Sweeps *)

\* clear and cleanupExpired; the latter takes the time now, once.
Sweep(p, what) ==
    /\ pc[p] = "idle"
    /\ pc' = [pc EXCEPT ![p] = "listing"]
    /\ mode' = [mode EXCEPT ![p] = what]
    /\ since' = [since EXCEPT ![p] = now]
    /\ UNCHANGED <<file, target, entry, linked, todo, now, damaged, touched>>

\* readdir
List(p) ==
    /\ pc[p] = "listing"
    /\ pc' = [pc EXCEPT ![p] = "sweeping"]
    /\ todo' = [todo EXCEPT ![p] = {k \in Keys : file[k] # Absent}]
    /\ UNCHANGED <<file, target, entry, linked, mode, since, now, damaged, touched>>

\* Mutant: clear gives up at the first file that is gone already.
ClearOne_GivesUp(p, k) ==
    /\ pc[p] = "sweeping"
    /\ mode[p] = "clear"
    /\ k \in todo[p]
    /\ todo' = [todo EXCEPT ![p] = IF file[k] = Absent THEN {} ELSE @ \ {k}]
    /\ Unlink(k)
    /\ UNCHANGED <<pc, target, entry, mode, since, now, touched>>

\* clear goes on when a file is gone already.
ClearOne(p, k) ==
    /\ pc[p] = "sweeping"
    /\ mode[p] = "clear"
    /\ k \in todo[p]
    /\ todo' = [todo EXCEPT ![p] = @ \ {k}]
    /\ Unlink(k)
    /\ UNCHANGED <<pc, target, entry, mode, since, now, touched>>

\* Mutant: an entry without a lifetime counts as expired (null < now).
CleanOne_Null(p, k) ==
    /\ pc[p] = "sweeping"
    /\ mode[p] = "cleanup"
    /\ k \in todo[p]
    /\ todo' = [todo EXCEPT ![p] = @ \ {k}]
    /\ IF file[k] \in Entries /\ file[k].expires < since[p]
       THEN Condemn(p, k)
       ELSE UNCHANGED <<pc, target, entry>>
    /\ UNCHANGED <<file, linked, mode, since, now, damaged, touched>>

\* cleanupExpired reads a file; one that is gone or unreadable stays as it is.
CleanOne(p, k) ==
    /\ pc[p] = "sweeping"
    /\ mode[p] = "cleanup"
    /\ k \in todo[p]
    /\ todo' = [todo EXCEPT ![p] = @ \ {k}]
    /\ IF file[k] \in Entries /\ Expired(file[k], since[p])
       THEN Condemn(p, k)
       ELSE UNCHANGED <<pc, target, entry>>
    /\ UNCHANGED <<file, linked, mode, since, now, damaged, touched>>

Swept(p) ==
    /\ pc[p] = "sweeping"
    /\ todo[p] = {}
    /\ Ends(p)
    /\ touched' = [touched EXCEPT ![p] = {}]
    /\ UNCHANGED <<file, linked, todo, now, damaged>>

-----------------------------------------------------------------------------
\* The process dies: its calls are gone, its files stay as they are.
Crash ==
    /\ pc' = [p \in Calls |-> "idle"]
    /\ linked' = [p \in Calls |-> FALSE]
    /\ damaged' = damaged \cup {k \in Keys : Writers(k) # {}}
    /\ target' = [p \in Calls |-> None]
    /\ entry' = [p \in Calls |-> None]
    /\ mode' = [p \in Calls |-> "none"]
    /\ since' = [p \in Calls |-> 0]
    /\ todo' = [p \in Calls |-> {}]
    /\ touched' = [p \in Calls |-> {}]
    /\ UNCHANGED <<file, now>>

Tick ==
    /\ now < MaxTime
    /\ now' = now + 1
    /\ UNCHANGED <<file, callVars, damaged, touched>>

Call(p) ==
    \/ \E k \in Keys :
        \/ \E v \in Values, ttl \in Ttls : Save(p, k, v, ttl)
        \/ Load(p, k)
        \/ Delete(p, k)
        \/ ClearOne(p, k)
        \/ CleanOne(p, k)
    \/ Open(p)
    \/ Write(p)
    \/ SaveFails(p)
    \/ Expire(p)
    \/ \E what \in {"clear", "cleanup"} : Sweep(p, what)
    \/ List(p)
    \/ Swept(p)

Next == (\E p \in Calls : Call(p)) \/ Crash \/ Tick

Spec == Init /\ [][Next]_vars

-----------------------------------------------------------------------------
(* Properties *)

TypeOK ==
    /\ file \in [Keys -> Entries \cup {Absent, Empty, Torn}]
    /\ pc \in [Calls -> {"idle", "opening", "writing", "expiring", "listing", "sweeping"}]
    /\ target \in [Calls -> Keys \cup {None}]
    /\ entry \in [Calls -> Entries \cup {None}]
    /\ linked \in [Calls -> BOOLEAN]
    /\ mode \in [Calls -> {"none", "load", "clear", "cleanup"}]
    /\ since \in [Calls -> 0..MaxTime]
    /\ todo \in [Calls -> SUBSET Keys]
    /\ now \in 0..MaxTime
    /\ damaged \subseteq Keys
    /\ touched \in [Calls -> SUBSET Keys]

\* A file that no call is writing holds a whole entry, unless the last saves of its key
\* overlapped, failed or were cut short by a crash: a save that runs alone always leaves
\* a readable file behind, whatever it found.
AtRestWhole ==
    \A k \in Keys :
        file[k] \in {Empty, Torn} => k \in damaged \/ Writers(k) # {}

\* An entry that has not expired is removed by delete or clear only, or by a load or a
\* cleanup that had read an expired entry in its place: the check and the unlink are
\* two operations.
LiveEntriesStay ==
    [][\A k \in Keys :
        /\ file[k] \in Entries
        /\ ~Expired(file[k], now)
        /\ file'[k] = Absent
        => \E p \in Calls :
            \/ Delete(p, k) \/ ClearOne(p, k)
            \/ pc[p] = "expiring" /\ target[p] = k /\ entry[p] # file[k]]_vars

\* When clear is through, no file is left that was there before it began; when
\* cleanupExpired is, no entry that had expired before it began. Files written
\* meanwhile may be, and so would be, in the code, files whose unlink has failed: an
\* unlink that fails although the file is there is left out of this model.
SweepsThorough ==
    \A p \in Calls : pc[p] = "sweeping" /\ todo[p] = {} =>
        \A k \in Keys \ touched[p] :
            IF mode[p] = "clear" THEN file[k] = Absent
            ELSE file[k] \in Entries => ~Expired(file[k], since[p])

=============================================================================
