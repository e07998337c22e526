---------------------------- MODULE ResponseCache ----------------------------
(***************************************************************************)
(* The response cache of fetch_undici: CacheManager over a storage, used   *)
(* by getOrFetch, which lets identical requests share one fetch, and by    *)
(* the wrappers (CachingClient, withCache, createCacheAwareClient), which  *)
(* do not. Requests interleave wherever they await: the storage, the       *)
(* origin, the body of the answer.                                         *)
(***************************************************************************)
EXTENDS Naturals, Sequences, FiniteSets

CONSTANTS
    Requests,
    Keys,
    None,               \* no entry, or no request
    EmptyKey,           \* the key that is the empty string, if one of Keys is
    MaxEntries,
    Ttls,               \* lifetimes: of the cache, or of the call
    Storages,           \* the storages to consider: "memory", "remote"
    MaxTime,            \* bound: the clock
    MaxVersion          \* bound: how often the origin's data changes

ASSUME CacheAssumption ==
    /\ IsFiniteSet(Requests) /\ IsFiniteSet(Keys) /\ None \notin Requests
    /\ {MaxEntries, MaxTime, MaxVersion} \subseteq Nat
    /\ Ttls \subseteq Nat
    /\ Storages \subseteq {"memory", "remote"}

Kinds == {"shared",     \* getOrFetch
          "plain",      \* a wrapper's request
          "forced"}     \* a wrapper's request with forceRefresh

VARIABLES
    storage,            \* the storage of this cache; never changes
    cache,              \* key -> [from: whose answer it is, created, expires, ttl (history)]
    pending,            \* key -> the request whose fetch is in _pending
    due,                \* requests whose continuation is due, in the order it became due
    pc, kind, key,      \* of each request
    got,                \* the request whose answer this one returns, or waits for
    version,            \* history: the origin's version the answer carries
    answered,           \* history: when the origin answered
    now,
    origin,             \* the version of the origin's data
    latest,             \* history: key -> the newest version returned so far
    mixed               \* history: keys a wrapper fetched while another fetch went on

requestVars == <<pc, kind, key, got, version, answered>>
cacheVars   == <<storage, cache, pending, due>>
worldVars   == <<now, origin, latest, mixed>>
vars == <<cacheVars, requestVars, worldVars>>

-----------------------------------------------------------------------------
(* The storage *)

Live(k) == cache[k] # None /\ now <= cache[k].expires

\* MemoryStorage.get answers with entries that have not expired. Of another storage
\* nothing is asked but what it holds: CacheManager does not look at expiresAt.
Found(k) == cache[k] # None /\ (storage = "memory" => Live(k))

Held == {k \in Keys : cache[k] # None}

\* _evictOldest: among equals, the one stored first; here, any of them.
Oldest == {k \in Held : \A h \in Held : cache[k].created <= cache[h].created}

\* if (oldestKey): the entry of the empty key is not evicted, and nothing else is.
Evicts(e) == IF e = EmptyKey THEN {} ELSE {e}

\* What is left after evicting `gone` and storing the entry of k.
CacheWith(k, entry, gone) ==
    [h \in Keys |-> IF h = k THEN entry ELSE IF h \in gone THEN None ELSE cache[h]]

\* Mutant: the capacity is exceeded by one.
Put_Unbounded(k, entry) ==
    IF storage = "memory" /\ Cardinality(Held) > MaxEntries /\ k \notin Held
    THEN \E e \in Oldest : cache' = CacheWith(k, entry, Evicts(e))
    ELSE cache' = CacheWith(k, entry, {})

\* MemoryStorage.set, at capacity, evicts one entry, if there is one (with maxEntries 0
\* there need not be); a remote storage has no capacity.
Put(k, entry) ==
    IF storage = "memory" /\ Cardinality(Held) >= MaxEntries /\ k \notin Held /\ Held # {}
    THEN \E e \in Oldest : cache' = CacheWith(k, entry, Evicts(e))
    ELSE cache' = CacheWith(k, entry, {})

-----------------------------------------------------------------------------
Init ==
    /\ storage \in Storages
    /\ cache = [k \in Keys |-> None]
    /\ pending = [k \in Keys |-> None]
    /\ due = << >>
    /\ pc = [r \in Requests |-> "idle"]
    /\ kind = [r \in Requests |-> "plain"]
    /\ key \in [Requests -> Keys]
    /\ got = [r \in Requests |-> None]
    /\ version = [r \in Requests |-> 0]
    /\ answered = [r \in Requests |-> 0]
    /\ now = 0
    /\ origin = 0
    /\ latest = [k \in Keys |-> 0]
    /\ mixed = {}

\* A fetch goes on until its answer has been stored and the request returns it.
InFlight(k) == {r \in Requests : key[r] = k /\ pc[r] \in {"flying", "reading", "stored"}}

\* A request sends a fetch of its own.
Send(r) ==
    /\ pc' = [pc EXCEPT ![r] = "flying"]
    /\ got' = [got EXCEPT ![r] = r]
    /\ version' = [version EXCEPT ![r] = origin]
    /\ mixed' = IF \E q \in InFlight(key[r]) : {kind'[r], kind[q]} # {"shared"}
                THEN mixed \cup {key[r]}
                ELSE mixed

\* What has been returned to callers: the answer of request s, by request r.
Returned(r, s) ==
    latest' = [latest EXCEPT ![key[r]] = IF version[s] > @ THEN version[s] ELSE @]

\* A request that must not look first sends its fetch.
Refresh(r) ==
    /\ pc[r] = "idle"
    /\ kind' = [kind EXCEPT ![r] = "forced"]
    /\ Send(r)
    /\ UNCHANGED <<cacheVars, key, answered, now, origin, latest>>

\* The storage answers the lookup: the entry, or nothing. MemoryStorage forgets an
\* entry it finds expired; another storage answers with what it holds.
Look(r, how) ==
    /\ pc[r] = "idle"
    /\ kind' = [kind EXCEPT ![r] = how]
    /\ due' = Append(due, r)
    /\ IF Found(key[r])
       THEN /\ pc' = [pc EXCEPT ![r] = "hit"]
            /\ got' = [got EXCEPT ![r] = cache[key[r]].from]
            /\ UNCHANGED cache
       ELSE /\ pc' = [pc EXCEPT ![r] = "missed"]
            /\ cache' = [cache EXCEPT ![key[r]] = None]
            /\ UNCHANGED got
    /\ UNCHANGED <<storage, pending, key, version, answered, worldVars>>

\* A remote storage may fail the lookup, and the request with it.
LookFails(r, how) ==
    /\ storage = "remote"
    /\ pc[r] = "idle"
    /\ kind' = [kind EXCEPT ![r] = how]
    /\ pc' = [pc EXCEPT ![r] = "done"]
    /\ UNCHANGED <<cacheVars, key, got, version, answered, worldVars>>

-----------------------------------------------------------------------------
(* Continuations *)

\* Mutant: the memory storage's continuations run in any order.
Runs_AnyOrder(i) == i \in 1..Len(due)

\* MemoryStorage answers without waiting, so its continuations are microtasks and run
\* in the order they became due; those of another storage run in any order.
Runs(i) == i \in 1..Len(due) /\ (storage = "memory" => i = 1)

\* Microtasks run before the next event of the network or of a timer.
Quiet == storage = "memory" => due = << >>

Without(i) == [j \in 1..(Len(due) - 1) |-> IF j < i THEN due[j] ELSE due[j + 1]]

\* A hit, or the answer of the shared fetch, is returned.
Return(i) ==
    /\ Runs(i)
    /\ pc[due[i]] \in {"hit", "told"}
    /\ due' = Without(i)
    /\ pc' = [pc EXCEPT ![due[i]] = "done"]
    /\ Returned(due[i], got[due[i]])
    /\ UNCHANGED <<storage, cache, pending, kind, key, got, version, answered, now,
                   origin, mixed>>

\* Mutant: the fetch is not entered in _pending.
Fetch_Unregistered(i) ==
    /\ Runs(i)
    /\ pc[due[i]] = "missed"
    /\ kind[due[i]] = "shared" => pending[key[due[i]]] = None
    /\ due' = Without(i)
    /\ UNCHANGED kind
    /\ Send(due[i])
    /\ UNCHANGED <<storage, cache, pending, key, answered, now, origin, latest>>

\* After a miss: a wrapper sends its fetch, getOrFetch does so if none is pending.
Fetch(i) ==
    /\ Runs(i)
    /\ pc[due[i]] = "missed"
    /\ kind[due[i]] = "shared" => pending[key[due[i]]] = None
    /\ due' = Without(i)
    /\ UNCHANGED kind
    /\ Send(due[i])
    /\ pending' = IF kind[due[i]] = "shared" THEN [pending EXCEPT ![key[due[i]]] = due[i]]
                                             ELSE pending
    /\ UNCHANGED <<storage, cache, key, answered, now, origin, latest>>

\* getOrFetch after a miss, with a fetch of the key pending: wait for its answer. The
\* answer may be there already while it is being stored.
Join(i) ==
    LET r == due[i]
        owner == pending[key[r]]
    IN  /\ Runs(i)
        /\ pc[r] = "missed"
        /\ kind[r] = "shared"
        /\ owner # None
        /\ got' = [got EXCEPT ![r] = owner]
        /\ IF pc[owner] = "flying"
           THEN pc' = [pc EXCEPT ![r] = "joined"] /\ due' = Without(i)
           ELSE pc' = [pc EXCEPT ![r] = "told"] /\ due' = Append(Without(i), r)
        /\ UNCHANGED <<storage, cache, pending, kind, key, version, answered, worldVars>>

\* The finally of getOrFetch.
Release(r) ==
    pending' = IF kind[r] = "shared" THEN [pending EXCEPT ![key[r]] = None] ELSE pending

\* The answer has been stored: clear _pending and return it.
Finish(i) ==
    /\ Runs(i)
    /\ pc[due[i]] = "stored"
    /\ due' = Without(i)
    /\ pc' = [pc EXCEPT ![due[i]] = "done"]
    /\ Release(due[i])
    /\ Returned(due[i], due[i])
    /\ UNCHANGED <<storage, cache, kind, key, got, version, answered, now, origin, mixed>>

-----------------------------------------------------------------------------
(* The origin's answers *)

Joined(r) == {w \in Requests : pc[w] = "joined" /\ got[w] = r}

\* Mutant: those who joined are not told, of an answer or of a failure.
Settles_Untold(r, next, outcome) ==
    /\ pc' = [pc EXCEPT ![r] = next]
    /\ UNCHANGED due

\* The fetch of r has settled, r goes on at `next`, and so do those who joined it, in
\* some order.
Settles(r, next, outcome) ==
    /\ pc' = [q \in Requests |-> IF q = r THEN next
                                 ELSE IF q \in Joined(r) THEN outcome ELSE pc[q]]
    /\ \E order \in [1..Cardinality(Joined(r)) -> Joined(r)] :
        /\ \A w \in Joined(r) : \E i \in DOMAIN order : order[i] = w
        /\ due' = IF outcome = "told" THEN due \o order ELSE due

\* An ok answer, which the origin made at some time since the request was sent: set()
\* takes the time and starts to read the body.
Answer(r, v) ==
    /\ pc[r] = "flying"
    /\ Quiet
    /\ v \in version[r]..origin
    /\ version' = [version EXCEPT ![r] = v]
    /\ answered' = [answered EXCEPT ![r] = now]
    /\ Settles(r, "reading", "told")
    /\ UNCHANGED <<storage, cache, pending, kind, key, got, worldVars>>

\* Mutant: _pending is cleared only after an ok answer.
AnswerFails_NoFinally(r) ==
    /\ pc[r] = "flying"
    /\ Quiet
    /\ Settles(r, "done", "done")
    /\ UNCHANGED <<storage, cache, pending, kind, key, got, version, answered, worldVars>>

\* The fetch fails, or its answer is not ok: nothing is stored, and those who joined
\* get the same.
AnswerFails(r) ==
    /\ pc[r] = "flying"
    /\ Quiet
    /\ Settles(r, "done", "done")
    /\ Release(r)
    /\ UNCHANGED <<storage, cache, kind, key, got, version, answered, worldVars>>

Entry(r, stamp, ttl) == [from |-> r, created |-> stamp, expires |-> stamp + ttl, ttl |-> ttl]

\* Mutant: the entry's lifetime starts when the body has been read.
Puts_LateStamp(r) == \E ttl \in Ttls : Put(key[r], Entry(r, now, ttl))

\* Mutant: the lifetime is added twice.
Puts_TwiceTtl(r) ==
    \E ttl \in Ttls : Put(key[r], [Entry(r, answered[r], ttl) EXCEPT !.expires = @ + ttl])

\* The entry, stamped with the time set() was called, is put into the storage. It lasts
\* for the ttl of the call, or of the cache.
Puts(r) == \E ttl \in Ttls : Put(key[r], Entry(r, answered[r], ttl))

\* The body has been read (or could not be, or had been before): the entry is stored.
Store(r) ==
    /\ pc[r] = "reading"
    /\ Puts(r)
    /\ pc' = [pc EXCEPT ![r] = "stored"]
    /\ due' = Append(due, r)
    /\ UNCHANGED <<storage, pending, kind, key, got, version, answered, worldVars>>

\* A remote storage may fail the store, or store the entry and its acknowledgement be
\* lost: the caller gets the error, not the answer.
StoreFails(r) ==
    /\ storage = "remote"
    /\ pc[r] = "reading"
    /\ UNCHANGED cache \/ Puts(r)
    /\ pc' = [pc EXCEPT ![r] = "done"]
    /\ Release(r)
    /\ UNCHANGED <<storage, due, kind, key, got, version, answered, worldVars>>

-----------------------------------------------------------------------------
(* Others *)

\* invalidate, invalidatePattern, clear, close; and what a remote storage loses or lets
\* expire by itself.
Remove(ks) ==
    /\ cache' = [k \in Keys |-> IF k \in ks THEN None ELSE cache[k]]
    /\ UNCHANGED <<storage, pending, due, requestVars, worldVars>>

\* The cleanup timer.
Cleanup ==
    /\ storage = "memory"
    /\ Quiet
    /\ cache' = [k \in Keys |-> IF Live(k) THEN cache[k] ELSE None]
    /\ UNCHANGED <<storage, pending, due, requestVars, worldVars>>

Tick ==
    /\ now < MaxTime
    /\ now' = now + 1
    /\ UNCHANGED <<cacheVars, requestVars, origin, latest, mixed>>

OriginChanges ==
    /\ origin < MaxVersion
    /\ origin' = origin + 1
    /\ UNCHANGED <<cacheVars, requestVars, now, latest, mixed>>

Continue(i) == Return(i) \/ Fetch(i) \/ Join(i) \/ Finish(i)

Network(r) ==
    \/ \E v \in 0..MaxVersion : Answer(r, v)
    \/ AnswerFails(r)
    \/ Store(r)
    \/ StoreFails(r)

Next ==
    \/ \E r \in Requests :
        \/ Refresh(r)
        \/ \E how \in {"shared", "plain"} : Look(r, how) \/ LookFails(r, how)
        \/ Network(r)
    \/ \E i \in 1..Len(due) : Continue(i)
    \/ \E ks \in SUBSET Keys : Remove(ks)
    \/ Cleanup
    \/ Tick
    \/ OriginChanges

Spec == Init /\ [][Next]_vars

-----------------------------------------------------------------------------
(* Properties *)

Stages == {"idle", "hit", "missed", "joined", "told", "flying", "reading", "stored", "done"}

Expiries == {time + ttl : time \in 0..MaxTime, ttl \in Ttls}

Entries == [from: Requests, created: 0..MaxTime, expires: Expiries, ttl: Ttls]

TypeOK ==
    /\ storage \in Storages
    /\ cache \in [Keys -> Entries \cup {None}]
    /\ pending \in [Keys -> Requests \cup {None}]
    /\ due \in Seq(Requests)
    /\ pc \in [Requests -> Stages]
    /\ kind \in [Requests -> Kinds]
    /\ key \in [Requests -> Keys]
    /\ got \in [Requests -> Requests \cup {None}]
    /\ version \in [Requests -> 0..MaxVersion]
    /\ answered \in [Requests -> 0..MaxTime]
    /\ now \in 0..MaxTime
    /\ origin \in 0..MaxVersion
    /\ latest \in [Keys -> 0..MaxVersion]
    /\ mixed \subseteq Keys

\* The memory storage never grows beyond maxEntries (and one entry, if that is 0) but
\* where an eviction is due and the entry of the empty key is the oldest.
CapacityHeld ==
    [][storage = "memory" /\ Cardinality(Held') > Cardinality(Held)
        => Cardinality(Held') <= MaxEntries \/ Held = {} \/ EmptyKey \in Oldest]_vars

Fetching(r) == kind[r] = "shared" /\ pc[r] \in {"flying", "reading", "stored"}

\* "Prevents multiple identical requests from hitting the origin": the fetches of
\* getOrFetch that are going on are exactly those in _pending, so there is one per
\* key, and no entry outlives its fetch, however it ends.
OneFetchPerKey ==
    /\ \A r \in Requests : Fetching(r) => pending[key[r]] = r
    /\ \A k \in Keys : pending[k] # None => Fetching(pending[k]) /\ key[pending[k]] = k

\* Over the memory storage getOrFetch asks the origin for nothing that another
\* getOrFetch has stored and that has not expired: the entry of _pending lasts until
\* every caller that missed the cache before the answer was stored has joined it.
NoNeedlessFetch ==
    [][storage = "memory" =>
        \A r \in Requests :
            /\ pc[r] = "missed"
            /\ pc'[r] = "flying"
            /\ kind[r] = "shared"
            => ~(Live(key[r]) /\ kind[cache[key[r]].from] = "shared")]_vars

\* Over the memory storage a hit is not older than the ttl its answer was stored with,
\* however long it took to read and store the body: staleWhileRevalidate, which promises
\* stale hits within a grace period, is read by nobody. Another storage serves what it
\* likes: nobody compares expiresAt with the time.
HitsAreFresh ==
    [][storage = "memory" =>
        \A r \in Requests :
            pc[r] = "idle" /\ pc'[r] = "hit"
            => now - answered[got'[r]] <= cache[key[r]].ttl]_vars

\* Over the memory storage, what callers get for a key never goes back to an older
\* version, unless a wrapper's fetch of the key, which nothing deduplicates, overlapped
\* another.
NeverBack ==
    [][storage = "memory" =>
        \A r \in Requests :
            /\ pc[r] \in {"hit", "told", "stored"}
            /\ pc'[r] = "done"
            /\ key[r] \notin mixed
            => version[got[r]] >= latest[key[r]]]_vars

\* A request that waits for another's answer waits for a fetch that is going on: it
\* is told when that fetch settles, whatever happens to _pending and to the entry.
NobodyStranded ==
    \A r \in Requests : pc[r] = "joined" =>
        pc[got[r]] = "flying" /\ Fetching(got[r]) /\ key[got[r]] = key[r]

\* getOrFetch keeps the promise of SingleFlight: the fetch in _pending holds its key and
\* a wrapper's fetch holds none; who asks for a held key waits for that very fetch, and
\* is told when it settles, before the key is let go, whatever happens to the entry.
Flights == INSTANCE SingleFlight WITH
    Callers <- Requests,
    fetcher <- pending,
    awaits <- [r \in Requests |-> IF pc[r] = "joined" THEN got[r] ELSE None],
    settled <- {r \in Requests : Fetching(r) /\ pc[r] # "flying"}

KeepsFlights == Flights!Spec

=============================================================================
