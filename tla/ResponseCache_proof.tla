------------------------ MODULE ResponseCache_proof ------------------------
(***************************************************************************)
(* Proofs about ResponseCache, for any requests and keys, any capacity and *)
(* lifetime and either storage.                                            *)
(***************************************************************************)
EXTENDS ResponseCache, FiniteSetTheorems, FunctionTheorems, SequenceTheorems, TLAPS

LEMMA ConstantTypes ==
    /\ MaxEntries \in Nat /\ Ttls \subseteq Nat /\ MaxTime \in Nat /\ MaxVersion \in Nat
    /\ IsFiniteSet(Requests) /\ IsFiniteSet(Keys)
BY CacheAssumption

-----------------------------------------------------------------------------
(* Types *)

\* Without(i) is due without its ith element.
LEMMA WithoutProperties ==
    ASSUME due \in Seq(Requests), NEW i \in 1..Len(due)
    PROVE  /\ Without(i) \in Seq(Requests)
           /\ Len(Without(i)) = Len(due) - 1
           /\ \A j \in 1..(Len(due) - 1) :
                Without(i)[j] = IF j < i THEN due[j] ELSE due[j + 1]
           /\ due[i] \in Requests
<1>1. Len(due) - 1 \in Nat /\ \A j \in 1..Len(due) : due[j] \in Requests
  BY LenProperties, ElementOfSeq
<1>2. Without(i) \in [1..(Len(due) - 1) -> Requests]
  BY <1>1 DEF Without
<1>3. Without(i) \in Seq(Requests)
  BY <1>1, <1>2, IsASeq
<1>4. DOMAIN Without(i) = 1..(Len(due) - 1) /\ DOMAIN Without(i) = 1..Len(Without(i))
  BY <1>2, <1>3, LenProperties
<1>5. Len(Without(i)) = Len(due) - 1
  BY <1>1, <1>3, <1>4, LenProperties
<1> QED
  BY <1>1, <1>3, <1>5 DEF Without

LEMMA SettlesType ==
    ASSUME TypeOK, NEW r \in Requests, NEW next, NEW outcome, Settles(r, next, outcome)
    PROVE  due' \in Seq(Requests)
<1>1. IsFiniteSet(Joined(r)) /\ Joined(r) \subseteq Requests
  BY ConstantTypes, FS_Subset DEF Joined
<1>2. Cardinality(Joined(r)) \in Nat
  BY <1>1, FS_CardinalityType
<1>3. PICK order \in [1..Cardinality(Joined(r)) -> Joined(r)] :
        due' = IF outcome = "told" THEN due \o order ELSE due
  BY DEF Settles
<1>4. order \in [1..Cardinality(Joined(r)) -> Requests]
  BY <1>1, <1>3
<1>5. order \in Seq(Requests)
  BY <1>2, <1>4, IsASeq
<1> QED
  BY <1>3, <1>5, ConcatProperties DEF TypeOK

LEMMA EntryTypes ==
    ASSUME NEW entry \in Entries
    PROVE  entry.from \in Requests /\ entry.expires \in Nat /\ entry.ttl \in Nat
<1>1. /\ entry.from \in Requests /\ entry.ttl \in Ttls
      /\ entry.expires \in {time + ttl : time \in 0..MaxTime, ttl \in Ttls}
  BY DEF Entries, Expiries
<1>2. PICK time \in 0..MaxTime, ttl \in Ttls : entry.expires = time + ttl
  BY <1>1
<1>3. entry.from \in Requests /\ entry.ttl \in Ttls
  BY <1>1
<1>4. \A t \in Ttls : t \in Nat
  BY ConstantTypes
<1>5. time \in Nat
  BY ConstantTypes
<1> QED
  BY <1>2, <1>3, <1>4, <1>5

LEMMA PutType ==
    ASSUME cache \in [Keys -> Entries \cup {None}], NEW k \in Keys, NEW entry \in Entries,
           Put(k, entry)
    PROVE  /\ cache' \in [Keys -> Entries \cup {None}]
           /\ cache'[k] = entry
           /\ \A h \in Keys \ {k} : cache'[h] \in {cache[h], None}
<1>1. PICK gone \in SUBSET Keys : cache' = CacheWith(k, entry, gone)
  BY DEF Put, Evicts, Oldest, Held
<1> QED
  BY <1>1 DEF CacheWith

\* What is stored expires the ttl it was stored with after the answer came.
LEMMA PutsEntry ==
    ASSUME TypeOK, NEW r \in Requests, Puts(r)
    PROVE  /\ key[r] \in Keys
           /\ \E entry \in Entries : /\ entry.from = r
                                    /\ entry.expires = answered[r] + entry.ttl
                                    /\ Put(key[r], entry)
<1>1. key[r] \in Keys /\ answered[r] \in 0..MaxTime
  BY DEF TypeOK
<1>2. PICK ttl \in Ttls : Put(key[r], Entry(r, answered[r], ttl))
  BY DEF Puts
<1>3. Entry(r, answered[r], ttl) \in Entries
  BY <1>1, <1>2, ConstantTypes DEF Entry, Entries, Expiries
<1>4. /\ Entry(r, answered[r], ttl).from = r
      /\ Entry(r, answered[r], ttl).expires = answered[r] + Entry(r, answered[r], ttl).ttl
  BY DEF Entry
<1> QED
  BY <1>1, <1>2, <1>3, <1>4

LEMMA PutsType ==
    ASSUME TypeOK, NEW r \in Requests, Puts(r)
    PROVE  cache' \in [Keys -> Entries \cup {None}]
<1>1. cache \in [Keys -> Entries \cup {None}]
  BY DEF TypeOK
<1> QED
  BY <1>1, PutsEntry, PutType

\* A request that will return another's answer, or its own, knows whose.
KnowsAnswer == \A r \in Requests : pc[r] \in {"hit", "joined", "told"} => got[r] \in Requests

TypeInv == TypeOK /\ KnowsAnswer

LEMMA TypeInit == Init => TypeInv
BY ConstantTypes, EmptySeq DEF Init, Stages, TypeInv, TypeOK, Stages, KnowsAnswer, Kinds

LEMMA ContinueType ==
    ASSUME TypeInv, NEW i \in 1..Len(due), Continue(i)
    PROVE  TypeInv'
<1> USE DEF TypeInv, KnowsAnswer, Stages
<1>1. Without(i) \in Seq(Requests) /\ due[i] \in Requests
  BY WithoutProperties DEF TypeOK
<1>2. key[due[i]] \in Keys /\ pending[key[due[i]]] \in Requests \cup {None}
  BY <1>1 DEF TypeOK
<1>3. CASE Return(i)
  <2>1. version[got[due[i]]] \in 0..MaxVersion
    BY <1>1, <1>3 DEF TypeOK, Return
  <2> QED
    BY <1>1, <1>2, <1>3, <2>1 DEF Return, Returned, TypeOK
<1>4. CASE Fetch(i)
  BY <1>1, <1>2, <1>4 DEF Fetch, Send, TypeOK
<1>5. CASE Join(i)
  <2>1. Append(Without(i), due[i]) \in Seq(Requests)
    BY <1>1, AppendProperties
  <2> QED
    BY <1>1, <1>2, <1>5, <2>1 DEF Join, TypeOK, worldVars
<1>6. CASE Finish(i)
  BY <1>1, <1>2, <1>6 DEF Finish, Release, Returned, TypeOK
<1> QED
  BY <1>3, <1>4, <1>5, <1>6 DEF Continue

LEMMA NetworkType ==
    ASSUME TypeInv, NEW r \in Requests, Network(r)
    PROVE  TypeInv'
<1> USE DEF TypeInv, KnowsAnswer, Stages
<1>1. ASSUME NEW v \in 0..MaxVersion, Answer(r, v) PROVE TypeInv'
  <2>1. due' \in Seq(Requests)
    BY <1>1, SettlesType DEF Answer
  <2> QED
    BY <1>1, <2>1 DEF Answer, Settles, Joined, TypeOK, worldVars
<1>2. CASE AnswerFails(r)
  <2>1. due' \in Seq(Requests)
    BY <1>2, SettlesType DEF AnswerFails
  <2> QED
    BY <1>2, <2>1 DEF AnswerFails, Settles, Joined, Release, TypeOK, worldVars
<1>3. CASE Store(r)
  <2>1. cache' \in [Keys -> Entries \cup {None}]
    BY <1>3, PutsType DEF Store
  <2>2. due' \in Seq(Requests)
    BY <1>3, AppendProperties DEF Store, TypeOK
  <2> QED
    BY <1>3, <2>1, <2>2 DEF Store, TypeOK, worldVars
<1>4. CASE StoreFails(r)
  <2>1. cache' \in [Keys -> Entries \cup {None}]
    BY <1>4, PutsType DEF StoreFails, TypeOK
  <2> QED
    BY <1>4, <2>1 DEF StoreFails, Release, TypeOK, worldVars
<1> QED
  BY <1>1, <1>2, <1>3, <1>4 DEF Network

LEMMA LookType ==
    ASSUME TypeInv, NEW r \in Requests, NEW how \in {"shared", "plain"}, Look(r, how)
    PROVE  TypeInv'
<1>1. due' \in Seq(Requests)
  BY AppendProperties DEF Look, TypeInv, TypeOK
<1>2. key[r] \in Keys /\ (Found(key[r]) => cache[key[r]].from \in Requests)
  BY DEF TypeInv, TypeOK, Found, Entries
<1>3. CASE Found(key[r])
  BY <1>1, <1>2, <1>3 DEF Look, TypeInv, TypeOK, Stages, KnowsAnswer, Kinds, worldVars
<1>4. CASE ~Found(key[r])
  BY <1>1, <1>2, <1>4 DEF Look, TypeInv, TypeOK, Stages, KnowsAnswer, Kinds, worldVars
<1> QED
  BY <1>3, <1>4

LEMMA TypeStep == TypeInv /\ [Next]_vars => TypeInv'
<1> SUFFICES ASSUME TypeInv, [Next]_vars PROVE TypeInv'
  OBVIOUS
<1>1. ASSUME NEW r \in Requests, Refresh(r) PROVE TypeInv'
  BY <1>1 DEF Refresh, Send, TypeInv, TypeOK, Stages, KnowsAnswer, Kinds, cacheVars
<1>2. ASSUME NEW r \in Requests, NEW how \in {"shared", "plain"}, LookFails(r, how)
      PROVE TypeInv'
  BY <1>2 DEF LookFails, TypeInv, TypeOK, Stages, KnowsAnswer, Kinds, cacheVars, worldVars
<1>3. ASSUME NEW ks \in SUBSET Keys, Remove(ks) PROVE TypeInv'
  BY <1>3 DEF Remove, TypeInv, TypeOK, KnowsAnswer, requestVars, worldVars
<1>4. CASE Cleanup
  BY <1>4 DEF Cleanup, TypeInv, TypeOK, KnowsAnswer, requestVars, worldVars
<1>5. CASE Tick
  BY <1>5, ConstantTypes DEF Tick, TypeInv, TypeOK, KnowsAnswer, requestVars, cacheVars
<1>6. CASE OriginChanges
  BY <1>6, ConstantTypes
  DEF OriginChanges, TypeInv, TypeOK, KnowsAnswer, requestVars, cacheVars
<1>7. CASE UNCHANGED vars
  BY <1>7 DEF vars, TypeInv, TypeOK, KnowsAnswer, requestVars, cacheVars, worldVars
<1> QED
  BY <1>1, <1>2, <1>3, <1>4, <1>5, <1>6, <1>7, ContinueType, NetworkType, LookType DEF Next

\* Whatever the requests do, the cache stays well-formed.
THEOREM TypeCorrect == Spec => []TypeOK
BY TypeInit, TypeStep, PTL DEF Spec, TypeInv

-----------------------------------------------------------------------------
(* One fetch per key *)

FetchInv == OneFetchPerKey /\ NobodyStranded

LEMMA FetchInit == Init => FetchInv
BY DEF Init, FetchInv, OneFetchPerKey, NobodyStranded, Fetching

\* The part of the type invariant that matters for fetches.
FetchTypes ==
    /\ None \notin Requests
    /\ pending \in [Keys -> Requests \cup {None}]
    /\ pc \in [Requests -> Stages]
    /\ kind \in [Requests -> Kinds]
    /\ key \in [Requests -> Keys]
    /\ got \in [Requests -> Requests \cup {None}]
    /\ KnowsAnswer

LEMMA RequestTypes == TypeInv => FetchTypes
BY CacheAssumption DEF TypeInv, TypeOK, FetchTypes

LEMMA ContinueFetch ==
    ASSUME TypeInv, FetchInv, NEW i \in 1..Len(due), Continue(i)
    PROVE  FetchInv'
<1> DEFINE r == due[i]
<1>0. r \in Requests
  BY WithoutProperties DEF TypeInv, TypeOK
<1>T. FetchTypes
  BY RequestTypes
<1> USE DEF FetchInv, FetchTypes, Fetching, Stages
<1>1. CASE Return(i)
  BY <1>T, <1>0, <1>1 DEF Return, OneFetchPerKey, NobodyStranded, KnowsAnswer
<1>2. CASE Fetch(i)
  <2>1. /\ pc[r] = "missed" /\ kind' = kind /\ key' = key
        /\ pc' = [pc EXCEPT ![r] = "flying"] /\ got' = [got EXCEPT ![r] = r]
        /\ kind[r] = "shared" => pending[key[r]] = None
        /\ pending' = IF kind[r] = "shared" THEN [pending EXCEPT ![key[r]] = r] ELSE pending
    BY <1>T, <1>2 DEF Fetch, Send
  <2> HIDE DEF r
  <2>2. ASSUME NEW q \in Requests, Fetching(q)' PROVE (pending[key[q]] = q)'
    <3>1. CASE q = r
      BY <1>T, <1>0, <2>1, <2>2, <3>1
    <3>2. CASE q # r
      <4>1. Fetching(q) /\ pending[key[q]] = q
        BY <1>T, <1>0, <2>1, <2>2, <3>2 DEF OneFetchPerKey
      <4> QED
        BY <1>T, <1>0, <2>1, <3>2, <4>1, CacheAssumption
    <3> QED
      BY <3>1, <3>2
  <2>3. ASSUME NEW k \in Keys, pending'[k] # None
        PROVE  (Fetching(pending[k]) /\ key[pending[k]] = k)'
    <3>1. CASE pending'[k] = pending[k]
      <4>1. Fetching(pending[k]) /\ key[pending[k]] = k /\ pending[k] \in Requests \ {r}
        BY <1>T, <1>0, <2>1, <2>3, <3>1 DEF OneFetchPerKey
      <4> QED
        BY <1>T, <1>0, <2>1, <3>1, <4>1
    <3>2. CASE pending'[k] # pending[k]
      BY <1>T, <1>0, <2>1, <3>2
    <3> QED
      BY <3>1, <3>2
  <2>4. NobodyStranded'
    BY <1>T, <1>0, <2>1 DEF NobodyStranded, KnowsAnswer
  <2> QED
    BY <1>T, <2>2, <2>3, <2>4 DEF OneFetchPerKey
<1>3. CASE Join(i)
  <2> DEFINE owner == pending[key[r]]
  <2>1. /\ pc[r] = "missed" /\ kind' = kind /\ key' = key /\ pending' = pending
        /\ got' = [got EXCEPT ![r] = owner]
        /\ pc' = [pc EXCEPT ![r] = IF pc[owner] = "flying" THEN "joined" ELSE "told"]
        /\ owner # None
    BY <1>T, <1>3 DEF Join
  <2> HIDE DEF r
  <2>2. Fetching(owner) /\ key[owner] = key[r] /\ owner # r
    BY <1>T, <1>0, <2>1 DEF OneFetchPerKey
  <2>3. OneFetchPerKey'
    BY <1>T, <1>0, <2>1 DEF OneFetchPerKey
  <2>4. NobodyStranded'
    <3>1. \A q \in Requests \ {r} : pc'[q] = pc[q] /\ got'[q] = got[q]
      BY <1>T, <1>0, <2>1
    <3>2. got'[r] = owner /\ owner \in Requests /\ (pc'[r] = "joined" => pc[owner] = "flying")
      BY <1>T, <1>0, <2>1
    <3> HIDE DEF owner
    <3> QED
      BY <1>T, <1>0, <2>1, <2>2, <3>1, <3>2 DEF NobodyStranded, KnowsAnswer
  <2> QED
    BY <2>3, <2>4
<1>4. CASE Finish(i)
  <2>1. OneFetchPerKey'
    BY <1>T, <1>0, <1>4 DEF Finish, Release, OneFetchPerKey
  <2>2. NobodyStranded'
    BY <1>T, <1>0, <1>4 DEF Finish, NobodyStranded, KnowsAnswer
  <2> QED
    BY <2>1, <2>2
<1> QED
  BY <1>T, <1>1, <1>2, <1>3, <1>4 DEF Continue

LEMMA NetworkFetch ==
    ASSUME TypeInv, FetchInv, NEW r \in Requests, Network(r)
    PROVE  FetchInv'
<1>T. FetchTypes
  BY RequestTypes
<1> USE DEF FetchInv, FetchTypes, Fetching, Stages
<1>1. ASSUME NEW v \in 0..MaxVersion, Answer(r, v) PROVE FetchInv'
  <2>1. OneFetchPerKey'
    BY <1>T, <1>1 DEF Answer, Settles, Joined, OneFetchPerKey
  <2>2. NobodyStranded'
    BY <1>T, <1>1 DEF Answer, Settles, Joined, NobodyStranded, KnowsAnswer
  <2> QED
    BY <2>1, <2>2
<1>2. CASE AnswerFails(r)
  <2>1. OneFetchPerKey'
    BY <1>T, <1>2 DEF AnswerFails, Settles, Joined, Release, OneFetchPerKey
  <2>2. NobodyStranded'
    BY <1>T, <1>2 DEF AnswerFails, Settles, Joined, NobodyStranded, KnowsAnswer
  <2> QED
    BY <2>1, <2>2
<1>3. CASE Store(r)
  BY <1>T, <1>3 DEF Store, OneFetchPerKey, NobodyStranded, KnowsAnswer
<1>4. CASE StoreFails(r)
  BY <1>T, <1>4 DEF StoreFails, Release, OneFetchPerKey, NobodyStranded, KnowsAnswer
<1> QED
  BY <1>T, <1>1, <1>2, <1>3, <1>4 DEF Network

LEMMA FetchStep == TypeInv /\ FetchInv /\ [Next]_vars => FetchInv'
<1> SUFFICES ASSUME TypeInv, FetchInv, [Next]_vars PROVE FetchInv'
  OBVIOUS
<1>T. FetchTypes
  BY RequestTypes
<1> USE DEF FetchInv, FetchTypes, Fetching, Stages
<1>1. ASSUME NEW r \in Requests, Refresh(r) PROVE FetchInv'
  BY <1>T, <1>1 DEF Refresh, Send, cacheVars, OneFetchPerKey, NobodyStranded, KnowsAnswer
<1>2. ASSUME NEW r \in Requests, NEW how \in {"shared", "plain"},
             Look(r, how) \/ LookFails(r, how)
      PROVE FetchInv'
  <2>1. /\ pc[r] = "idle" /\ key' = key /\ pending' = pending
        /\ \A q \in Requests \ {r} :
              pc'[q] = pc[q] /\ kind'[q] = kind[q] /\ got'[q] = got[q]
        /\ pc'[r] \in {"hit", "missed", "done"}
    BY <1>T, <1>2 DEF Look, LookFails, cacheVars
  <2>2. OneFetchPerKey'
    BY <1>T, <2>1 DEF OneFetchPerKey
  <2>3. NobodyStranded'
    BY <1>T, <2>1 DEF NobodyStranded, KnowsAnswer
  <2> QED
    BY <2>2, <2>3
<1>3. ASSUME UNCHANGED <<pending, requestVars>> PROVE FetchInv'
  BY <1>T, <1>3 DEF requestVars, OneFetchPerKey, NobodyStranded, KnowsAnswer
<1>4. ASSUME NEW ks \in SUBSET Keys, Remove(ks) PROVE FetchInv'
  BY <1>T, <1>3, <1>4 DEF Remove
<1>5. CASE Cleanup \/ Tick \/ OriginChanges \/ UNCHANGED vars
  BY <1>T, <1>3, <1>5 DEF Cleanup, Tick, OriginChanges, vars, cacheVars
<1> QED
  BY <1>1, <1>2, <1>4, <1>5, ContinueFetch, NetworkFetch DEF Next

\* getOrFetch has one fetch per key going on, the one in _pending, whatever the storage
\* and however its fetches, lookups and stores end.
THEOREM Deduplicates == Spec => []OneFetchPerKey
BY TypeInit, TypeStep, FetchInit, FetchStep, PTL DEF Spec, FetchInv

\* Whoever waits for another request's answer waits for a fetch that is still going on.
THEOREM WaitersAreServed == Spec => []NobodyStranded
BY TypeInit, TypeStep, FetchInit, FetchStep, PTL DEF Spec, FetchInv

-----------------------------------------------------------------------------
(* The fetches of getOrFetch are those of SingleFlight *)

Awaits == [r \in Requests |-> IF pc[r] = "joined" THEN got[r] ELSE None]

Stored == {r \in Requests : Fetching(r) /\ pc[r] # "flying"}

LEMMA FlightsInit == Init => Flights!Init
BY DEF Init, Flights!Init, Fetching

\* A step that moves nobody in or out of a wait or a fetch is invisible.
LEMMA FlightsSame ==
    ASSUME key' = key, pending' = pending, Awaits' = Awaits, Stored' = Stored
    PROVE  UNCHANGED Flights!vars
BY DEF Flights!vars, Awaits, Stored

LEMMA OthersStay ==
    ASSUME NEW r \in Requests,
           pc[r] \notin {"joined", "flying", "reading", "stored"},
           pc'[r] \notin {"joined", "reading", "stored"},
           \A q \in Requests \ {r} : pc'[q] = pc[q] /\ kind'[q] = kind[q] /\ got'[q] = got[q]
    PROVE  Awaits' = Awaits /\ Stored' = Stored
<1>1. Awaits' = Awaits
  <2>1. \A q \in Requests : (IF pc'[q] = "joined" THEN got'[q] ELSE None)
                            = (IF pc[q] = "joined" THEN got[q] ELSE None)
    OBVIOUS
  <2> QED
    BY <2>1 DEF Awaits
<1>2. \A q \in Requests : q \in Stored' <=> q \in Stored
  BY DEF Stored, Fetching
<1> QED
  BY <1>1, <1>2 DEF Stored

\* A request that stops holding its key: nobody waits for it any more.
LEMMA Released ==
    ASSUME FetchTypes, FetchInv, NEW r \in Requests, pc[r] \in {"reading", "stored"}, Release(r),
           pc' = [pc EXCEPT ![r] = "done"], UNCHANGED <<key, kind, got>>
    PROVE  [Flights!Next]_Flights!vars
<1> USE DEF FetchTypes
<1>1. Awaits' = Awaits
  BY DEF Awaits
<1>2. CASE kind[r] = "shared"
  <2>1. r \in Stored
    BY <1>2 DEF Stored, Fetching
  <2>2. \A q \in Requests : q \in Stored' <=> q \in Stored \ {r}
    BY DEF Stored, Fetching
  <2>3. Stored' = Stored \ {r}
    BY <2>2 DEF Stored
  <2>4. pending' = [pending EXCEPT ![key[r]] = None]
    BY <1>2 DEF Release
  <2>5. Flights!Release(r)
    BY <1>1, <2>1, <2>3, <2>4 DEF Flights!Release, Awaits, Stored
  <2> QED
    BY <2>5 DEF Flights!Next
<1>3. CASE kind[r] # "shared"
  <2>1. \A q \in Requests : q \in Stored' <=> q \in Stored
    BY <1>3 DEF Stored, Fetching
  <2>2. Stored' = Stored
    BY <2>1 DEF Stored
  <2> QED
    BY <1>1, <1>3, <2>2, FlightsSame DEF Release
<1> QED
  BY <1>2, <1>3

\* When a fetch settles, those who wait for it, and nobody else, wait no longer.
LEMMA SettledAwaits ==
    ASSUME FetchTypes, FetchInv, NEW r \in Requests, pc[r] = "flying", got' = got,
           NEW next \in {"reading", "done"}, NEW outcome \in {"told", "done"},
           Settles(r, next, outcome)
    PROVE  /\ Awaits' = [w \in Requests |-> IF Awaits[w] = r THEN None ELSE Awaits[w]]
           /\ kind[r] # "shared" => Awaits' = Awaits
           /\ \A q \in Requests : pc'[q] = IF q = r THEN next
                                           ELSE IF q \in Joined(r) THEN outcome ELSE pc[q]
<1> USE DEF FetchTypes
<1>1. \A q \in Requests : pc'[q] = IF q = r THEN next
                                   ELSE IF q \in Joined(r) THEN outcome ELSE pc[q]
  BY DEF Settles
<1>2. \A q \in Requests : q \in Joined(r) <=> pc[q] = "joined" /\ got[q] = r
  BY DEF Joined
<1>3. \A w \in Requests : Awaits[w] = IF pc[w] = "joined" THEN got[w] ELSE None
  BY DEF Awaits
<1>4. \A w \in Requests : (IF pc'[w] = "joined" THEN got'[w] ELSE None)
                          = (IF Awaits[w] = r THEN None ELSE Awaits[w])
  <2> TAKE w \in Requests
  <2>1. CASE w \in Joined(r)
    <3>1. pc'[w] # "joined" /\ Awaits[w] = r
      BY <1>1, <1>2, <1>3, <2>1
    <3> QED
      BY <3>1
  <2>2. CASE w = r
    <3>1. pc'[w] # "joined" /\ Awaits[w] = None
      BY <1>1, <1>3, <2>2
    <3> QED
      BY <3>1
  <2>3. CASE w # r /\ w \notin Joined(r)
    <3>1. pc'[w] = pc[w] /\ Awaits[w] # r
      BY <1>1, <1>2, <1>3, <2>3
    <3> QED
      BY <1>3, <3>1
  <2> QED
    BY <2>1, <2>2, <2>3
<1>5. Awaits' = [w \in Requests |-> IF Awaits[w] = r THEN None ELSE Awaits[w]]
  BY <1>4 DEF Awaits
<1>6. ASSUME kind[r] # "shared" PROVE Awaits' = Awaits
  <2>1. \A w \in Requests : Awaits[w] # r
    BY <1>3, <1>6 DEF FetchInv, NobodyStranded, Fetching
  <2>2. [w \in Requests |-> IF Awaits[w] = r THEN None ELSE Awaits[w]]
        = [w \in Requests |-> Awaits[w]]
    BY <2>1
  <2> QED
    BY <1>5, <2>2 DEF Awaits
<1> QED
  BY <1>1, <1>5, <1>6

LEMMA ContinueFlights ==
    ASSUME TypeInv, FetchInv, NEW i \in 1..Len(due), Continue(i)
    PROVE  [Flights!Next]_Flights!vars
<1> DEFINE r == due[i]
<1>0. r \in Requests
  BY WithoutProperties DEF TypeInv, TypeOK
<1>T. FetchTypes
  BY RequestTypes
<1> USE DEF FetchTypes
<1> HIDE DEF r
<1>1. CASE Return(i)
  <2>1. /\ pc[r] \in {"hit", "told"} /\ pc' = [pc EXCEPT ![r] = "done"]
        /\ UNCHANGED <<key, pending, kind, got>>
    BY <1>1 DEF Return, r
  <2>2. Awaits' = Awaits /\ Stored' = Stored
    BY <1>T, <1>0, <2>1, OthersStay
  <2> QED
    BY <2>1, <2>2, FlightsSame
<1>2. CASE Fetch(i)
  <2>1. /\ pc[r] = "missed" /\ UNCHANGED <<kind, key>>
        /\ pc' = [pc EXCEPT ![r] = "flying"] /\ got' = [got EXCEPT ![r] = r]
        /\ kind[r] = "shared" => pending[key[r]] = None
        /\ pending' = IF kind[r] = "shared" THEN [pending EXCEPT ![key[r]] = r] ELSE pending
    BY <1>2 DEF Fetch, Send, r
  <2>2. Awaits' = Awaits /\ Stored' = Stored
    BY <1>T, <1>0, <2>1, OthersStay
  <2>3. CASE kind[r] = "shared"
    <3>1. Awaits[r] = None
      BY <1>0, <2>1 DEF Awaits
    <3>2. Flights!Start(r)
      BY <2>1, <2>2, <2>3, <3>1 DEF Flights!Start, Awaits, Stored
    <3> QED
      BY <1>0, <3>2 DEF Flights!Next
  <2>4. CASE kind[r] # "shared"
    BY <2>1, <2>2, <2>4, FlightsSame
  <2> QED
    BY <2>3, <2>4
<1>3. CASE Join(i)
  <2> DEFINE owner == pending[key[r]]
  <2>1. /\ pc[r] = "missed" /\ UNCHANGED <<kind, key, pending>> /\ owner # None
        /\ got' = [got EXCEPT ![r] = owner]
        /\ pc' = [pc EXCEPT ![r] = IF pc[owner] = "flying" THEN "joined" ELSE "told"]
    BY <1>3 DEF Join, r
  <2>2. owner \in Requests /\ Fetching(owner)
    BY <1>T, <1>0, <2>1 DEF FetchInv, OneFetchPerKey
  <2>3. owner # r
    BY <2>1, <2>2 DEF Fetching
  <2> HIDE DEF owner
  <2>4. CASE pc[owner] = "flying"
    <3>1. Stored' = Stored /\ owner \notin Stored
      <4>1. \A q \in Requests : q \in Stored' <=> q \in Stored
        BY <1>T, <1>0, <2>1, <2>4 DEF Stored, Fetching
      <4> QED
        BY <2>4, <4>1 DEF Stored
    <3>2. Awaits[r] = None
      BY <1>0, <2>1 DEF Awaits
    <3>3. Awaits' = [Awaits EXCEPT ![r] = owner]
      <4>1. \A q \in Requests : (IF pc'[q] = "joined" THEN got'[q] ELSE None)
                                = IF q = r THEN owner ELSE Awaits[q]
        BY <1>T, <1>0, <2>1, <2>4 DEF Awaits
      <4>2. [Awaits EXCEPT ![r] = owner] = [q \in Requests |-> IF q = r THEN owner ELSE Awaits[q]]
        BY DEF Awaits
      <4> QED
        BY <4>1, <4>2 DEF Awaits
    <3>4. \E c \in Requests : Flights!Wait(c)
      <4>1. owner \notin {None, r} \cup Stored
        BY <2>1, <2>3, <3>1
      <4>2. key' = key /\ pending' = pending
        BY <2>1
      <4> QED
        BY <1>0, <3>1, <3>2, <3>3, <4>1, <4>2 DEF Flights!Wait, Awaits, Stored, owner
    <3> QED
      BY <3>4 DEF Flights!Next
  <2>5. CASE pc[owner] # "flying"
    <3>1. Awaits' = Awaits /\ Stored' = Stored
      BY <1>T, <1>0, <2>1, <2>5, OthersStay
    <3> QED
      BY <2>1, <3>1, FlightsSame
  <2> QED
    BY <2>4, <2>5
<1>4. CASE Finish(i)
  BY <1>T, <1>0, <1>4, Released DEF Finish, r
<1> QED
  BY <1>1, <1>2, <1>3, <1>4 DEF Continue

LEMMA NetworkFlights ==
    ASSUME TypeInv, FetchInv, NEW r \in Requests, Network(r)
    PROVE  [Flights!Next]_Flights!vars
<1>T. FetchTypes
  BY RequestTypes
<1> USE DEF FetchTypes
<1>1. ASSUME NEW v \in 0..MaxVersion, Answer(r, v) PROVE [Flights!Next]_Flights!vars
  <2>1. /\ pc[r] = "flying" /\ UNCHANGED <<key, pending, kind, got>>
        /\ Settles(r, "reading", "told")
    BY <1>1 DEF Answer
  <2>2. /\ Awaits' = [w \in Requests |-> IF Awaits[w] = r THEN None ELSE Awaits[w]]
        /\ kind[r] # "shared" => Awaits' = Awaits
        /\ \A q \in Requests : pc'[q] = IF q = r THEN "reading"
                                        ELSE IF q \in Joined(r) THEN "told" ELSE pc[q]
    BY <1>T, <2>1, SettledAwaits
  <2>3. CASE kind[r] = "shared"
    <3>1. r \notin Stored /\ pending[key[r]] = r
      BY <2>1, <2>3 DEF Stored, FetchInv, OneFetchPerKey, Fetching
    <3>2. \A q \in Requests : q \in Stored' <=> q \in Stored \cup {r}
      BY <2>1, <2>2, <2>3 DEF Stored, Fetching, Joined
    <3>3. Stored' = Stored \cup {r}
      BY <3>2 DEF Stored
    <3>4. Flights!Answered(r)
      BY <2>1, <2>2, <3>1, <3>3
      DEF Flights!Answered, Flights!Tell, Flights!Holds, Awaits, Stored
    <3> QED
      BY <3>4 DEF Flights!Next
  <2>4. CASE kind[r] # "shared"
    <3>1. \A q \in Requests : q \in Stored' <=> q \in Stored
      BY <2>1, <2>2, <2>4 DEF Stored, Fetching, Joined
    <3>2. Stored' = Stored
      BY <3>1 DEF Stored
    <3> QED
      BY <2>1, <2>2, <2>4, <3>2, FlightsSame
  <2> QED
    BY <2>3, <2>4
<1>2. CASE AnswerFails(r)
  <2>1. /\ pc[r] = "flying" /\ UNCHANGED <<key, kind, got>> /\ Release(r)
        /\ Settles(r, "done", "done")
    BY <1>2 DEF AnswerFails
  <2>2. /\ Awaits' = [w \in Requests |-> IF Awaits[w] = r THEN None ELSE Awaits[w]]
        /\ kind[r] # "shared" => Awaits' = Awaits
        /\ \A q \in Requests : pc'[q] = IF q = r THEN "done"
                                        ELSE IF q \in Joined(r) THEN "done" ELSE pc[q]
    BY <1>T, <2>1, SettledAwaits
  <2>3. Stored' = Stored
    <3>1. \A q \in Requests : q \in Stored' <=> q \in Stored
      BY <2>1, <2>2 DEF Stored, Fetching, Joined
    <3> QED
      BY <3>1 DEF Stored
  <2>4. CASE kind[r] = "shared"
    <3>1. r \notin Stored /\ pending[key[r]] = r
      BY <2>1, <2>4 DEF Stored, FetchInv, OneFetchPerKey, Fetching
    <3>2. pending' = [pending EXCEPT ![key[r]] = None]
      BY <2>1, <2>4 DEF Release
    <3>3. Flights!Failed(r)
      BY <2>1, <2>2, <2>3, <3>1, <3>2
      DEF Flights!Failed, Flights!Tell, Flights!Holds, Awaits, Stored
    <3> QED
      BY <3>3 DEF Flights!Next
  <2>5. CASE kind[r] # "shared"
    BY <2>1, <2>2, <2>3, <2>5, FlightsSame DEF Release
  <2> QED
    BY <2>4, <2>5
<1>3. CASE Store(r)
  <2>1. /\ pc[r] = "reading" /\ pc' = [pc EXCEPT ![r] = "stored"]
        /\ UNCHANGED <<key, pending, kind, got>>
    BY <1>3 DEF Store
  <2>2. Awaits' = Awaits
    BY <1>T, <2>1 DEF Awaits
  <2>3. \A q \in Requests : q \in Stored' <=> q \in Stored
    BY <1>T, <2>1 DEF Stored, Fetching
  <2>4. Stored' = Stored
    BY <2>3 DEF Stored
  <2> QED
    BY <2>1, <2>2, <2>4, FlightsSame
<1>4. CASE StoreFails(r)
  BY <1>T, <1>4, Released DEF StoreFails
<1> QED
  BY <1>1, <1>2, <1>3, <1>4 DEF Network

LEMMA FlightsStep == TypeInv /\ FetchInv /\ [Next]_vars => [Flights!Next]_Flights!vars
<1> SUFFICES ASSUME TypeInv, FetchInv, [Next]_vars PROVE [Flights!Next]_Flights!vars
  OBVIOUS
<1>T. FetchTypes
  BY RequestTypes
<1> USE DEF FetchTypes
<1>1. ASSUME NEW r \in Requests, Refresh(r) PROVE [Flights!Next]_Flights!vars
  <2>1. /\ pc[r] = "idle" /\ pc' = [pc EXCEPT ![r] = "flying"]
        /\ kind' = [kind EXCEPT ![r] = "forced"] /\ got' = [got EXCEPT ![r] = r]
        /\ key' = key /\ pending' = pending
    BY <1>1 DEF Refresh, Send, cacheVars
  <2>2. Awaits' = Awaits /\ Stored' = Stored
    BY <1>T, <2>1, OthersStay
  <2> QED
    BY <2>1, <2>2, FlightsSame
<1>2. ASSUME NEW r \in Requests, NEW how \in {"shared", "plain"},
             Look(r, how) \/ LookFails(r, how)
      PROVE [Flights!Next]_Flights!vars
  <2>1. /\ pc[r] = "idle" /\ key' = key /\ pending' = pending
        /\ \A q \in Requests \ {r} :
              pc'[q] = pc[q] /\ kind'[q] = kind[q] /\ got'[q] = got[q]
        /\ pc'[r] \in {"hit", "missed", "done"}
    BY <1>T, <1>2 DEF Look, LookFails, cacheVars
  <2>2. Awaits' = Awaits /\ Stored' = Stored
    BY <2>1, OthersStay
  <2> QED
    BY <2>1, <2>2, FlightsSame
<1>3. ASSUME UNCHANGED <<pending, requestVars>> PROVE UNCHANGED Flights!vars
  <2>1. Awaits' = Awaits /\ Stored' = Stored
    BY <1>3 DEF requestVars, Awaits, Stored, Fetching
  <2> QED
    BY <1>3, <2>1, FlightsSame DEF requestVars
<1>4. ASSUME NEW ks \in SUBSET Keys, Remove(ks) PROVE [Flights!Next]_Flights!vars
  BY <1>3, <1>4 DEF Remove
<1>5. CASE Cleanup \/ Tick \/ OriginChanges \/ UNCHANGED vars
  BY <1>3, <1>5 DEF Cleanup, Tick, OriginChanges, vars, cacheVars
<1> QED
  BY <1>1, <1>2, <1>4, <1>5, ContinueFlights, NetworkFlights DEF Next

\* getOrFetch shares fetches as SingleFlight says, among any number of requests and keys,
\* over either storage, whatever the wrappers, invalidations and failures do meanwhile.
THEOREM FlightsKept == Spec => KeepsFlights
BY TypeInit, TypeStep, FetchInit, FetchStep, FlightsInit, FlightsStep, PTL
DEF Spec, KeepsFlights, Flights!Spec

-----------------------------------------------------------------------------
(* Entries *)

\* An entry repeats an answer that has been stored under its key, and expires ttl after
\* that answer came.
EntriesAnswered ==
    \A k \in Keys : cache[k] # None =>
        /\ pc[cache[k].from] \in {"stored", "done"}
        /\ cache[k].expires = answered[cache[k].from] + cache[k].ttl
        /\ key[cache[k].from] = k

LEMMA EntriesInit == Init => EntriesAnswered
BY DEF Init, EntriesAnswered

\* A step that stores nothing and after which stored answers are as they were.
LEMMA EntriesKept ==
    ASSUME TypeInv, EntriesAnswered, UNCHANGED key,
           \A k \in Keys : cache'[k] \in {cache[k], None},
           \A q \in Requests : pc[q] \in {"stored", "done"} =>
                pc'[q] \in {"stored", "done"} /\ answered'[q] = answered[q]
    PROVE  EntriesAnswered'
<1> SUFFICES ASSUME NEW k \in Keys, cache'[k] # None
             PROVE  (/\ pc[cache[k].from] \in {"stored", "done"}
                     /\ cache[k].expires = answered[cache[k].from] + cache[k].ttl
                     /\ key[cache[k].from] = k)'
  BY DEF EntriesAnswered
<1>1. cache'[k] = cache[k] /\ cache[k] \in Entries
  BY DEF TypeInv, TypeOK
<1>2. cache[k].from \in Requests
  BY <1>1 DEF Entries
<1> QED
  BY <1>1, <1>2 DEF EntriesAnswered

LEMMA ContinueEntries ==
    ASSUME TypeInv, EntriesAnswered, NEW i \in 1..Len(due), Continue(i)
    PROVE  /\ EntriesAnswered'
           /\ \A q \in Requests : pc'[q] # "hit" \/ pc[q] = "hit"
<1> DEFINE r == due[i]
<1>1. r \in Requests /\ pc \in [Requests -> Stages]
  BY WithoutProperties DEF TypeInv, TypeOK
<1>2. /\ UNCHANGED <<key, cache, answered>>
      /\ pc[r] \in {"hit", "told", "missed", "stored"}
      /\ \E s \in {"done", "flying", "joined", "told"} : pc' = [pc EXCEPT ![r] = s]
      /\ pc[r] = "stored" => pc'[r] = "done"
  BY <1>1 DEF Continue, Return, Fetch, Send, Join, Finish, worldVars
<1> HIDE DEF r
<1>3. \A q \in Requests : pc[q] \in {"stored", "done"} => pc'[q] \in {"stored", "done"}
  BY <1>1, <1>2
<1> QED
  BY <1>1, <1>2, <1>3, EntriesKept

LEMMA NetworkEntries ==
    ASSUME TypeInv, EntriesAnswered, NEW r \in Requests, Network(r)
    PROVE  /\ EntriesAnswered'
           /\ \A q \in Requests : pc'[q] # "hit" \/ pc[q] = "hit"
<1>0. pc \in [Requests -> Stages] /\ answered \in [Requests -> 0..MaxTime]
  BY DEF TypeInv, TypeOK
<1>1. ASSUME NEW v \in 0..MaxVersion, Answer(r, v)
      PROVE  /\ EntriesAnswered'
             /\ \A q \in Requests : pc'[q] # "hit" \/ pc[q] = "hit"
  BY <1>0, <1>1, EntriesKept DEF Answer, Settles, Joined
<1>2. CASE AnswerFails(r)
  BY <1>0, <1>2, EntriesKept DEF AnswerFails, Settles, Joined
<1>3. ASSUME NEW at \in {"stored", "done"}, pc[r] = "reading", pc' = [pc EXCEPT ![r] = at],
             UNCHANGED <<key, answered>>, Puts(r)
      PROVE  EntriesAnswered'
  <2>1. PICK entry \in Entries : /\ entry.from = r /\ entry.expires = answered[r] + entry.ttl
                                /\ Put(key[r], entry)
    BY <1>3, PutsEntry DEF TypeInv
  <2>2. key[r] \in Keys
    BY DEF TypeInv, TypeOK
  <2>3. cache'[key[r]] = entry /\ \A h \in Keys \ {key[r]} : cache'[h] \in {cache[h], None}
    BY <2>1, <2>2, PutType DEF TypeInv, TypeOK
  <2>4. ASSUME NEW k \in Keys, cache'[k] # None
        PROVE  (/\ pc[cache[k].from] \in {"stored", "done"}
                /\ cache[k].expires = answered[cache[k].from] + cache[k].ttl
                /\ key[cache[k].from] = k)'
    <3>1. CASE k = key[r]
      BY <1>0, <1>3, <2>1, <2>3, <3>1
    <3>2. CASE k # key[r]
      <4>1. cache'[k] = cache[k] /\ cache[k] # None /\ cache[k] \in Entries
        BY <2>3, <2>4, <3>2 DEF TypeInv, TypeOK
      <4>2. cache[k].from \in Requests
        BY <4>1 DEF Entries
      <4> QED
        BY <1>0, <1>3, <4>1, <4>2 DEF EntriesAnswered
    <3> QED
      BY <3>1, <3>2
  <2> QED
    BY <2>4 DEF EntriesAnswered
<1>4. CASE Store(r)
  BY <1>0, <1>3, <1>4 DEF Store
<1>5. CASE StoreFails(r)
  <2>1. /\ pc[r] = "reading" /\ pc' = [pc EXCEPT ![r] = "done"] /\ UNCHANGED <<key, answered>>
        /\ UNCHANGED cache \/ Puts(r)
    BY <1>5 DEF StoreFails
  <2>2. CASE UNCHANGED cache
    BY <1>0, <2>1, <2>2, EntriesKept
  <2>3. CASE Puts(r)
    BY <1>0, <1>3, <2>1, <2>3
  <2> QED
    BY <2>1, <2>2, <2>3
<1> QED
  BY <1>1, <1>2, <1>4, <1>5 DEF Network

LEMMA EntriesStep ==
    ASSUME TypeInv, EntriesAnswered, [Next]_vars
    PROVE  /\ EntriesAnswered'
           /\ \A q \in Requests : storage = "memory" /\ pc[q] = "idle" /\ pc'[q] = "hit" =>
                now - answered[got'[q]] <= cache[key[q]].ttl
<1>0. pc \in [Requests -> Stages] /\ got \in [Requests -> Requests \cup {None}]
  BY DEF TypeInv, TypeOK
<1> DEFINE Fresh(q) == storage = "memory" /\ pc[q] = "idle" /\ pc'[q] = "hit" =>
                           now - answered[got'[q]] <= cache[key[q]].ttl
<1>1. ASSUME NEW r \in Requests, NEW how \in {"shared", "plain"}, Look(r, how)
      PROVE  EntriesAnswered' /\ \A q \in Requests : Fresh(q)
  <2>1. EntriesAnswered'
    <3>1. /\ UNCHANGED <<key, answered>> /\ pc[r] = "idle"
          /\ \A q \in Requests \ {r} : pc'[q] = pc[q]
          /\ \A k \in Keys : cache'[k] \in {cache[k], None}
      BY <1>0, <1>1 DEF Look, TypeInv, TypeOK
    <3> QED
      BY <3>1, EntriesKept
  <2>2. ASSUME Live(key[r]) PROVE now - answered[cache[key[r]].from] <= cache[key[r]].ttl
    <3>1. key[r] \in Keys /\ cache[key[r]] \in Entries /\ now \in Nat
      BY <2>2, ConstantTypes DEF Live, TypeInv, TypeOK
    <3>2. answered[cache[key[r]].from] \in Nat /\ cache[key[r]].ttl \in Nat
      BY <3>1, EntryTypes, ConstantTypes DEF TypeInv, TypeOK
    <3>3. /\ now <= cache[key[r]].expires
          /\ cache[key[r]].expires = answered[cache[key[r]].from] + cache[key[r]].ttl
      BY <2>2, <3>1 DEF Live, EntriesAnswered
    <3> QED
      BY <3>1, <3>2, <3>3
  <2>3. ASSUME NEW q \in Requests, storage = "memory", pc[q] = "idle", pc'[q] = "hit"
        PROVE  now - answered[got'[q]] <= cache[key[q]].ttl
    BY <1>0, <1>1, <2>2, <2>3 DEF Look, Found
  <2> QED
    BY <2>1, <2>3
<1>2. ASSUME NEW r \in Requests, NEW how \in {"shared", "plain"},
             Refresh(r) \/ LookFails(r, how)
      PROVE  EntriesAnswered' /\ \A q \in Requests : Fresh(q)
  BY <1>0, <1>2, EntriesKept DEF Refresh, Send, LookFails, cacheVars
<1>3. ASSUME NEW ks \in SUBSET Keys, Remove(ks)
      PROVE  EntriesAnswered' /\ \A q \in Requests : Fresh(q)
  BY <1>3, EntriesKept DEF Remove, requestVars
<1>4. CASE Cleanup
  BY <1>4, EntriesKept DEF Cleanup, requestVars
<1>5. CASE Tick \/ OriginChanges \/ UNCHANGED vars
  BY <1>5, EntriesKept DEF Tick, OriginChanges, vars, cacheVars, requestVars
<1> QED
  BY <1>1, <1>2, <1>3, <1>4, <1>5, ContinueEntries, NetworkEntries DEF Next

\* No hit of the memory storage is older than the lifetime its answer was stored with.
THEOREM FreshHits == Spec => HitsAreFresh
<1> DEFINE Fresh == storage = "memory" =>
                \A r \in Requests : pc[r] = "idle" /\ pc'[r] = "hit" =>
                    now - answered[got'[r]] <= cache[key[r]].ttl
<1>1. TypeInv /\ EntriesAnswered /\ [Next]_vars => EntriesAnswered' /\ [Fresh]_vars
  BY EntriesStep
<1> QED
  BY <1>1, TypeInit, TypeStep, EntriesInit, PTL DEF Spec, HitsAreFresh

-----------------------------------------------------------------------------
(* Capacity *)

LEMMA HeldFinite == IsFiniteSet(Held) /\ Cardinality(Held) \in Nat
<1>1. Held \subseteq Keys
  BY DEF Held
<1> QED
  BY <1>1, ConstantTypes, FS_Subset, FS_CardinalityType

LEMMA HeldFiniteNext == Cardinality(Held') \in Nat
<1>1. Held' \subseteq Keys
  BY DEF Held
<1> QED
  BY <1>1, ConstantTypes, FS_Subset, FS_CardinalityType

LEMMA StorageFixed == [Next]_vars => UNCHANGED storage
BY DEF Next, Refresh, Look, LookFails, Network, Answer, AnswerFails, Store, StoreFails, Remove,
       Cleanup, Tick, OriginChanges, Continue, Return, Fetch, Join, Finish, vars, cacheVars

\* An eviction is due before k is stored.
Full(k) == Cardinality(Held) >= MaxEntries /\ k \notin Held /\ Held # {}

LEMMA PutFull ==
    ASSUME NEW k \in Keys, NEW entry \in Entries, Put(k, entry), storage = "memory", Full(k)
    PROVE  \E e \in Oldest :
                \A h \in Keys \ {k} :
                    cache'[h] = IF h = e /\ e # EmptyKey THEN None ELSE cache[h]
<1>1. PICK e \in Oldest : cache' = CacheWith(k, entry, Evicts(e))
  BY DEF Put, Full
<1>2. \A h \in Keys \ {k} : cache'[h] = IF h = e /\ e # EmptyKey THEN None ELSE cache[h]
  BY <1>1 DEF CacheWith, Evicts
<1> QED
  BY <1>2

LEMMA PutRoom ==
    ASSUME NEW k \in Keys, NEW entry \in Entries, Put(k, entry), storage = "memory", ~Full(k)
    PROVE  \A h \in Keys \ {k} : cache'[h] = cache[h]
<1>1. Cardinality(Held) \in Nat /\ MaxEntries \in Nat
  BY HeldFinite, ConstantTypes
<1>2. cache' = CacheWith(k, entry, {})
  BY <1>1 DEF Put, Full
<1> QED
  BY <1>2 DEF CacheWith

LEMMA PutGrowth ==
    ASSUME TypeOK, NEW k \in Keys, NEW entry \in Entries, Put(k, entry), storage = "memory"
    PROVE  \/ Cardinality(Held') <= Cardinality(Held)
           \/ Cardinality(Held') <= MaxEntries
           \/ Held = {} /\ Cardinality(Held') <= 1
           \/ EmptyKey \in Oldest
<1>0. /\ IsFiniteSet(Held) /\ Cardinality(Held) \in Nat /\ MaxEntries \in Nat
      /\ Oldest \subseteq Held /\ Held \subseteq Keys
  BY HeldFinite, ConstantTypes DEF Oldest, Held
<1>1. CASE Full(k)
  <2>1. PICK e \in Oldest :
            \A h \in Keys \ {k} : cache'[h] = IF h = e /\ e # EmptyKey THEN None ELSE cache[h]
    BY <1>1, PutFull
  <2>2. CASE e = EmptyKey
    BY <2>1, <2>2
  <2>3. CASE e # EmptyKey
    <3> DEFINE rest == Held \ {e}
    <3>1. /\ IsFiniteSet(rest) /\ k \notin rest
          /\ Cardinality(rest) = Cardinality(Held) - 1
      BY <1>0, <1>1, <2>1, FS_RemoveElement DEF Full
    <3>2. Held' \subseteq rest \cup {k}
      BY <2>1, <2>3 DEF Held
    <3> HIDE DEF rest
    <3>3. IsFiniteSet(rest \cup {k}) /\ Cardinality(rest \cup {k}) = Cardinality(rest) + 1
      BY <3>1, FS_AddElement
    <3>4. Cardinality(Held') <= Cardinality(rest \cup {k})
      BY <3>2, <3>3, FS_Subset
    <3> QED
      BY <1>0, <3>1, <3>3, <3>4
  <2> QED
    BY <2>2, <2>3
<1>2. CASE ~Full(k)
  <2>1. \A h \in Keys \ {k} : cache'[h] = cache[h]
    BY <1>2, PutRoom
  <2>2. Held' \subseteq Held \cup {k}
    BY <2>1 DEF Held
  <2>3. /\ IsFiniteSet(Held \cup {k})
        /\ Cardinality(Held \cup {k})
             = IF k \in Held THEN Cardinality(Held) ELSE Cardinality(Held) + 1
    BY <1>0, FS_AddElement
  <2>4. Cardinality(Held') <= Cardinality(Held \cup {k})
    BY <2>2, <2>3, FS_Subset
  <2>5. Cardinality(Held') \in Nat
    BY HeldFiniteNext
  <2>6. Held = {} => Cardinality(Held) = 0
    BY FS_EmptySet
  <2> QED
    BY <1>0, <1>2, <2>3, <2>4, <2>5, <2>6 DEF Full
<1> QED
  BY <1>1, <1>2

\* Only storing makes the storage grow.
LEMMA Growth ==
    ASSUME TypeOK, [Next]_vars, storage = "memory"
    PROVE  \/ Cardinality(Held') <= Cardinality(Held)
           \/ Cardinality(Held') <= MaxEntries
           \/ Held = {} /\ Cardinality(Held') <= 1
           \/ EmptyKey \in Oldest
<1>1. ASSUME \A k \in Keys : cache'[k] \in {cache[k], None}
      PROVE  Cardinality(Held') <= Cardinality(Held)
  <2>1. Held' \subseteq Held
    BY <1>1 DEF Held
  <2> QED
    BY <2>1, HeldFinite, FS_Subset
<1>2. ASSUME NEW i \in 1..Len(due), Continue(i) PROVE UNCHANGED cache
  BY <1>2 DEF Continue, Return, Fetch, Join, Finish
<1>3. ASSUME NEW r \in Requests, Network(r) PROVE UNCHANGED cache \/ Puts(r)
  BY <1>3 DEF Network, Answer, AnswerFails, Store, StoreFails
<1>4. ASSUME NEW r \in Requests, NEW how \in {"shared", "plain"},
             Refresh(r) \/ Look(r, how) \/ LookFails(r, how)
      PROVE  \A k \in Keys : cache'[k] \in {cache[k], None}
  BY <1>4 DEF Refresh, Look, LookFails, cacheVars, TypeOK
<1>5. ASSUME \/ \E ks \in SUBSET Keys : Remove(ks)
             \/ Cleanup \/ Tick \/ OriginChanges \/ UNCHANGED vars
      PROVE  \A k \in Keys : cache'[k] \in {cache[k], None}
  BY <1>5 DEF Remove, Cleanup, Tick, OriginChanges, vars, cacheVars
<1>6. \/ \A k \in Keys : cache'[k] \in {cache[k], None}
      \/ \E r \in Requests : Puts(r)
  BY <1>2, <1>3, <1>4, <1>5 DEF Next
<1>7. ASSUME NEW r \in Requests, Puts(r)
      PROVE  \E k \in Keys, entry \in Entries : Put(k, entry)
  BY <1>7, PutsEntry
<1> QED
  BY <1>1, <1>6, <1>7, PutGrowth

\* At capacity the memory storage makes room for what it stores, unless the entry of the
\* empty key is the oldest.
THEOREM GrowsToCapacity == Spec => CapacityHeld
<1> DEFINE Grows == storage = "memory" /\ Cardinality(Held') > Cardinality(Held) =>
                Cardinality(Held') <= MaxEntries \/ Held = {} \/ EmptyKey \in Oldest
<1>1. TypeOK /\ [Next]_vars => [Grows]_vars
  <2> SUFFICES ASSUME TypeOK, [Next]_vars PROVE Grows
    OBVIOUS
  <2>1. Cardinality(Held) \in Nat /\ Cardinality(Held') \in Nat
    BY HeldFinite, HeldFiniteNext
  <2> QED
    BY <2>1, Growth
<1> QED
  BY <1>1, TypeInit, TypeStep, PTL DEF Spec, CapacityHeld, TypeInv

Capacity == IF MaxEntries = 0 THEN 1 ELSE MaxEntries

WithinCapacity == storage = "memory" => Cardinality(Held) <= Capacity

\* Where no key is the empty string, the memory storage never holds more than maxEntries,
\* or one entry, if that is 0.
THEOREM CapacityNeverExceeded == EmptyKey \notin Keys => (Spec => []WithinCapacity)
<1> SUFFICES ASSUME EmptyKey \notin Keys PROVE Spec => []WithinCapacity
  OBVIOUS
<1>1. Init => WithinCapacity
  <2> SUFFICES ASSUME Init PROVE WithinCapacity
    OBVIOUS
  <2>1. Held = {}
    BY DEF Init, Held
  <2> QED
    BY <2>1, FS_EmptySet, ConstantTypes DEF WithinCapacity, Capacity
<1>2. TypeOK /\ WithinCapacity /\ [Next]_vars => WithinCapacity'
  <2> SUFFICES ASSUME TypeOK, WithinCapacity, [Next]_vars PROVE WithinCapacity'
    OBVIOUS
  <2>1. Cardinality(Held) \in Nat /\ Cardinality(Held') \in Nat /\ MaxEntries \in Nat
    BY HeldFinite, HeldFiniteNext, ConstantTypes
  <2>2. UNCHANGED storage /\ EmptyKey \notin Oldest
    BY StorageFixed DEF Oldest, Held
  <2> QED
    BY <2>1, <2>2, Growth DEF WithinCapacity, Capacity
<1> QED
  BY <1>1, <1>2, TypeInit, TypeStep, PTL DEF Spec, TypeInv

-----------------------------------------------------------------------------
(* The line of continuations *)

Waiting == {"hit", "missed", "told", "stored"}

\* Everybody in the line waits for a turn, and nobody waits for two.
Line(d, p) ==
    /\ \A i \in DOMAIN d : p[d[i]] \in Waiting
    /\ \A i, j \in DOMAIN d : d[i] = d[j] => i = j

\* A fetch has its own answer to return.
OwnAnswer == \A r \in Requests : pc[r] \in {"flying", "reading", "stored"} => got[r] = r

LineInv == Line(due, pc) /\ OwnAnswer

LEMMA LineInit == Init => LineInv
BY DEF Init, LineInv, Line, OwnAnswer

LEMMA LineKept ==
    ASSUME TypeOK, Line(due, pc), NEW p,
           \A q \in Requests : pc[q] \in Waiting => p[q] = pc[q]
    PROVE  Line(due, p)
<1>1. \A i \in DOMAIN due : due[i] \in Requests
  BY ElementOfSeq, LenProperties DEF TypeOK
<1> QED
  BY <1>1 DEF Line

\* Whoever's turn it was has left the line.
LEMMA LineLeft ==
    ASSUME TypeOK, Line(due, pc), NEW i \in 1..Len(due), NEW p,
           \A q \in Requests \ {due[i]} : p[q] = pc[q]
    PROVE  Line(Without(i), p) /\ \A j \in DOMAIN Without(i) : Without(i)[j] # due[i]
<1>1. due \in Seq(Requests) /\ Len(due) \in Nat /\ DOMAIN due = 1..Len(due)
  BY LenProperties DEF TypeOK
<1>2. \A j \in 1..Len(due) : due[j] \in Requests
  BY <1>1, ElementOfSeq
<1>3. /\ Without(i) \in Seq(Requests) /\ Len(Without(i)) = Len(due) - 1
      /\ \A j \in 1..(Len(due) - 1) : Without(i)[j] = IF j < i THEN due[j] ELSE due[j + 1]
  BY <1>1, WithoutProperties
<1>4. DOMAIN Without(i) = 1..(Len(due) - 1)
  BY <1>3, LenProperties
<1> DEFINE At(j) == IF j < i THEN j ELSE j + 1
<1>5. /\ \A j \in 1..(Len(due) - 1) :
            At(j) \in 1..Len(due) /\ At(j) # i /\ Without(i)[j] = due[At(j)]
      /\ \A j, m \in 1..(Len(due) - 1) : At(j) = At(m) => j = m
  BY <1>1, <1>3
<1> HIDE DEF At
<1>6. \A j \in DOMAIN Without(i) : Without(i)[j] # due[i] /\ p[Without(i)[j]] \in Waiting
  BY <1>1, <1>2, <1>4, <1>5 DEF Line
<1>7. \A j, m \in DOMAIN Without(i) : Without(i)[j] = Without(i)[m] => j = m
  BY <1>1, <1>4, <1>5 DEF Line
<1> QED
  BY <1>6, <1>7 DEF Line

LEMMA LineJoined ==
    ASSUME NEW d \in Seq(Requests), NEW p, Line(d, p), NEW r \in Requests, p[r] \in Waiting,
           \A j \in DOMAIN d : d[j] # r
    PROVE  Line(Append(d, r), p)
<1>1. /\ DOMAIN d = 1..Len(d) /\ Len(d) \in Nat
      /\ DOMAIN Append(d, r) = 1..(Len(d) + 1)
      /\ \A j \in 1..Len(d) : Append(d, r)[j] = d[j]
      /\ Append(d, r)[Len(d) + 1] = r
  BY LenProperties, AppendProperties
<1>2. \A j \in 1..(Len(d) + 1) : j \in 1..Len(d) \/ j = Len(d) + 1
  BY <1>1
<1> QED
  BY <1>1, <1>2 DEF Line

\* What Settles appends names everybody who joined, once.
LEMMA OrderOnce ==
    ASSUME NEW S, IsFiniteSet(S), NEW order \in [1..Cardinality(S) -> S],
           \A w \in S : \E i \in DOMAIN order : order[i] = w
    PROVE  \A i, j \in DOMAIN order : order[i] = order[j] => i = j
<1>1. Cardinality(S) \in Nat
  BY FS_CardinalityType
<1>2. IsFiniteSet(1..Cardinality(S)) /\ Cardinality(1..Cardinality(S)) = Cardinality(S)
  BY <1>1, FS_Interval
<1>3. order \in Surjection(1..Cardinality(S), S)
  BY Fun_IsSurj
<1>4. order \in Injection(1..Cardinality(S), S)
  BY <1>2, <1>3, FS_SurjSameCardinalityImpliesInj
<1> QED
  BY <1>4, Fun_InjectionProperties

LEMMA ContinueLine ==
    ASSUME TypeInv, FetchInv, LineInv, NEW i \in 1..Len(due), Continue(i)
    PROVE  LineInv'
<1> DEFINE r == due[i]
<1>1. /\ Without(i) \in Seq(Requests) /\ r \in Requests
      /\ pc \in [Requests -> Stages] /\ got \in [Requests -> Requests \cup {None}]
  BY WithoutProperties DEF TypeInv, TypeOK
<1>2. \A q \in Requests \ {r} : pc'[q] = pc[q]
  BY <1>1 DEF Continue, Return, Fetch, Send, Join, Finish
<1>3. Line(Without(i), pc') /\ \A j \in DOMAIN Without(i) : Without(i)[j] # r
  BY <1>2, LineLeft DEF TypeInv, LineInv
<1> HIDE DEF r
<1>4. Line(due', pc')
  <2>1. CASE due' = Without(i)
    BY <1>3, <2>1
  <2>2. CASE due' = Append(Without(i), r) /\ pc'[r] = "told"
    BY <1>1, <1>3, <2>2, LineJoined DEF Waiting
  <2> QED
    BY <1>1, <2>1, <2>2 DEF Continue, Return, Fetch, Join, Finish, r
<1>5. \A q \in Requests : pc'[q] \in {"flying", "reading", "stored"} =>
        got'[q] = q
  BY <1>1 DEF Continue, Return, Fetch, Send, Join, Finish, LineInv, OwnAnswer, r
<1> QED
  BY <1>4, <1>5 DEF LineInv, OwnAnswer

LEMMA SettlesLine ==
    ASSUME TypeInv, LineInv, NEW r \in Requests, pc[r] = "flying",
           NEW next, NEW outcome \in {"told", "done"}, Settles(r, next, outcome)
    PROVE  Line(due', pc')
<1> DEFINE waiters == Joined(r)
<1>1. /\ due \in Seq(Requests) /\ Len(due) \in Nat /\ DOMAIN due = 1..Len(due)
      /\ pc \in [Requests -> Stages]
  BY LenProperties DEF TypeInv, TypeOK
<1>2. /\ \A q \in Requests : pc[q] \in Waiting => pc'[q] = pc[q]
      /\ \A w \in waiters : pc'[w] = outcome
  BY <1>1 DEF Settles, Joined, Waiting
<1>3. Line(due, pc')
  BY <1>2, LineKept DEF TypeInv, LineInv
<1>4. IsFiniteSet(waiters) /\ waiters \subseteq Requests
  BY ConstantTypes, FS_Subset DEF Joined
<1>5. \A w \in waiters : pc[w] \notin Waiting
  BY DEF Joined, Waiting
<1>6. CASE outcome = "told"
  <2>1. PICK order \in [1..Cardinality(waiters) -> waiters] :
            /\ \A w \in waiters : \E i \in DOMAIN order : order[i] = w
            /\ due' = due \o order
    BY <1>6 DEF Settles
  <2> HIDE DEF waiters
  <2>2. Cardinality(waiters) \in Nat
    BY <1>4, FS_CardinalityType
  <2>3. \A i, j \in DOMAIN order : order[i] = order[j] => i = j
    BY <1>4, <2>1, OrderOnce
  <2>4. /\ order \in Seq(Requests) /\ DOMAIN order = 1..Cardinality(waiters)
        /\ Len(order) = Cardinality(waiters)
    <3>1. order \in [1..Cardinality(waiters) -> Requests]
      BY <1>4
    <3>2. order \in Seq(Requests)
      BY <2>2, <3>1, IsASeq
    <3> QED
      BY <2>2, <3>1, <3>2, LenProperties
  <2>5. /\ DOMAIN due' = 1..(Len(due) + Len(order))
        /\ \A i \in 1..(Len(due) + Len(order)) :
                due'[i] = IF i <= Len(due) THEN due[i] ELSE order[i - Len(due)]
    <3>1. /\ due' \in Seq(Requests) /\ Len(due') = Len(due) + Len(order)
          /\ \A i \in 1..(Len(due) + Len(order)) :
                due'[i] = IF i <= Len(due) THEN due[i] ELSE order[i - Len(due)]
      BY <1>1, <2>1, <2>4, ConcatProperties
    <3> QED
      BY <3>1, LenProperties
  <2>6. \A i \in 1..(Len(due) + Len(order)) :
            \/ i \in DOMAIN due /\ due'[i] = due[i]
            \/ i - Len(due) \in DOMAIN order /\ due'[i] = order[i - Len(due)]
    BY <1>1, <2>2, <2>4, <2>5
  <2>7. \A i \in DOMAIN order : order[i] \in waiters
    OBVIOUS
  <2>8. \A i \in DOMAIN due' : pc'[due'[i]] \in Waiting
    BY <1>2, <1>3, <1>6, <2>5, <2>6, <2>7 DEF Line, Waiting
  <2>9. \A i \in DOMAIN due : due[i] \notin waiters
    BY <1>5 DEF LineInv, Line
  <2>10. \A i, j \in DOMAIN due' : due'[i] = due'[j] => i = j
    <3> SUFFICES ASSUME NEW i \in DOMAIN due', NEW j \in DOMAIN due', due'[i] = due'[j]
                 PROVE  i = j
      OBVIOUS
    <3>0. i \in Int /\ j \in Int
      BY <1>1, <2>2, <2>4, <2>5
    <3>1. CASE i \in DOMAIN due /\ j \in DOMAIN due /\ due'[i] = due[i] /\ due'[j] = due[j]
      BY <3>1 DEF LineInv, Line
    <3>2. CASE /\ i - Len(due) \in DOMAIN order /\ due'[i] = order[i - Len(due)]
               /\ j - Len(due) \in DOMAIN order /\ due'[j] = order[j - Len(due)]
      <4>1. i - Len(due) = j - Len(due)
        BY <2>3, <3>2
      <4> QED
        BY <1>1, <3>0, <4>1
    <3> QED
      BY <2>5, <2>6, <2>7, <2>9, <3>1, <3>2
  <2> QED
    BY <2>8, <2>10 DEF Line
<1>7. CASE outcome = "done"
  <2>1. due' = due
    BY <1>7 DEF Settles
  <2> QED
    BY <1>3, <2>1
<1> QED
  BY <1>6, <1>7

LEMMA NetworkLine ==
    ASSUME TypeInv, LineInv, NEW r \in Requests, Network(r)
    PROVE  LineInv'
<1>0. pc \in [Requests -> Stages] /\ TypeOK /\ due \in Seq(Requests)
  BY DEF TypeInv, TypeOK
<1>1. ASSUME NEW v \in 0..MaxVersion, Answer(r, v) PROVE LineInv'
  <2>1. Line(due', pc')
    BY <1>1, SettlesLine DEF Answer
  <2>2. OwnAnswer'
    BY <1>0, <1>1 DEF Answer, Settles, Joined, LineInv, OwnAnswer
  <2> QED
    BY <2>1, <2>2 DEF LineInv
<1>2. CASE AnswerFails(r)
  <2>1. Line(due', pc')
    BY <1>2, SettlesLine DEF AnswerFails
  <2>2. OwnAnswer'
    BY <1>0, <1>2 DEF AnswerFails, Settles, Joined, LineInv, OwnAnswer
  <2> QED
    BY <2>1, <2>2 DEF LineInv
<1>3. CASE Store(r)
  <2>1. /\ pc[r] = "reading" /\ pc'[r] = "stored" /\ got' = got /\ due' = Append(due, r)
        /\ \A q \in Requests \ {r} : pc'[q] = pc[q]
    BY <1>0, <1>3 DEF Store
  <2>2. Line(due, pc')
    BY <1>0, <2>1, LineKept DEF LineInv, Waiting
  <2>3. \A j \in DOMAIN due : due[j] # r
    BY <2>1 DEF LineInv, Line, Waiting
  <2>4. Line(due', pc')
    BY <1>0, <2>1, <2>2, <2>3, LineJoined DEF Waiting
  <2> QED
    BY <1>0, <2>1, <2>4 DEF LineInv, OwnAnswer
<1>4. CASE StoreFails(r)
  <2>1. Line(due, pc')
    BY <1>0, <1>4, LineKept DEF StoreFails, LineInv, Waiting
  <2> QED
    BY <1>0, <1>4, <2>1 DEF StoreFails, LineInv, OwnAnswer
<1> QED
  BY <1>1, <1>2, <1>3, <1>4 DEF Network

LEMMA LineStep == TypeInv /\ FetchInv /\ LineInv /\ [Next]_vars => LineInv'
<1> SUFFICES ASSUME TypeInv, FetchInv, LineInv, [Next]_vars PROVE LineInv'
  OBVIOUS
<1>0. pc \in [Requests -> Stages] /\ TypeOK /\ due \in Seq(Requests)
      /\ got \in [Requests -> Requests \cup {None}]
  BY DEF TypeInv, TypeOK
<1>1. ASSUME NEW r \in Requests, NEW how \in {"shared", "plain"}, Look(r, how)
      PROVE  LineInv'
  <2>1. /\ pc[r] = "idle" /\ pc'[r] \in {"hit", "missed"} /\ due' = Append(due, r)
        /\ \A q \in Requests \ {r} : pc'[q] = pc[q] /\ got'[q] = got[q]
    BY <1>0, <1>1 DEF Look
  <2>2. Line(due, pc')
    BY <1>0, <2>1, LineKept DEF LineInv, Waiting
  <2>3. \A j \in DOMAIN due : due[j] # r
    BY <2>1 DEF LineInv, Line, Waiting
  <2>4. Line(due', pc')
    BY <1>0, <2>1, <2>2, <2>3, LineJoined DEF Waiting
  <2> QED
    BY <1>0, <2>1, <2>4 DEF LineInv, OwnAnswer
<1>2. ASSUME NEW r \in Requests, NEW how \in {"shared", "plain"},
             Refresh(r) \/ LookFails(r, how)
      PROVE  LineInv'
  <2>1. /\ pc[r] = "idle" /\ due' = due /\ pc'[r] \in {"flying", "done"}
        /\ pc'[r] = "flying" => got'[r] = r
        /\ \A q \in Requests \ {r} : pc'[q] = pc[q] /\ got'[q] = got[q]
    BY <1>0, <1>2 DEF Refresh, Send, LookFails, cacheVars
  <2>2. Line(due, pc')
    BY <1>0, <2>1, LineKept DEF LineInv, Waiting
  <2> QED
    BY <1>0, <2>1, <2>2 DEF LineInv, OwnAnswer
<1>3. ASSUME UNCHANGED <<due, pc, got>> PROVE LineInv'
  BY <1>3 DEF LineInv, Line, OwnAnswer
<1>4. ASSUME NEW ks \in SUBSET Keys, Remove(ks) PROVE LineInv'
  BY <1>3, <1>4 DEF Remove, requestVars
<1>5. CASE Cleanup \/ Tick \/ OriginChanges \/ UNCHANGED vars
  BY <1>3, <1>5 DEF Cleanup, Tick, OriginChanges, vars, cacheVars, requestVars
<1> QED
  BY <1>1, <1>2, <1>4, <1>5, ContinueLine, NetworkLine DEF Next

-----------------------------------------------------------------------------
(* Fetches that nobody needs *)

\* Over the memory storage, whoever has missed a key for which there is an entry now
\* comes before the one that stored it.
MissedBefore ==
    storage = "memory" =>
        \A k \in Keys : Live(k) =>
            \A i \in DOMAIN due : pc[due[i]] = "missed" /\ key[due[i]] = k =>
                \E j \in DOMAIN due :
                    j > i /\ due[j] = cache[k].from /\ pc[due[j]] = "stored"

LEMMA MissedInit == Init => MissedBefore
BY DEF Init, MissedBefore

\* An entry that is live after a step that stores nothing was live before.
LEMMA LiveKept ==
    ASSUME TypeOK, NEW k \in Keys, cache'[k] \in {cache[k], None}, now' \in {now, now + 1},
           Live(k)'
    PROVE  Live(k) /\ cache'[k] = cache[k]
<1>1. cache[k] # None /\ cache'[k] = cache[k] /\ cache[k] \in Entries /\ now' <= cache[k].expires
  BY DEF TypeOK, Live
<1>2. now \in Nat /\ cache[k].expires \in Nat
  BY <1>1, EntryTypes, ConstantTypes DEF TypeOK
<1> QED
  BY <1>1, <1>2 DEF Live

LEMMA DueTypes ==
    ASSUME TypeOK
    PROVE  /\ due \in Seq(Requests) /\ Len(due) \in Nat /\ DOMAIN due = 1..Len(due)
           /\ \A i \in 1..Len(due) : due[i] \in Requests /\ key[due[i]] \in Keys
BY LenProperties, ElementOfSeq DEF TypeOK

\* The line stays as it is, and nothing is stored.
LEMMA MissedKept ==
    ASSUME TypeOK, LineInv, MissedBefore, UNCHANGED <<storage, due, key>>,
           \A q \in Requests : pc[q] \in Waiting => pc'[q] = pc[q],
           \A k \in Keys : cache'[k] \in {cache[k], None},
           now' \in {now, now + 1}
    PROVE  MissedBefore'
<1> SUFFICES ASSUME storage = "memory", NEW k \in Keys, Live(k)', NEW i \in DOMAIN due,
                    pc'[due[i]] = "missed", key[due[i]] = k
             PROVE  \E j \in DOMAIN due :
                        j > i /\ due[j] = cache'[k].from /\ pc'[due[j]] = "stored"
  BY DEF MissedBefore
<1>1. \A j \in DOMAIN due : due[j] \in Requests /\ pc'[due[j]] = pc[due[j]]
  BY DueTypes DEF LineInv, Line
<1>2. Live(k) /\ cache'[k] = cache[k]
  BY LiveKept
<1> QED
  BY <1>1, <1>2 DEF MissedBefore

\* r comes last, and stores an entry or nothing.
LEMMA MissedAppended ==
    ASSUME TypeOK, LineInv, MissedBefore, NEW r \in Requests, UNCHANGED <<storage, key>>,
           due' = Append(due, r),
           pc[r] \notin Waiting,
           \A q \in Requests \ {r} : pc'[q] = pc[q],
           \A k \in Keys : pc'[r] = "missed" /\ Live(k)' => key[r] # k,
           \A k \in Keys : Live(k)' =>
                \/ Live(k) /\ cache'[k] = cache[k]
                \/ cache'[k].from = r /\ pc'[r] = "stored"
    PROVE  MissedBefore'
<1> SUFFICES ASSUME storage = "memory", NEW k \in Keys, Live(k)', NEW i \in DOMAIN due',
                    pc'[due'[i]] = "missed", key[due'[i]] = k
             PROVE  \E j \in DOMAIN due' :
                        j > i /\ due'[j] = cache'[k].from /\ pc'[due'[j]] = "stored"
  BY DEF MissedBefore
<1>1. /\ DOMAIN due = 1..Len(due) /\ Len(due) \in Nat
      /\ DOMAIN due' = 1..(Len(due) + 1)
      /\ \A j \in 1..Len(due) : due'[j] = due[j] /\ due[j] \in Requests
      /\ due'[Len(due) + 1] = r
  BY DueTypes, AppendProperties, LenProperties
<1>2. \A j \in 1..Len(due) : pc'[due[j]] = pc[due[j]]
  BY <1>1 DEF LineInv, Line
<1>3. i \in 1..Len(due)
  BY <1>1
<1>4. CASE Live(k) /\ cache'[k] = cache[k]
  <2>1. PICK j \in DOMAIN due : j > i /\ due[j] = cache[k].from /\ pc[due[j]] = "stored"
    BY <1>1, <1>2, <1>3, <1>4 DEF MissedBefore
  <2> QED
    BY <1>1, <1>2, <1>4, <2>1
<1>5. CASE cache'[k].from = r /\ pc'[r] = "stored"
  <2>1. Len(due) + 1 \in DOMAIN due' /\ Len(due) + 1 > i
    BY <1>1, <1>3
  <2> QED
    BY <1>1, <1>3, <1>5, <2>1
<1> QED
  BY <1>4, <1>5

\* The line without its first, who may have lined up again.
LEMMA FirstGone ==
    ASSUME TypeOK, 1 \in 1..Len(due), NEW d,
           d = Without(1) \/ d = Append(Without(1), due[1])
    PROVE  /\ \A j \in 1..(Len(due) - 1) : j \in DOMAIN d /\ d[j] = due[j + 1]
           /\ \A j \in DOMAIN d : \/ j \in 1..(Len(due) - 1)
                                  \/ j = Len(due) /\ d = Append(Without(1), due[1])
           /\ d = Append(Without(1), due[1]) => Len(due) \in DOMAIN d /\ d[Len(due)] = due[1]
<1>1. Len(due) \in Nat /\ Len(due) >= 1 /\ due[1] \in Requests
  BY DueTypes
<1>2. /\ Without(1) \in Seq(Requests) /\ Len(Without(1)) = Len(due) - 1
      /\ DOMAIN Without(1) = 1..(Len(due) - 1)
      /\ \A j \in 1..(Len(due) - 1) : Without(1)[j] = due[j + 1]
  BY <1>1, WithoutProperties, LenProperties DEF TypeOK
<1>3. CASE d = Without(1) /\ d # Append(Without(1), due[1])
  BY <1>2, <1>3
<1>4. CASE d = Append(Without(1), due[1])
  <2>1. /\ DOMAIN d = 1..(Len(due) - 1 + 1)
        /\ \A j \in 1..(Len(due) - 1) : d[j] = Without(1)[j]
        /\ d[Len(due) - 1 + 1] = due[1]
    BY <1>1, <1>2, <1>4, AppendProperties, LenProperties
  <2>2. DOMAIN d = 1..Len(due) /\ d[Len(due)] = due[1]
    BY <1>1, <2>1
  <2> QED
    BY <1>1, <1>2, <2>1, <2>2
<1> QED
  BY <1>3, <1>4

\* The first has had its turn, and may line up again for another's answer.
LEMMA MissedLeft ==
    ASSUME TypeOK, LineInv, MissedBefore, UNCHANGED <<storage, key, cache, now>>,
           storage = "memory", 1 \in 1..Len(due),
           due' = Without(1) \/ due' = Append(Without(1), due[1]),
           \A q \in Requests \ {due[1]} : pc'[q] = pc[q],
           pc'[due[1]] # "missed"
    PROVE  MissedBefore'
<1> SUFFICES ASSUME NEW k \in Keys, Live(k), NEW i \in DOMAIN due',
                    pc'[due'[i]] = "missed", key[due'[i]] = k
             PROVE  \E j \in DOMAIN due' :
                        j > i /\ due'[j] = cache[k].from /\ pc'[due'[j]] = "stored"
  BY DEF MissedBefore, Live
<1>1. /\ DOMAIN due = 1..Len(due) /\ Len(due) \in Nat /\ Len(due) >= 1
      /\ \A j \in 1..Len(due) : due[j] \in Requests
  BY DueTypes
<1>2. /\ \A j \in 1..(Len(due) - 1) : j \in DOMAIN due' /\ due'[j] = due[j + 1]
      /\ \A j \in DOMAIN due' : j \in 1..(Len(due) - 1) \/ due'[j] = due[1]
  BY FirstGone
<1>4. i \in 1..(Len(due) - 1) /\ due'[i] = due[i + 1]
  BY <1>2
<1>5. \A j \in 2..Len(due) : due[j] # due[1] /\ pc'[due[j]] = pc[due[j]]
  BY <1>1 DEF LineInv, Line
<1>6. pc[due[i + 1]] = "missed" /\ i + 1 \in DOMAIN due
  BY <1>1, <1>4, <1>5
<1>7. PICK j \in DOMAIN due :
        j > i + 1 /\ due[j] = cache[k].from /\ pc[due[j]] = "stored"
  BY <1>4, <1>6 DEF MissedBefore
<1>8. /\ j - 1 \in 1..(Len(due) - 1) /\ j - 1 > i /\ due'[j - 1] = due[j] /\ pc'[due[j]] = pc[due[j]]
      /\ j - 1 \in DOMAIN due'
  BY <1>1, <1>2, <1>4, <1>5, <1>7
<1> QED
  BY <1>4, <1>7, <1>8

\* What NoNeedlessFetch allows.
Needed ==
    storage = "memory" =>
        \A r \in Requests :
            /\ pc[r] = "missed"
            /\ pc'[r] = "flying"
            /\ kind[r] = "shared"
            => ~(Live(key[r]) /\ kind[cache[key[r]].from] = "shared")

CacheInv == TypeInv /\ FetchInv /\ EntriesAnswered /\ LineInv

LEMMA CacheInit == Init => CacheInv
BY TypeInit, FetchInit, EntriesInit, LineInit DEF CacheInv

LEMMA CacheStep == CacheInv /\ [Next]_vars => CacheInv'
BY TypeStep, FetchStep, EntriesStep, LineStep DEF CacheInv

\* The first in line finds no entry, or the fetch that stored it still in _pending.
LEMMA FetchNeeded ==
    ASSUME CacheInv, MissedBefore, NEW i \in 1..Len(due), Fetch(i), storage = "memory",
           kind[due[i]] = "shared", Live(key[due[i]])
    PROVE  kind[cache[key[due[i]]].from] # "shared"
<1> DEFINE k == key[due[i]]
           s == cache[k].from
<1>1. k \in Keys /\ i \in DOMAIN due /\ pc[due[i]] = "missed" /\ pending[k] = None
  BY DueTypes DEF Fetch, CacheInv, TypeInv
<1>2. PICK j \in DOMAIN due : due[j] = s /\ pc[due[j]] = "stored"
  BY <1>1 DEF MissedBefore
<1>3. s \in Requests /\ pc[s] = "stored" /\ key[s] = k
  BY <1>1, <1>2, DueTypes DEF CacheInv, TypeInv, EntriesAnswered, Live
<1> HIDE DEF k, s
<1>4. kind[s] = "shared" => pending[k] = s
  BY <1>3 DEF CacheInv, FetchInv, OneFetchPerKey, Fetching
<1>5. kind[s] # "shared"
  BY <1>1, <1>3, <1>4, CacheAssumption
<1> QED
  BY <1>5 DEF k, s

LEMMA ContinueMissed ==
    ASSUME CacheInv, MissedBefore, NEW i \in 1..Len(due), Continue(i)
    PROVE  MissedBefore' /\ Needed
<1>0. TypeOK /\ LineInv /\ pc \in [Requests -> Stages] /\ due[i] \in Requests
  BY DueTypes DEF CacheInv, TypeInv, TypeOK
<1>1. /\ UNCHANGED <<storage, key, cache, now>>
      /\ due' = Without(i) \/ due' = Append(Without(i), due[i])
      /\ \A q \in Requests \ {due[i]} : pc'[q] = pc[q]
      /\ pc'[due[i]] # "missed"
      /\ storage = "memory" => i = 1
  BY <1>0 DEF Continue, Return, Fetch, Send, Join, Finish, Runs, worldVars
<1>2. MissedBefore'
  <2>1. CASE storage = "memory"
    BY <1>0, <1>1, <2>1, MissedLeft
  <2>2. CASE storage # "memory"
    BY <1>1, <2>2 DEF MissedBefore
  <2> QED
    BY <2>1, <2>2
<1>3. ASSUME pc'[due[i]] = "flying" PROVE Fetch(i)
  BY <1>0, <1>3 DEF Continue, Return, Join, Finish
<1>4. Needed
  BY <1>0, <1>1, <1>3, FetchNeeded DEF Needed
<1> QED
  BY <1>2, <1>4

\* When nobody was in line, those who joined are the line.
LEMMA JoinedLine ==
    ASSUME NEW r \in Requests, NEW next, Settles(r, next, "told"), due = << >>
    PROVE  \A i \in DOMAIN due' : due'[i] \in Joined(r)
<1>1. PICK order \in [1..Cardinality(Joined(r)) -> Joined(r)] : due' = due \o order
  BY DEF Settles
<1>2. Cardinality(Joined(r)) \in Nat
  BY ConstantTypes, FS_Subset, FS_CardinalityType DEF Joined
<1>3. order \in Seq(Joined(r))
  BY <1>1, <1>2, IsASeq
<1>4. due' = order
  BY <1>1, <1>3, ConcatEmptySeq
<1> QED
  BY <1>1, <1>4

LEMMA NetworkMissed ==
    ASSUME CacheInv, MissedBefore, NEW r \in Requests, Network(r)
    PROVE  MissedBefore' /\ Needed
<1>0. /\ TypeOK /\ LineInv /\ pc \in [Requests -> Stages] /\ cache \in [Keys -> Entries \cup {None}]
      /\ answered[r] \in 0..MaxTime /\ key[r] \in Keys
  BY DEF CacheInv, TypeInv, TypeOK
<1>1. ASSUME NEW v \in 0..MaxVersion, Answer(r, v) PROVE MissedBefore' /\ Needed
  <2>1. \A q \in Requests : pc'[q] \in {pc[q], "reading", "told"}
    BY <1>0, <1>1 DEF Answer, Settles
  <2>2. ASSUME storage = "memory" PROVE MissedBefore'
    <3>1. \A i \in DOMAIN due' : due'[i] \in Joined(r)
      BY <1>0, <1>1, <2>2, JoinedLine DEF Answer, Quiet
    <3>2. pc[r] = "flying" /\ \A q \in Joined(r) : q \in Requests /\ pc[q] = "joined" /\ pc'[q] = "told"
      BY <1>1 DEF Answer, Settles, Joined
    <3> QED
      BY <3>1, <3>2 DEF MissedBefore
  <2>3. UNCHANGED storage
    BY <1>1 DEF Answer
  <2> QED
    BY <2>1, <2>2, <2>3 DEF Needed, MissedBefore
<1>2. CASE AnswerFails(r)
  <2>1. /\ UNCHANGED <<storage, due, key, cache, now>>
        /\ \A q \in Requests : pc'[q] = pc[q] \/ pc'[q] = "done"
        /\ \A q \in Requests : pc[q] \in Waiting => pc'[q] = pc[q]
    BY <1>0, <1>2 DEF AnswerFails, Settles, Joined, Waiting, worldVars
  <2>2. MissedBefore'
    BY <1>0, <2>1, MissedKept
  <2> QED
    BY <2>1, <2>2 DEF Needed
<1>3. CASE Store(r)
  <2>1. PICK entry \in Entries : entry.from = r /\ Put(key[r], entry)
    BY <1>0, <1>3, PutsEntry DEF Store
  <2>2. /\ pc[r] = "reading" /\ pc'[r] = "stored"
        /\ UNCHANGED <<storage, key, now>> /\ due' = Append(due, r)
        /\ \A q \in Requests \ {r} : pc'[q] = pc[q]
    BY <1>0, <1>3 DEF Store, worldVars
  <2>3. cache'[key[r]] = entry /\ \A h \in Keys \ {key[r]} : cache'[h] \in {cache[h], None}
    BY <1>0, <2>1, <2>2, PutType
  <2>4. ASSUME NEW k \in Keys, Live(k)'
        PROVE  \/ Live(k) /\ cache'[k] = cache[k]
               \/ cache'[k].from = r /\ pc'[r] = "stored"
    BY <1>0, <2>1, <2>2, <2>3, <2>4, LiveKept
  <2>5. MissedBefore'
    BY <1>0, <2>2, <2>4, MissedAppended DEF Waiting
  <2> QED
    BY <2>2, <2>5 DEF Needed
<1>4. CASE StoreFails(r)
  <2>1. storage = "remote" /\ storage' = "remote"
    BY <1>4 DEF StoreFails
  <2> QED
    BY <2>1 DEF Needed, MissedBefore
<1> QED
  BY <1>1, <1>2, <1>3, <1>4 DEF Network

LEMMA MissedStep == CacheInv /\ MissedBefore /\ [Next]_vars => MissedBefore' /\ Needed
<1> SUFFICES ASSUME CacheInv, MissedBefore, [Next]_vars PROVE MissedBefore' /\ Needed
  OBVIOUS
<1>0. /\ TypeOK /\ LineInv /\ pc \in [Requests -> Stages] /\ cache \in [Keys -> Entries \cup {None}]
      /\ now \in Nat
  BY ConstantTypes DEF CacheInv, TypeInv, TypeOK
<1>1. ASSUME NEW r \in Requests, NEW how \in {"shared", "plain"}, Look(r, how)
      PROVE  MissedBefore' /\ Needed
  <2>1. /\ pc[r] = "idle" /\ pc'[r] \in {"hit", "missed"}
        /\ UNCHANGED <<storage, key, now>> /\ due' = Append(due, r)
        /\ \A q \in Requests \ {r} : pc'[q] = pc[q]
        /\ pc'[r] = "missed" => cache'[key[r]] = None
        /\ \A k \in Keys : cache'[k] \in {cache[k], None}
        /\ key[r] \in Keys
    <3>1. key[r] \in Keys
      BY DEF CacheInv, TypeInv, TypeOK
    <3>2. CASE Found(key[r])
      BY <1>0, <1>1, <3>1, <3>2 DEF Look, worldVars
    <3>3. CASE ~Found(key[r])
      BY <1>0, <1>1, <3>1, <3>3 DEF Look, worldVars
    <3> QED
      BY <3>2, <3>3
  <2>2. \A k \in Keys : pc'[r] = "missed" /\ Live(k)' => key[r] # k
    BY <2>1 DEF Live
  <2>3. ASSUME NEW k \in Keys, Live(k)' PROVE Live(k) /\ cache'[k] = cache[k]
    BY <1>0, <2>1, <2>3, LiveKept
  <2>4. MissedBefore'
    BY <1>0, <2>1, <2>2, <2>3, MissedAppended DEF Waiting
  <2> QED
    BY <2>1, <2>4 DEF Needed
<1>2. ASSUME UNCHANGED <<storage, due, key>>,
             \A q \in Requests : pc'[q] = pc[q] \/ pc[q] = "idle",
             \A k \in Keys : cache'[k] \in {cache[k], None},
             now' \in {now, now + 1}
      PROVE  MissedBefore' /\ Needed
  BY <1>0, <1>2, MissedKept DEF Needed, Waiting
<1>3. ASSUME NEW r \in Requests, NEW how \in {"shared", "plain"},
             Refresh(r) \/ LookFails(r, how)
      PROVE  MissedBefore' /\ Needed
  <2>1. /\ UNCHANGED <<storage, due, key, cache, now>>
        /\ \A q \in Requests : pc'[q] = pc[q] \/ pc[q] = "idle"
    BY <1>0, <1>3 DEF Refresh, Send, LookFails, cacheVars, worldVars
  <2> QED
    BY <1>2, <2>1
<1>4. ASSUME NEW ks \in SUBSET Keys, Remove(ks) PROVE MissedBefore' /\ Needed
  BY <1>2, <1>4 DEF Remove, requestVars, worldVars
<1>5. CASE Cleanup
  BY <1>2, <1>5 DEF Cleanup, requestVars, worldVars
<1>6. CASE Tick \/ OriginChanges \/ UNCHANGED vars
  BY <1>2, <1>6 DEF Tick, OriginChanges, vars, cacheVars, requestVars, worldVars
<1> QED
  BY <1>1, <1>3, <1>4, <1>5, <1>6, ContinueMissed, NetworkMissed DEF Next

\* Over the memory storage, getOrFetch never fetches what another getOrFetch has stored
\* and what has not expired: the microtasks run in the order they became due, so that
\* whoever missed before the store still finds the fetch in _pending.
THEOREM NothingFetchedTwice == Spec => NoNeedlessFetch
<1>1. NoNeedlessFetch <=> [][Needed]_vars
  BY PTL DEF NoNeedlessFetch, Needed
<1> QED
  BY <1>1, CacheInit, CacheStep, MissedInit, MissedStep, PTL DEF Spec

-----------------------------------------------------------------------------
(* Versions do not go back *)

\* The turns in line that return a version of k, and that version.
Owing(k) == {i \in DOMAIN due : key[due[i]] = k /\ pc[due[i]] \in {"hit", "told", "stored"}}
Val(i) == version[got[due[i]]]

\* Nothing that was returned for k, is about to be, or could be found is newer than v.
UpTo(k, v) ==
    /\ latest[k] <= v
    /\ \A i \in Owing(k) : Val(i) <= v
    /\ Live(k) => version[cache[k].from] <= v

Ordered(k) ==
    /\ \A r, s \in InFlight(k) : r = s
    /\ \A s \in InFlight(k) : UpTo(k, version[s])
    /\ \A s \in InFlight(k) : kind[s] = "shared" /\ Live(k) => cache[k].from = s
    /\ Live(k) => UpTo(k, version[cache[k].from])
    /\ \A i \in Owing(k) : latest[k] <= Val(i)
    /\ \A i, j \in Owing(k) : i < j => Val(i) <= Val(j)

NewestLast == storage = "memory" => \A k \in Keys \ mixed : Ordered(k)

\* Whose answers are returned or kept, and that none comes from the future.
Sources ==
    /\ \A r \in Requests : pc[r] \in {"hit", "told"} => pc[got[r]] \in {"reading", "stored", "done"}
    /\ \A r \in Requests : version[r] <= origin
    /\ \A k \in Keys : latest[k] <= origin

LEMMA SourcesInit == Init => Sources
BY DEF Init, Sources

LEMMA NewestInit == Init => NewestLast
BY DEF Init, NewestLast, Ordered, Owing, InFlight, Live

LEMMA OrderTypes ==
    ASSUME CacheInv
    PROVE  /\ TypeOK /\ LineInv
           /\ \A k \in Keys : \A i \in Owing(k) :
                due[i] \in Requests /\ got[due[i]] \in Requests /\ Val(i) \in Nat
           /\ \A k \in Keys : Live(k) => cache[k].from \in Requests
                                        /\ version[cache[k].from] \in Nat
                                        /\ pc[cache[k].from] \in {"stored", "done"}
           /\ \A k \in Keys : latest[k] \in Nat
           /\ \A r \in Requests : version[r] \in Nat
           /\ origin \in Nat
<1>1. TypeOK /\ LineInv /\ EntriesAnswered /\ KnowsAnswer
  BY DEF CacheInv, TypeInv
<1>2. /\ \A r \in Requests : version[r] \in Nat
      /\ \A k \in Keys : latest[k] \in Nat
      /\ origin \in Nat
  BY <1>1, ConstantTypes DEF TypeOK
<1>3. \A k \in Keys : \A i \in Owing(k) : due[i] \in Requests /\ got[due[i]] \in Requests
  BY <1>1, DueTypes DEF Owing, KnowsAnswer, LineInv, OwnAnswer
<1>4. ASSUME NEW k \in Keys, Live(k)
      PROVE  cache[k].from \in Requests /\ pc[cache[k].from] \in {"stored", "done"}
  <2>1. cache[k] \in Entries
    BY <1>1, <1>4 DEF TypeOK, Live
  <2> QED
    BY <1>1, <1>4, <2>1 DEF EntriesAnswered, Live, Entries
<1> QED
  BY <1>1, <1>2, <1>3, <1>4 DEF Val

\* The turns of k move up by c places.
MovesUp(k, c) == \A i \in Owing(k)' : i \in Int /\ i + c \in Owing(k) /\ Val(i)' = Val(i + c)

\* A step that neither sends, stores nor returns anything of k.
LEMMA OrderedKept ==
    ASSUME NEW k \in Keys, Ordered(k), NEW c \in Int,
           InFlight(k)' \subseteq InFlight(k),
           \A s \in InFlight(k)' : kind'[s] = kind[s] /\ version'[s] = version[s],
           Live(k)' => /\ Live(k) /\ cache'[k] = cache[k]
                       /\ version'[cache[k].from] = version[cache[k].from],
           latest'[k] = latest[k],
           MovesUp(k, c)
    PROVE  Ordered(k)'
<1>1. ASSUME NEW v, NEW w, v = w, UpTo(k, v) PROVE UpTo(k, w)'
  BY <1>1 DEF UpTo, MovesUp
<1>2. \A s \in InFlight(k)' : UpTo(k, version[s])'
  BY <1>1 DEF Ordered
<1>3. Live(k)' => UpTo(k, version[cache[k].from])'
  BY <1>1 DEF Ordered
<1>4. \A i, j \in Owing(k)' : i < j => Val(i)' <= Val(j)'
  <2> SUFFICES ASSUME NEW i \in Owing(k)', NEW j \in Owing(k)', i < j
               PROVE  Val(i)' <= Val(j)'
    OBVIOUS
  <2>1. i + c < j + c
    BY DEF MovesUp
  <2> QED
    BY <2>1 DEF Ordered, MovesUp
<1> QED
  BY <1>2, <1>3, <1>4 DEF Ordered, MovesUp

\* The parts of the invariant about single requests.
LEMMA RequestFacts ==
    ASSUME CacheInv
    PROVE  /\ pc \in [Requests -> Stages] /\ kind \in [Requests -> Kinds]
           /\ key \in [Requests -> Keys] /\ got \in [Requests -> Requests \cup {None}]
           /\ version \in [Requests -> 0..MaxVersion] /\ latest \in [Keys -> 0..MaxVersion]
           /\ pending \in [Keys -> Requests \cup {None}] /\ MaxVersion \in Nat
           /\ None \notin Requests /\ KnowsAnswer /\ OwnAnswer /\ OneFetchPerKey
           /\ \A i \in 1..Len(due) : due[i] \in Requests /\ pc[due[i]] \in Waiting
BY CacheAssumption, DueTypes DEF CacheInv, TypeInv, TypeOK, LineInv, Line, FetchInv

LEMMA ContinueSources ==
    ASSUME CacheInv, Sources, NEW i \in 1..Len(due), Continue(i)
    PROVE  Sources'
<1> DEFINE r == due[i]
<1>1. r \in Requests /\ pc[r] \in Waiting
  BY RequestFacts
<1>T. /\ pc \in [Requests -> Stages] /\ key \in [Requests -> Keys]
      /\ got \in [Requests -> Requests \cup {None}]
      /\ version \in [Requests -> 0..MaxVersion] /\ latest \in [Keys -> 0..MaxVersion]
      /\ KnowsAnswer /\ OwnAnswer
  BY RequestFacts
<1>2. CASE Return(i) \/ Finish(i)
  <2>1. /\ pc' = [pc EXCEPT ![r] = "done"] /\ UNCHANGED <<key, got, version, origin>>
        /\ \E s \in Requests : latest' = [latest EXCEPT ![key[r]] =
                IF version[s] > @ THEN version[s] ELSE @]
    BY <1>1, <1>2, <1>T DEF Return, Finish, Returned, KnowsAnswer
  <2> HIDE DEF r
  <2> QED
    BY <1>1, <1>T, <2>1 DEF Sources
<1>3. CASE Fetch(i)
  <2>1. /\ pc[r] = "missed" /\ pc' = [pc EXCEPT ![r] = "flying"] /\ got' = [got EXCEPT ![r] = r]
        /\ version' = [version EXCEPT ![r] = origin] /\ UNCHANGED <<key, origin, latest>>
    BY <1>3 DEF Fetch, Send
  <2> HIDE DEF r
  <2>2. \A q \in Requests : version'[q] <= origin'
    BY <1>1, <1>T, <2>1, OrderTypes DEF Sources
  <2>3. \A q \in Requests : pc'[q] \in {"hit", "told"} =>
            pc'[got'[q]] \in {"reading", "stored", "done"}
    BY <1>1, <1>T, <2>1 DEF Sources, KnowsAnswer
  <2> QED
    BY <2>1, <2>2, <2>3 DEF Sources
<1>4. CASE Join(i)
  <2> DEFINE owner == pending[key[r]]
  <2>1. /\ pc[r] = "missed" /\ owner # None
        /\ got' = [got EXCEPT ![r] = owner]
        /\ pc' = [pc EXCEPT ![r] = IF pc[owner] = "flying" THEN "joined" ELSE "told"]
        /\ UNCHANGED <<key, version, origin, latest>>
    BY <1>4, <1>T, <1>1 DEF Join, worldVars
  <2>2. owner \in Requests /\ pc[owner] \in {"flying", "reading", "stored"}
    BY <1>1, <2>1, RequestFacts DEF OneFetchPerKey, Fetching
  <2> HIDE DEF r, owner
  <2>3. \A q \in Requests : pc'[q] \in {"hit", "told"} =>
            pc'[got'[q]] \in {"reading", "stored", "done"}
    BY <1>1, <1>T, <2>1, <2>2 DEF Sources, KnowsAnswer
  <2> QED
    BY <2>1, <2>3 DEF Sources
<1> QED
  BY <1>2, <1>3, <1>4 DEF Continue

LEMMA NetworkSources ==
    ASSUME CacheInv, Sources, NEW r \in Requests, Network(r)
    PROVE  Sources'
<1>T. /\ pc \in [Requests -> Stages] /\ got \in [Requests -> Requests \cup {None}]
      /\ version \in [Requests -> 0..MaxVersion]
      /\ KnowsAnswer
  BY RequestFacts
<1>1. ASSUME NEW v \in 0..MaxVersion, Answer(r, v) PROVE Sources'
  <2>1. /\ pc[r] = "flying" /\ v <= origin /\ version' = [version EXCEPT ![r] = v]
        /\ UNCHANGED <<got, origin, latest>> /\ pc'[r] = "reading"
        /\ \A q \in Requests \ {r} :
              IF pc[q] = "joined" /\ got[q] = r THEN pc'[q] = "told" ELSE pc'[q] = pc[q]
    <3>1. version[r] \in Int /\ origin \in Int
      BY OrderTypes
    <3> QED
      BY <1>T, <1>1, <3>1 DEF Answer, Settles, Joined, worldVars
  <2>2. \A q \in Requests : pc'[q] \in {"hit", "told"} =>
            pc'[got'[q]] \in {"reading", "stored", "done"}
    BY <1>T, <2>1 DEF Sources, KnowsAnswer
  <2> QED
    BY <1>T, <2>1, <2>2 DEF Sources
<1>2. CASE AnswerFails(r) \/ Store(r) \/ StoreFails(r)
  <2>1. /\ UNCHANGED <<got, version, origin, latest>>
        /\ pc[r] \in {"flying", "reading"} /\ pc'[r] \in {"stored", "done"}
        /\ \A q \in Requests \ {r} : pc'[q] = pc[q] \/ (pc[q] = "joined" /\ pc'[q] = "done")
    BY <1>T, <1>2 DEF AnswerFails, Settles, Joined, Store, StoreFails, worldVars
  <2> QED
    BY <1>T, <2>1 DEF Sources, KnowsAnswer
<1> QED
  BY <1>1, <1>2 DEF Network

LEMMA SourcesStep == CacheInv /\ Sources /\ [Next]_vars => Sources'
<1> SUFFICES ASSUME CacheInv, Sources, [Next]_vars PROVE Sources'
  OBVIOUS
<1>T. /\ pc \in [Requests -> Stages] /\ got \in [Requests -> Requests \cup {None}]
      /\ version \in [Requests -> 0..MaxVersion] /\ key \in [Requests -> Keys]
      /\ KnowsAnswer
  BY RequestFacts
<1>1. ASSUME NEW r \in Requests, NEW how \in {"shared", "plain"}, Look(r, how)
      PROVE  Sources'
  <2>1. /\ UNCHANGED <<version, origin, latest>> /\ pc[r] = "idle"
        /\ \A q \in Requests \ {r} : pc'[q] = pc[q] /\ got'[q] = got[q]
        /\ \/ pc'[r] = "missed"
           \/ (pc'[r] = "hit" /\ cache[key[r]] # None /\ got'[r] = cache[key[r]].from)
    BY <1>T, <1>1 DEF Look, Found, worldVars
  <2>2. cache[key[r]] # None => /\ cache[key[r]].from \in Requests
                                /\ pc[cache[key[r]].from] \in {"stored", "done"}
    BY <1>T, OrderTypes, EntryTypes DEF CacheInv, EntriesAnswered, TypeOK
  <2> QED
    BY <1>T, <2>1, <2>2 DEF Sources, KnowsAnswer
<1>2. ASSUME NEW r \in Requests, Refresh(r) PROVE Sources'
  <2>1. /\ UNCHANGED <<origin, latest>> /\ pc[r] = "idle" /\ pc'[r] = "flying"
        /\ \A q \in Requests \ {r} : pc'[q] = pc[q] /\ got'[q] = got[q] /\ version'[q] = version[q]
        /\ version'[r] = origin
    BY <1>T, <1>2 DEF Refresh, Send
  <2>2. \A q \in Requests : version'[q] <= origin'
    BY <2>1, OrderTypes DEF Sources
  <2> QED
    BY <1>T, <2>1, <2>2 DEF Sources, KnowsAnswer
<1>3. ASSUME NEW r \in Requests, NEW how \in {"shared", "plain"}, LookFails(r, how)
      PROVE  Sources'
  BY <1>T, <1>3 DEF LookFails, worldVars, Sources, KnowsAnswer
<1>4. ASSUME NEW ks \in SUBSET Keys, Remove(ks) PROVE Sources'
  BY <1>4 DEF Remove, requestVars, worldVars, Sources
<1>5. CASE Cleanup \/ Tick \/ UNCHANGED vars
  BY <1>5 DEF Cleanup, Tick, vars, cacheVars, requestVars, worldVars, Sources
<1>6. CASE OriginChanges
  <2>1. /\ UNCHANGED <<pc, got, version, latest>> /\ origin' = origin + 1
    BY <1>6 DEF OriginChanges, requestVars
  <2>2. \A n \in Nat : n <= origin => n <= origin + 1
    BY OrderTypes
  <2> QED
    BY <2>1, <2>2, OrderTypes DEF Sources
<1> QED
  BY <1>1, <1>2, <1>3, <1>4, <1>5, <1>6, ContinueSources, NetworkSources DEF Next

\* The turns of k have moved up by c places, and one at place n with v may follow them.
Grows(k, c, n, v) ==
    \A i \in Owing(k)' :
        /\ i \in Int
        /\ \/ i < n /\ i + c \in Owing(k) /\ Val(i)' = Val(i + c)
           \/ i = n /\ Val(i)' = v

\* An answer v, no older than anything of k, gets the last turn; if k has an entry
\* afterwards, it carries v.
LEMMA OrderedGrown ==
    ASSUME CacheInv, CacheInv', NEW k \in Keys, Ordered(k), NEW c \in Int, NEW n \in Int, NEW v \in Nat,
           UpTo(k, v),
           InFlight(k)' \subseteq InFlight(k),
           \A s \in InFlight(k) : v <= version[s],
           \A s \in InFlight(k)' : kind'[s] = kind[s] /\ version'[s] = version[s],
           Live(k)' => version'[cache'[k].from] = v,
           \A s \in InFlight(k)' : kind[s] = "shared" /\ Live(k)' => cache'[k].from = s,
           latest'[k] = latest[k],
           Grows(k, c, n, v)
    PROVE  Ordered(k)'
<1>1. UpTo(k, v)'
  BY DEF UpTo, Grows
<1>2. ASSUME NEW s \in InFlight(k)' PROVE UpTo(k, version[s])'
  <2>1. UpTo(k, version[s]) /\ v <= version[s] /\ version'[s] = version[s]
    BY <1>2 DEF Ordered
  <2> QED
    BY <2>1 DEF UpTo, Grows
<1>3. Live(k)' => UpTo(k, version[cache[k].from])'
  BY <1>1 DEF UpTo
<1>4. \A i \in Owing(k)' : latest'[k] <= Val(i)'
  BY DEF Ordered, UpTo, Grows
<1>5. \A i, j \in Owing(k)' : i < j => Val(i)' <= Val(j)'
  <2> SUFFICES ASSUME NEW i \in Owing(k)', NEW j \in Owing(k)', i < j
               PROVE  Val(i)' <= Val(j)'
    OBVIOUS
  <2>1. CASE i + c \in Owing(k) /\ Val(i)' = Val(i + c) /\ j = n /\ Val(j)' = v
    BY <2>1 DEF UpTo
  <2>2. CASE /\ i + c \in Owing(k) /\ Val(i)' = Val(i + c)
             /\ j + c \in Owing(k) /\ Val(j)' = Val(j + c)
    <3>1. i + c < j + c
      BY DEF Grows
    <3> QED
      BY <2>2, <3>1 DEF Ordered
  <2> QED
    BY <2>1, <2>2 DEF Grows
<1>6. \A q, s \in InFlight(k)' : q = s
  BY DEF Ordered
<1> QED
  BY <1>2, <1>3, <1>4, <1>5, <1>6 DEF Ordered

\* The first in line returns the oldest of the answers to come.
LEMMA OrderedReturned ==
    ASSUME CacheInv, NEW k \in Keys, Ordered(k), 1 \in Owing(k),
           InFlight(k)' \subseteq InFlight(k),
           UNCHANGED <<kind, version, cache, now>>,
           latest'[k] = IF Val(1) > latest[k] THEN Val(1) ELSE latest[k],
           \A i \in Owing(k)' : i \in Int /\ i >= 1 /\ i + 1 \in Owing(k) /\ Val(i)' = Val(i + 1)
    PROVE  Ordered(k)' /\ latest[k] <= Val(1)
<1>1. Val(1) \in Nat /\ latest[k] \in Nat
  BY OrderTypes
<1>2. latest[k] <= Val(1) /\ latest'[k] = Val(1)
  BY <1>1 DEF Ordered
<1>3. ASSUME NEW v, UpTo(k, v) PROVE UpTo(k, v)'
  BY <1>2, <1>3 DEF UpTo, Live
<1>4. \A i \in Owing(k)' : latest'[k] <= Val(i)'
  <2> SUFFICES ASSUME NEW i \in Owing(k)' PROVE Val(1) <= Val(i + 1)
    BY <1>2
  <2>1. 1 < i + 1
    OBVIOUS
  <2> QED
    BY <2>1 DEF Ordered
<1>5. \A i, j \in Owing(k)' : i < j => Val(i)' <= Val(j)'
  <2> SUFFICES ASSUME NEW i \in Owing(k)', NEW j \in Owing(k)', i < j
               PROVE  Val(i)' <= Val(j)'
    OBVIOUS
  <2>1. i + 1 < j + 1
    OBVIOUS
  <2> QED
    BY <2>1 DEF Ordered
<1>6. \A q \in InFlight(k)' : UpTo(k, version[q])'
  BY <1>3 DEF Ordered
<1>7. Live(k)' => UpTo(k, version[cache[k].from])'
  BY <1>3 DEF Ordered, Live
<1> QED
  BY <1>2, <1>4, <1>5, <1>6, <1>7 DEF Ordered, Live

\* A fetch is sent while no other goes on.
LEMMA OrderedSent ==
    ASSUME CacheInv, Sources, NEW r \in Requests, NEW k \in Keys, Ordered(k), NEW c \in Int,
           InFlight(k) = {}, InFlight(k)' \subseteq {r},
           pc[r] \in {"idle", "missed"}, version'[r] = origin,
           \A q \in Requests \ {r} : version'[q] = version[q],
           kind'[r] = "shared" => ~Live(k),
           UNCHANGED <<cache, now, latest>>,
           MovesUp(k, c)
    PROVE  Ordered(k)'
<1>1. \A i \in Owing(k) : Val(i) \in Nat /\ Val(i) <= origin
  BY OrderTypes DEF Val, Sources
<1>2. Live(k) => /\ cache[k].from \in Requests /\ version'[cache[k].from] = version[cache[k].from]
                 /\ version[cache[k].from] <= origin
  BY OrderTypes DEF Sources
<1>3. UpTo(k, version[r])'
  BY <1>1, <1>2 DEF UpTo, Live, Sources, MovesUp
<1>4. Live(k)' => UpTo(k, version[cache[k].from])'
  BY <1>2 DEF UpTo, Live, Ordered, MovesUp
<1>5. \A i, j \in Owing(k)' : i < j => Val(i)' <= Val(j)'
  <2> SUFFICES ASSUME NEW i \in Owing(k)', NEW j \in Owing(k)', i < j
               PROVE  Val(i)' <= Val(j)'
    OBVIOUS
  <2>1. i + c < j + c
    BY DEF MovesUp
  <2> QED
    BY <2>1 DEF Ordered, MovesUp
<1>6. \A i \in Owing(k)' : latest'[k] <= Val(i)'
  BY DEF Ordered, MovesUp
<1>7. /\ \A q, s \in InFlight(k)' : q = s
      /\ \A s \in InFlight(k)' : UpTo(k, version[s])'
      /\ \A s \in InFlight(k)' : kind'[s] = "shared" /\ Live(k)' => cache'[k].from = s
  BY <1>3 DEF Live
<1> QED
  BY <1>4, <1>5, <1>6, <1>7 DEF Ordered

\* Who is sent, or waits for a fetch, is nobody's source.
LEMMA NotASource ==
    ASSUME CacheInv, Sources, NEW r \in Requests, pc[r] \notin {"reading", "stored", "done"},
           NEW k \in Keys
    PROVE  /\ \A i \in Owing(k) : got[due[i]] # r
           /\ Live(k) => cache[k].from # r
BY OrderTypes, RequestFacts DEF Owing, Sources, OwnAnswer

\* The turns that are left when the first has had its own.
LEMMA TurnsLeft ==
    ASSUME CacheInv, 1 \in 1..Len(due), NEW again \in BOOLEAN,
           due' = IF again THEN Append(Without(1), due[1]) ELSE Without(1),
           UNCHANGED key, \A q \in Requests \ {due[1]} : pc'[q] = pc[q],
           NEW k \in Keys, NEW i \in Owing(k)'
    PROVE  /\ i \in Int /\ i >= 1
           /\ \/ /\ i < Len(due) /\ i + 1 \in Owing(k)
                 /\ due'[i] = due[i + 1] /\ due[i + 1] # due[1]
              \/ again /\ i = Len(due) /\ due'[i] = due[1]
<1>0. TypeOK /\ Line(due, pc) /\ Len(due) \in Nat /\ Len(due) >= 1
  BY DueTypes DEF CacheInv, TypeInv, LineInv
<1>1. /\ \A j \in 1..(Len(due) - 1) : j \in DOMAIN due' /\ due'[j] = due[j + 1]
      /\ again => Len(due) \in DOMAIN due' /\ due'[Len(due)] = due[1]
      /\ i \in 1..(Len(due) - 1) \/ (i = Len(due) /\ again)
  <2>1. CASE again
    BY <1>0, <2>1, FirstGone DEF Owing
  <2>2. CASE ~again
    <3>1. /\ Without(1) \in Seq(Requests) /\ Len(Without(1)) = Len(due) - 1
          /\ \A j \in 1..(Len(due) - 1) : Without(1)[j] = due[j + 1]
      BY <1>0, WithoutProperties DEF TypeOK
    <3>2. DOMAIN Without(1) = 1..(Len(due) - 1)
      BY <3>1, LenProperties
    <3> QED
      BY <1>0, <2>2, <3>1, <3>2 DEF Owing
  <2> QED
    BY <2>1, <2>2
<1>2. CASE i \in 1..(Len(due) - 1)
  <2>0. i + 1 \in 1..Len(due) /\ i + 1 # 1 /\ i \in Int /\ i >= 1
    BY <1>0, <1>2
  <2>1. i + 1 \in DOMAIN due /\ due'[i] = due[i + 1] /\ due[i + 1] \in Requests
    BY <1>0, <1>1, <1>2, <2>0, DueTypes
  <2>2. due[i + 1] # due[1]
    BY <1>0, <2>0, <2>1, DueTypes DEF Line
  <2>3. pc'[due[i + 1]] = pc[due[i + 1]]
    BY <2>1, <2>2
  <2> QED
    BY <1>0, <1>2, <2>0, <2>1, <2>2, <2>3 DEF Owing
<1>3. CASE i = Len(due) /\ again
  BY <1>0, <1>1, <1>3
<1> QED
  BY <1>1, <1>2, <1>3

\* The turns when r has lined up.
LEMMA TurnsAdded ==
    ASSUME CacheInv, NEW r \in Requests, pc[r] \notin Waiting, due' = Append(due, r),
           UNCHANGED key, \A q \in Requests \ {r} : pc'[q] = pc[q],
           NEW k \in Keys, NEW i \in Owing(k)'
    PROVE  /\ i \in Int
           /\ \/ i < Len(due) + 1 /\ i \in Owing(k) /\ due'[i] = due[i] /\ due[i] # r
              \/ i = Len(due) + 1 /\ due'[i] = r
<1>0. /\ due \in Seq(Requests) /\ Len(due) \in Nat /\ DOMAIN due = 1..Len(due)
      /\ \A j \in 1..Len(due) : due[j] \in Requests /\ due[j] # r
  BY DueTypes, RequestFacts DEF CacheInv, TypeInv
<1>1. /\ DOMAIN due' = 1..(Len(due) + 1)
      /\ \A j \in 1..Len(due) : due'[j] = due[j]
      /\ due'[Len(due) + 1] = r
  BY <1>0, AppendProperties, LenProperties
<1>2. i \in 1..Len(due) \/ i = Len(due) + 1
  BY <1>0, <1>1 DEF Owing
<1> QED
  BY <1>0, <1>1, <1>2 DEF Owing

\* Where no wrapper overlaps, a fetch is sent only when no other goes on.
LEMMA NoOtherFetch ==
    ASSUME CacheInv, NEW r \in Requests, key[r] \notin mixed', kind'[r] \in Kinds,
           mixed' = IF \E q \in InFlight(key[r]) : {kind'[r], kind[q]} # {"shared"}
                    THEN mixed \cup {key[r]} ELSE mixed,
           kind'[r] = "shared" => pending[key[r]] = None
    PROVE  InFlight(key[r]) = {}
<1> SUFFICES ASSUME NEW q \in InFlight(key[r]) PROVE FALSE
  OBVIOUS
<1>1. {kind'[r], kind[q]} = {"shared"}
  OBVIOUS
<1>2. kind'[r] = "shared" /\ kind[q] = "shared"
  BY <1>1
<1>3. q \in Requests /\ key[q] = key[r] /\ Fetching(q)
  BY <1>2 DEF InFlight, Fetching
<1> QED
  BY <1>2, <1>3, RequestFacts DEF OneFetchPerKey

\* What NeverBack allows.
Forward ==
    storage = "memory" =>
        \A r \in Requests :
            /\ pc[r] \in {"hit", "told", "stored"}
            /\ pc'[r] = "done"
            /\ key[r] \notin mixed
            => version[got[r]] >= latest[key[r]]

LEMMA ReturnOrdered ==
    ASSUME CacheInv, 1 \in 1..Len(due), Return(1) \/ Finish(1), NEW k \in Keys, Ordered(k)
    PROVE  Ordered(k)' /\ (key[due[1]] = k => latest[k] <= version[got[due[1]]])
<1> DEFINE r == due[1]
<1>1. /\ r \in Requests /\ pc \in [Requests -> Stages] /\ key \in [Requests -> Keys]
      /\ latest \in [Keys -> 0..MaxVersion] /\ OwnAnswer /\ 1 \in DOMAIN due
  BY RequestFacts, DueTypes DEF CacheInv, TypeInv
<1>2. /\ due' = Without(1) /\ UNCHANGED <<storage, cache, kind, key, got, version, now>>
      /\ pc[r] \in {"hit", "told", "stored"} /\ pc' = [pc EXCEPT ![r] = "done"]
      /\ latest' = [latest EXCEPT ![key[r]] = IF version[got[r]] > @ THEN version[got[r]] ELSE @]
  BY <1>1 DEF Return, Finish, Returned, OwnAnswer
<1>3. \A i \in Owing(k)' : i \in Int /\ i >= 1 /\ i + 1 \in Owing(k) /\ due'[i] = due[i + 1]
  BY <1>1, <1>2, TurnsLeft
<1>4. \A i \in Owing(k)' : Val(i)' = Val(i + 1)
  BY <1>2, <1>3 DEF Val
<1>5. InFlight(k)' \subseteq InFlight(k)
  BY <1>1, <1>2 DEF InFlight
<1> HIDE DEF r
<1>6. CASE key[r] = k
  <2>1. 1 \in Owing(k) /\ Val(1) = version[got[r]]
    BY <1>1, <1>2, <1>6 DEF Owing, Val, r
  <2>2. latest'[k] = IF Val(1) > latest[k] THEN Val(1) ELSE latest[k]
    BY <1>1, <1>2, <1>6, <2>1
  <2> QED
    BY <1>2, <1>3, <1>4, <1>5, <2>1, <2>2, OrderedReturned DEF r
<1>7. CASE key[r] # k
  <2>1. latest'[k] = latest[k]
    BY <1>1, <1>2, <1>7
  <2>2. MovesUp(k, 1) /\ 1 \in Int
    BY <1>3, <1>4 DEF MovesUp
  <2>3. /\ \A s \in InFlight(k)' : kind'[s] = kind[s] /\ version'[s] = version[s]
        /\ Live(k)' => /\ Live(k) /\ cache'[k] = cache[k]
                       /\ version'[cache[k].from] = version[cache[k].from]
    BY <1>2 DEF Live
  <2>4. Ordered(k)'
    BY <1>5, <2>1, <2>2, <2>3, OrderedKept
  <2> QED
    BY <1>7, <2>4 DEF r
<1> QED
  BY <1>6, <1>7

LEMMA FetchOrdered ==
    ASSUME CacheInv, Sources, MissedBefore, storage = "memory", 1 \in 1..Len(due), Fetch(1),
           NEW k \in Keys \ mixed', Ordered(k)
    PROVE  Ordered(k)'
<1> DEFINE r == due[1]
<1>1. /\ r \in Requests /\ pc \in [Requests -> Stages] /\ key \in [Requests -> Keys]
      /\ got \in [Requests -> Requests \cup {None}] /\ kind \in [Requests -> Kinds]
      /\ version \in [Requests -> 0..MaxVersion] /\ 1 \in DOMAIN due
  BY RequestFacts, DueTypes DEF CacheInv, TypeInv
<1>2. /\ due' = Without(1) /\ UNCHANGED <<storage, cache, kind, key, now, latest>>
      /\ pc[r] = "missed" /\ pc' = [pc EXCEPT ![r] = "flying"] /\ got' = [got EXCEPT ![r] = r]
      /\ version' = [version EXCEPT ![r] = origin]
      /\ mixed' = IF \E q \in InFlight(key[r]) : {kind'[r], kind[q]} # {"shared"}
                  THEN mixed \cup {key[r]} ELSE mixed
      /\ kind[r] = "shared" => pending[key[r]] = None
  BY DEF Fetch, Send
<1>3. \A i \in Owing(k)' : i \in Int /\ i + 1 \in Owing(k) /\ due'[i] = due[i + 1] /\ due[i + 1] # r
  BY <1>1, <1>2, TurnsLeft
<1>4. \A i \in Owing(k) : due[i] \in Requests /\ got[due[i]] \in Requests \ {r}
  BY <1>1, <1>2, OrderTypes, NotASource
<1> HIDE DEF r
<1>5. \A i \in Owing(k)' : Val(i)' = Val(i + 1)
  BY <1>1, <1>2, <1>3, <1>4 DEF Val
<1>6. CASE key[r] = k
  <2>1. InFlight(k) = {}
    BY <1>1, <1>2, <1>6, NoOtherFetch
  <2>2. InFlight(k)' \subseteq {r}
    BY <1>1, <1>2, <2>1 DEF InFlight
  <2>3. ~Live(k)
    <3> SUFFICES ASSUME Live(k) PROVE FALSE
      OBVIOUS
    <3>1. PICK j \in DOMAIN due : due[j] = cache[k].from /\ pc[due[j]] = "stored"
      BY <1>1, <1>2, <1>6 DEF MissedBefore, r
    <3>2. cache[k].from \in Requests /\ key[cache[k].from] = k
      BY OrderTypes DEF CacheInv, EntriesAnswered, Live
    <3> QED
      BY <2>1, <3>1, <3>2 DEF InFlight
  <2>4. MovesUp(k, 1) /\ 1 \in Int
    BY <1>3, <1>5 DEF MovesUp
  <2> QED
    BY <1>1, <1>2, <2>1, <2>2, <2>3, <2>4, OrderedSent
<1>7. CASE key[r] # k
  <2>1. InFlight(k)' \subseteq InFlight(k) /\ \A s \in InFlight(k)' : version'[s] = version[s]
    BY <1>1, <1>2, <1>7 DEF InFlight
  <2>2. Live(k) => version'[cache[k].from] = version[cache[k].from]
    BY <1>1, <1>2, OrderTypes, NotASource
  <2>3. Live(k)' => /\ Live(k) /\ cache'[k] = cache[k]
                    /\ version'[cache[k].from] = version[cache[k].from]
    BY <1>2, <2>2 DEF Live
  <2>4. /\ \A s \in InFlight(k)' : kind'[s] = kind[s] /\ version'[s] = version[s]
        /\ latest'[k] = latest[k]
        /\ MovesUp(k, 1)
    BY <1>2, <1>3, <1>5, <2>1 DEF MovesUp
  <2> QED
    BY <2>1, <2>3, <2>4, OrderedKept
<1> QED
  BY <1>6, <1>7

LEMMA JoinOrdered ==
    ASSUME CacheInv, CacheInv', 1 \in 1..Len(due), Join(1), NEW k \in Keys, Ordered(k)
    PROVE  Ordered(k)'
<1> DEFINE r == due[1]
           owner == pending[key[r]]
           again == pc[owner] # "flying"
<1>1. /\ r \in Requests /\ pc \in [Requests -> Stages] /\ key \in [Requests -> Keys]
      /\ got \in [Requests -> Requests \cup {None}] /\ version \in [Requests -> 0..MaxVersion]
      /\ MaxVersion \in Nat /\ Len(due) \in Nat
  BY RequestFacts, DueTypes DEF CacheInv, TypeInv
<1>2. /\ due' = IF again THEN Append(Without(1), r) ELSE Without(1)
      /\ UNCHANGED <<storage, cache, kind, key, version, now, latest>>
      /\ pc[r] = "missed" /\ owner # None
      /\ pc' = [pc EXCEPT ![r] = IF again THEN "told" ELSE "joined"]
      /\ got' = [got EXCEPT ![r] = owner]
  BY <1>1 DEF Join, worldVars
<1>3. owner \in Requests /\ Fetching(owner) /\ key[owner] = key[r]
  BY <1>1, <1>2, RequestFacts DEF OneFetchPerKey
<1>4. \A i \in Owing(k)' :
        /\ i \in Int
        /\ \/ /\ i < Len(due) /\ i + 1 \in Owing(k)
              /\ due'[i] = due[i + 1] /\ due[i + 1] # r
           \/ again /\ i = Len(due) /\ due'[i] = r
  <2>1. again \in BOOLEAN /\ \A q \in Requests \ {due[1]} : pc'[q] = pc[q]
    BY <1>1, <1>2
  <2> QED
    BY <1>2, <2>1, TurnsLeft
<1>5. \A i \in Owing(k) : due[i] \in Requests
  BY OrderTypes
<1> HIDE DEF r, owner, again
<1>6. \A i \in Owing(k)' :
        /\ i \in Int
        /\ \/ i < Len(due) /\ i + 1 \in Owing(k) /\ Val(i)' = Val(i + 1)
           \/ again /\ i = Len(due) /\ Val(i)' = version[owner] /\ key[r] = k
  BY <1>1, <1>2, <1>4, <1>5 DEF Val, Owing
<1>7. InFlight(k)' \subseteq InFlight(k)
  BY <1>1, <1>2 DEF InFlight
<1>8. CASE again /\ key[r] = k
  <2>1. owner \in InFlight(k) /\ kind[owner] = "shared" /\ version[owner] \in Nat
    BY <1>1, <1>3, <1>8 DEF InFlight, Fetching
  <2>2. /\ UpTo(k, version[owner]) /\ \A s \in InFlight(k) : s = owner
        /\ Live(k) => cache[k].from = owner
    BY <2>1 DEF Ordered
  <2>3. version[owner] <= version[owner]
    BY <2>1
  <2>4. /\ Live(k)' => version'[cache'[k].from] = version[owner]
        /\ \A s \in InFlight(k)' : kind[s] = "shared" /\ Live(k)' => cache'[k].from = s
        /\ \A s \in InFlight(k) : version[owner] <= version[s]
    BY <1>2, <1>7, <2>2, <2>3 DEF Live
  <2>5. Grows(k, 1, Len(due), version[owner])
    BY <1>6 DEF Grows
  <2>6. /\ \A s \in InFlight(k)' : kind'[s] = kind[s] /\ version'[s] = version[s]
        /\ latest'[k] = latest[k] /\ Len(due) \in Int
    BY <1>1, <1>2
  <2> QED
    BY <1>7, <2>1, <2>2, <2>4, <2>5, <2>6, OrderedGrown
<1>9. CASE ~(again /\ key[r] = k)
  <2>1. MovesUp(k, 1)
    BY <1>6, <1>9 DEF MovesUp
  <2>2. Live(k)' => /\ Live(k) /\ cache'[k] = cache[k]
                    /\ version'[cache[k].from] = version[cache[k].from]
    BY <1>2 DEF Live
  <2>3. /\ \A s \in InFlight(k)' : kind'[s] = kind[s] /\ version'[s] = version[s]
        /\ latest'[k] = latest[k]
    BY <1>2
  <2> QED
    BY <1>7, <2>1, <2>2, <2>3, OrderedKept
<1> QED
  BY <1>8, <1>9

LEMMA LookOrdered ==
    ASSUME CacheInv, CacheInv', NEW r \in Requests, NEW how \in {"shared", "plain"}, Look(r, how),
           storage = "memory", NEW k \in Keys, Ordered(k)
    PROVE  Ordered(k)'
<1>1. /\ pc \in [Requests -> Stages] /\ kind \in [Requests -> Kinds]
      /\ key \in [Requests -> Keys] /\ got \in [Requests -> Requests \cup {None}]
      /\ cache \in [Keys -> Entries \cup {None}] /\ Len(due) \in Nat
  BY RequestFacts, DueTypes DEF CacheInv, TypeInv, TypeOK
<1>2. /\ pc[r] = "idle" /\ due' = Append(due, r) /\ UNCHANGED <<key, version, now, latest>>
      /\ \A q \in Requests \ {r} : pc'[q] = pc[q] /\ got'[q] = got[q] /\ kind'[q] = kind[q]
      /\ IF Live(key[r]) THEN pc'[r] = "hit" /\ got'[r] = cache[key[r]].from /\ cache' = cache
                         ELSE pc'[r] = "missed" /\ cache' = [cache EXCEPT ![key[r]] = None]
  BY <1>1 DEF Look, Found, Live, worldVars
<1>3. /\ InFlight(k)' \subseteq InFlight(k)
      /\ \A s \in InFlight(k)' : kind'[s] = kind[s] /\ version'[s] = version[s]
  BY <1>1, <1>2 DEF InFlight
<1>4. \A i \in Owing(k)' :
        /\ i \in Int
        /\ \/ i < Len(due) + 1 /\ i \in Owing(k) /\ due'[i] = due[i] /\ due[i] # r
           \/ i = Len(due) + 1 /\ due'[i] = r
  BY <1>2, TurnsAdded DEF Waiting
<1>5. \A i \in Owing(k) : due[i] \in Requests
  BY OrderTypes
<1>6. CASE Live(k) /\ key[r] = k
  <2> DEFINE v == version[cache[k].from]
  <2>1. v \in Nat /\ UpTo(k, v) /\ \A s \in InFlight(k) : v <= version[s]
    BY <1>6, OrderTypes DEF Ordered, UpTo
  <2>2. cache' = cache /\ got'[r] = cache[k].from
    BY <1>2, <1>6
  <2>3. \A i \in Owing(k)' :
          /\ i \in Int
          /\ \/ i < Len(due) + 1 /\ i \in Owing(k) /\ Val(i)' = Val(i)
             \/ i = Len(due) + 1 /\ Val(i)' = v
    <3> SUFFICES ASSUME NEW i \in Owing(k)'
                 PROVE  /\ i \in Owing(k) /\ due'[i] = due[i] /\ due[i] # r => Val(i)' = Val(i)
                        /\ due'[i] = r => Val(i)' = v
      BY <1>4
    <3> QED
      BY <1>2, <1>5, <2>2 DEF Val
  <2>4. /\ Live(k)' => version'[cache'[k].from] = v
        /\ \A s \in InFlight(k)' : kind[s] = "shared" /\ Live(k)' => cache'[k].from = s
    BY <1>2, <1>3, <1>6, <2>2 DEF Ordered
  <2> HIDE DEF v
  <2>5. Grows(k, 0, Len(due) + 1, v)
    <3>1. \A i \in Int : i + 0 = i
      OBVIOUS
    <3> QED
      BY <2>3, <3>1 DEF Grows
  <2>6. latest'[k] = latest[k] /\ 0 \in Int /\ Len(due) + 1 \in Int
    BY <1>1, <1>2
  <2> QED
    BY <1>3, <2>1, <2>4, <2>5, <2>6, OrderedGrown
<1>7. CASE ~(Live(k) /\ key[r] = k)
  <2>1. MovesUp(k, 0)
    BY <1>1, <1>2, <1>4, <1>5, <1>7 DEF Val, Owing, MovesUp
  <2>2. Live(k)' => /\ Live(k) /\ cache'[k] = cache[k]
                    /\ version'[cache[k].from] = version[cache[k].from]
    BY <1>1, <1>2, <1>7 DEF Live
  <2>3. latest'[k] = latest[k] /\ 0 \in Int
    BY <1>2
  <2> QED
    BY <1>3, <2>1, <2>2, <2>3, OrderedKept
<1> QED
  BY <1>6, <1>7

LEMMA RefreshOrdered ==
    ASSUME CacheInv, Sources, NEW r \in Requests, Refresh(r), NEW k \in Keys \ mixed', Ordered(k)
    PROVE  Ordered(k)'
<1>1. /\ pc \in [Requests -> Stages] /\ kind \in [Requests -> Kinds]
      /\ key \in [Requests -> Keys] /\ got \in [Requests -> Requests \cup {None}]
      /\ version \in [Requests -> 0..MaxVersion]
  BY RequestFacts
<1>2. /\ pc[r] = "idle" /\ UNCHANGED <<due, key, cache, now, latest>>
      /\ pc' = [pc EXCEPT ![r] = "flying"] /\ got' = [got EXCEPT ![r] = r]
      /\ kind' = [kind EXCEPT ![r] = "forced"] /\ version' = [version EXCEPT ![r] = origin]
      /\ mixed' = IF \E q \in InFlight(key[r]) : {kind'[r], kind[q]} # {"shared"}
                  THEN mixed \cup {key[r]} ELSE mixed
  BY DEF Refresh, Send, cacheVars
<1>3. \A i \in Owing(k) : /\ i \in Int /\ due[i] \in Requests /\ got[due[i]] \in Requests \ {r}
                          /\ due[i] # r
  <2>1. \A i \in Owing(k) : due[i] \in Requests /\ got[due[i]] \in Requests \ {r}
    BY <1>2, OrderTypes, NotASource
  <2>2. \A i \in Owing(k) : i \in DOMAIN due /\ due[i] # r
    BY <1>2 DEF Owing
  <2> QED
    BY <2>1, <2>2, OrderTypes, DueTypes
<1>4. MovesUp(k, 0)
  BY <1>1, <1>2, <1>3 DEF Owing, Val, MovesUp
<1>5. CASE key[r] = k
  <2>1. InFlight(k) = {}
    BY <1>1, <1>2, <1>5, NoOtherFetch DEF Kinds
  <2>2. InFlight(k)' \subseteq {r}
    BY <1>1, <1>2, <2>1 DEF InFlight
  <2> QED
    BY <1>1, <1>2, <1>4, <2>1, <2>2, OrderedSent
<1>6. CASE key[r] # k
  <2>1. /\ InFlight(k)' \subseteq InFlight(k)
        /\ \A s \in InFlight(k)' : kind'[s] = kind[s] /\ version'[s] = version[s]
    BY <1>1, <1>2, <1>6 DEF InFlight
  <2>2. Live(k)' => /\ Live(k) /\ cache'[k] = cache[k]
                    /\ version'[cache[k].from] = version[cache[k].from]
    BY <1>1, <1>2, OrderTypes, NotASource DEF Live
  <2> QED
    BY <1>2, <1>4, <2>1, <2>2, OrderedKept
<1> QED
  BY <1>5, <1>6

LEMMA AnswerOrdered ==
    ASSUME CacheInv, storage = "memory", NEW r \in Requests, NEW v \in 0..MaxVersion, Answer(r, v),
           NEW k \in Keys, Ordered(k)
    PROVE  Ordered(k)'
<1>1. /\ pc \in [Requests -> Stages] /\ version \in [Requests -> 0..MaxVersion]
      /\ key \in [Requests -> Keys] /\ NobodyStranded /\ MaxVersion \in Nat
      /\ v \in Nat /\ latest[k] \in Nat /\ version[r] \in Nat
  BY RequestFacts, OrderTypes DEF CacheInv, FetchInv
<1>2. /\ pc[r] = "flying" /\ due = << >> /\ version' = [version EXCEPT ![r] = v]
      /\ version[r] <= v /\ UNCHANGED <<cache, kind, key, got, now, latest>>
      /\ pc'[r] = "reading"
      /\ \A q \in Requests \ {r} : pc'[q] = IF q \in Joined(r) THEN "told" ELSE pc[q]
  BY <1>1, OrderTypes DEF Answer, Quiet, Settles, worldVars
<1>3. \A i \in DOMAIN due' : due'[i] \in Joined(r)
  BY <1>2, JoinedLine DEF Answer
<1>4. \A i \in Owing(k)' : /\ key[r] = k /\ kind[r] = "shared" /\ Val(i)' = v
  BY <1>1, <1>2, <1>3 DEF Owing, Val, Joined, NobodyStranded, Fetching
<1>5. InFlight(k)' \subseteq InFlight(k)
  BY <1>1, <1>2 DEF InFlight, Joined
<1>6. Live(k) => /\ cache[k].from \in Requests \ {r} /\ version[cache[k].from] \in Nat
                 /\ version'[cache[k].from] = version[cache[k].from]
  BY <1>1, <1>2, OrderTypes
<1>7. Live(k)' <=> Live(k)
  BY <1>2 DEF Live
<1>8. CASE key[r] = k
  <2>1. r \in InFlight(k) /\ InFlight(k)' \subseteq {r}
    BY <1>2, <1>5, <1>8 DEF InFlight, Ordered
  <2>2. UpTo(k, version[r])
    BY <2>1 DEF Ordered
  <2>3. latest[k] <= v /\ (Live(k) => version[cache[k].from] <= v)
    BY <1>1, <1>2, <1>6, <2>2 DEF UpTo
  <2>4. version'[r] = v /\ UpTo(k, version[r])'
    BY <1>1, <1>2, <1>4, <1>6, <1>7, <2>3 DEF UpTo
  <2>5. Live(k)' => UpTo(k, version[cache[k].from])'
    <3> SUFFICES ASSUME Live(k) PROVE UpTo(k, version[cache[k].from])'
      BY <1>7
    <3>1. kind[r] # "shared"
      BY <1>6, <2>1 DEF Ordered
    <3>2. /\ Owing(k)' = {} /\ latest[k] <= version[cache[k].from]
          /\ version[cache[k].from] <= version[cache[k].from]
      BY <1>4, <1>6, <3>1 DEF Ordered, UpTo
    <3> QED
      BY <1>2, <1>6, <3>2 DEF UpTo
  <2>6. \A s \in InFlight(k)' : kind'[s] = "shared" /\ Live(k)' => cache'[k].from = s
    BY <1>2, <1>7, <2>1 DEF Ordered
  <2>7. /\ \A i \in Owing(k)' : latest'[k] <= Val(i)'
        /\ \A i, j \in Owing(k)' : i < j => Val(i)' <= Val(j)'
    BY <1>1, <1>2, <1>4, <2>3
  <2>8. /\ \A q, s \in InFlight(k)' : q = s
        /\ \A s \in InFlight(k)' : UpTo(k, version[s])'
    BY <2>1, <2>4
  <2> QED
    BY <2>5, <2>6, <2>7, <2>8 DEF Ordered
<1>9. CASE key[r] # k
  <2>1. MovesUp(k, 0)
    BY <1>4, <1>9 DEF MovesUp
  <2>2. Live(k)' => /\ Live(k) /\ cache'[k] = cache[k]
                    /\ version'[cache[k].from] = version[cache[k].from]
    BY <1>2, <1>6, <1>7
  <2>3. /\ \A s \in InFlight(k)' : kind'[s] = kind[s] /\ version'[s] = version[s]
        /\ latest'[k] = latest[k] /\ 0 \in Int
    BY <1>1, <1>2, <1>9 DEF InFlight
  <2> QED
    BY <1>5, <2>1, <2>2, <2>3, OrderedKept
<1> QED
  BY <1>8, <1>9

LEMMA StoreOrdered ==
    ASSUME CacheInv, CacheInv', NEW r \in Requests, Store(r), NEW k \in Keys, Ordered(k)
    PROVE  Ordered(k)'
<1>1. /\ pc \in [Requests -> Stages] /\ key \in [Requests -> Keys] /\ OwnAnswer /\ TypeOK
      /\ cache \in [Keys -> Entries \cup {None}] /\ answered[r] \in 0..MaxTime
      /\ Len(due) \in Nat /\ version[r] \in Nat
  BY RequestFacts, DueTypes, OrderTypes DEF TypeOK
<1>2. PICK entry \in Entries : entry.from = r /\ Put(key[r], entry)
  BY <1>1, PutsEntry DEF Store
<1>3. /\ pc[r] = "reading" /\ pc' = [pc EXCEPT ![r] = "stored"]
      /\ due' = Append(due, r) /\ UNCHANGED <<key, kind, got, version, now, latest>>
  BY DEF Store, worldVars
<1>4. cache'[key[r]] = entry /\ \A h \in Keys \ {key[r]} : cache'[h] \in {cache[h], None}
  BY <1>1, <1>2, <1>3, PutType
<1>5. /\ InFlight(k)' \subseteq InFlight(k)
      /\ \A s \in InFlight(k)' : kind'[s] = kind[s] /\ version'[s] = version[s]
      /\ latest'[k] = latest[k] /\ 0 \in Int /\ Len(due) + 1 \in Int
  BY <1>1, <1>3 DEF InFlight
<1>6. \A i \in Owing(k)' :
        /\ i \in Int
        /\ \/ i < Len(due) + 1 /\ i \in Owing(k) /\ due'[i] = due[i] /\ due[i] # r
           \/ i = Len(due) + 1 /\ due'[i] = r
  <2>1. \A q \in Requests \ {r} : pc'[q] = pc[q]
    BY <1>1, <1>3
  <2> QED
    BY <1>3, <2>1, TurnsAdded DEF Waiting
<1>7. \A i \in Owing(k)' :
        /\ i \in Int
        /\ \/ i < Len(due) + 1 /\ i + 0 \in Owing(k) /\ Val(i)' = Val(i + 0)
           \/ i = Len(due) + 1 /\ Val(i)' = version[r] /\ key[r] = k
  BY <1>1, <1>3, <1>6 DEF Val, Owing, OwnAnswer
<1>8. CASE key[r] = k
  <2>1. r \in InFlight(k)
    BY <1>3, <1>8 DEF InFlight
  <2>2. UpTo(k, version[r]) /\ \A s \in InFlight(k) : s = r /\ version[r] <= version[s]
    BY <1>1, <2>1 DEF Ordered
  <2>3. /\ Live(k)' => version'[cache'[k].from] = version[r]
        /\ \A s \in InFlight(k)' : kind[s] = "shared" /\ Live(k)' => cache'[k].from = s
    BY <1>2, <1>3, <1>4, <1>5, <1>8, <2>2
  <2>4. Grows(k, 0, Len(due) + 1, version[r])
    BY <1>7 DEF Grows
  <2> QED
    BY <1>1, <1>5, <2>2, <2>3, <2>4, OrderedGrown
<1>9. CASE key[r] # k
  <2>1. MovesUp(k, 0)
    BY <1>1, <1>7, <1>9 DEF MovesUp
  <2>2. cache'[k] \in {cache[k], None} /\ now' \in {now, now + 1}
    BY <1>3, <1>4, <1>9
  <2>3. Live(k)' => /\ Live(k) /\ cache'[k] = cache[k]
                    /\ version'[cache[k].from] = version[cache[k].from]
    BY <1>1, <1>3, <2>2, LiveKept
  <2> QED
    BY <1>5, <2>1, <2>3, OrderedKept
<1> QED
  BY <1>8, <1>9

\* The line stays as it is; entries and requests may be given up.
LEMMA StillOrdered ==
    ASSUME CacheInv, NEW k \in Keys, Ordered(k), UNCHANGED <<due, key, got, version, latest>>,
           \A q \in Requests :
               /\ pc'[q] = pc[q] \/ (pc[q] \notin Waiting /\ pc'[q] = "done")
               /\ kind'[q] = kind[q] \/ pc[q] = "idle",
           cache'[k] \in {cache[k], None}, now' \in {now, now + 1}
    PROVE  Ordered(k)'
<1>1. TypeOK /\ \A i \in DOMAIN due : i \in Int /\ due[i] \in Requests /\ pc[due[i]] \in Waiting
  BY RequestFacts, DueTypes DEF CacheInv, TypeInv
<1>2. MovesUp(k, 0)
  BY <1>1 DEF Owing, Val, Waiting, MovesUp
<1>3. /\ InFlight(k)' \subseteq InFlight(k)
      /\ \A s \in InFlight(k)' : kind'[s] = kind[s] /\ version'[s] = version[s]
  BY DEF InFlight
<1>4. Live(k)' => /\ Live(k) /\ cache'[k] = cache[k]
                  /\ version'[cache[k].from] = version[cache[k].from]
  BY <1>1, LiveKept
<1>5. latest'[k] = latest[k] /\ 0 \in Int
  OBVIOUS
<1> QED
  BY <1>2, <1>3, <1>4, <1>5, OrderedKept

LEMMA ContinueNewest ==
    ASSUME CacheInv, CacheInv', Sources, MissedBefore, NewestLast,
           NEW i \in 1..Len(due), Continue(i)
    PROVE  NewestLast' /\ Forward
<1> SUFFICES ASSUME storage = "memory" PROVE NewestLast' /\ Forward
  BY DEF Continue, Return, Fetch, Join, Finish, NewestLast, Forward
<1>1. i = 1 /\ 1 \in 1..Len(due)
  BY DEF Continue, Return, Fetch, Join, Finish, Runs
<1>2. /\ pc \in [Requests -> Stages] /\ key \in [Requests -> Keys] /\ due[1] \in Requests
      /\ \A r \in Requests : version[r] \in Nat
      /\ \A k \in Keys : latest[k] \in Nat
      /\ \A r \in Requests : pc[r] \in {"hit", "told", "stored"} => got[r] \in Requests
  BY <1>1, RequestFacts, OrderTypes DEF KnowsAnswer, OwnAnswer
<1>3. CASE Return(1) \/ Finish(1)
  <2>1. mixed' = mixed /\ pc' = [pc EXCEPT ![due[1]] = "done"]
    BY <1>3 DEF Return, Finish
  <2>2. ASSUME NEW k \in Keys \ mixed
        PROVE  Ordered(k)' /\ (key[due[1]] = k => latest[k] <= version[got[due[1]]])
    BY <1>1, <1>3, <2>2, ReturnOrdered DEF NewestLast
  <2>3. Forward
    <3> SUFFICES ASSUME NEW r \in Requests, pc[r] \in {"hit", "told", "stored"}, pc'[r] = "done",
                        key[r] \notin mixed
                 PROVE  version[got[r]] >= latest[key[r]]
      BY DEF Forward
    <3>1. r = due[1] /\ key[r] \in Keys \ mixed
      BY <1>2, <2>1
    <3>2. latest[key[r]] <= version[got[r]]
      BY <2>2, <3>1
    <3> QED
      BY <1>2, <3>1, <3>2
  <2> QED
    BY <2>1, <2>2, <2>3 DEF NewestLast
<1>4. CASE Fetch(1)
  <2>1. mixed \subseteq mixed' /\ \A r \in Requests : pc'[r] = "done" => pc[r] = "done"
    BY <1>2, <1>4 DEF Fetch, Send
  <2>2. \A k \in Keys \ mixed' : Ordered(k)'
    BY <1>1, <1>4, <2>1, FetchOrdered DEF NewestLast
  <2> QED
    BY <2>1, <2>2 DEF NewestLast, Forward
<1>5. CASE Join(1)
  <2>1. mixed' = mixed /\ \A r \in Requests : pc'[r] = "done" => pc[r] = "done"
    BY <1>2, <1>5 DEF Join, worldVars
  <2>2. \A k \in Keys \ mixed : Ordered(k)'
    BY <1>1, <1>5, JoinOrdered DEF NewestLast
  <2> QED
    BY <2>1, <2>2 DEF NewestLast, Forward
<1> QED
  BY <1>1, <1>3, <1>4, <1>5 DEF Continue

LEMMA NetworkNewest ==
    ASSUME CacheInv, CacheInv', NewestLast, NEW r \in Requests, Network(r)
    PROVE  NewestLast' /\ Forward
<1> SUFFICES ASSUME storage = "memory" PROVE NewestLast' /\ Forward
  BY DEF Network, Answer, AnswerFails, Store, StoreFails, NewestLast, Forward
<1>1. pc \in [Requests -> Stages]
  BY RequestFacts
<1>2. /\ mixed' = mixed
      /\ \A q \in Requests : pc'[q] = "done" => pc[q] \notin {"hit", "told", "stored"}
  BY <1>1 DEF Network, Answer, AnswerFails, Store, StoreFails, Settles, Joined, worldVars
<1>3. Forward
  BY <1>2 DEF Forward
<1>4. ASSUME NEW k \in Keys \ mixed PROVE Ordered(k)'
  <2>1. Ordered(k)
    BY DEF NewestLast
  <2>2. CASE AnswerFails(r)
    <3>1. /\ UNCHANGED <<due, key, got, version, latest, kind, cache, now>>
          /\ \A q \in Requests : pc'[q] = pc[q] \/ (pc[q] \notin Waiting /\ pc'[q] = "done")
      BY <1>1, <2>2 DEF AnswerFails, Settles, Joined, Waiting, worldVars
    <3> QED
      BY <2>1, <3>1, StillOrdered
  <2> QED
    BY <2>1, <2>2, AnswerOrdered, StoreOrdered DEF Network, StoreFails
<1> QED
  BY <1>2, <1>3, <1>4 DEF NewestLast

LEMMA NewestStep ==
    ASSUME CacheInv, CacheInv', Sources, MissedBefore, NewestLast, [Next]_vars
    PROVE  NewestLast' /\ Forward
<1>1. pc \in [Requests -> Stages] /\ kind \in [Requests -> Kinds]
  BY RequestFacts
<1>2. ASSUME UNCHANGED <<storage, mixed>>,
             \A q \in Requests : pc'[q] = "done" => pc[q] \notin {"hit", "told", "stored"} \/ pc'[q] = pc[q],
             storage = "memory" => \A k \in Keys \ mixed : Ordered(k) => Ordered(k)'
      PROVE  NewestLast' /\ Forward
  BY <1>2 DEF NewestLast, Forward
<1>3. ASSUME UNCHANGED <<storage, mixed, due, key, got, version, latest>>,
             \A q \in Requests :
                 /\ pc'[q] = pc[q] \/ (pc[q] \notin Waiting /\ pc'[q] = "done")
                 /\ kind'[q] = kind[q] \/ pc[q] = "idle",
             \A k \in Keys : cache'[k] \in {cache[k], None},
             now' \in {now, now + 1}
      PROVE  NewestLast' /\ Forward
  <2>1. \A q \in Requests : pc'[q] = "done" => pc[q] \notin {"hit", "told", "stored"} \/ pc'[q] = pc[q]
    BY <1>3 DEF Waiting
  <2>2. \A k \in Keys \ mixed : Ordered(k) => Ordered(k)'
    BY <1>3, StillOrdered
  <2> QED
    BY <1>2, <1>3, <2>1, <2>2
<1>4. ASSUME NEW r \in Requests, Refresh(r) PROVE NewestLast' /\ Forward
  <2>1. /\ storage' = storage /\ mixed \subseteq mixed'
        /\ \A q \in Requests : pc'[q] = "done" => pc[q] = "done"
    BY <1>1, <1>4 DEF Refresh, Send, cacheVars
  <2>2. storage = "memory" => \A k \in Keys \ mixed' : Ordered(k)'
    BY <1>4, <2>1, RefreshOrdered DEF NewestLast
  <2> QED
    BY <2>1, <2>2 DEF NewestLast, Forward
<1>5. ASSUME NEW r \in Requests, NEW how \in {"shared", "plain"}, Look(r, how)
      PROVE  NewestLast' /\ Forward
  <2>1. UNCHANGED <<storage, mixed>> /\ \A q \in Requests : pc'[q] = "done" => pc[q] = "done"
    BY <1>1, <1>5 DEF Look, worldVars
  <2>2. storage = "memory" => \A k \in Keys \ mixed : Ordered(k) => Ordered(k)'
    BY <1>5, LookOrdered
  <2> QED
    BY <1>2, <2>1, <2>2
<1>6. ASSUME NEW r \in Requests, NEW how \in {"shared", "plain"}, LookFails(r, how)
      PROVE  NewestLast' /\ Forward
  <2>1. /\ UNCHANGED <<storage, mixed, due, key, got, version, latest, cache, now>>
        /\ \A q \in Requests :
              /\ pc'[q] = pc[q] \/ (pc[q] \notin Waiting /\ pc'[q] = "done")
              /\ kind'[q] = kind[q] \/ pc[q] = "idle"
    BY <1>1, <1>6 DEF LookFails, cacheVars, worldVars, Waiting
  <2> QED
    BY <1>3, <2>1
<1>7. ASSUME NEW ks \in SUBSET Keys, Remove(ks) PROVE NewestLast' /\ Forward
  BY <1>3, <1>7 DEF Remove, requestVars, worldVars
<1>8. CASE Cleanup
  BY <1>3, <1>8 DEF Cleanup, requestVars, worldVars
<1>9. CASE Tick \/ OriginChanges \/ UNCHANGED vars
  BY <1>3, <1>9 DEF Tick, OriginChanges, vars, cacheVars, requestVars, worldVars
<1> QED
  BY <1>4, <1>5, <1>6, <1>7, <1>8, <1>9, ContinueNewest, NetworkNewest DEF Next

\* Over the memory storage, what callers get for a key is never older than what a caller
\* got before, unless a wrapper's fetch of the key overlapped another fetch: until then
\* there is one fetch at a time, and what is to be returned, found in the cache or
\* fetched gets newer in that order.
THEOREM NothingGoesBack == Spec => NeverBack
<1>1. NeverBack <=> [][Forward]_vars
  BY PTL DEF NeverBack, Forward
<1>2. CacheInv /\ CacheInv' /\ Sources /\ MissedBefore /\ NewestLast /\ [Next]_vars
        => NewestLast' /\ Forward
  BY NewestStep
<1> QED
  BY <1>1, <1>2, CacheInit, CacheStep, MissedInit, MissedStep, SourcesInit, SourcesStep,
     NewestInit, PTL DEF Spec

\* A key is mixed because a wrapper has asked for it.
OverlapInv ==
    \A k \in mixed : \E r \in Requests : key[r] = k /\ pc[r] # "idle" /\ kind[r] # "shared"

LEMMA OverlapInit == Init => OverlapInv
BY DEF Init, OverlapInv

\* A request keeps its key and its kind, and is never idle again.
Lasting ==
    /\ key' = key
    /\ \A r \in Requests : pc[r] # "idle" => pc'[r] # "idle" /\ kind'[r] = kind[r]

LEMMA OverlapSent ==
    ASSUME CacheInv, OverlapInv, Lasting, NEW r \in Requests, pc[r] \in {"idle", "missed"},
           pc'[r] = "flying",
           mixed' = IF \E q \in InFlight(key[r]) : {kind'[r], kind[q]} # {"shared"}
                    THEN mixed \cup {key[r]} ELSE mixed
    PROVE  OverlapInv'
<1>1. ASSUME NEW k \in mixed
      PROVE  \E q \in Requests : key'[q] = k /\ pc'[q] # "idle" /\ kind'[q] # "shared"
  BY <1>1 DEF OverlapInv, Lasting
<1>2. ASSUME NEW q \in InFlight(key[r]), {kind'[r], kind[q]} # {"shared"}
      PROVE  \E s \in Requests : key'[s] = key[r] /\ pc'[s] # "idle" /\ kind'[s] # "shared"
  <2>1. kind'[r] # "shared" \/ kind[q] # "shared"
    BY <1>2
  <2>2. q \in Requests /\ key[q] = key[r] /\ pc[q] # "idle"
    BY DEF InFlight
  <2>3. key' = key /\ pc'[q] # "idle" /\ kind'[q] = kind[q]
    BY <2>2 DEF Lasting
  <2> QED
    BY <2>1, <2>2, <2>3
<1> QED
  BY <1>1, <1>2 DEF OverlapInv

LEMMA OverlapStep == CacheInv /\ OverlapInv /\ [Next]_vars => OverlapInv'
<1> SUFFICES ASSUME CacheInv, OverlapInv, [Next]_vars PROVE OverlapInv'
  OBVIOUS
<1>0. /\ pc \in [Requests -> Stages] /\ kind \in [Requests -> Kinds]
      /\ \A i \in 1..Len(due) : due[i] \in Requests
  BY RequestFacts
<1>1. ASSUME Lasting, mixed' = mixed PROVE OverlapInv'
  BY <1>1 DEF OverlapInv, Lasting
<1>2. ASSUME NEW r \in Requests, Refresh(r) PROVE OverlapInv'
  <2>1. /\ Lasting /\ pc[r] = "idle" /\ pc'[r] = "flying"
        /\ mixed' = IF \E q \in InFlight(key[r]) : {kind'[r], kind[q]} # {"shared"}
                    THEN mixed \cup {key[r]} ELSE mixed
    BY <1>0, <1>2 DEF Refresh, Send, Lasting
  <2> QED
    BY <2>1, OverlapSent
<1>3. ASSUME NEW r \in Requests, NEW how \in {"shared", "plain"}, Look(r, how) \/ LookFails(r, how)
      PROVE  OverlapInv'
  <2>1. Lasting /\ mixed' = mixed
    BY <1>0, <1>3 DEF Look, LookFails, Lasting, worldVars
  <2> QED
    BY <1>1, <2>1
<1>4. ASSUME NEW i \in 1..Len(due), Fetch(i) PROVE OverlapInv'
  <2> DEFINE r == due[i]
  <2>1. /\ pc[r] = "missed" /\ pc' = [pc EXCEPT ![r] = "flying"] /\ UNCHANGED <<key, kind>>
        /\ mixed' = IF \E q \in InFlight(key[r]) : {kind'[r], kind[q]} # {"shared"}
                    THEN mixed \cup {key[r]} ELSE mixed
    BY <1>4 DEF Fetch, Send
  <2>2. r \in Requests
    BY <1>0
  <2> HIDE DEF r
  <2>3. Lasting /\ pc'[r] = "flying"
    BY <1>0, <2>1, <2>2 DEF Lasting
  <2> QED
    BY <2>1, <2>2, <2>3, OverlapSent
<1>5. ASSUME NEW i \in 1..Len(due), Return(i) \/ Join(i) \/ Finish(i) PROVE OverlapInv'
  <2> DEFINE r == due[i]
  <2>1. /\ mixed' = mixed /\ UNCHANGED <<key, kind>>
        /\ \E stage \in {"done", "joined", "told"} : pc' = [pc EXCEPT ![r] = stage]
    BY <1>5 DEF Return, Join, Finish, worldVars
  <2>2. r \in Requests
    BY <1>0
  <2> HIDE DEF r
  <2>3. Lasting
    BY <1>0, <2>1, <2>2 DEF Lasting
  <2> QED
    BY <1>1, <2>1, <2>3
<1>6. ASSUME NEW r \in Requests, Network(r) PROVE OverlapInv'
  <2>1. Lasting /\ mixed' = mixed
    BY <1>0, <1>6
    DEF Network, Answer, AnswerFails, Store, StoreFails, Settles, Joined, Lasting, worldVars
  <2> QED
    BY <1>1, <2>1
<1>7. ASSUME UNCHANGED <<pc, key, kind, mixed>> PROVE OverlapInv'
  BY <1>1, <1>7 DEF Lasting
<1>8. ASSUME NEW ks \in SUBSET Keys, Remove(ks) PROVE OverlapInv'
  BY <1>7, <1>8 DEF Remove, requestVars, worldVars
<1>9. CASE Cleanup \/ Tick \/ OriginChanges \/ UNCHANGED vars
  BY <1>7, <1>9 DEF Cleanup, Tick, OriginChanges, vars, requestVars, worldVars
<1> QED
  BY <1>2, <1>3, <1>4, <1>5, <1>6, <1>8, <1>9 DEF Next, Continue

\* Only getOrFetch has been used for the key of r.
OnlyShared(r) ==
    \A q \in Requests : key[q] = key[r] /\ pc[q] # "idle" => kind[q] = "shared"

SharedForward ==
    storage = "memory" =>
        \A r \in Requests :
            /\ pc[r] \in {"hit", "told", "stored"}
            /\ pc'[r] = "done"
            /\ OnlyShared(r)
            => version[got[r]] >= latest[key[r]]

\* Over the memory storage, callers that all use getOrFetch never get a version of a key
\* that is older than one a caller got before, without any condition on how their
\* requests overlap.
THEOREM SharedNeverGoesBack == Spec => [][SharedForward]_vars
<1>1. CacheInv /\ CacheInv' /\ Sources /\ MissedBefore /\ NewestLast /\ [Next]_vars
        => NewestLast' /\ Forward
  BY NewestStep
<1>2. OverlapInv /\ Forward => SharedForward
  BY DEF OverlapInv, Forward, SharedForward, OnlyShared
<1>3. Spec => [](CacheInv /\ Sources /\ MissedBefore /\ NewestLast /\ OverlapInv)
  BY <1>1, CacheInit, CacheStep, MissedInit, MissedStep, SourcesInit, SourcesStep,
     NewestInit, OverlapInit, OverlapStep, PTL DEF Spec
<1> QED
  BY <1>1, <1>2, <1>3, PTL DEF Spec

=============================================================================
