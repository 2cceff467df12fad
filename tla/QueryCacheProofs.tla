-------------------------- MODULE QueryCacheProofs --------------------------
(***************************************************************************)
(* Theorems about the pages that use the query cache.                      *)
(*                                                                         *)
(*   JobStatusQuery, for any queries of any profiles;                      *)
(*   DeploymentNotifications, for any statuses, and whatever the user does *)
(*     to the toggle and the browser's permission;                         *)
(*   JobStatusPage, for any lists of allocations, searches, page sizes and *)
(*     bookmarks;                                                          *)
(*                                                                         *)
(* each for any number of changes of the server and of failed requests.    *)
(***************************************************************************)
EXTENDS JobStatusQuery, DeploymentNotifications, JobStatusPage, TableLemmas

-----------------------------------------------------------------------------
(* The cache of a page whose keys are in K and whose answers are in A.     *)

EntriesOf(A) ==
  [data : A \cup {Nothing}, failed : BOOLEAN,
   request : {"none", "asked", "read", "waiting"},
   read : A \cup {Nothing}, retried : BOOLEAN]

(* An entry has an answer on its way when it says so, and only then.       *)
Cached(e, A) == e \in EntriesOf(A) /\ (e.request = "read" <=> e.read # Nothing)

CacheTypes(K, A) ==
  /\ server \in A /\ failures \in Nat
  /\ DOMAIN queries \subseteq K
  /\ queries = [k \in DOMAIN queries |-> queries[k]]
  /\ \A k \in DOMAIN queries : Cached(queries[k], A)
  /\ key \in K \cup {Nothing}
  /\ key # Nothing => key \in DOMAIN queries
  /\ key = Nothing => held = Nothing
  /\ held \in [key : K, data : A] \cup {Nothing}

(* Where the entry of a key comes from, if there was not yet one.          *)
EntryOf(k) == IF k \in DOMAIN queries THEN queries[k] ELSE NewEntry

(* What one step does to an entry: its data stay or are the answer that    *)
(* was on its way, and what is on its way is what the server says now, or  *)
(* what was on its way, if that has not become the data.                   *)
Progress(old, new) ==
  \/ /\ new.data = old.data
     /\ new.read \in {Nothing, old.read, server}
  \/ /\ new.data = old.read /\ old.read # Nothing
     /\ new.read = Nothing

(* A step of the cache, as far as the notifications go.                    *)
Moves(K) ==
  /\ server' = server
  /\ DOMAIN queries' \subseteq DOMAIN queries \cup {key'}
  /\ \A k \in DOMAIN queries' : Progress(EntryOf(k), queries'[k])
  /\ key' # Nothing /\ queries'[key'].data = Nothing => held' = held
  /\ key' \in {key, Nothing} \/ (key' \in K /\ key' # key)

-----------------------------------------------------------------------------
(* Lemmas on entries. *)

LEMMA EntryFacts ==
  ASSUME NEW A, Nothing \notin A, NEW e, Cached(e, A)
  PROVE  /\ Cached(Asked(e), A) /\ Progress(e, Asked(e))
         /\ \A b \in BOOLEAN, r \in {"waiting", "asked"} :
              /\ Cached(Moved(e, r, Nothing, b), A)
              /\ Progress(e, Moved(e, r, Nothing, b))
         /\ Cached(GivenUp(e), A) /\ Progress(e, GivenUp(e))
         /\ e.request = "read" => Cached(Answered(e), A) /\ Progress(e, Answered(e))
         /\ server \in A =>
              /\ Cached(Moved(e, "read", server, e.retried), A)
              /\ Progress(e, Moved(e, "read", server, e.retried))
<1>1. Cached(Asked(e), A) /\ Progress(e, Asked(e))
  BY DEF Cached, EntriesOf, Asked, Moved, Progress
<1>2. ASSUME NEW b \in BOOLEAN, NEW r \in {"waiting", "asked"}
      PROVE  /\ Cached(Moved(e, r, Nothing, b), A)
             /\ Progress(e, Moved(e, r, Nothing, b))
  BY DEF Cached, EntriesOf, Moved, Progress
<1>3. Cached(GivenUp(e), A) /\ Progress(e, GivenUp(e))
  BY DEF Cached, EntriesOf, GivenUp, Moved, Progress
<1>4. ASSUME e.request = "read"
      PROVE  Cached(Answered(e), A) /\ Progress(e, Answered(e))
  BY <1>4 DEF Cached, EntriesOf, Answered, NewEntry, Progress
<1>5. ASSUME server \in A
      PROVE  /\ Cached(Moved(e, "read", server, e.retried), A)
             /\ Progress(e, Moved(e, "read", server, e.retried))
  BY <1>5
  DEF Cached, EntriesOf, Moved, Progress
<1>6. QED
  BY <1>1, <1>2, <1>3, <1>4, <1>5

LEMMA NewEntryFacts ==
  /\ \A A : Cached(NewEntry, A)
  /\ NewEntry.data = Nothing /\ NewEntry.read = Nothing
BY DEF Cached, EntriesOf, NewEntry

(* A fetch makes at most one entry, and moves no other. *)
LEMMA FetchedFacts ==
  ASSUME NEW K, NEW A, Nothing \notin A, CacheTypes(K, A),
         NEW k \in K
  PROVE  /\ DOMAIN Fetched(k) = DOMAIN queries \cup {k}
         /\ Fetched(k) = [j \in DOMAIN Fetched(k) |-> Fetched(k)[j]]
         /\ \A j \in DOMAIN Fetched(k) :
              Cached(Fetched(k)[j], A) /\ Progress(EntryOf(j), Fetched(k)[j])
<1>1. Cached(EntryOf(k), A) /\ NewEntry.request = "none"
  BY NewEntryFacts DEF EntryOf, CacheTypes, NewEntry
<1>2. \A j \in DOMAIN queries : Progress(EntryOf(j), queries[j])
  BY DEF Progress, EntryOf
<1>3. CASE EntryOf(k).request # "none"
  <2>1. k \in DOMAIN queries /\ Fetched(k) = queries
    BY <1>1, <1>3 DEF Fetched, EntryOf
  <2>2. QED
    BY <1>2, <2>1 DEF CacheTypes
<1>4. CASE EntryOf(k).request = "none"
  <2>1. Fetched(k) = [j \in DOMAIN queries \cup {k} |->
                        IF j = k THEN Asked(EntryOf(k)) ELSE queries[j]]
    BY <1>4 DEF Fetched, EntryOf
  <2>2. Cached(Asked(EntryOf(k)), A) /\ Progress(EntryOf(k), Asked(EntryOf(k)))
    BY <1>1, EntryFacts
  <2>3. QED
    BY <1>2, <2>1, <2>2 DEF CacheTypes
<1>5. QED
  BY <1>3, <1>4

(* So does a step of one request. *)
LEMMA EntryStep ==
  ASSUME NEW K, NEW A, Nothing \notin A, CacheTypes(K, A),
         NEW k \in DOMAIN queries, NEW e, Cached(e, A),
         Progress(queries[k], e), queries' = [queries EXCEPT ![k] = e]
  PROVE  /\ DOMAIN queries' = DOMAIN queries
         /\ queries' = [j \in DOMAIN queries' |-> queries'[j]]
         /\ \A j \in DOMAIN queries' :
              Cached(queries'[j], A) /\ Progress(EntryOf(j), queries'[j])
BY DEF CacheTypes, EntryOf, Progress

(* What keepPreviousData keeps. *)
LEMMA HoldFacts ==
  ASSUME NEW K, NEW A, Nothing \notin A, CacheTypes(K, A),
         Hold, key' \in K \cup {Nothing},
         key' # Nothing => key' \in DOMAIN queries',
         \A j \in DOMAIN queries' : Cached(queries'[j], A)
  PROVE  /\ held' \in [key : K, data : A] \cup {Nothing}
         /\ key' = Nothing => held' = Nothing
         /\ key' # Nothing /\ queries'[key'].data = Nothing => held' = held
<1>1. CASE key' = Nothing
  BY <1>1 DEF Hold
<1>2. CASE key' # Nothing /\ queries'[key'].data # Nothing
  BY <1>2 DEF Hold, Cached, EntriesOf
<1>3. CASE key' # Nothing /\ queries'[key'].data = Nothing
  BY <1>3 DEF Hold, CacheTypes
<1>4. QED
  BY <1>1, <1>2, <1>3

-----------------------------------------------------------------------------
(* Every step of the cache is of that form.                                *)

CacheActs(K) ==
  \/ \E k \in K : Observe(k)
  \/ Leave \/ TogglePause \/ Hide \/ Show \/ Poll \/ Requests
  \/ \E k \in DOMAIN queries : Collect(k)

LEMMA CacheMoves ==
  ASSUME NEW K, NEW A, Nothing \notin A, CacheTypes(K, A),
         CacheActs(K) \/ UNCHANGED cacheVars
  PROVE  CacheTypes(K, A)' /\ Moves(K)
<1>0. \A j \in DOMAIN queries : Progress(EntryOf(j), queries[j])
  BY DEF Progress, EntryOf
<1>1. ASSUME NEW k \in K, Observe(k) PROVE CacheTypes(K, A)' /\ Moves(K)
  <2>1. /\ key' = k /\ k # key /\ queries' = Fetched(k) /\ Hold
        /\ UNCHANGED <<server, failures>>
    BY <1>1 DEF Observe
  <2>2. /\ DOMAIN queries' = DOMAIN queries \cup {k}
        /\ queries' = [j \in DOMAIN queries' |-> queries'[j]]
        /\ \A j \in DOMAIN queries' :
             Cached(queries'[j], A) /\ Progress(EntryOf(j), queries'[j])
    BY <2>1, FetchedFacts
  <2>3. /\ held' \in [key : K, data : A] \cup {Nothing}
        /\ key' = Nothing => held' = Nothing
        /\ key' # Nothing /\ queries'[key'].data = Nothing => held' = held
    BY <2>1, <2>2, HoldFacts
  <2>4. QED
    BY <2>1, <2>2, <2>3 DEF CacheTypes, Moves
<1>2. CASE Leave
  <2>1. /\ key' = Nothing /\ held' = Nothing
        /\ UNCHANGED <<server, queries, failures>>
    BY <1>2 DEF Leave, Hold
  <2>2. QED
    BY <1>0, <2>1 DEF CacheTypes, Moves
<1>3. CASE TogglePause \/ Hide \/ UNCHANGED cacheVars
  <2>1. UNCHANGED <<server, queries, key, held, failures>>
    BY <1>3 DEF TogglePause, Hide, cacheVars
  <2>2. QED
    BY <1>0, <2>1 DEF CacheTypes, Moves
<1>4. CASE Show \/ Poll
  <2>1. /\ queries' = IF key = Nothing THEN queries ELSE Fetched(key)
        /\ UNCHANGED <<server, key, failures>> /\ Hold
    BY <1>4 DEF Show, Poll
  <2>2. /\ DOMAIN queries' = DOMAIN queries
        /\ queries' = [j \in DOMAIN queries' |-> queries'[j]]
        /\ \A j \in DOMAIN queries' :
             Cached(queries'[j], A) /\ Progress(EntryOf(j), queries'[j])
    <3>1. CASE key = Nothing
      BY <1>0, <2>1, <3>1 DEF CacheTypes
    <3>2. CASE key # Nothing
      <4>1. key \in K /\ key \in DOMAIN queries
        BY <3>2 DEF CacheTypes
      <4>2. QED
        BY <2>1, <3>2, <4>1, FetchedFacts
    <3>3. QED
      BY <3>1, <3>2
  <2>3. /\ held' \in [key : K, data : A] \cup {Nothing}
        /\ key' = Nothing => held' = Nothing
        /\ key' # Nothing /\ queries'[key'].data = Nothing => held' = held
    BY <2>1, <2>2, HoldFacts DEF CacheTypes
  <2>4. QED
    BY <2>1, <2>2, <2>3 DEF CacheTypes, Moves
<1>5. ASSUME NEW k \in DOMAIN queries, Arrive(k) PROVE CacheTypes(K, A)' /\ Moves(K)
  <2>1. /\ queries[k].request = "read" /\ Hold
        /\ queries' = [queries EXCEPT ![k] = Answered(queries[k])]
        /\ UNCHANGED <<server, key, failures>>
    BY <1>5 DEF Arrive
  <2>2. Cached(Answered(queries[k]), A) /\ Progress(queries[k], Answered(queries[k]))
    BY <2>1, EntryFacts DEF CacheTypes
  <2>3. /\ DOMAIN queries' = DOMAIN queries
        /\ queries' = [j \in DOMAIN queries' |-> queries'[j]]
        /\ \A j \in DOMAIN queries' :
             Cached(queries'[j], A) /\ Progress(EntryOf(j), queries'[j])
    BY <2>1, <2>2, EntryStep
  <2>4. /\ held' \in [key : K, data : A] \cup {Nothing}
        /\ key' = Nothing => held' = Nothing
        /\ key' # Nothing /\ queries'[key'].data = Nothing => held' = held
    BY <2>1, <2>3, HoldFacts DEF CacheTypes
  <2>5. QED
    BY <2>1, <2>3, <2>4 DEF CacheTypes, Moves
<1>6. ASSUME NEW k \in DOMAIN queries, Read(k) \/ Fail(k) \/ Retry(k)
      PROVE  CacheTypes(K, A)' /\ Moves(K)
  <2>1. UNCHANGED <<server, key, held>> /\ failures' \in Nat
    <3>1. CASE Read(k)
      BY <3>1 DEF Read, CacheTypes
    <3>2. CASE Fail(k)
      BY <3>2 DEF Fail, CacheTypes
    <3>3. CASE Retry(k)
      BY <3>3 DEF Retry, CacheTypes
    <3>4. QED
      BY <1>6, <3>1, <3>2, <3>3
  <2>2. Cached(queries[k], A) /\ server \in A
    BY DEF CacheTypes
  <2>3. PICK e : /\ Cached(e, A) /\ Progress(queries[k], e)
                 /\ queries' = [queries EXCEPT ![k] = e]
    <3>1. CASE Read(k)
      BY <2>2, <3>1, EntryFacts DEF Read
    <3>2. CASE Fail(k)
      BY <2>2, <3>2, EntryFacts DEF Fail
    <3>3. CASE Retry(k)
      BY <2>2, <3>3, EntryFacts DEF Retry
    <3>4. QED
      BY <1>6, <3>1, <3>2, <3>3
  <2>4. /\ DOMAIN queries' = DOMAIN queries
        /\ queries' = [j \in DOMAIN queries' |-> queries'[j]]
        /\ \A j \in DOMAIN queries' :
             Cached(queries'[j], A) /\ Progress(EntryOf(j), queries'[j])
    BY <2>3, EntryStep
  <2>5. QED
    BY <2>1, <2>4 DEF CacheTypes, Moves
<1>7. ASSUME NEW k \in DOMAIN queries, Collect(k) PROVE CacheTypes(K, A)' /\ Moves(K)
  <2>1. /\ k # key /\ UNCHANGED <<server, key, held, failures>>
        /\ queries' = [j \in DOMAIN queries \ {k} |-> queries[j]]
    BY <1>7 DEF Collect
  <2>2. /\ DOMAIN queries' = DOMAIN queries \ {k}
        /\ \A j \in DOMAIN queries' : queries'[j] = queries[j]
        /\ queries' = [j \in DOMAIN queries' |-> queries'[j]]
    BY <2>1
  <2>3. QED
    BY <1>0, <2>1, <2>2 DEF CacheTypes, Moves
<1>8. QED
  BY <1>1, <1>2, <1>3, <1>4, <1>5, <1>6, <1>7 DEF CacheActs, Requests
LEMMA CacheInitTypes ==
  ASSUME NEW K, NEW A, Nothing \notin A, server \in A, NEW k \in K, CacheInit(k)
  PROVE  CacheTypes(K, A)
<1>1. Cached(Asked(NewEntry), A)
  BY NewEntryFacts, EntryFacts
<1>2. /\ queries = [j \in {k} |-> Asked(NewEntry)] /\ key = k
      /\ held = Nothing /\ failures = 0
  BY DEF CacheInit
<1>3. DOMAIN queries = {k} /\ queries[k] = Asked(NewEntry)
  BY <1>2
<1>4. QED
  BY <1>1, <1>2, <1>3 DEF CacheTypes

-----------------------------------------------------------------------------
(* JobStatusQuery.                                                         *)

(* What a fetch of k does to the cache: an entry for k, whose data stays   *)
(* and whose request is under way, and no other change.                    *)
LEMMA QueryFetchedFacts ==
  ASSUME TypeOK, RequestsLeaveSomething, NEW k \in Keys
  PROVE  /\ DOMAIN Fetched(k) = DOMAIN queries \cup {k}
         /\ Fetched(k) \in [DOMAIN Fetched(k) -> Entries]
         /\ \A j \in DOMAIN queries \ {k} : Fetched(k)[j] = queries[j]
         /\ k \in DOMAIN queries => Fetched(k)[k].data = queries[k].data
         /\ k \notin DOMAIN queries => Fetched(k)[k].data = Nothing
         /\ Fetched(k)[k].request # "none"
         /\ Fetched(k)[k].request = "read" => Fetched(k)[k].read # Nothing
<1>1. PICK old : old = IF k \in DOMAIN queries THEN queries[k] ELSE NewEntry
  OBVIOUS
<1>2. old \in Entries /\ NewEntry.request = "none" /\ NewEntry.data = Nothing
  BY <1>1 DEF TypeOK, Entries, NewEntry
<1>3. /\ Asked(old) \in Entries
      /\ Asked(old).data = old.data /\ Asked(old).request = "asked"
  BY <1>2 DEF Entries, Asked, Moved, NewEntry
<1>4. CASE old.request # "none"
  <2>1. k \in DOMAIN queries /\ Fetched(k) = queries
    BY <1>1, <1>2, <1>4 DEF Fetched
  <2>2. QED
    BY <1>1, <1>4, <2>1 DEF TypeOK, RequestsLeaveSomething
<1>5. CASE old.request = "none"
  <2>1. Fetched(k) = [j \in DOMAIN queries \cup {k} |->
                        IF j = k THEN Asked(old) ELSE queries[j]]
    BY <1>1, <1>5 DEF Fetched
  <2>2. QED
    BY <1>1, <1>2, <1>3, <2>1 DEF TypeOK
<1>6. QED
  BY <1>4, <1>5

-----------------------------------------------------------------------------
(* The invariant holds at first. *)
LEMMA InitIInv == QueryInit => IInv
<1> SUFFICES ASSUME NEW k \in Keys, CacheInit(k), server = 0, updates = 0
             PROVE  IInv
  BY DEF QueryInit
<1>1. /\ Asked(NewEntry) \in Entries
      /\ Asked(NewEntry).data = Nothing /\ Asked(NewEntry).request = "asked"
  BY DEF Asked, Moved, NewEntry, Entries
<1>2. TypeOK
  <2>1. /\ queries = [j \in {k} |-> Asked(NewEntry)] /\ key = k
        /\ held = Nothing /\ paused = FALSE /\ visible = TRUE /\ failures = 0
    BY DEF CacheInit
  <2>2. DOMAIN queries = {k} /\ queries \in [DOMAIN queries -> Entries]
    BY <1>1, <2>1
  <2>3. paused \in BOOLEAN /\ visible \in BOOLEAN
    BY <2>1
  <2>4. QED
    BY <2>1, <2>2, <2>3 DEF TypeOK
<1>3. RequestsLeaveSomething
  BY <1>1 DEF RequestsLeaveSomething, CacheInit
<1>4. HeldIsOfThePage
  BY <1>1 DEF HeldIsOfThePage, CacheInit, Entry
<1>5. PausedIsQuiet
  BY DEF PausedIsQuiet, CacheInit
<1>6. QED
  BY <1>2, <1>3, <1>4, <1>5 DEF IInv

(* What the steps of a request do to one entry. *)
LEMMA QueryEntryFacts ==
  ASSUME NEW e \in Entries
  PROVE  /\ \A x \in Nat, b \in BOOLEAN, r \in {"read", "waiting", "asked"} :
              Moved(e, r, x, b) \in Entries
         /\ \A b \in BOOLEAN, r \in {"read", "waiting", "asked"} :
              Moved(e, r, Nothing, b) \in Entries
         /\ Answered(e) \in Entries
         /\ Answered(e).data = e.read /\ Answered(e).request = "none"
         /\ GivenUp(e) \in Entries
         /\ GivenUp(e).data = e.data /\ GivenUp(e).failed
         /\ GivenUp(e).request = "none"
BY DEF Entries, NewEntry, GivenUp, Answered, Moved
-----------------------------------------------------------------------------
(* What a step does to the cache, and what it does to what is held.        *)

(* A step that fetches k keeps the cache as the invariant has it. *)
LEMMA FetchKeepsCache ==
  ASSUME IInv, NEW k \in Keys, queries' = Fetched(k)
  PROVE  /\ DOMAIN queries' = DOMAIN queries \cup {k}
         /\ queries' \in [DOMAIN queries' -> Entries]
         /\ RequestsLeaveSomething'
<1> USE DEF IInv
<1>1. /\ DOMAIN queries' = DOMAIN queries \cup {k}
      /\ queries' \in [DOMAIN queries' -> Entries]
      /\ \A j \in DOMAIN queries \ {k} : queries'[j] = queries[j]
      /\ queries'[k].request # "none"
      /\ queries'[k].request = "read" => queries'[k].read # Nothing
  BY QueryFetchedFacts
<1>2. QED
  BY <1>1 DEF RequestsLeaveSomething

(* So does one that changes an entry to one that leaves something. *)
LEMMA EntryKeepsCache ==
  ASSUME IInv, NEW k \in DOMAIN queries, NEW e \in Entries,
         queries' = [queries EXCEPT ![k] = e],
         e.request = "read" => e.read # Nothing,
         e.request = "none" => e.failed \/ e.data # Nothing
  PROVE  /\ DOMAIN queries' = DOMAIN queries
         /\ queries' \in [DOMAIN queries' -> Entries]
         /\ queries'[k] = e
         /\ \A j \in DOMAIN queries \ {k} : queries'[j] = queries[j]
         /\ RequestsLeaveSomething'
<1>1. /\ DOMAIN queries' = DOMAIN queries
      /\ queries' \in [DOMAIN queries' -> Entries]
      /\ queries'[k] = e
      /\ \A j \in DOMAIN queries \ {k} : queries'[j] = queries[j]
  BY DEF IInv, TypeOK
<1>2. QED
  BY <1>1 DEF IInv, RequestsLeaveSomething

(* What keepPreviousData keeps is of the profile shown, as long as the page *)
(* only goes from one key of a profile to another.                         *)
LEMMA HoldKeepsHeld ==
  ASSUME IInv, Hold,
         key' \in Keys \cup {Nothing},
         key' # Nothing => key' \in DOMAIN queries',
         queries' \in [DOMAIN queries' -> Entries],
         held # Nothing /\ key' # Nothing => SameProfile(held.key, key')
  PROVE  /\ held' \in [key : Keys, data : Nat] \cup {Nothing}
         /\ HeldIsOfThePage'
<1>1. CASE key' = Nothing
  BY <1>1 DEF Hold, HeldIsOfThePage
<1>2. CASE key' # Nothing /\ queries'[key'].data # Nothing
  <2>1. held' = [key |-> key', data |-> queries'[key'].data]
    BY <1>2 DEF Hold
  <2>2. key' \in Keys /\ queries'[key'].data \in Nat
    BY <1>2 DEF Entries
  <2>3. held'.key = key' /\ SameProfile(key', key')
    BY <2>1 DEF SameProfile
  <2>4. QED
    BY <1>2, <2>1, <2>2, <2>3 DEF HeldIsOfThePage, Entry, SameProfile
<1>3. CASE key' # Nothing /\ queries'[key'].data = Nothing
  <2>1. held' = held
    BY <1>3 DEF Hold
  <2>2. QED
    BY <1>3, <2>1 DEF IInv, TypeOK, HeldIsOfThePage, Entry, SameProfile
<1>4. QED
  BY <1>1, <1>2, <1>3

-----------------------------------------------------------------------------
(* The invariant is kept by what the user does, *)
LEMMA UserKeepsIInv == IInv /\ UserActs => IInv'
<1> SUFFICES ASSUME IInv, UserActs PROVE IInv'
  OBVIOUS
<1> USE DEF IInv
<1>1. updates' = 0 /\ PausedIsQuiet' /\ updates' \in 0..2
  BY DEF UserActs, PausedIsQuiet
<1>2. ASSUME NEW k \in Keys, key = Nothing \/ SameProfile(k, key), Observe(k)
      PROVE  IInv'
  <2>1. /\ DOMAIN queries' = DOMAIN queries \cup {k}
        /\ queries' \in [DOMAIN queries' -> Entries]
        /\ RequestsLeaveSomething'
    BY <1>2, FetchKeepsCache DEF Observe
  <2>2. key' = k /\ Hold
    BY <1>2 DEF Observe
  <2>3. held # Nothing => SameProfile(held.key, k)
    BY <1>2 DEF HeldIsOfThePage, SameProfile
  <2>4. /\ held' \in [key : Keys, data : Nat] \cup {Nothing}
        /\ HeldIsOfThePage'
    BY <2>1, <2>2, <2>3, HoldKeepsHeld
  <2>5. UNCHANGED <<server, paused, visible, failures>>
    BY <1>2 DEF Observe
  <2>6. TypeOK'
    BY <1>1, <2>1, <2>2, <2>4, <2>5 DEF TypeOK
  <2>7. QED
    BY <1>1, <2>1, <2>4, <2>6
<1>3. ASSUME NEW k \in Keys, Visit(k) PROVE IInv'
  <2>1. /\ DOMAIN queries' = DOMAIN queries \cup {k}
        /\ queries' \in [DOMAIN queries' -> Entries]
        /\ RequestsLeaveSomething'
    BY <1>3, FetchKeepsCache DEF Visit
  <2>2. /\ key' = k
        /\ held' = IF queries'[k].data = Nothing THEN Nothing
                   ELSE [key |-> k, data |-> queries'[k].data]
    BY <1>3 DEF Visit
  <2>3. queries'[k].data \in Nat \cup {Nothing}
    BY <2>1 DEF Entries
  <2>4. held' \in [key : Keys, data : Nat] \cup {Nothing}
    BY <2>2, <2>3
  <2>5. HeldIsOfThePage'
    BY <2>2, <2>3, JobStatusQueryAssumption
    DEF HeldIsOfThePage, Entry, SameProfile
  <2>6. UNCHANGED <<server, paused, visible, failures>>
    BY <1>3 DEF Visit
  <2>7. TypeOK'
    BY <1>1, <2>1, <2>2, <2>4, <2>6 DEF TypeOK
  <2>8. QED
    BY <1>1, <2>1, <2>5, <2>7
<1>4. CASE Leave
  <2>1. key' = Nothing /\ held' = Nothing /\ paused' = FALSE
    BY <1>4 DEF Leave, Hold
  <2>2. UNCHANGED <<server, queries, visible, failures>>
    BY <1>4 DEF Leave
  <2>3. TypeOK'
    BY <1>1, <2>1, <2>2 DEF TypeOK
  <2>4. QED
    BY <1>1, <2>1, <2>2, <2>3 DEF RequestsLeaveSomething, HeldIsOfThePage
<1>5. CASE TogglePause \/ Hide
  <2>1. UNCHANGED <<server, queries, key, held, failures>>
    BY <1>5 DEF TogglePause, Hide
  <2>2. paused' \in BOOLEAN /\ visible' \in BOOLEAN
    BY <1>5 DEF TogglePause, Hide, TypeOK
  <2>3. TypeOK'
    BY <1>1, <2>1, <2>2 DEF TypeOK
  <2>4. QED
    BY <1>1, <2>1, <2>3
    DEF RequestsLeaveSomething, HeldIsOfThePage, Entry, SameProfile
<1>6. CASE Show
  <2>1. /\ UNCHANGED <<server, key, paused, failures>>
        /\ visible' = TRUE /\ Hold
        /\ queries' = IF key = Nothing THEN queries ELSE Fetched(key)
    BY <1>6 DEF Show
  <2>2. /\ DOMAIN queries' = DOMAIN queries
        /\ queries' \in [DOMAIN queries' -> Entries]
        /\ RequestsLeaveSomething'
    <3>1. CASE key = Nothing
      BY <2>1, <3>1 DEF TypeOK, RequestsLeaveSomething
    <3>2. CASE key # Nothing
      BY <2>1, <3>2, FetchKeepsCache DEF TypeOK
    <3>3. QED
      BY <3>1, <3>2
  <2>3. /\ held' \in [key : Keys, data : Nat] \cup {Nothing}
        /\ HeldIsOfThePage'
    BY <2>1, <2>2, HoldKeepsHeld DEF TypeOK, HeldIsOfThePage
  <2>4. visible' \in BOOLEAN
    BY <2>1
  <2>5. TypeOK'
    BY <1>1, <2>1, <2>2, <2>3, <2>4 DEF TypeOK
  <2>6. QED
    BY <1>1, <2>2, <2>3, <2>5
<1>7. QED
  BY <1>2, <1>3, <1>4, <1>5, <1>6 DEF UserActs

(* and by what happens without the user: a step that ends with the page's  *)
(* data as it was counts no update, and only an answer changes it, which   *)
(* leaves no request under way.                                            *)
LEMMA BackgroundKeepsIInv == IInv /\ WithoutUser => IInv'
<1> SUFFICES ASSUME IInv, WithoutUser PROVE IInv'
  OBVIOUS
<1> USE DEF IInv
<1> DEFINE Told == key # Nothing /\ Entry.data # queries'[key].data
<1>1. updates' = IF Told THEN IF updates = 0 THEN 1 ELSE 2 ELSE updates
  BY DEF WithoutUser
<1>2. updates' \in 0..2
  BY <1>1 DEF TypeOK
<1> HIDE DEF Told
<1>3. CASE Poll
  <2>1. /\ key # Nothing /\ ~paused /\ queries' = Fetched(key) /\ Hold
        /\ UNCHANGED <<server, key, paused, visible, failures>>
    BY <1>3 DEF Poll
  <2>2. /\ DOMAIN queries' = DOMAIN queries
        /\ queries' \in [DOMAIN queries' -> Entries]
        /\ RequestsLeaveSomething'
    BY <2>1, FetchKeepsCache DEF TypeOK
  <2>3. /\ held' \in [key : Keys, data : Nat] \cup {Nothing}
        /\ HeldIsOfThePage'
    BY <2>1, <2>2, HoldKeepsHeld DEF TypeOK, HeldIsOfThePage
  <2>4. TypeOK'
    BY <1>2, <2>1, <2>2, <2>3 DEF TypeOK
  <2>5. PausedIsQuiet'
    BY <2>1 DEF PausedIsQuiet
  <2>6. QED
    BY <2>2, <2>3, <2>4, <2>5
<1>4. ASSUME NEW k \in DOMAIN queries, Arrive(k) PROVE IInv'
  <2>1. /\ queries[k].request = "read" /\ Hold
        /\ queries' = [queries EXCEPT ![k] = Answered(queries[k])]
        /\ UNCHANGED <<server, key, paused, visible, failures>>
    BY <1>4 DEF Arrive
  <2>2. /\ Answered(queries[k]) \in Entries
        /\ Answered(queries[k]).data # Nothing
        /\ Answered(queries[k]).request = "none"
    BY <2>1, QueryEntryFacts DEF TypeOK, RequestsLeaveSomething
  <2>3. /\ DOMAIN queries' = DOMAIN queries
        /\ queries' \in [DOMAIN queries' -> Entries]
        /\ queries'[k] = Answered(queries[k])
        /\ \A j \in DOMAIN queries \ {k} : queries'[j] = queries[j]
        /\ RequestsLeaveSomething'
    BY <2>1, <2>2, EntryKeepsCache
  <2>4. /\ held' \in [key : Keys, data : Nat] \cup {Nothing}
        /\ HeldIsOfThePage'
    BY <2>1, <2>3, HoldKeepsHeld DEF TypeOK, HeldIsOfThePage
  <2>5. TypeOK'
    BY <1>2, <2>1, <2>3, <2>4 DEF TypeOK
  <2>6. PausedIsQuiet'
    <3>1. CASE k = key
      BY <1>1, <2>1, <2>2, <2>3, <3>1, JobStatusQueryAssumption
      DEF PausedIsQuiet, TypeOK, Entry
    <3>2. CASE k # key
      <4>1. ~Told
        BY <2>3, <3>2 DEF Told, Entry, TypeOK
      <4>2. QED
        BY <1>1, <2>1, <2>3, <3>2, <4>1 DEF PausedIsQuiet, TypeOK, Entry
    <3>3. QED
      BY <3>1, <3>2
  <2>7. QED
    BY <2>3, <2>4, <2>5, <2>6
<1>5. ASSUME NEW k \in DOMAIN queries, Read(k) \/ Fail(k) \/ Retry(k)
      PROVE  IInv'
  <2>1. /\ queries[k].request # "none"
        /\ UNCHANGED <<server, key, held, paused, visible>>
        /\ failures' \in Nat
    <3>1. CASE Read(k)
      BY <3>1 DEF Read, TypeOK
    <3>2. CASE Fail(k)
      BY <3>2 DEF Fail, TypeOK
    <3>3. CASE Retry(k)
      BY <3>3 DEF Retry, TypeOK
    <3>4. QED
      BY <1>5, <3>1, <3>2, <3>3
  <2>2. PICK e \in Entries :
          /\ queries' = [queries EXCEPT ![k] = e]
          /\ e.data = queries[k].data
          /\ e.request = "read" => e.read # Nothing
          /\ e.request = "none" => e.failed \/ e.data # Nothing
    <3>1. queries[k] \in Entries /\ queries[k].retried \in BOOLEAN
      BY DEF TypeOK, Entries
    <3>2. CASE Read(k)
      <4> DEFINE e == Moved(queries[k], "read", server, queries[k].retried)
      <4>1. e \in Entries /\ queries' = [queries EXCEPT ![k] = e]
        BY <3>1, <3>2, QueryEntryFacts DEF Read, TypeOK
      <4>2. e.data = queries[k].data /\ e.request = "read" /\ e.read = server
        BY DEF Moved
      <4>3. QED
        BY <4>1, <4>2, JobStatusQueryAssumption DEF TypeOK
    <3>3. CASE Fail(k) \/ Retry(k)
      <4>1. PICK e :
              /\ queries' = [queries EXCEPT ![k] = e]
              /\ \/ e = Moved(queries[k], "waiting", Nothing, FALSE)
                 \/ e = Moved(queries[k], "asked", Nothing, TRUE)
                 \/ e = GivenUp(queries[k])
        BY <3>3 DEF Fail, Retry
      <4>2. e \in Entries
        BY <3>1, <4>1, QueryEntryFacts
      <4>3. /\ e.data = queries[k].data
            /\ e.request # "read"
            /\ e.request = "none" => e.failed
        <5>1. CASE e = GivenUp(queries[k])
          BY <3>1, <5>1, QueryEntryFacts
        <5>2. CASE e = Moved(queries[k], "waiting", Nothing, FALSE)
          BY <5>2 DEF Moved
        <5>3. CASE e = Moved(queries[k], "asked", Nothing, TRUE)
          BY <5>3 DEF Moved
        <5>4. QED
          BY <4>1, <5>1, <5>2, <5>3
      <4>4. QED
        BY <4>1, <4>2, <4>3
    <3>4. QED
      BY <1>5, <3>2, <3>3
  <2>3. /\ DOMAIN queries' = DOMAIN queries
        /\ queries' \in [DOMAIN queries' -> Entries]
        /\ queries'[k] = e
        /\ \A j \in DOMAIN queries \ {k} : queries'[j] = queries[j]
        /\ RequestsLeaveSomething'
    BY <2>2, EntryKeepsCache
  <2>4. \A j \in DOMAIN queries : queries'[j].data = queries[j].data
    BY <2>2, <2>3
  <2>5. ~Told
    BY <2>4 DEF Told, Entry, TypeOK
  <2>6. HeldIsOfThePage'
    BY <2>1, <2>4 DEF HeldIsOfThePage, Entry, SameProfile, TypeOK
  <2>7. TypeOK'
    BY <1>2, <2>1, <2>3 DEF TypeOK
  <2>8. PausedIsQuiet'
    BY <1>1, <2>1, <2>3, <2>5 DEF PausedIsQuiet, Entry, TypeOK
  <2>9. QED
    BY <2>3, <2>6, <2>7, <2>8
<1>6. ASSUME NEW k \in DOMAIN queries, Collect(k) PROVE IInv'
  <2>1. /\ k # key
        /\ queries' = [j \in DOMAIN queries \ {k} |-> queries[j]]
        /\ UNCHANGED <<server, key, held, paused, visible, failures>>
    BY <1>6 DEF Collect
  <2>2. DOMAIN queries' = DOMAIN queries \ {k}
    BY <2>1
  <2>3. \A j \in DOMAIN queries' : queries'[j] = queries[j]
    BY <2>1
  <2>4. key # Nothing => key \in DOMAIN queries' /\ queries'[key] = queries[key]
    BY <2>1, <2>2, <2>3 DEF TypeOK
  <2>5. ~Told
    BY <2>4 DEF Told, Entry
  <2>6. TypeOK'
    BY <1>2, <2>1, <2>2, <2>3 DEF TypeOK
  <2>7. RequestsLeaveSomething'
    BY <2>2, <2>3 DEF RequestsLeaveSomething
  <2>8. HeldIsOfThePage' /\ PausedIsQuiet'
    BY <1>1, <2>1, <2>4, <2>5
    DEF HeldIsOfThePage, PausedIsQuiet, Entry, SameProfile
  <2>9. QED
    BY <2>6, <2>7, <2>8
<1>7. QED
  BY <1>3, <1>4, <1>5, <1>6 DEF WithoutUser, Requests

-----------------------------------------------------------------------------
(* The server's changes touch nothing that the invariant says. *)
LEMMA NextIInv == IInv /\ [QueryNext]_queryVars => IInv'
<1> SUFFICES ASSUME IInv, [QueryNext]_queryVars PROVE IInv'
  OBVIOUS
<1>1. CASE ServerChanges
  <2>1. /\ server' \in Nat
        /\ UNCHANGED <<queries, key, held, paused, visible, failures, updates>>
    BY <1>1 DEF ServerChanges, IInv, TypeOK
  <2>2. QED
    BY <2>1 DEF IInv, TypeOK, RequestsLeaveSomething, HeldIsOfThePage,
                PausedIsQuiet, Entry, SameProfile
<1>2. CASE UNCHANGED queryVars
  BY <1>2 DEF queryVars, cacheVars, IInv, TypeOK, RequestsLeaveSomething,
              HeldIsOfThePage, PausedIsQuiet, Entry, SameProfile
<1>3. QED
  BY <1>1, <1>2, UserKeepsIInv, BackgroundKeepsIInv DEF QueryNext

(* The inductive invariant, for every run of the cache. *)
THEOREM Invariance == QuerySpec => []IInv
BY InitIInv, NextIInv, PTL DEF QuerySpec

(* Paused, the page is shown at most one update for each act of the user,  *)
(* with any number of queries, retries and changes of the server.          *)
THEOREM PauseIsKept == QuerySpec => []PauseHolds
<1>1. IInv => PauseHolds
  BY DEF IInv, TypeOK, PausedIsQuiet, PauseHolds
<1>2. QED
  BY <1>1, Invariance, PTL

(* The page never waits for nothing: no request that ends leaves it        *)
(* without data and without an error.                                      *)
THEOREM NeverIdle == QuerySpec => []NoIdleWait
<1>1. IInv => NoIdleWait
  BY DEF IInv, TypeOK, RequestsLeaveSomething, NoIdleWait, Failed, Entry
<1>2. QED
  BY <1>1, Invariance, PTL

(* No page shows the job of another profile than its own, however many     *)
(* profiles there are and however the user switches between them.          *)
THEOREM OwnProfileOnly == QuerySpec => []NeverAnothers
<1>1. IInv => NeverAnothers
  <2> SUFFICES ASSUME IInv, Shown # Nothing PROVE SameProfile(Shown.key, key)
    BY DEF NeverAnothers
  <2>1. CASE Shown = held
    BY <2>1 DEF IInv, HeldIsOfThePage
  <2>2. CASE key # Nothing /\ Shown = [key |-> key, data |-> Entry.data]
    BY <2>2 DEF SameProfile
  <2>3. QED
    BY <2>1, <2>2 DEF Shown
<1>2. QED
  BY <1>1, Invariance, PTL

(* Within a profile, what the page shows is only ever replaced, by an      *)
(* answer or by an error.                                                  *)
THEOREM NeverBlank == QuerySpec => NoFlicker
<1> DEFINE A == Shown # Nothing /\ key' # Nothing /\ SameProfile(key, key')
                  => Shown' # Nothing \/ Failed'
<1>1. IInv /\ IInv' /\ [QueryNext]_queryVars => A
  <2> SUFFICES ASSUME IInv, IInv', [QueryNext]_queryVars,
                      Shown # Nothing, key' # Nothing, SameProfile(key, key'),
                      Entry'.data = Nothing, ~Failed'
               PROVE  Shown' # Nothing
    <3>1. ASSUME IInv', key' # Nothing, Entry'.data # Nothing
          PROVE  Shown' # Nothing
      <4>1. Shown' = [key |-> key', data |-> Entry'.data]
        BY <3>1 DEF Shown
      <4>2. key' \in Keys /\ Entry'.data \in Nat
        BY <3>1 DEF IInv, TypeOK, Entries, Entry
      <4>3. QED
        BY <4>1, <4>2, JobStatusQueryAssumption
    <3>2. QED
      BY <3>1
  <2>1. Shown' = held'
    BY DEF Shown
  <2>2. key # Nothing /\ held # Nothing
    <3>1. CASE Shown = held
      BY <3>1 DEF IInv, HeldIsOfThePage
    <3>2. CASE key # Nothing /\ Entry.data # Nothing
      BY <3>2 DEF IInv, HeldIsOfThePage, Shown
    <3>3. QED
      BY <3>1, <3>2 DEF Shown
  <2>3. held' = held
    <3>1. ASSUME NEW k \in Keys, Visit(k), ~SameProfile(k, key) PROVE FALSE
      BY <3>1 DEF Visit, SameProfile
    <3>2. CASE Hold
      BY <3>2 DEF Hold, Entry
    <3>3. QED
      BY <2>2, <3>1, <3>2
      DEF QueryNext, UserActs, WithoutUser, Requests, ServerChanges, Observe, Leave,
          TogglePause, Hide, Show, Poll, Read, Arrive, Fail, Retry, Collect,
          queryVars, cacheVars
  <2>4. QED
    BY <2>1, <2>2, <2>3
<1>2. QED
  BY <1>1, Invariance, PTL DEF QuerySpec, NoFlicker

-----------------------------------------------------------------------------
(* DeploymentNotifications.                                                *)

DeploymentTypes == CacheTypes(Selections, Answers)

LEMMA InitTypes == DeploymentInit => DeploymentTypes
<1>1. DeploymentInit => server \in Answers
  BY DEF DeploymentInit, Answers
<1>2. QED
  BY <1>1, CacheInitTypes, DeploymentNotificationsAssumption
  DEF DeploymentInit, DeploymentTypes

LEMMA DeploymentMoves ==
  ASSUME DeploymentTypes, CacheActs(Selections) \/ UNCHANGED cacheVars
  PROVE  DeploymentTypes' /\ Moves(Selections)
BY CacheMoves, DeploymentNotificationsAssumption DEF DeploymentTypes

(* A step either changes nothing that is shown, or renders.                *)
LEMMA Steps ==
  ASSUME [DeploymentNext]_deploymentVars
  PROVE  \/ StatusChanges
         \/ (CacheActs(Selections) \/ UNCHANGED cacheVars) /\ Render
         \/ /\ UNCHANGED <<cacheVars, previous, told>>
            /\ notice' \in {Nothing, notice}
            /\ optedIn' => optedIn
<1>1. CASE CacheStep
  BY <1>1 DEF CacheStep, CacheActs
<1>2. CASE Toggle \/ AnswerPrompt
  BY <1>2 DEF Toggle, AnswerPrompt
<1>3. CASE ChangePermission
  BY <1>3 DEF ChangePermission
<1>4. CASE UNCHANGED deploymentVars
  BY <1>4 DEF deploymentVars, noticeVars
<1>5. QED
  BY <1>1, <1>2, <1>3, <1>4 DEF DeploymentNext

LEMMA TypesKept == DeploymentTypes /\ [DeploymentNext]_deploymentVars => DeploymentTypes'
<1> SUFFICES ASSUME DeploymentTypes, [DeploymentNext]_deploymentVars 
             PROVE  DeploymentTypes'
  OBVIOUS
<1>1. CASE StatusChanges
  <2>1. PICK s \in Statuses : server' = [status |-> s, at |-> server.at + 1]
    BY <1>1 DEF StatusChanges
  <2>2. server' \in Answers
    BY <2>1 DEF DeploymentTypes, CacheTypes, Answers
  <2>3. UNCHANGED <<queries, key, held, failures>>
    BY <1>1 DEF StatusChanges
  <2>4. QED
    BY <2>2, <2>3 DEF DeploymentTypes, CacheTypes
<1>2. CASE UNCHANGED cacheVars
  BY <1>2, DeploymentMoves
<1>3. CASE CacheActs(Selections)
  BY <1>3, DeploymentMoves
<1>4. QED
  BY <1>1, <1>2, <1>3, Steps

-----------------------------------------------------------------------------
(* What the user was told.                                                 *)

(* A status was seen last when something was told on this page, and if     *)
(* notifications were on since then it is what was told last.              *)
TellInv ==
  /\ previous \in Statuses \cup {Nothing}
  /\ told \in Answers \cup {Nothing}
  /\ previous = Nothing <=> told = Nothing
  /\ ToldOfEveryChange

(* What the effect is given. *)
Seen == IF Shown = Nothing THEN Nothing ELSE Shown.data

SeenIsTheData ==
  /\ Seen \in Answers \cup {Nothing}
  /\ key # Nothing /\ Entry.data # Nothing => Seen = Entry.data
  /\ key # Nothing /\ Entry.data = Nothing /\ held = Nothing => Seen = Nothing

LEMMA SeenFacts == DeploymentTypes => SeenIsTheData
<1> SUFFICES ASSUME DeploymentTypes PROVE SeenIsTheData
  OBVIOUS
<1> USE DEF SeenIsTheData
<1>1. CASE key # Nothing /\ Entry.data # Nothing
  <2>1. Entry.data \in Answers
    BY <1>1 DEF DeploymentTypes, CacheTypes, Cached, EntriesOf, Entry
  <2>2. Shown = [key |-> key, data |-> Entry.data]
    BY <1>1 DEF Shown
  <2>3. Shown \in [key : Selections, data : Answers]
    BY <1>1, <2>1, <2>2 DEF DeploymentTypes, CacheTypes
  <2>4. Shown # Nothing
    BY <2>3, DeploymentNotificationsAssumption
  <2>5. Seen = Entry.data
    BY <2>2, <2>4 DEF Seen
  <2>6. QED
    BY <1>1, <2>1, <2>5
<1>2. CASE ~(key # Nothing /\ Entry.data # Nothing)
  <2>1. Shown \in {Nothing, held}
    BY <1>2 DEF Shown
  <2>2. QED
    BY <1>2, <2>1 DEF DeploymentTypes, CacheTypes, Seen
<1>3. QED
  BY <1>1, <1>2

LEMMA TellInit == DeploymentInit => TellInv
BY DEF DeploymentInit, TellInv, ToldOfEveryChange

LEMMA TellNext == DeploymentTypes /\ TellInv /\ [DeploymentNext]_deploymentVars => TellInv'
<1> SUFFICES ASSUME DeploymentTypes, TellInv, [DeploymentNext]_deploymentVars PROVE TellInv'
  OBVIOUS
<1>1. DeploymentTypes'
  BY TypesKept
<1>2. SeenIsTheData'
  BY <1>1, SeenFacts, PTL
<1>3. CASE Render /\ key' = Nothing
  BY <1>3 DEF Render, TellInv, ToldOfEveryChange
<1>4. CASE Render /\ key' # Nothing
  <2>1. /\ Effect(Seen')
        /\ told' = IF told = Nothing THEN Seen'
                   ELSE IF notice' # Nothing THEN notice' ELSE told
        /\ optedIn' = (optedIn /\ On')
    BY <1>4 DEF Render, Seen
  <2>2. CASE Seen' = Nothing
    <3>1. previous' = previous /\ notice' = Nothing
      BY <2>1, <2>2 DEF Effect
    <3>2. told' = told
      BY <2>1, <2>2, <3>1
    <3>3. QED
      BY <2>1, <3>1, <3>2 DEF TellInv, ToldOfEveryChange
  <2>3. CASE Seen' # Nothing
    <3>1. /\ Seen' \in Answers /\ Seen'.status \in Statuses
          /\ Seen'.status # Nothing
      BY <1>2, <2>3, DeploymentNotificationsAssumption
      DEF SeenIsTheData, Answers
    <3>2. /\ previous' = Seen'.status
          /\ notice' = IF \/ previous \in {Nothing, Seen'.status}
                          \/ Seen'.status = "" \/ ~On'
                       THEN Nothing ELSE Seen'
      BY <2>1, <2>3 DEF Effect
    <3>3. told' \in Answers
      BY <2>1, <3>1, <3>2 DEF TellInv
    <3>4. told' # Nothing
      BY <3>3, DeploymentNotificationsAssumption
    <3>5. ASSUME optedIn', previous' # ""
          PROVE  told'.status = previous'
      <4>1. optedIn /\ On'
        BY <2>1, <3>5
      <4>2. CASE told = Nothing
        BY <2>1, <3>2, <4>2
      <4>3. CASE told # Nothing /\ previous = Seen'.status
        <5>1. told.status = previous
          BY <3>1, <3>2, <3>5, <4>1, <4>3 DEF TellInv, ToldOfEveryChange
        <5>2. notice' = Nothing
          BY <3>2, <4>3
        <5>3. QED
          BY <2>1, <3>2, <4>3, <5>1, <5>2
      <4>4. CASE told # Nothing /\ previous # Seen'.status
        <5>1. notice' = Seen'
          BY <3>2, <3>5, <4>1, <4>4 DEF TellInv
        <5>2. QED
          BY <2>1, <2>3, <3>2, <4>4, <5>1
      <4>5. QED
        BY <4>2, <4>3, <4>4
    <3>6. QED
      BY <3>1, <3>2, <3>3, <3>4, <3>5 DEF TellInv, ToldOfEveryChange
  <2>4. QED
    BY <2>2, <2>3
<1>5. CASE StatusChanges
  BY <1>5 DEF StatusChanges, TellInv, ToldOfEveryChange
<1>6. ASSUME UNCHANGED <<previous, told>>, optedIn' => optedIn PROVE TellInv'
  BY <1>6 DEF TellInv, ToldOfEveryChange
<1>7. QED
  BY <1>3, <1>4, <1>5, <1>6, Steps

(* With notifications on ever since the page was opened, the user was told *)
(* of every status the page was shown: however the answers come, whatever  *)
(* selections the user goes through, the comparison in the effect misses   *)
(* none but "no deployment".                                               *)
THEOREM SpecToldOfEveryChange == DeploymentSpec => []ToldOfEveryChange
<1>1. DeploymentTypes /\ TellInv => ToldOfEveryChange
  BY DEF TellInv
<1>2. QED
  BY <1>1, InitTypes, TypesKept, TellInit, TellNext, PTL DEF DeploymentSpec

-----------------------------------------------------------------------------
(* Notifications on one selection of filters.                              *)

(* y is x or is of a later change of the status than x. *)
Precedes(x, y) == x # Nothing /\ y # Nothing => x = y \/ x.at < y.at

(* An entry's data are no newer than the answer on its way, and neither is *)
(* newer than what the server says.                                        *)
InOrder(e) ==
  /\ Precedes(e.data, e.read)
  /\ Precedes(e.data, server)
  /\ Precedes(e.read, server)

QueriesInOrder == \A k \in DOMAIN queries : InOrder(queries[k])

(* While the page is mounted, what was seen last is its entry's data, and  *)
(* what the user was told is no newer.                                     *)
NoticeInv ==
  /\ QueriesInOrder
  /\ key = Nothing \/ Entry.data = Nothing =>
       held = Nothing /\ previous = Nothing /\ told = Nothing
  /\ key # Nothing /\ Entry.data # Nothing =>
       /\ previous = Entry.data.status
       /\ told \in Answers /\ Precedes(told, Entry.data)

LEMMA PrecedesFacts ==
  ASSUME NEW x \in Answers, NEW y \in Answers, NEW z \in Answers,
         Precedes(x, y), Precedes(y, z)
  PROVE  /\ Precedes(x, z)
         /\ x = z => y = x
         /\ x # z => x.at < z.at
<1>1. x # Nothing /\ y # Nothing /\ z # Nothing
  BY DeploymentNotificationsAssumption
<1>2. x.at \in Nat /\ y.at \in Nat /\ z.at \in Nat
  BY DEF Answers
<1>3. (x = y \/ x.at < y.at) /\ (y = z \/ y.at < z.at)
  BY <1>1 DEF Precedes
<1>4. QED
  BY <1>2, <1>3 DEF Precedes

(* Answers arrive in the order in which they were read, as each entry has  *)
(* one request at a time.                                                  *)
LEMMA ProgressInOrder ==
  ASSUME server \in Answers, server' = server, NEW old, NEW new,
         Cached(old, Answers), Cached(new, Answers), InOrder(old), Progress(old, new)
  PROVE  /\ Precedes(new.data, new.read)
         /\ Precedes(new.data, server') /\ Precedes(new.read, server')
         /\ Precedes(old.data, new.data)
         /\ old.data # Nothing => new.data # Nothing
BY DEF InOrder, Precedes, Progress, Cached, EntriesOf

LEMMA NoticeInit == DeploymentInit => NoticeInv
<1> SUFFICES ASSUME NEW k \in Selections, CacheInit(k), server \in Answers,
                    previous = Nothing, told = Nothing
             PROVE  NoticeInv
  BY DEF DeploymentInit, Answers
<1>1. Asked(NewEntry).data = Nothing /\ Asked(NewEntry).read = Nothing
  BY DEF Asked, Moved, NewEntry
<1>2. /\ queries = [j \in {k} |-> Asked(NewEntry)] /\ key = k /\ held = Nothing
  BY DEF CacheInit
<1>3. QED
  BY <1>1, <1>2 DEF NoticeInv, QueriesInOrder, InOrder, Precedes, Entry

(* A render of the one selection: either it shows the data that were there *)
(* before, or newer data.                                                  *)
LEMMA RenderForward ==
  ASSUME NEW k0, Selections = {k0}, DeploymentTypes, DeploymentTypes',
         NoticeInv, Moves(Selections), Render
  PROVE  /\ NoticeInv'
         /\ notice' # Nothing => told # Nothing /\ notice'.at > told.at
<1>1. ASSUME NEW k \in DOMAIN queries'
      PROVE  /\ Cached(EntryOf(k), Answers) /\ Cached(queries'[k], Answers)
             /\ InOrder(EntryOf(k)) /\ Progress(EntryOf(k), queries'[k])
  <2>1. Cached(queries'[k], Answers) /\ Progress(EntryOf(k), queries'[k])
    BY DEF DeploymentTypes, CacheTypes, Moves
  <2>2. CASE k \in DOMAIN queries
    BY <2>1, <2>2 DEF EntryOf, NoticeInv, QueriesInOrder, DeploymentTypes, CacheTypes
  <2>3. CASE k \notin DOMAIN queries
    BY <2>1, <2>3, NewEntryFacts DEF EntryOf, InOrder, Precedes
  <2>4. QED
    BY <2>2, <2>3
<1>2. server' = server /\ server \in Answers
  BY DEF Moves, DeploymentTypes, CacheTypes
<1>3. QueriesInOrder'
  <2>1. ASSUME NEW k \in DOMAIN queries'
        PROVE  /\ Precedes(queries'[k].data, queries'[k].read)
               /\ Precedes(queries'[k].data, server')
               /\ Precedes(queries'[k].read, server')
    BY <1>1, <1>2, ProgressInOrder
  <2>2. QED
    BY <2>1 DEF QueriesInOrder, InOrder
<1>4. SeenIsTheData'
  BY SeenFacts, PTL
<1>5. CASE key' = Nothing
  <2>1. /\ previous' = Nothing /\ notice' = Nothing /\ told' = Nothing
        /\ held' = Nothing
    BY <1>5 DEF Render, DeploymentTypes, CacheTypes
  <2>2. QED
    BY <1>3, <1>5, <2>1 DEF NoticeInv
<1>6. CASE key' # Nothing
  <2> DEFINE d == EntryOf(key').data
             n == queries'[key'].data
  <2>1. /\ key' = k0 /\ key' \in DOMAIN queries' /\ key \in {Nothing, k0}
        /\ Entry' = queries'[key']
    BY <1>6 DEF DeploymentTypes, CacheTypes, Entry
  <2>2. /\ d \in Answers \cup {Nothing} /\ n \in Answers \cup {Nothing}
        /\ Precedes(d, n) /\ (d # Nothing => n # Nothing)
    <3>1. Precedes(d, n) /\ (d # Nothing => n # Nothing)
      BY <1>1, <1>2, <2>1, ProgressInOrder
    <3>2. QED
      BY <1>1, <2>1, <3>1 DEF Cached, EntriesOf
  <2>3. key # Nothing => Entry.data = d
    BY <2>1 DEF Entry, EntryOf, DeploymentTypes, CacheTypes
  <2>4. /\ Effect(Seen')
        /\ told' = IF told = Nothing THEN Seen'
                   ELSE IF notice' # Nothing THEN notice' ELSE told
    BY <1>6 DEF Render, Seen
  <2> HIDE DEF d, n
  <2>5. CASE n = Nothing
    <3>1. held' = held /\ d = Nothing
      BY <1>6, <2>2, <2>5 DEF Moves, n
    <3>2. held = Nothing /\ previous = Nothing /\ told = Nothing
      BY <2>3, <3>1 DEF NoticeInv
    <3>3. Seen' = Nothing
      BY <1>4, <1>6, <2>1, <2>5, <3>1, <3>2 DEF SeenIsTheData, n
    <3>4. notice' = Nothing /\ previous' = Nothing /\ told' = Nothing
      BY <2>4, <3>2, <3>3 DEF Effect
    <3>5. QED
      BY <1>3, <2>1, <2>5, <3>1, <3>2, <3>4 DEF NoticeInv, n
  <2>6. CASE n # Nothing
    <3>1. Seen' = n /\ n \in Answers
      BY <1>4, <1>6, <2>1, <2>2, <2>6 DEF SeenIsTheData, n
    <3>2. /\ previous' = n.status
          /\ notice' = IF \/ previous \in {Nothing, n.status}
                          \/ n.status = "" \/ ~On'
                       THEN Nothing ELSE n
      BY <2>4, <2>6, <3>1 DEF Effect
    <3>3. CASE key = Nothing \/ d = Nothing
      <4>1. previous = Nothing /\ told = Nothing
        BY <2>3, <3>3 DEF NoticeInv
      <4>2. notice' = Nothing /\ told' = n
        BY <2>4, <3>1, <3>2, <4>1
      <4>3. QED
        BY <1>3, <1>6, <2>1, <2>6, <3>1, <3>2, <4>2
        DEF NoticeInv, Precedes, n
    <3>4. CASE key # Nothing /\ d # Nothing
      <4>1. /\ d \in Answers /\ previous = d.status
            /\ told \in Answers /\ Precedes(told, d)
        BY <2>2, <2>3, <3>4 DEF NoticeInv
      <4>2. /\ Precedes(told, n)
            /\ told = n => d = told
            /\ told # n => told.at < n.at
        BY <2>2, <3>1, <4>1, PrecedesFacts
      <4>3. told # Nothing
        BY <4>1, DeploymentNotificationsAssumption
      <4>4. notice' # Nothing => told # n
        BY <3>2, <4>1, <4>2
      <4>5. told' \in {told, n} /\ Precedes(n, n)
        BY <2>4, <3>2, <4>3 DEF Precedes
      <4>6. notice' # Nothing => notice' = n /\ notice'.at > told.at
        BY <3>1, <3>2, <4>1, <4>2, <4>4 DEF Answers
      <4>7. told' \in Answers /\ Precedes(told', n)
        BY <3>1, <4>1, <4>2, <4>5
      <4>8. NoticeInv'
        BY <1>3, <1>6, <2>1, <2>6, <3>2, <4>7 DEF NoticeInv, Precedes, n
      <4>9. QED
        BY <4>3, <4>6, <4>8
    <3>5. QED
      BY <3>3, <3>4
  <2>7. QED
    BY <2>5, <2>6
<1>7. QED
  BY <1>5, <1>6

(* The status changes while nothing is rendered. *)
LEMMA StatusChangesInOrder ==
  ASSUME DeploymentTypes, NoticeInv, StatusChanges
  PROVE  NoticeInv'
<1>1. PICK s \in Statuses : server' = [status |-> s, at |-> server.at + 1]
  BY DEF StatusChanges
<1>2. UNCHANGED <<queries, key, held, previous, told>>
  BY DEF StatusChanges
<1>3. ASSUME NEW k \in DOMAIN queries PROVE InOrder(queries[k])'
  <2>1. /\ InOrder(queries[k]) /\ server \in Answers
        /\ queries[k].data \in Answers \cup {Nothing}
        /\ queries[k].read \in Answers \cup {Nothing}
    BY DEF NoticeInv, QueriesInOrder, DeploymentTypes, CacheTypes, Cached, EntriesOf
  <2>2. ASSUME NEW x \in Answers \cup {Nothing}, Precedes(x, server)
        PROVE  Precedes(x, server')
    BY <1>1, <2>1, <2>2, DeploymentNotificationsAssumption DEF Precedes, Answers
  <2>3. QED
    BY <1>2, <2>1, <2>2 DEF InOrder
<1>4. QED
  BY <1>2, <1>3 DEF NoticeInv, QueriesInOrder, Entry, Precedes

LEMMA NoticeNext ==
  ASSUME NEW k0, Selections = {k0}, DeploymentTypes, NoticeInv,
         [DeploymentNext]_deploymentVars
  PROVE  /\ NoticeInv'
         /\ notice' # Nothing /\ notice' # notice
              => told # Nothing /\ notice'.at > told.at
<1>1. DeploymentTypes'
  BY TypesKept
<1>2. CASE (CacheActs(Selections) \/ UNCHANGED cacheVars) /\ Render
  BY <1>1, <1>2, DeploymentMoves, RenderForward
<1>3. CASE StatusChanges
  <2>1. notice' = Nothing
    BY <1>3 DEF StatusChanges
  <2>2. QED
    BY <1>3, <2>1, StatusChangesInOrder
<1>4. CASE UNCHANGED <<cacheVars, previous, told>> /\ notice' \in {Nothing, notice}
  BY <1>4 DEF NoticeInv, QueriesInOrder, InOrder, Precedes, Entry, cacheVars
<1>5. QED
  BY <1>2, <1>3, <1>4, Steps

(* On one selection of filters, whose one request is answered before the   *)
(* next is made, a notification is of a status that is newer than all the  *)
(* user was told on this page.  (With two it is not: the cached answer of  *)
(* the other may be older.)                                                *)
THEOREM SpecNoticesMoveForward ==
  ASSUME NEW k0, Selections = {k0}
  PROVE  DeploymentSpec => NoticesMoveForward
<1>1. DeploymentTypes /\ NoticeInv /\ [DeploymentNext]_deploymentVars => NoticeInv'
  BY NoticeNext
<1>2. DeploymentTypes /\ NoticeInv /\ [DeploymentNext]_deploymentVars
        => [notice' # Nothing /\ notice' # notice
              => told # Nothing /\ notice'.at > told.at]_deploymentVars
  BY NoticeNext
<1>3. QED
  BY <1>1, <1>2, InitTypes, TypesKept, NoticeInit, PTL
  DEF DeploymentSpec, NoticesMoveForward

-----------------------------------------------------------------------------
(* JobStatusPage: views and query strings.                                 *)

Views ==
  [q : Searches \cup {AnyValue},
   taskGroup : Texts["taskGroup"] \cup {AnyValue},
   version : Texts["version"] \cup {AnyValue},
   node : Texts["node"] \cup {AnyValue},
   status : Texts["status"] \cup {AnyValue},
   sort : SortColumns, dir : {"asc", "desc", "none"},
   page : Nat \ {0}, pageSize : PageSizes,
   versionPage : Nat \ {0}, versionPageSize : VersionPageSizes]

Params ==
  {"q", "taskGroup", "version", "node", "status", "sort", "dir",
   "page", "pageSize", "versionPage", "versionPageSize"}


PageKeys == {KeyOf(v) : v \in Views}

(* What may stand in the URL, and what in the history.                     *)
Urls == Bookmarks \cup {UrlOf(v) : v \in Views} \cup {NoParams, Nothing}

(* The inductive invariant: the page's state is a view, and its query the  *)
(* view's.                                                                 *)
PageInv ==
  /\ view \in Views
  /\ CacheTypes(PageKeys, Lists)
  /\ key \in {Nothing, KeyOf(view)}
  /\ url \in Urls /\ past \in Seq(Urls)

(* What HandlersKeepUrl says of a step.                                    *)
UrlIsKept ==
  \/ key' = Nothing
  \/ ViewOf(url') = view' /\ key' = KeyOf(view')
  \/ key' = key /\ UNCHANGED view /\ past' # past
  \/ UNCHANGED <<view, url, key>>

(* A view is the function from the parameters that the query string knows. *)
LEMMA ViewsAreFunctions ==
  \A v \in Views :
    /\ v = [p \in Params |-> v[p]]
    /\ \A p \in Params : v[p] \in Valid(p) \/ v[p] = DefaultView[p]
    /\ v["sort"] \in Valid("sort") /\ v["dir"] \in Valid("dir")
<1> SUFFICES ASSUME NEW v \in Views
             PROVE  /\ v = [p \in Params |-> v[p]]
                    /\ \A p \in Params : v[p] \in Valid(p) \/ v[p] = DefaultView[p]
                    /\ v["sort"] \in Valid("sort") /\ v["dir"] \in Valid("dir")
  OBVIOUS
<1>1. v = [p \in Params |-> v[p]]
  BY DEF Views, Params
<1>2. /\ \A p \in {"q", "taskGroup", "version", "node", "status"} :
           v[p] \in Valid(p) \/ v[p] = DefaultView[p]
  BY DEF Views, Valid, DefaultView, FilterKeys
<1>3. /\ v["sort"] \in Valid("sort") /\ v["dir"] \in Valid("dir")
      /\ v["page"] \in Valid("page") /\ v["pageSize"] \in Valid("pageSize")
      /\ v["versionPage"] \in Valid("versionPage")
      /\ v["versionPageSize"] \in Valid("versionPageSize")
  BY DEF Views, Valid, FilterKeys
<1>4. QED
  BY <1>1, <1>2, <1>3 DEF Params

LEMMA DefaultIsView ==
  /\ DefaultView \in Views
  /\ DOMAIN DefaultView = Params
  BY JobStatusPageAssumption DEF DefaultView, Views, SortColumns, Params

(* Whatever the query string, what is read from it is a view.              *)
LEMMA ViewOfIsView == \A params : ViewOf(params) \in Views
<1> SUFFICES ASSUME NEW params PROVE ViewOf(params) \in Views
  OBVIOUS
<1>1. PICK read : /\ \A p \in read : params[p] \in Valid(p)
                  /\ ViewOf(params) = [p \in Params |->
                       IF p \in read THEN params[p] ELSE DefaultView[p]]
  <2> DEFINE valid == {p \in DOMAIN params : params[p] \in Valid(p)}
  <2>1. PICK read : read \subseteq valid /\
          ViewOf(params) = [p \in DOMAIN DefaultView |->
                       IF p \in read THEN params[p] ELSE DefaultView[p]]
    BY DEF ViewOf, Parse
  <2>2. QED
    BY <2>1, DefaultIsView
<1> DEFINE v == ViewOf(params)
<1>2. \A p \in Params : v[p] \in Valid(p) \/ v[p] = DefaultView[p]
  BY <1>1
<1>3. v = [q |-> v["q"], taskGroup |-> v["taskGroup"],
           version |-> v["version"], node |-> v["node"],
           status |-> v["status"], sort |-> v["sort"], dir |-> v["dir"],
           page |-> v["page"], pageSize |-> v["pageSize"],
           versionPage |-> v["versionPage"],
           versionPageSize |-> v["versionPageSize"]]
  BY <1>1 DEF Params
<1> HIDE DEF v
<1>4. /\ v["q"] \in Searches \cup {AnyValue}
      /\ v["taskGroup"] \in Texts["taskGroup"] \cup {AnyValue}
      /\ v["version"] \in Texts["version"] \cup {AnyValue}
      /\ v["node"] \in Texts["node"] \cup {AnyValue}
      /\ v["status"] \in Texts["status"] \cup {AnyValue}
  BY <1>2 DEF Params, Valid, DefaultView, FilterKeys
<1>5. v["sort"] \in SortColumns /\ v["dir"] \in {"asc", "desc", "none"}
  BY <1>2 DEF Params, Valid, DefaultView, SortColumns, FilterKeys
<1>6. /\ v["page"] \in Nat \ {0} /\ v["pageSize"] \in PageSizes
      /\ v["versionPage"] \in Nat \ {0}
      /\ v["versionPageSize"] \in VersionPageSizes
  BY <1>2, JobStatusPageAssumption DEF Params, Valid, DefaultView, FilterKeys
<1>7. v \in Views
  BY <1>3, <1>4, <1>5, <1>6 DEF Views
<1>8. QED
  BY <1>7 DEF v

(* What is written for a view is read as that view, though parameters that *)
(* have their default are left out: the two of the sort are written both   *)
(* or neither, and that is how they are read.                              *)
LEMMA RoundTrip == \A v \in Views : ViewOf(UrlOf(v)) = v
<1> SUFFICES ASSUME NEW v \in Views PROVE ViewOf(UrlOf(v)) = v
  OBVIOUS
<1> DEFINE params == UrlOf(v)
           valid  == {p \in DOMAIN params : params[p] \in Valid(p)}
<1>1. v = [p \in Params |-> v[p]] /\ SortParams \subseteq Params
  BY ViewsAreFunctions DEF SortParams, Params
<1>2. /\ DOMAIN params \subseteq Params
      /\ \A p \in DOMAIN params : params[p] = v[p]
      /\ \A p \in DOMAIN params : v[p] # DefaultView[p] \/ p \in SortParams
  BY <1>1, BuildFacts DEF UrlOf
<1> HIDE DEF params
<1>3. ASSUME NEW p \in DOMAIN params PROVE params[p] \in Valid(p)
  <2>1. p \in Params /\ params[p] = v[p]
    BY <1>2
  <2>2. CASE v[p] # DefaultView[p]
    BY <2>1, <2>2, ViewsAreFunctions
  <2>3. CASE p \in SortParams
    BY <2>1, <2>3, ViewsAreFunctions DEF SortParams
  <2>4. QED
    BY <1>2, <2>2, <2>3
<1>4. valid = DOMAIN params
  BY <1>3
<1> HIDE DEF valid
<1>5. ViewOf(params) = Parse(params, DefaultView, valid)
  BY DEF ViewOf, valid
<1>6. Parse(params, DefaultView, DOMAIN params) = v
  BY <1>1, DefaultIsView, ParseBuild DEF params, UrlOf
<1>7. QED
  BY <1>4, <1>5, <1>6 DEF params

(* The key of a view asks for a page of a size that is offered.            *)
LEMMA PageKeyFacts ==
  \A k \in PageKeys :
    /\ k.page \in Nat \ {0} /\ k.pageSize \in Nat \ {0}
    /\ \E v \in Views : k = KeyOf(v)
<1> SUFFICES ASSUME NEW v \in Views
             PROVE  /\ KeyOf(v).page \in Nat \ {0}
                    /\ KeyOf(v).pageSize \in Nat \ {0}
  BY DEF PageKeys
<1>1. v.page \in Nat \ {0} /\ v.pageSize \in Nat \ {0}
  BY JobStatusPageAssumption DEF Views
<1>2. QED
  BY <1>1 DEF KeyOf

-----------------------------------------------------------------------------
(* The server's table for a view.                                          *)

(* Sorting changes nothing about how many there are.                       *)
LEMMA SortKeepsLength ==
  ASSUME NEW S, NEW list \in Seq(S), NEW column, NEW dir, NEW times
  PROVE  /\ \E T : Sorted(list, column, dir, times) \in Seq(T)
         /\ Len(Sorted(list, column, dir, times)) = Len(list)
<1>1. PICK order :
        Sorted(list, column, dir, times) =
          IF column \in SortColumns /\ dir \in {"asc", "desc"}
          THEN [n \in DOMAIN list |-> list[order[n]]] ELSE list
  BY Zenon DEF Sorted
<1> DEFINE up == [n \in 1 .. Len(list) |-> list[order[n]]]
<1>2. Len(list) \in Nat /\ DOMAIN list = 1 .. Len(list)
  OBVIOUS
<1>3. Len(up) = Len(list) /\ up \in Seq({up[i] : i \in 1 .. Len(list)})
  <2>1. up = [i \in 1 .. Len(list) |-> up[i]]
    OBVIOUS
  <2>2. QED
    BY <1>2, <2>1, IsSeq
<1>4. Sorted(list, column, dir, times) \in {up, list}
  BY <1>1, <1>2
<1> HIDE DEF up
<1>5. QED
  BY <1>3, <1>4

Unfiltered(f) ==
  /\ f.search = AnyValue
  /\ \A field \in {"taskGroup", "version", "node", "status", "desired"} :
       f[field] = AnyValue

(* The rows: a page that has some when any are left, and none is left out  *)
(* without a filter.                                                       *)
Rowed(t, list, k) ==
  /\ t.totalItems \in Nat
  /\ t.page \in Nat \ {0}
  /\ t.totalItems # 0 => t.rows # << >>
  /\ Unfiltered(k.filters) => t.totalItems = Len(list)

LEMMA RowsFacts ==
  ASSUME NEW list \in Lists, NEW k \in PageKeys
  PROVE  Rowed(Table(list, KnownTimes, NodeIP, Now, k), list, k)
<1> DEFINE f == Filtered(list, k.filters, NodeIP)
           s == Sorted(f, k.column, k.dir, KnownTimes)
           p == Paginate(k.page, k.pageSize, Len(s))
           t == Table(list, KnownTimes, NodeIP, Now, k)
           kept == KeptOf(list, k.filters, NodeIP)
<1>1. t.rows = PageOf(s, p) /\ t.page = p.page /\ t.totalItems = Len(f)
  BY DEF Table
<1>2. list \in Seq(ToSet(list)) /\ DOMAIN list = 1 .. Len(list)
  BY JobStatusPageAssumption
<1>3. /\ Cardinality(kept) \in Nat
      /\ f \in [1 .. Cardinality(kept) -> ToSet(list)]
  BY <1>2, FilteredFacts
<1>4. Unfiltered(k.filters) => Cardinality(kept) = Len(list)
  <2>1. Unfiltered(k.filters) => kept = DOMAIN list
    BY DEF Unfiltered, KeptOf, Matches
  <2>2. Cardinality(DOMAIN list) = Len(list)
    BY <1>2, Counting
  <2>3. QED
    BY <2>1, <2>2
<1> HIDE DEF t, f, kept
<1>5. f \in Seq(ToSet(list)) /\ Len(f) = Cardinality(kept)
  BY <1>3
<1>6. (\E T : s \in Seq(T)) /\ Len(s) = Len(f)
  BY <1>5, SortKeepsLength
<1> HIDE DEF s
<1>7. PICK T : s \in Seq(T)
  BY <1>6
<1>8. k.page \in Int /\ k.pageSize \in Int /\ Len(s) \in Nat
  BY <1>7, PageKeyFacts
<1>9. PICK size \in 1 .. MaxPageSize, pages \in Nat \ {0} :
        Pagination(size, pages, k.pageSize, Len(s))
  BY <1>8, PaginateFacts
<1>10. /\ p.pageSize = size /\ p.page \in 1 .. pages
       /\ p.offset = (p.page - 1) * size
       /\ Len(s) # 0 => (pages - 1) * size < Len(s)
  BY <1>8, <1>9 DEF Pagination
<1> HIDE DEF p
<1>11. size \in Nat \ {0} /\ p.page \in Nat \ {0} /\ p.page <= pages
  BY <1>10, AllocationsAssumption
<1>12. ASSUME Len(s) # 0 PROVE PageOf(s, p) # << >>
  <2>1. (p.page - 1) * size < Len(s)
    <3>1. (p.page - 1) * size <= (pages - 1) * size
      <4>1. \A a, b, c \in Nat : a <= b => a * c <= b * c
        OBVIOUS
      <4>2. p.page - 1 \in Nat /\ pages - 1 \in Nat /\ p.page - 1 <= pages - 1
        BY <1>11
      <4>3. QED
        BY <1>11, <4>1, <4>2
    <3>2. /\ (p.page - 1) * size \in Int /\ (pages - 1) * size \in Int
          /\ (pages - 1) * size < Len(s)
      BY <1>10, <1>11, <1>12
    <3>3. QED
      BY <1>8, <3>1, <3>2
  <2>2. (p.page - 1) * size <= Len(s)
    BY <1>8, <1>11, <2>1
  <2>3. IsPage(PageOf(s, p), s, size, p.page)
    BY <1>7, <1>10, <1>11, <2>2, PageOfFacts
  <2>4. 1 \in DOMAIN PageOf(s, p)
    <3>1. Nth(size, p.page, 1) <= Len(s)
      BY <1>8, <1>11, <2>1 DEF Nth
    <3>2. 1 \in 1 .. size
      BY <1>11
    <3>3. QED
      BY <2>3, <3>1, <3>2 DEF IsPage
  <2>5. QED
    BY <2>4
<1>13. Rowed(t, list, k)
  BY <1>1, <1>4, <1>5, <1>6, <1>8, <1>11, <1>12 DEF Rowed
<1>14. QED
  BY <1>13 DEF t

(* The filter options and the version groups are of the list's values.     *)
Optioned(t, list) ==
  /\ ToSet(t.options.taskGroups) \subseteq Texts["taskGroup"]
  /\ ToSet(t.options.versions) \subseteq Texts["version"]
  /\ ToSet(t.options.nodes) \subseteq Texts["node"]
  /\ \E T : t.groups \in Seq(T)
  /\ \A g \in ToSet(t.groups) : g.version \in Texts["version"]
  /\ list # << >> => Len(t.groups) # 0

LEMMA ValuesOf ==
  ASSUME NEW list \in Lists
  PROVE  LET V(field) == {s[field] : s \in ToSet(list)}
         IN  \A field \in {"taskGroup", "version", "node"} :
               /\ IsFiniteSet(V(field)) /\ V(field) \subseteq Int
               /\ V(field) \subseteq Texts[field]
<1> DEFINE V(field) == {s[field] : s \in ToSet(list)}
<1>1. SUFFICES ASSUME NEW field \in {"taskGroup", "version", "node"}
               PROVE  /\ IsFiniteSet(V(field)) /\ V(field) \subseteq Int
                      /\ V(field) \subseteq Texts[field]
  OBVIOUS
<1>2. /\ list \in Seq(ToSet(list))
      /\ \A s \in ToSet(list) : s[field] \in Nat \cap Texts[field]
  BY <1>1, JobStatusPageAssumption
<1>3. IsFiniteSet(V(field))
  BY <1>2, FieldFinite
<1>4. \A s \in ToSet(list) : s[field] \in Int
  BY <1>1, <1>2
<1>5. V(field) \subseteq Texts[field]
  BY <1>2
<1>6. QED
  BY <1>3, <1>4, <1>5

LEMMA OptionsFacts ==
  ASSUME NEW list \in Lists, NEW k \in PageKeys
  PROVE  Optioned(Table(list, KnownTimes, NodeIP, Now, k), list)
<1> DEFINE V(field) == {s[field] : s \in ToSet(list)}
           groups == GroupByVersion(list, KnownTimes, Now)
           t == Table(list, KnownTimes, NodeIP, Now, k)
<1>1. /\ t.groups = groups
      /\ t.options.taskGroups = Ascending(V("taskGroup"))
      /\ t.options.versions = Descending(V("version"))
      /\ t.options.nodes = Ascending(V("node"))
  BY DEF Table, FilterOptions
<1> HIDE DEF t
<1>2. \A field \in {"taskGroup", "version", "node"} :
        /\ IsFiniteSet(V(field)) /\ V(field) \subseteq Int
        /\ V(field) \subseteq Texts[field]
  BY ValuesOf
<1>3. V("version") = VersionsOf(list)
  BY DEF VersionsOf
<1> HIDE DEF V
<1>4. ASSUME NEW S, IsFiniteSet(S), S \subseteq Int
      PROVE  ToSet(Ascending(S)) \subseteq S /\ ToSet(Descending(S)) \subseteq S
  <2>1. Ascending(S) \in [1 .. Cardinality(S) -> S]
    BY <1>4, AscendingFacts
  <2>2. Descending(S) \in [1 .. Cardinality(S) -> S]
    BY <1>4, DescendingFacts
  <2>3. QED
    BY <2>1, <2>2 DEF ToSet
<1>5. Versioned(list)
  BY JobStatusPageAssumption DEF Versioned
<1>6. Grouping(groups, list, KnownTimes, Now)
  BY <1>5, GroupsFacts
<1>7. PICK n \in Nat : /\ DOMAIN groups = 1 .. n
                       /\ groups = [i \in 1 .. n |-> groups[i]]
  <2>1. Descending(VersionsOf(list))
          \in [1 .. Cardinality(VersionsOf(list)) -> VersionsOf(list)]
        /\ Cardinality(VersionsOf(list)) \in Nat
    BY <1>2, <1>3, DescendingFacts
  <2> DEFINE d == Descending(VersionsOf(list))
             g == [n \in DOMAIN d |->
                     [version |-> d[n],
                      lastModified |-> LastModifiedSeconds(KnownTimes, d[n], Now),
                      counts |-> [c \in ClientStatuses |->
                                    Cardinality(InGroup(list, d[n], c))]]]
  <2>2. groups = g
    BY DEF GroupByVersion, InGroup, VersionsOf
  <2>3. DOMAIN Descending(VersionsOf(list)) = 1 .. Cardinality(VersionsOf(list))
    BY <2>1
  <2>4. DOMAIN g = DOMAIN d /\ g = [i \in DOMAIN d |-> g[i]]
    OBVIOUS
  <2> HIDE DEF groups, g
  <2>5. QED
    BY <2>1, <2>2, <2>3, <2>4
<1> HIDE DEF groups
<1>8. groups \in Seq({groups[i] : i \in 1 .. n}) /\ Len(groups) = n
  BY <1>7, IsSeq
<1>9. \A g \in ToSet(groups) : g.version \in Texts["version"]
  BY <1>2, <1>3, <1>6 DEF Grouping, ToSet
<1>10. ASSUME list # << >> PROVE Len(groups) # 0
  <2>1. list \in Seq(ToSet(list))
    BY JobStatusPageAssumption
  <2>2. Len(list) \in Nat /\ DOMAIN list = 1 .. Len(list) /\ Len(list) # 0
    BY <1>10, <2>1
  <2>3. 1 \in DOMAIN list
    BY <2>2
  <2>4. list[1] \in ToSet(list)
    BY <2>3 DEF ToSet
  <2>5. \E m \in DOMAIN groups : TRUE
    BY <1>6, <2>4 DEF Grouping, VersionsOf
  <2>6. QED
    BY <1>7, <1>8, <2>5
<1>11. /\ ToSet(t.options.taskGroups) \subseteq Texts["taskGroup"]
       /\ ToSet(t.options.versions) \subseteq Texts["version"]
       /\ ToSet(t.options.nodes) \subseteq Texts["node"]
  BY <1>1, <1>2, <1>4
<1>12. Optioned(t, list)
  BY <1>1, <1>8, <1>9, <1>10, <1>11 DEF Optioned
<1>13. QED
  BY <1>12 DEF t

-----------------------------------------------------------------------------
(* What is rendered.                                                       *)

LEMMA DataFacts ==
  ASSUME PageInv, Ready
  PROVE  /\ Shown.key \in PageKeys /\ Shown.data \in Lists
         /\ Rowed(Data, Shown.data, Shown.key)
         /\ Optioned(Data, Shown.data)
<1>1. Shown.key \in PageKeys /\ Shown.data \in Lists
  <2>1. CASE Entry.data # Nothing
    <3>1. key \in PageKeys /\ Entry.data \in Lists
      BY <2>1 DEF Ready, PageInv, CacheTypes, Cached, EntriesOf, Entry
    <3>2. Shown = [key |-> key, data |-> Entry.data]
      BY <2>1 DEF Shown, Ready
    <3>3. QED
      BY <3>1, <3>2
  <2>2. CASE Entry.data = Nothing
    <3>1. Shown = held
      BY <2>2 DEF Shown, Ready
    <3>2. held \in [key : PageKeys, data : Lists]
      BY <3>1 DEF Ready, PageInv, CacheTypes
    <3>3. QED
      BY <3>1, <3>2
  <2>3. QED
    BY <2>1, <2>2
<1>2. Data = Table(Shown.data, KnownTimes, NodeIP, Now, Shown.key)
  BY DEF Data
<1>3. QED
  BY <1>1, <1>2, RowsFacts, OptionsFacts

LEMMA SliceOfSeq ==
  ASSUME NEW S, NEW seq \in Seq(S), NEW page \in Nat \ {0}, NEW size \in Nat \ {0}
  PROVE  ToSet(Slice(seq, page, size)) \subseteq ToSet(seq)
<1> DEFINE first == (page - 1) * size + 1
           to    == IF page * size > Len(seq) THEN Len(seq) ELSE page * size
<1>1. (page - 1) * size \in Nat /\ page * size \in Nat
  <2>1. \A a, b \in Nat : a * b \in Nat
    OBVIOUS
  <2>2. page - 1 \in Nat
    OBVIOUS
  <2>3. QED
    BY <2>1, <2>2
<1>2. first \in Nat \ {0} /\ to \in Nat /\ to <= Len(seq)
  BY <1>1
<1>3. Slice(seq, page, size) = SubSeq(seq, first, to)
  BY DEF Slice
<1> HIDE DEF first, to
<1>4. ASSUME NEW i \in DOMAIN SubSeq(seq, first, to)
      PROVE  \E j \in DOMAIN seq : SubSeq(seq, first, to)[i] = seq[j]
  <2>1. i \in 1 .. to - first + 1
    BY <1>2, <1>4
  <2>2. first + i - 1 \in DOMAIN seq
    BY <1>2, <2>1
  <2>3. SubSeq(seq, first, to)[i] = seq[first + i - 1]
    BY <1>2, <2>1
  <2>4. QED
    BY <2>2, <2>3
<1>5. QED
  BY <1>3, <1>4 DEF ToSet

LEMMA VersionGroupsFacts ==
  ASSUME PageInv, Ready
  PROVE  /\ \A g \in ToSet(VersionGroups) : g.version \in Texts["version"]
         /\ Shown.data # << >> => VersionGroups # << >>
<1>1. Optioned(Data, Shown.data)
  BY DataFacts
<1>2. PICK T : Data.groups \in Seq(T)
  BY <1>1 DEF Optioned
<1>3. /\ view.versionPage \in Nat \ {0} /\ view.versionPageSize \in Nat \ {0}
      /\ Len(Data.groups) \in Nat
  <2>1. view.versionPage \in Nat \ {0} /\ view.versionPageSize \in VersionPageSizes
    BY DEF PageInv, Views
  <2>2. VersionPageSizes \subseteq Nat \ {0}
    BY JobStatusPageAssumption
  <2>3. Len(Data.groups) \in Nat
    BY <1>2
  <2>4. QED
    BY <2>1, <2>2, <2>3
<1>4. /\ VersionPage \in Nat \ {0}
      /\ Len(Data.groups) # 0
           => (VersionPage - 1) * view.versionPageSize < Len(Data.groups)
  BY <1>3, EffectiveFacts DEF VersionPage
<1>5. ToSet(VersionGroups) \subseteq ToSet(Data.groups)
  BY <1>2, <1>3, <1>4, SliceOfSeq DEF VersionGroups
<1>6. Shown.data # << >> => VersionGroups # << >>
  BY <1>1, <1>2, <1>3, <1>4, SliceNotEmpty DEF Optioned, VersionGroups
<1>7. QED
  BY <1>1, <1>5, <1>6 DEF Optioned

-----------------------------------------------------------------------------
(* Every handler changes to a view.                                        *)

LEMMA PageChanged ==
  \A v \in Views : \A n \in Nat \ {0} : [v EXCEPT !.page = n] \in Views
BY DEF Views

LEMMA HandlersChange ==
  ASSUME PageInv, Handlers
  PROVE  \E v \in Views : Change(v)
<1>1. view \in Views
  BY DEF PageInv
<1>2. \A text \in Searches \cup {AnyValue} :
        [view EXCEPT !.q = text, !.page = 1] \in Views
  <2> SUFFICES ASSUME NEW text \in Searches \cup {AnyValue}
               PROVE  [view EXCEPT !.q = text, !.page = 1] \in Views
    OBVIOUS
  <2> DEFINE w == [view EXCEPT !.q = text]
  <2>1. w \in Views
    BY <1>1 DEF Views
  <2>2. [w EXCEPT !.page = 1] \in Views
    <3> HIDE DEF w
    <3>1. QED
      BY <2>1, PageChanged
  <2>3. QED
    BY <2>2
<1>3. CASE HandleSearchChange
  BY <1>2, <1>3 DEF HandleSearchChange
<1>4. CASE SetFilter
  <2>1. PICK p \in FilterKeys : \E value \in OptionsFor(p) \cup {AnyValue} :
          Change([view EXCEPT ![p] = value, !.page = 1])
    BY <1>4 DEF SetFilter
  <2>0. PICK value \in OptionsFor(p) \cup {AnyValue} :
          Change([view EXCEPT ![p] = value, !.page = 1])
    BY <2>1
  <2>2. Ready
    BY <1>4 DEF SetFilter, FilterBar
  <2>3. Optioned(Data, Shown.data)
    BY <2>2, DataFacts
  <2>4. CASE p = "taskGroup"
    <3>1. value \in Texts["taskGroup"] \cup {AnyValue}
      BY <2>3, <2>4 DEF OptionsFor, Optioned
    <3> DEFINE w == [view EXCEPT !["taskGroup"] = value]
    <3>2. w \in Views
      BY <1>1, <3>1 DEF Views
    <3>3. [w EXCEPT !.page = 1] \in Views
      <4> HIDE DEF w
      <4>1. QED
        BY <3>2, PageChanged
    <3>4. QED
      BY <2>0, <2>4, <3>3
  <2>5. CASE p = "version"
    <3>1. value \in Texts["version"] \cup {AnyValue}
      BY <2>3, <2>5 DEF OptionsFor, Optioned
    <3> DEFINE w == [view EXCEPT !["version"] = value]
    <3>2. w \in Views
      BY <1>1, <3>1 DEF Views
    <3>3. [w EXCEPT !.page = 1] \in Views
      <4> HIDE DEF w
      <4>1. QED
        BY <3>2, PageChanged
    <3>4. QED
      BY <2>0, <2>5, <3>3
  <2>6. CASE p = "node"
    <3>1. value \in Texts["node"] \cup {AnyValue}
      BY <2>3, <2>6 DEF OptionsFor, Optioned
    <3> DEFINE w == [view EXCEPT !["node"] = value]
    <3>2. w \in Views
      BY <1>1, <3>1 DEF Views
    <3>3. [w EXCEPT !.page = 1] \in Views
      <4> HIDE DEF w
      <4>1. QED
        BY <3>2, PageChanged
    <3>4. QED
      BY <2>0, <2>6, <3>3
  <2>7. CASE p = "status"
    <3>1. value \in Texts["status"] \cup {AnyValue}
      BY <2>7, JobStatusPageAssumption DEF OptionsFor
    <3> DEFINE w == [view EXCEPT !["status"] = value]
    <3>2. w \in Views
      BY <1>1, <3>1 DEF Views
    <3>3. [w EXCEPT !.page = 1] \in Views
      <4> HIDE DEF w
      <4>1. QED
        BY <3>2, PageChanged
    <3>4. QED
      BY <2>0, <2>7, <3>3
  <2>8. QED
    BY <2>4, <2>5, <2>6, <2>7 DEF FilterKeys
<1>5. CASE HandleVersionStatusClick
  <2>1. PICK group \in ToSet(VersionGroups), status \in ClientStatuses :
          Change([view EXCEPT !.version = group.version, !.status = status,
                              !.page = 1])
    BY <1>5 DEF HandleVersionStatusClick
  <2>2. group.version \in Texts["version"]
    BY <1>5, VersionGroupsFacts DEF HandleVersionStatusClick
  <2>0. status \in Texts["status"]
    BY JobStatusPageAssumption
  <2> DEFINE w == [view EXCEPT !.version = group.version]
             u == [w EXCEPT !.status = status]
  <2>3. w \in Views
    BY <1>1, <2>2 DEF Views
  <2>4. u \in Views
    <3> HIDE DEF w
    <3>1. QED
      BY <2>0, <2>3 DEF Views
  <2>5. [u EXCEPT !.page = 1] \in Views
    <3> HIDE DEF u
    <3>1. QED
      BY <2>4, PageChanged
  <2>6. QED
    BY <2>1, <2>5
<1>6. CASE HandleSortClick
  <2>1. PICK column \in Headers :
          Change([SortedBy(view, column) EXCEPT !.page = 1])
    BY <1>6 DEF HandleSortClick
  <2>2. PICK dir \in {"asc", "desc", "none"} :
          SortedBy(view, column) = [view EXCEPT !.sort = column, !.dir = dir]
    <3>1. view.dir \in {"asc", "desc", "none"}
      BY <1>1 DEF Views
    <3>2. NextDirection(view.dir) \in {"asc", "desc", "none"}
      BY <3>1, NextDirectionIsOne
    <3>3. SortedBy(view, column) =
            [view EXCEPT !.sort = column,
               !.dir = IF view.sort = column THEN NextDirection(view.dir)
                                             ELSE "asc"]
      BY <1>1 DEF SortedBy, Views
    <3>4. QED
      BY <3>2, <3>3
  <2> DEFINE w == [view EXCEPT !.sort = column]
  <2>3. w \in Views
    <3>1. column \in SortColumns
      BY JobStatusPageAssumption
    <3>2. QED
      BY <1>1, <3>1 DEF Views
  <2>4. [w EXCEPT !.dir = dir] \in Views
    <3> HIDE DEF w
    <3>1. QED
      BY <2>3 DEF Views
  <2>5. SortedBy(view, column) \in Views
    BY <2>2, <2>4
  <2>6. QED
    BY <2>1, <2>5, PageChanged
<1>7. CASE HandlePageChange
  <2>1. Data.page \in Nat \ {0}
    BY <1>7, DataFacts DEF HandlePageChange, TableShown, FilterBar, Rowed
  <2>2. PICK n \in Nat \ {0} : Change([view EXCEPT !.page = n])
    <3>1. \/ Data.page > 1 /\ Change([view EXCEPT !.page = Data.page - 1])
          \/ Change([view EXCEPT !.page = Data.page + 1])
      BY <1>7 DEF HandlePageChange
    <3>2. Data.page + 1 \in Nat \ {0} /\ (Data.page > 1 => Data.page - 1 \in Nat \ {0})
      BY <2>1
    <3>3. QED
      BY <3>1, <3>2
  <2>3. [view EXCEPT !.page = n] \in Views
    BY <1>1, PageChanged
  <2>4. QED
    BY <2>2, <2>3
<1>8. CASE HandlePageSizeChange
  <2>1. PICK size \in PageSizes : Change([view EXCEPT !.pageSize = size, !.page = 1])
    BY <1>8 DEF HandlePageSizeChange
  <2> DEFINE w == [view EXCEPT !.pageSize = size]
  <2>2. w \in Views
    BY <1>1 DEF Views
  <2>3. [w EXCEPT !.page = 1] \in Views
    <3> HIDE DEF w
    <3>1. QED
      BY <2>2, PageChanged
  <2>4. QED
    BY <2>1, <2>3
<1>9. CASE HandleVersionPageChange
  <2>1. PICK n \in 1 .. PagesOf(Len(Data.groups), view.versionPageSize) :
          Change([view EXCEPT !.versionPage = n])
    BY <1>9 DEF HandleVersionPageChange
  <2>2. [view EXCEPT !.versionPage = n] \in Views
    BY <1>1 DEF Views
  <2>3. QED
    BY <2>1, <2>2
<1>10. CASE HandleVersionPageSizeChange
  <2>1. PICK size \in VersionPageSizes :
          Change([view EXCEPT !.versionPageSize = size, !.versionPage = 1])
    BY <1>10 DEF HandleVersionPageSizeChange
  <2> DEFINE w == [view EXCEPT !.versionPageSize = size]
  <2>2. w \in Views
    BY <1>1 DEF Views
  <2>3. [w EXCEPT !.versionPage = 1] \in Views
    <3> HIDE DEF w
    <3>1. QED
      BY <2>2 DEF Views
  <2>4. QED
    BY <2>1, <2>3
<1>11. CASE HandleClearFilters
  <2>1. [DefaultView EXCEPT !.pageSize = view.pageSize,
                            !.versionPage = view.versionPage,
                            !.versionPageSize = view.versionPageSize] \in Views
    BY <1>1, DefaultIsView DEF Views
  <2>2. QED
    BY <1>11, <2>1 DEF HandleClearFilters
<1>12. QED
  BY <1>3, <1>4, <1>5, <1>6, <1>7, <1>8, <1>9, <1>10, <1>11 DEF Handlers

-----------------------------------------------------------------------------
(* The page's invariant.                                                   *)

LEMMA PageInit == Init => PageInv
<1> SUFFICES ASSUME Init PROVE PageInv
  OBVIOUS
<1>1. view \in Views
  BY ViewOfIsView DEF Init
<1>2. KeyOf(view) \in PageKeys
  BY <1>1 DEF PageKeys
<1>3. server \in Lists /\ CacheInit(KeyOf(view)) /\ Nothing \notin Lists
  BY JobStatusPageAssumption DEF Init
<1>4. CacheTypes(PageKeys, Lists)
  BY <1>2, <1>3, CacheInitTypes
<1>5. key = KeyOf(view)
  BY <1>3 DEF CacheInit
<1>6. url \in Urls /\ past \in Seq(Urls)
  BY DEF Init, Urls
<1>7. QED
  BY <1>1, <1>4, <1>5, <1>6 DEF PageInv

(* An entry more or less makes another history.                            *)
LEMMA HistoryMoves ==
  ASSUME PageInv
  PROVE  /\ Push => past' \in Seq(Urls) /\ past' # past
         /\ past # << >> => /\ Front(past) \in Seq(Urls)
                            /\ Front(past) # past
                            /\ Last(past) \in Urls
<1> DEFINE S == Urls
<1>0. past \in Seq(S) /\ url \in S
  BY DEF PageInv
<1> HIDE DEF S
<1>1. PICK n \in Nat : n = Len(past)
  BY <1>0
<1>2. ASSUME Push PROVE past' \in Seq(S) /\ past' # past
  <2>1. PICK e \in S : past' = Append(past, e)
    BY <1>0, <1>2 DEF Push, S, Urls
  <2>2. Append(past, e) \in Seq(S) /\ Len(Append(past, e)) = Len(past) + 1
    BY <1>0
  <2>3. QED
    BY <1>1, <2>1, <2>2
<1>3. ASSUME past # << >>
      PROVE  Front(past) \in Seq(S) /\ Front(past) # past /\ Last(past) \in S
  <2>1. n > 0
    BY <1>0, <1>1, <1>3
  <2>2. /\ SubSeq(past, 1, n - 1) \in Seq(S)
        /\ Len(SubSeq(past, 1, n - 1)) = n - 1
    BY <1>0, <1>1, <2>1
  <2>3. Front(past) = SubSeq(past, 1, n - 1) /\ Last(past) = past[n]
    BY <1>1 DEF Front, Last
  <2>4. past[n] \in S
    BY <1>0, <1>1, <2>1
  <2>5. QED
    BY <1>1, <2>2, <2>3, <2>4
<1>4. QED
  BY <1>2, <1>3 DEF S

(* A navigation leaves the URL and the history what they have to be.       *)
HistoryKept == url' \in Urls /\ past' \in Seq(Urls)

LEMMA Mounting ==
  ASSUME PageInv, NEW params, Mount(params), HistoryKept
  PROVE  PageInv' /\ UrlIsKept
<1>1. view' = ViewOf(params) /\ url' = params /\ Observe(KeyOf(view'))
  BY DEF Mount
<1>2. view' \in Views
  BY <1>1, ViewOfIsView
<1>3. KeyOf(view') \in PageKeys
  BY <1>2 DEF PageKeys
<1>4. key' = KeyOf(view')
  BY <1>1 DEF Observe
<1>5. CacheActs(PageKeys)
  <2>1. PICK k \in PageKeys : Observe(k)
    BY <1>1, <1>3
  <2>2. QED
    BY <2>1 DEF CacheActs
<1>6. CacheTypes(PageKeys, Lists) /\ Nothing \notin Lists
  BY JobStatusPageAssumption DEF PageInv
<1>7. CacheTypes(PageKeys, Lists)'
  BY <1>5, <1>6, CacheMoves
<1>8. ViewOf(url') = view'
  BY <1>1
<1>9. QED
  BY <1>2, <1>4, <1>7, <1>8 DEF PageInv, HistoryKept, UrlIsKept

LEMMA Leaving ==
  ASSUME PageInv, Leave, UNCHANGED view, HistoryKept
  PROVE  PageInv' /\ UrlIsKept
<1>1. key' = Nothing /\ CacheActs(PageKeys)
  BY DEF Leave, CacheActs
<1>2. CacheTypes(PageKeys, Lists) /\ Nothing \notin Lists
  BY JobStatusPageAssumption DEF PageInv
<1>3. CacheTypes(PageKeys, Lists)'
  BY <1>1, <1>2, CacheMoves
<1>4. QED
  BY <1>1, <1>3 DEF PageInv, HistoryKept, UrlIsKept

(* The page stays mounted, with its state and query.                       *)
LEMMA Staying ==
  ASSUME PageInv, UNCHANGED <<view, cacheVars>>, HistoryKept,
         past' # past \/ UNCHANGED url
  PROVE  PageInv' /\ UrlIsKept
<1>1. CacheTypes(PageKeys, Lists) /\ Nothing \notin Lists
  BY JobStatusPageAssumption DEF PageInv
<1>2. CacheTypes(PageKeys, Lists)' /\ key' = key
  BY <1>1, CacheMoves DEF cacheVars
<1>3. QED
  BY <1>2 DEF PageInv, HistoryKept, UrlIsKept

LEMMA NavigationKeeps ==
  ASSUME PageInv, Navigation
  PROVE  PageInv' /\ UrlIsKept
<1>1. /\ view \in Views /\ CacheTypes(PageKeys, Lists)
      /\ key \in {Nothing, KeyOf(view)} /\ Nothing \notin Lists
      /\ url \in Urls /\ past \in Seq(Urls)
  BY JobStatusPageAssumption DEF PageInv
<1>2. NoParams \in Urls
  BY DEF Urls
<1>3. Push => past' \in Seq(Urls) /\ past' # past
  BY HistoryMoves
<1>4. CASE GoAway
  <2>1. Leave /\ UNCHANGED <<view, url>> /\ Push
    BY <1>4 DEF GoAway
  <2>2. HistoryKept
    BY <1>1, <1>3, <2>1 DEF HistoryKept
  <2>3. QED
    BY <2>1, <2>2, Leaving
<1>5. CASE Open
  <2>1. Mount(NoParams) /\ Push
    BY <1>5 DEF Open
  <2>2. HistoryKept
    BY <1>2, <1>3, <2>1 DEF HistoryKept, Mount
  <2>3. QED
    BY <2>1, <2>2, Mounting
<1>6. CASE Back
  <2>1. /\ past' \in Seq(Urls) /\ past' # past
        /\ Last(past) \in Urls
    BY <1>6, HistoryMoves DEF Back
  <2>2. CASE key = Nothing /\ Mount(Last(past))
    <3>1. HistoryKept
      BY <2>1, <2>2 DEF HistoryKept, Mount
    <3>2. QED
      BY <2>2, <3>1, Mounting
  <2>3. CASE Leave /\ UNCHANGED <<view, url>>
    <3>1. HistoryKept
      BY <1>1, <2>1, <2>3 DEF HistoryKept
    <3>2. QED
      BY <2>3, <3>1, Leaving
  <2>4. CASE /\ Last(past) # Nothing
             /\ url' = Last(past)
             /\ UNCHANGED <<view, cacheVars>>
    <3>1. HistoryKept
      BY <2>1, <2>4 DEF HistoryKept
    <3>2. QED
      BY <2>1, <2>4, <3>1, Staying
  <2>5. QED
    BY <1>6, <2>2, <2>3, <2>4 DEF Back
<1>7. CASE Switch
  <2>1. UNCHANGED <<view, cacheVars>> /\ UNCHANGED <<url, past>>
    BY <1>7 DEF Switch
  <2>2. HistoryKept
    BY <1>1, <2>1 DEF HistoryKept
  <2>3. QED
    BY <2>1, <2>2, Staying
<1>8. CASE Land
  <2>1. Push /\ (Mount(NoParams) \/ (url' = NoParams /\ UNCHANGED <<view, cacheVars>>))
    BY <1>8 DEF Land
  <2>2. HistoryKept
    BY <1>2, <1>3, <2>1 DEF HistoryKept, Mount
  <2>3. QED
    BY <1>3, <2>1, <2>2, Mounting, Staying
<1>9. CASE LandElsewhere
  <2>1. UNCHANGED <<view, url>>
        /\ ((UNCHANGED cacheVars /\ UNCHANGED past) \/ (Leave /\ Push))
    BY <1>9 DEF LandElsewhere
  <2>2. HistoryKept
    BY <1>1, <1>3, <2>1 DEF HistoryKept
  <2>3. QED
    BY <2>1, <2>2, Leaving, Staying
<1>10. CASE Reload
  <2>1. /\ view' = ViewOf(url) /\ url' = url /\ key' = KeyOf(view')
        /\ queries' = [k \in {key'} |-> Asked(NewEntry)]
        /\ held' = Nothing
        /\ UNCHANGED <<server, failures, past>>
    BY <1>10 DEF Reload
  <2>2. Cached(Asked(NewEntry), Lists)
    BY <1>1, NewEntryFacts, EntryFacts
  <2>3. view' \in Views
    BY <2>1, ViewOfIsView
  <2>4. key' \in PageKeys
    BY <2>1, <2>3 DEF PageKeys
  <2>5. /\ DOMAIN queries' = {key'}
        /\ queries'[key'] = Asked(NewEntry)
    BY <2>1
  <2>6. CacheTypes(PageKeys, Lists)'
    BY <1>1, <2>1, <2>2, <2>4, <2>5 DEF CacheTypes
  <2>7. ViewOf(url') = view'
    BY <2>1
  <2>8. QED
    BY <1>1, <2>1, <2>3, <2>6, <2>7 DEF PageInv, UrlIsKept
<1>11. QED
  BY <1>4, <1>5, <1>6, <1>7, <1>8, <1>9, <1>10 DEF Navigation

LEMMA PageNext == PageInv /\ [Next]_vars => PageInv' /\ UrlIsKept
<1> SUFFICES ASSUME PageInv, [Next]_vars PROVE PageInv' /\ UrlIsKept
  OBVIOUS
<1>1. /\ view \in Views /\ CacheTypes(PageKeys, Lists)
      /\ key \in {Nothing, KeyOf(view)} /\ Nothing \notin Lists
      /\ url \in Urls /\ past \in Seq(Urls)
  BY JobStatusPageAssumption DEF PageInv
<1>2. \A v \in Views : KeyOf(v) \in PageKeys /\ UrlOf(v) \in Urls
  BY DEF PageKeys, Urls
<1>3. CacheActs(PageKeys) \/ UNCHANGED cacheVars => CacheTypes(PageKeys, Lists)'
  BY <1>1, CacheMoves
<1>4. CASE Handlers
  <2>1. PICK v \in Views : Change(v)
    BY <1>4, HandlersChange
  <2>2. view' = v /\ url' = UrlOf(v) /\ past' = past
    BY <2>1 DEF Change
  <2>3. ViewOf(url') = view'
    BY <2>2, RoundTrip
  <2>4. key' = KeyOf(v) /\ CacheTypes(PageKeys, Lists)'
    <3>1. CASE KeyOf(v) = key
      <4>1. UNCHANGED cacheVars
        BY <2>1, <3>1 DEF Change
      <4>2. QED
        BY <1>3, <3>1, <4>1 DEF cacheVars
    <3>2. CASE KeyOf(v) # key
      <4>1. Observe(KeyOf(v))
        BY <2>1, <3>2 DEF Change
      <4>2. CacheActs(PageKeys)
        BY <1>2, <2>1, <4>1 DEF CacheActs
      <4>3. QED
        BY <1>3, <4>1, <4>2 DEF Observe
    <3>3. QED
      BY <3>1, <3>2
  <2>5. QED
    BY <1>1, <1>2, <2>2, <2>3, <2>4 DEF PageInv, UrlIsKept
<1>5. CASE Navigation
  BY <1>5, NavigationKeeps
<1>6. CASE AllocationsChange
  <2>1. /\ server' \in Lists
        /\ UNCHANGED <<queries, key, held, failures, view, url, past>>
    BY <1>6 DEF AllocationsChange, pageVars
  <2>2. CacheTypes(PageKeys, Lists)'
    BY <1>1, <2>1 DEF CacheTypes
  <2>3. QED
    BY <1>1, <2>1, <2>2 DEF PageInv, UrlIsKept
<1>7. CASE Background
  <2>1. (Poll \/ Requests) /\ UNCHANGED <<view, url, past>>
    BY <1>7 DEF Background, pageVars
  <2>2. key' = key
    BY <2>1 DEF Poll, Requests, Read, Arrive, Fail, Retry
  <2>3. CacheActs(PageKeys)
    BY <2>1 DEF CacheActs
  <2>4. QED
    BY <1>1, <1>3, <2>1, <2>2, <2>3 DEF PageInv, UrlIsKept
<1>8. CASE UNCHANGED vars
  <2>1. UNCHANGED cacheVars /\ UNCHANGED <<view, url, past, key>>
    BY <1>8 DEF vars, pageVars, cacheVars
  <2>2. QED
    BY <1>1, <1>3, <2>1 DEF PageInv, UrlIsKept
<1>9. QED
  BY <1>4, <1>5, <1>6, <1>7, <1>8 DEF Next

(* Whatever query string the page is opened with: after every click, in    *)
(* any state, also one in which URL and view had come apart, the URL is    *)
(* that of the view and the query the view's, and so are they whenever the *)
(* page is mounted.  What parts URL and view is a profile switch that ends *)
(* late, or Back, when it finds the page mounted, and nothing else.        *)
THEOREM SpecHandlersKeepUrl == Spec => HandlersKeepUrl
<1>1. PageInv /\ [Next]_vars =>
        [\/ key' = Nothing
         \/ ViewOf(url') = view' /\ key' = KeyOf(view')
         \/ key' = key /\ UNCHANGED view /\ past' # past]_<<view, url, key>>
  BY PageNext DEF UrlIsKept
<1>2. QED
  BY <1>1, PageInit, PageNext, PTL DEF Spec, HandlersKeepUrl

(* Without a filter the view's key has none, so that the table of a job    *)
(* with allocations has rows, and its filters are shown.                   *)
LEMMA NoFilterNoneHidden ==
  ASSUME PageInv, Ready, Shown.key = key, Shown.data # << >>
  PROVE  FilterBar
<1>1. SUFFICES ASSUME ~HasActiveFilters PROVE Data.totalItems # 0
  BY DEF FilterBar, NoAllocationsAtAll
<1>2. /\ view.q = AnyValue /\ view.taskGroup = AnyValue
      /\ view.version = AnyValue /\ view.node = AnyValue
      /\ view.status = AnyValue
  BY <1>1 DEF HasActiveFilters, FilterKeys, DefaultView
<1>3. Shown.key = KeyOf(view)
  BY DEF Ready, PageInv
<1>4. Unfiltered(Shown.key.filters)
  <2> DEFINE f == [search |-> view.q, taskGroup |-> view.taskGroup,
                   version |-> view.version, node |-> view.node,
                   status |-> view.status, desired |-> AnyValue]
  <2>1. KeyOf(view).filters = f
    BY Zenon DEF KeyOf
  <2>2. Unfiltered(f)
    BY <1>2 DEF Unfiltered
  <2>3. QED
    BY <1>3, <2>1, <2>2
<1>5. Data.totalItems = Len(Shown.data) /\ Shown.data \in Lists
  BY <1>4, DataFacts DEF Rowed
<1>6. QED
  BY <1>5, JobStatusPageAssumption

(* As soon as the answer to the view is there, for any list of allocations *)
(* and any view, nothing of it is hidden.                                  *)
THEOREM SpecNothingHidden == Spec => []NothingHidden
<1>1. ASSUME PageInv PROVE NothingHidden
  <2> SUFFICES ASSUME Ready, Shown.key = key
               PROVE  /\ Shown.data # << >> => FilterBar /\ VersionGroups # << >>
                      /\ Data.totalItems > 0 => Data.rows # << >>
    BY DEF NothingHidden
  <2>1. Shown.data # << >> => FilterBar /\ VersionGroups # << >>
    BY <1>1, NoFilterNoneHidden, VersionGroupsFacts
  <2>2. Data.totalItems > 0 => Data.rows # << >>
    BY <1>1, DataFacts DEF Rowed
  <2>3. QED
    BY <2>1, <2>2
<1>2. QED
  BY <1>1, PageInit, PageNext, PTL DEF Spec
=============================================================================
