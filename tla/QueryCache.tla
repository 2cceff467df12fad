---------------------------- MODULE QueryCache ----------------------------
(***************************************************************************)
(* frontend/src/api/queries.ts: useJobStatus, and of TanStack Query        *)
(* (external) what its options rely on.                                    *)
(*                                                                         *)
(* A key is what identifies a query: profile, job and parameters.  The     *)
(* cache has an entry for every key asked for, with at most one request    *)
(* under way; the mounted page observes one key, and while that has        *)
(* neither data nor an error it is shown what it was shown last            *)
(* (placeholderData: keepPreviousData).  The server is a value; a request  *)
(* reads it at some moment and its answer arrives at a later one.          *)
(*                                                                         *)
(* Without staleTime every entry is stale at once: mounting, a change of   *)
(* the key and a tab that becomes visible all fetch.                       *)
(***************************************************************************)
EXTENDS Integers, FiniteSets, TLC

CONSTANTS
  Nothing,        \* no data, no page, nothing shown
  MaxChanges,     \* bound: changes of the server
  MaxFailures     \* bound: failed requests

VARIABLES
  server,         \* what an answer read now would say
  queries,        \* key -> cache entry
  key,            \* the key the mounted page observes, or Nothing
  held,           \* the last data shown to the mounted page: [key, data]
  paused,         \* automatic updates are paused (Layout)
  visible,        \* the tab is visible
  failures        \* failed requests so far, for the bound

cacheVars == <<server, queries, key, held, paused, visible, failures>>

(* request: "none"; "asked"; "read", with the answer on its way in read;   *)
(* "waiting", for the delay before the one retry.                          *)
NewEntry == [data |-> Nothing, failed |-> FALSE,
             request |-> "none", read |-> Nothing, retried |-> FALSE]

(* An entry whose request has moved on, its data and error as they were.   *)
Moved(e, request, read, retried) ==
  [data |-> e.data, failed |-> e.failed,
   request |-> request, read |-> read, retried |-> retried]

(* A request for an entry begins: an error is forgotten unless there is    *)
(* data.                                                                   *)
Asked(e) == [Moved(e, "asked", Nothing, FALSE) EXCEPT
               !.failed = e.failed /\ e.data # Nothing]

(* A fetch of k: joins the request under way, if there is one.             *)
Fetched(k) ==
  LET old == IF k \in DOMAIN queries THEN queries[k] ELSE NewEntry
  IN  IF old.request # "none" THEN queries
      ELSE [j \in DOMAIN queries \cup {k} |->
              IF j = k THEN Asked(old) ELSE queries[j]]

-----------------------------------------------------------------------------
(* What the mounted page gets from useQuery.                               *)

Entry == queries[key]

Failed == key # Nothing /\ Entry.failed

(* Mutant: without placeholderData. *)
ShownWithoutPlaceholder ==
  IF key = Nothing \/ Entry.data = Nothing THEN Nothing
  ELSE [key |-> key, data |-> Entry.data]

Shown ==
  IF key # Nothing /\ Entry.data # Nothing
  THEN [key |-> key, data |-> Entry.data]
  ELSE IF key = Nothing \/ Failed THEN Nothing ELSE held

(* Every render with data of its own is what keepPreviousData keeps.       *)
Hold ==
  held' = IF key' = Nothing THEN Nothing
          ELSE IF queries'[key'].data # Nothing
               THEN [key |-> key', data |-> queries'[key'].data]
               ELSE held

-----------------------------------------------------------------------------
CacheInit(k) ==
  /\ key = k
  /\ queries = [j \in {k} |-> Asked(NewEntry)]
  /\ held = Nothing
  /\ paused = FALSE
  /\ visible = TRUE
  /\ failures = 0

(* The page is mounted, or the user changes the key with its controls,     *)
(* which are there only when data is shown and no error.                   *)
Observe(k) ==
  /\ k # key
  /\ key # Nothing => Shown # Nothing /\ ~Failed
  /\ key' = k
  /\ queries' = Fetched(k)
  /\ UNCHANGED <<server, paused, visible, failures>>
  /\ Hold

(* Mutant: the page stays mounted, and with it what it was shown last. *)
VisitStayingMounted(k) ==
  /\ key # Nothing /\ k # key
  /\ key' = k
  /\ queries' = Fetched(k)
  /\ UNCHANGED <<server, paused, visible, failures>>
  /\ Hold

(* The header switches to another profile's job of the same ID, whatever   *)
(* the page shows: Layout's <Outlet key> mounts the page anew, and as the  *)
(* job ID in the route is the same the pause stays.                        *)
Visit(k) ==
  /\ key # Nothing /\ k # key
  /\ key' = k
  /\ queries' = Fetched(k)
  /\ held' = IF queries'[k].data = Nothing THEN Nothing
             ELSE [key |-> k, data |-> queries'[k].data]
  /\ UNCHANGED <<server, paused, visible, failures>>

(* The user goes to another page: the cache stays, and Layout resets the   *)
(* pause because the job ID in the route changed.                          *)
Leave ==
  /\ key # Nothing
  /\ key' = Nothing
  /\ paused' = FALSE
  /\ UNCHANGED <<server, queries, visible, failures>>
  /\ Hold

(* Mutant: the interval runs on while updates are paused. *)
PollAlways ==
  /\ key # Nothing
  /\ visible
  /\ Entry.request = "none"
  /\ queries' = Fetched(key)
  /\ UNCHANGED <<server, key, paused, visible, failures>>
  /\ Hold

(* refetchInterval: by default not in the background.                      *)
Poll ==
  /\ key # Nothing
  /\ ~paused
  /\ visible
  /\ Entry.request = "none"
  /\ queries' = Fetched(key)
  /\ UNCHANGED <<server, key, paused, visible, failures>>
  /\ Hold

TogglePause ==
  /\ key # Nothing
  /\ paused' = ~paused
  /\ UNCHANGED <<server, queries, key, held, visible, failures>>

Hide ==
  /\ visible
  /\ visible' = FALSE
  /\ UNCHANGED <<server, queries, key, held, paused, failures>>

(* refetchOnWindowFocus, by default on, paused or not.                     *)
Show ==
  /\ ~visible
  /\ visible' = TRUE
  /\ queries' = IF key = Nothing THEN queries ELSE Fetched(key)
  /\ UNCHANGED <<server, key, paused, failures>>
  /\ Hold

-----------------------------------------------------------------------------
(* The requests.                                                           *)

Read(k) ==
  /\ queries[k].request = "asked"
  /\ queries' = [queries EXCEPT ![k] = Moved(@, "read", server, @.retried)]
  /\ UNCHANGED <<server, key, held, paused, visible, failures>>

Answered(e) == [NewEntry EXCEPT !.data = e.read]

(* Mutant: an answer does not clear the error of the fetch before. *)
ArriveKeepingError(k) ==
  /\ queries[k].request = "read"
  /\ queries' = [queries EXCEPT ![k] =
                   [Answered(@) EXCEPT !.failed = queries[k].failed]]
  /\ UNCHANGED <<server, key, paused, visible, failures>>
  /\ Hold

Arrive(k) ==
  /\ queries[k].request = "read"
  /\ queries' = [queries EXCEPT ![k] = Answered(@)]
  /\ UNCHANGED <<server, key, paused, visible, failures>>
  /\ Hold

(* Mutant: a request that failed twice ends as if there were none. *)
GivenUpSilently(e) == Moved(e, "none", Nothing, FALSE)

GivenUp(e) == [Moved(e, "none", Nothing, FALSE) EXCEPT !.failed = TRUE]

(* retry: 1, and none for a query that nobody observes any more.           *)
Fail(k) ==
  /\ queries[k].request \in {"asked", "read"}
  /\ failures < MaxFailures
  /\ failures' = failures + 1
  /\ queries' = [queries EXCEPT ![k] =
                   IF k = key /\ ~@.retried
                   THEN Moved(@, "waiting", Nothing, FALSE)
                   ELSE GivenUp(@)]
  /\ UNCHANGED <<server, key, held, paused, visible>>

(* After the delay, and not while the tab is hidden.                       *)
Retry(k) ==
  /\ queries[k].request = "waiting"
  /\ visible
  /\ queries' = [queries EXCEPT ![k] =
                   IF k = key
                   THEN Moved(@, "asked", Nothing, TRUE)
                   ELSE GivenUp(@)]
  /\ UNCHANGED <<server, key, held, paused, visible, failures>>

(* gcTime: an entry that was not observed for five minutes is dropped.     *)
Collect(k) ==
  /\ k # key
  /\ queries[k].request = "none"
  /\ queries' = [j \in DOMAIN queries \ {k} |-> queries[j]]
  /\ UNCHANGED <<server, key, held, paused, visible, failures>>

Requests ==
  \E k \in DOMAIN queries : Read(k) \/ Arrive(k) \/ Fail(k) \/ Retry(k)

-----------------------------------------------------------------------------
(* Every request ends, a waiting retry is made, and the interval ticks.    *)

CacheFairness(keys) ==
  /\ \A k \in keys :
       /\ WF_cacheVars(k \in DOMAIN queries /\ (Read(k) \/ Arrive(k)))
       /\ WF_cacheVars(k \in DOMAIN queries /\ Retry(k))
  /\ WF_cacheVars(Poll)
=============================================================================
