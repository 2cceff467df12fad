# TLA+ models of unhoused

unhoused is a Go server that shows the jobs of one or more Nomad clusters, and
a React frontend that polls it. This directory holds TLA+ modules translated
from its source, the TLC configurations that check them on small instances,
and TLAPS proofs of what holds for every size.

    tlc -workers 2 -config MCFanOut.cfg MCFanOut      # one run; see "Runs"
    tlapm FanOutProofs.tla                            # one component's proofs;
                                                      # see "Proofs"

`PROJECT.json` is the index: components, runs, mutants (a deliberately wrong
definition for every property, to show that the property can fail), the source
lines of each definition, hazards, findings and theorems.

## Inventory

| part | state | operations | interacts with |
|---|---|---|---|
| `internal/syncutil/fanout.go` | limiter and error channels, errors, wait group | `NewFanOut`, `Run`, `Wait`; worker and collector goroutines | used by the job-status handler |
| `internal/nomadclient/lru.go` | linked list and map of entries, under a mutex | `Get`, `Set` | used by `client.go` |
| `internal/nomadclient/client.go` | the port cache | one method per Nomad call; `GetAllocationPorts` looks in the cache first | called concurrently by handlers; calls Nomad |
| `internal/nomadclient/transport.go` | none | `RoundTrip`: logs, reads and replaces bodies | below every Nomad call |
| `internal/httpapi/handlers.go` | the local variables of a request | `handleListProfiles`, `handleListJobs`, `handleJobStatus` | calls the client, the fan-out and `derive.go` |
| `internal/httpapi/derive.go` | none | filter, sort, paginate, count, deployment status and progress | pure functions of Nomad's answers and the clock |
| `internal/config`, `internal/httpapi/server.go` | the profiles | `Load`: defaults, validation; `profile`: what a slug stands for | at start, and by every request |
| `main.go`, `cmd/nomaddemo` | the clients, by profile name | load or exit, make the clients, serve | at start |
| `internal/nomaddemo` | the time of its start; all else is a function of the clock | jobs, versions, allocations, deployments of a simulated rollout; lookups by job and by ID | answers the client as Nomad would |
| frontend `api/queries.ts` | TanStack Query's cache | `useProfiles`, `useJobs`, `useJobStatus`: polling, pausing, placeholder data | calls the server |
| frontend `pages/JobStatusPage.tsx`, `ProfilePage.tsx` | filters, sort, pages; the URL | one handler per control | rebuilds the URL, changes the query key |
| frontend `Layout.tsx` | switching flag, auto-refresh pause | profile change, pause | fetches, then navigates; passes the pause down |
| frontend `lib/useDeploymentNotifications.ts`, `useNotificationsEnabled.ts` | previous status; enabled flag | notify on change; toggle with permission prompt | reads query data, `localStorage` |
| frontend `theme/ThemeProvider.tsx` | theme | toggle | `localStorage` |

What is hard in it, and what makes each part correct:

* **Fan-out.** Three kinds of goroutine and two bounded channels, one of them
  closed by the goroutine that does not send on it. Correct means: no deadlock
  when everything is full, no send on the closed channel, no error lost, nothing
  left running when the caller reads the results.
* **Cache.** Two structures over the same entries. Correct means that they
  agree after every call, that what is evicted is what was used least recently,
  and that no answer is stale; between two of its calls other goroutines run.
* **Job-status handler.** Between five and hundreds of Nomad calls per request,
  no two of which see the same moment, and each of which may fail. Correct means
  an answer that is whole, consistent with itself, true of the cluster if the
  cluster stood still, and an error that does not claim what is not so.
* **Table.** One response must agree with the next: pages partition the list,
  counts equal what the filter they link to finds, equal rows keep their order.
* **Deployments.** Of the deployments of all jobs, in any order, the latest of
  each; its progress, and a duration that does not jump while a rollout lasts.
* **Query cache.** One page observes one query at a time of many cached ones,
  polls, pauses, hides, fails and retries. Correct means that the page is never
  blank without a reason and becomes current when it is left alone.
* **Notifications.** The difference of two answers, of which the second may be
  the older one. Correct means one notification for every change of status,
  and none for anything else.
* **Pages.** The view is kept twice, in React state and in the URL, and what is
  rendered combines it with an answer that may be to an earlier view. Correct
  means that every click keeps URL and view in agreement, and that a control does
  what it says.
* **Layout.** It stays mounted while its asynchronous profile switch and the
  user both navigate.
* **Configuration and start.** A profile has a name and a slug, which may be
  another profile's name. Correct means that what loads gives every profile an
  address of its own, which leads to its own Nomad.
* **Demo server.** Several functions of time, computed separately with integer
  division of durations, and called at different moments of one request. Correct
  means that they agree at every instant, and that a rollout only goes forward.

## Modules

    ParallelFor   <-- implemented by --  FanOut *
        |
        +-- used by --> JobStatus *
                            | extends
                        Allocations <- AllocationTable *
    MemoTable     <-- implemented by --  LRUCache <- LRUCacheHistory *
                                            ^- AllocationPorts --+
                                               Config -----------+- Unhoused *
                                               NomadDemo --------+      |
    Deployments <- ListJobs *                                           |
        ^------------------------------------- instance ----------------+

    QueryCache <- JobStatusQuery *
        ^---------- DeploymentNotifications *
        ^---------- JobStatusPage *   (also extends Allocations)
    TableView <-------- ^
        ^---------- ProfilePage *
    Layout *

TLC checks the module `MC`*X* where there is one, or *X* itself. There are
theorems about the modules marked with `*`, in these modules:

| module | theorems about |
|---|---|
| `FanOutProofs` | `FanOut`, `ParallelFor` |
| `UnhousedProofs` | `LRUCache`, `LRUCacheHistory`, `MemoTable`, `Config`, `NomadDemo`, `Unhoused` |
| `TableLemmas` | lemmas only, on the operators of `Allocations` and `TableView`; the next three use them |
| `JobStatusProofs` | `AllocationTable`, `JobStatus` |
| `QueryCacheProofs` | `JobStatusQuery`, `DeploymentNotifications`, `JobStatusPage` |
| `ProfilePageProofs` | `ProfilePage` |
| `ListJobsProofs` | `Deployments`, `ListJobs` |
| `LayoutProofs` | `Layout` |

**`FanOut`** is `fanout.go`, one action per channel operation. The limiter's
elements are empty structs, so it is a number; `worker[t]` is the program
counter of the goroutine of the `t`-th call to `Run`; the collector has a state
of its own between its receive and its append (`received`), because errors are
in flight there. `Close` and `Send` are separate actions, and `Send` does not
test `closed`: that it never sends on a closed channel is the property
`NoSendOnClosed`, not a guard. Properties of interest: `NothingOutlivesWait`,
`ErrorsExactlyOnce`, `Termination`, and `IInv`, the invariant the proofs use.

**`ParallelFor`** is what the caller is promised: at most `Limit` callbacks
run, and the wait returns once, after all of them, with the errors of those
that failed in some order. `FanOut!Refinement` says that `FanOut` implements
it, with `running` the workers in their callback and `errors` visible when
`Wait` has returned. `JobStatus` is built on it, which keeps its states few and
is what the refinement entitles it to.

**`LRUCache`** is `lru.go`. List elements are pointers shared by the list and
the map, and so they are here: `order` is the sequence of elements, `items`
maps keys to elements, `heap` is what elements hold. `Get` is one of `Miss`,
`Expire`, `Hit`; `Set` one of `Overwrite`, `Insert`. The mutex is held
from the first to the last statement of each, so each is one step.
`MemoTable` is its promise without the order of eviction, which it refines; that says that a hit is the last value written and is not expired;
`LRUCacheHistory` adds the order of last uses and the times of the last writes,
computed from calls and answers only, and compares the order of eviction to
them (`ExactlyMostRecent`).

**`AllocationPorts`** is `GetAllocationPorts` called by several goroutines:
`Lookup`, then outside the lock `Fetched` or `FetchFailed`, then `Store`. What
Nomad answers is a parameter, so that the module can be put over any Nomad.

**`Config`** is `config.go`'s defaults and validation and the lookup of a slug,
as functions of a configuration. **`NomadDemo`** is the demo server, as functions
of the time: an ID is the tuple of what `deterministicID` hashes, a node its
index, and a tick is 10 s, of which the real slots of `payments-api` are
multiples.

**`Unhoused`** puts these together as `main.go` does. It starts from any of the
configuration files (`Serve` or `Exit`); with one of them, whose profile is the demo
server, each caller's request takes an allocation from a list (`ListAndAsk`) and asks
for its ports, each call answered at an instant of its own, while the time
passes (`TimePasses`), the demo server restarts, which makes its epoch the present
(`RestartDemo`), and calls fail. The properties about the rollout compare the
allocations with the deployment's counts, both with the version history, and each
instant with the next, as the page shows it: `Shown` is `Deployments!LatestInfo`
of what the demo answers. The server starts later than the zero time, as every
process does; the page takes that time for an unknown one (`NomadDemoAssumption`).

**`Allocations`** has the pure functions of `derive.go` that make the table.
A string is a number in the order strings sort; the search text is the set of
strings that contain it; times are in half seconds, so that truncation to
seconds shows. The sort is `Arranged`: the element of rank *i* of a strict order is
the *i*-th, which says what a stable sort returns and not how, so that proofs can use
it. **`AllocationTable`** asks any sequence of queries of one list (`Serve`)
and relates one response to others (`Pages`, `Places`).

**`JobStatus`** is `handleJobStatus`, from the profile lookup to the answer,
with the cluster it asks: `Call(c)` is the moment one of the four concurrent
calls reads the cluster; `CallFailed` chooses the first error in the source's
order; `CallsSucceeded` reads the clock, once; `Nodes` is the fifth call, made
only for a search; `Begin`, `PortsFound`, `PortsFailed` are the callbacks.
Between any two of these, `Cluster` may deploy, promote, place, collect,
forget a version or purge the job, and `OtherRequest` may fill or evict the
port cache, which the handler shares with other requests. The history variables
`submitted` and `startedAt` are only read by properties.

**`Deployments`** has the pure functions of `derive.go` on deployments, with
times in half seconds. **`ListJobs`** is `handleListJobs`, one request after the
other: the two calls read the cluster at two moments, `Respond` derives the rows
and sorts them in any of the orders the unstable sort may produce. A deployment
is listed at any place, and is stamped with its time of change or not, as the
source says Nomad does; its index is one that no deployment had before
(`NextIndex`), also when the one that was newest has been collected.

**`QueryCache`** is `useJobStatus` and what its options rely on of TanStack
Query, which is external: an entry for every key, with at most one request,
which is asked, read by the server, and arrives; the one retry; `Poll`, the
interval, which runs neither paused nor hidden; `Show`, which fetches in any
case; `Visit`, the switch to another profile's job, at which the key of Layout's
outlet mounts the page anew; and `Shown`, which is `keepPreviousData`. Three modules extend it with
another server and other users: **`JobStatusQuery`** has everything a user can do to
the cache; **`DeploymentNotifications`** compares what is shown before and after
each render (`Effect`) and has the toggle, whose choice is in local storage and
whose permission is the browser's; **`JobStatusPage`** has every handler of the
page. There a view is a record of the URL's parameters, the query key is a part
of it, and the server's answer is `Allocations!Table`, so that an answer to an
earlier view has that view's items, page and options. What the URL may say of a filter is
a constant (`Texts`), as the page takes any text. The module also has what
changes the URL from outside: leaving (`GoAway`), a link (`Open`), `Back`, and
the profile switch of `Layout.tsx`, which looks the job up (`Switch`) and navigates when
that has ended (`Land`, `LandElsewhere`), by then perhaps to the page that is
mounted, which keeps its state. `past` is the history, as far as this page made
it. Pausing, hiding and failures are left to `JobStatusQuery`: they do not touch the
page's state.

**`TableView`** is what the two pages' sources share: reading and writing the
query string, the sort cycle, clamping and cutting a page. **`ProfilePage`** does
its own searching and sorting, and has the links, Back and the profile switch that
ends late, which change the URL under it.

**`Layout`** is the header: a switch is its handler's captured route and the
answer, if it has come. Links, Back and other changes go on while it waits. The
history variables `listed`, `pausedOn` and `carried` are only read by properties.

## Runs

| run | shows | bounds, and why they are enough |
|---|---|---|
| `MCFanOut.cfg` | all safety properties, termination, refinement | 5 calls, 2 slots: `Run` blocks, both channels fill, and up to 5 errors pass through 2 places |
| `MCLRUCache.cfg` | expiry, overwrite, eviction in exact LRU order | 3 keys, 2 values, capacity 2, TTL 1, clock to 3: entries expire at, and after, the boundary, and are evicted while fresh |
| `MCUnhoused.cfg` | configurations and slugs; racing fetches through a cache that is too small, over the demo's rollout | every file of up to 2 profiles with 2 names, 2 slugs, 2 addresses, an invalid one and every field unset; 2 callers, capacity 1, and 2 replicas asked for, so that one allocation is fetched twice at once and evicted for another; the real rollout at 13 instants, one of each kind of boundary, up to where the next rollout has replaced both replicas again |
| `MCAllocationTable.cfg` | paging, sorting, counts | all lists of up to 3 of 4 kinds of allocation in 2 orders of their IDs, 3 histories (one without a submit time, one with one in the future), every column in both directions, a column and a direction that do not exist, pages below, on and past the ends, page sizes 0, 1, 2 and past the maximum |
| `MCJobStatus.cfg` | the handler's answers, and that it is never stuck | 2 allocations (3 after a placement), a page of 3, 2 fetches at a time, 3 changes of the cluster |
| `MCJobStatusNotFound.cfg` | a disagreement with `specs/api.md` (see Findings) | the same with 2 changes |
| `MCListJobs.cfg` | the job list across polls | 2 jobs, 2 changes of the cluster, clock to 3, one failed call: a job is redeployed before, between and after the two calls, and two jobs are submitted at one time |
| `MCJobStatusQuery.cfg` | placeholder, pause, profile switch, retries, currency | 2 selections of filters of one job and another profile's job, 1 change of the server, 2 failures: a fetch fails with its retry, and an answer is older than another query's |
| `MCDeploymentNotifications.cfg` | notifications on one selection of filters | 3 statuses, 2 changes, 1 failure; the toggle and the permission are not bounded |
| `MCJobStatusPage.cfg` | state, URL, what the view hides, with Back, links and a late profile switch | any 2 acts of the user; the state before them comes from a bookmark with every parameter set, one of them invalid and one a value that no allocation has, and a switch to the page may be under way from the start, so that a click after it has emptied the URL of the mounted page is among the 2 acts; a list of 3 allocations on 2 nodes in 2 versions that shrinks to 1, pages of 1 and 2 |
| `MCProfilePage.cfg` | the same of the profile page | any 5 acts, lists of up to 3 jobs; here too a switch may be under way from the start |
| `MCLayout.cfg` | switch and pause | 2 profiles, 2 jobs, 4 acts, 1 change of a profile's jobs: the user can leave, come back and pause while a switch is under way |

The page sizes 50 and 500, the 8 concurrent fetches and the 512 cache entries are
CONSTANTS with small values in the runs. `MaxTime` (clock), `N` (calls),
`MaxChanges` (changes of the cluster or the server), `MaxFailures` (failed
requests) and `MaxActs` (what the user does) bound what is unbounded in the
program. `MCUnhoused.cfg` takes the two callers as symmetric, which they are in
every definition and property, and a `VIEW` leaves out which list element holds a
cache entry and what the last `Get` returned, which its caller has copied: no
later step depends on either. The other runs use neither.

`CHECK_DEADLOCK FALSE` is there where the system really stops: the fan-out after
`Wait` has returned, a request after its answer, and unhoused when it exits on a
bad configuration; and in the page and layout runs, where the user's acts are
bounded, and `MCListJobs.cfg`, where the clock and the changes are.

### Fairness

`FanOut`: weak fairness of the caller, of every worker and of the
collector. Go's scheduler runs every goroutine that can run, and a channel
operation that stays possible is done. Callbacks are assumed to return. No
strong fairness is needed: only the caller takes tokens, so a `Run` or `Acquire`
that becomes possible stays possible; and although another worker may take the
room a blocked `Send` waits for, each worker sends at most once, so that
happens finitely often.

`JobStatus` has no fairness: its runs are of safety, and `NeverStuck` says that
once the fan-out has begun and until the answer is out, a step of the handler is
possible. That it is taken rests on every Nomad call ending; the HTTP client has
no timeout of its own (`client.go:57`), so on Nomad, TCP, or the browser: the
call's context ends with the browser's connection.

`QueryCache!CacheFairness`: every request ends, with an answer if it does not
fail; a retry that waits is made; the interval ticks while the page is
mounted, visible and not paused. The browser's timers and `fetch` give this.
Nothing is assumed of the user or the server; `EventuallyCurrent` speaks only of
a page that is left alone. `Layout`: a request that does not fail is answered.

### Findings

The 404 is the run `not_found`. For each of the others but two (the status count
and the two comments) the module has a definition that states the claim, which the code
does not keep, and the cfg named with it reproduces the counterexample.

* **`lastModifiedSeconds` of about 292 years.** `specs/api.md:199` says it is
  `now - submitTime` of the allocation's version. The version may be missing from
  the version history the handler got: the calls are made concurrently and are not
  one snapshot, and Nomad forgets old versions that still have allocations. The
  missing time is Go's zero time, and the subtraction saturates
  (`LastModifiedIsSinceSubmit`, `MCJobStatusSubmitTime.cfg`).
* **404 for a job that exists.** `specs/api.md:208` gives 404 to an unknown
  profile or job. If one allocation of the page is collected after the list
  was read, and its ports are not cached, the whole answer is 404 "allocation not
  found". Other places differ from line 208: `specs/api.md:19` and the
  comment at `errors.go:28` count an unknown allocation among the causes of a 404.
* **Old statuses announced.** Going back to filters that were selected before
  shows their cached answer first; if the deployment has moved on since, its old
  status is announced as a change (`NoticesMoveForward` with `Selections <- TwoKeys` in
  `MCDeploymentNotifications.cfg`; with one key it is a theorem).
* **No notifications in a hidden tab.** `functional_requirements.md:127` promises
  them regardless of focus; a hidden tab does not poll
  (`NoticesInAnyTab`, `MCDeploymentNotificationsHidden.cfg`).
* **The search box goes away.** Clearing a search that found nothing unmounts it
  until the next answer, against the comment at `queries.ts:67`
  (`FilterBarStays`, `MCJobStatusPageFilterBar.cfg`).
* **Next skips a page** when it is clicked before the answer to a filter change
  has come (`PagesStepByStep`, `MCJobStatusPageNext.cfg`).
* **A status count finds fewer rows than it says** when a node or task group
  filter is set: `handleVersionStatusClick` keeps them, though
  `functional_requirements.md:93` says that it replaces whatever filters were set.
  `JobStatusPage!HandleVersionStatusClick` models it; no definition states it.
* **The profile's breadcrumb on its own page** empties the URL and keeps the view, and so
  does a profile switch that ends when its user is already there
  (`ProfilePage!UrlRestoresView`, `MCProfilePageReload.cfg`).
* **A late profile switch empties the job page's URL.** On `p2/job/j?status=failed`
  the user selects p1 and lands on `p1/job/j`, selects p2, and presses Back while
  the lookup is pending: the page of p2's j is mounted with `status=failed`. Then the
  handler goes on with `navigate('/profile/p2/job/j')` (`Layout.tsx:44-46`). The outlet's
  key is the same, so the page keeps its filter under a URL that has none, and a reload
  or a shared link loses it, against `functional_requirements.md:38-42` ("reloading the
  page or opening a bookmarked/shared link restores the exact same view"). Back from
  there to `?status=failed`, and between any two such entries, changes the URL in the same
  way. `JobStatusPage!UrlRestoresView` states the claim; `INVARIANT UrlRestoresView` in
  `MCJobStatusPage.cfg` gives the counterexample.
* **The demo's failed allocation has a running one's ID.** `batchWorkerJob` makes
  it with a second call of `stableAllocs` (`jobs.go:159-160`), whose IDs count from
  index 0 again: the failed allocation on one node and the first running one on
  another have the same ID, so the ports of the failed one are the other's, with
  the other's address, against the comment at `client.go:134` ("the IP of the
  node it's running on") (`NodeIPIsOfTheNode`, `MCUnhousedBatch.cfg`).
* **Two comments in `deploy.go`** say otherwise than the code: the versions of a
  rollout are never "identical when a rollout just started" (lines 82-83; the old one is
  always one less), and a finished slot reports its old allocation too, complete,
  not "only the new one" (line 175). `NomadDemo!CycleState` and
  `SlotAllocations` follow the code.
* **A pause survives a profile switch** to the job of the same ID, against the
  comment at `Layout.tsx:27` (`VisitStartsRunning`, `MCLayoutVisit.cfg`).

What holds beside each of them is a property of the passing run of the same module:
`NoticesMoveForward` on one selection, `EventuallyCurrent` in a visible tab,
`HandlersKeepUrl` of both pages (after any click and any mounting URL and view agree;
a navigation that finds the page mounted changes the URL alone, and the next click writes
the whole view again), `PauseIsForThisJob` (on any other page a pause ends, but for
the job of the same ID once a profile switch has ended on its page).

## Proofs

All proofs are for every value of the constants that the module's `ASSUME`
admits; TLC evaluates each of those on every run of the module. Each component's
argument is an invariant that its initial states satisfy and its steps keep, from
which the properties follow. The larger invariants were checked by TLC on the run's
instance before they were proved.

### The fan-out

`FanOutProofs` proves, for every `N` and `MaxConcurrent` in `Nat` (the one
assumption, `FanOutAssumption`), every safety property that `MCFanOut.cfg`
checks, and that `FanOut` implements `ParallelFor`. They cover the limits the run
does not have: `NewFanOut(0)`, which makes a pool of one slot, among them.

The inductive invariant is `IInv`. `TypeOK` bounds the channels.
`TokensCounted` is the heart: the limiter holds a token for each worker that is
running, sending or releasing, and one for each token `Wait` has taken. From
it, when `Wait` has taken `Cap` tokens there is no such worker, so none can send
when `Close` closes `errCh` (`ClosedMeansDone`). That in turn is what
keeps `CollectorInStep` (the collector ends with `errCh` empty) true at a
`Send`. `ErrorsInTransit` follows each error through the three places it can be
(`errCh`, the collector's hand, `errs`): each step moves one from a place to
the next or leaves all where they are, which four lemmas on sequences say.
`CallerInStep` and `WorkersInStep` tie program counters to each other. The
refinement maps `Run` to `Begin`, `Finish` to `End`, `Join` to
`Return`, and everything else to a stutter; that `errs` is one of the orderings
of the failed tasks when `Wait` returns is `Ordering`.

### The query cache

`QueryCacheProofs` proves first `PauseHolds`, `NoIdleWait`, `NeverAnothers` and
`NoFlicker`, which are all the safety properties of `MCJobStatusQuery.cfg`, for
any set of queries of any profiles and any number of changes and failures. The one assumption,
`JobStatusQueryAssumption`, is that the bounds are naturals and that `Nothing` is
none of the keys, answers, or what is held.

None of the four is inductive; their invariant is `IInv` of `JobStatusQuery`.
`RequestsLeaveSomething` says that an entry without a request has data or an error,
for which one must know that a request that has been read has its answer with
it: `NoIdleWait` follows. `HeldIsOfThePage` says that what is held is of the
mounted page's profile and, when the page's own query has data, is that data:
`NeverAnothers` follows, and `NoFlicker`, because a step that neither fails nor
switches the profile leaves what was held in place or replaces it by newer
data. `PausedIsQuiet` is why a pause holds: the one update a paused page may see
ends the one request that was under way, and no step without the user
begins another, so no second can come. `FetchedFacts` is the lemma on a fetch,
the only function that makes entries.

### The LRU cache, unhoused and the demo server

`UnhousedProofs` begins with `LRUCache`: for every capacity, also 0, every time to
live, also a negative one, and any keys and values (`LRUCacheAssumption` says only
that the numbers are numbers), `CacheIntact` holds and `LRUCache` implements
`MemoTable`. The invariant is `Shape`: list and map have the same elements, each once,
and each element holds the key under which the map has it. The last part is
why `evictOldest`, which finds the key in the element, deletes the right one; and
that a list element is free when `Set` needs one follows from counting
(`Len(order) <= Capacity`, one element more). `Shape` is proved of `Get` and
`Set` with any arguments, so that it can be used again where the keys and values are
`Unhoused`'s. The refinement maps a hit, a miss and an expiry to `MemoTable`'s, and an
insertion to one that forgets at most one key.

`ExactlyMostRecent` is about `LRUCacheHistory`, where `used` is the keys in the order
of their last use, computed from the calls alone. Its invariant, `HistoryInv`, adds
to the property that `used` is the keys that were ever set, each once, and that an
element expires `TTL` after its key was set. `UseFacts` says what a use does to
`used`: one key moves to the front and the others keep their order, so no other key
comes nearer to the front. An insertion into a full cache is the hard step: the list
with the new element is in the order of the history (`PushAgrees`), so every
cached key is ahead of the key whose element is evicted, the last; those are `Capacity`
keys, so its place in `used` is beyond `Capacity` (`AheadCounts`). What moving,
pushing and dropping an element do to the order of a list is stated once (`AheadPush`,
`AheadRemove`, `AheadFront`), for lists without repetition.

Of `Unhoused`:

* `SlugsResolve`, for any set of configuration files: nothing changes what was loaded
  (`ConfigIsTheFile`); in a configuration that passes validation the effective
  slugs, after the defaults too, differ, and so do the names, so the lookup of a link
  finds one profile and the lookup of its name that profile's client.
* `AnswersAreOwnPorts`, for any number of callers, any capacity, any clock. The
  invariant `PortsKept` says of every place where ports are (the cache, a caller
  between fetch and store, an answer) that they belong to the key. It holds
  because the place of an allocation, and so its ports, follow from its ID
  (`FoundPorts`), and so neither a rollout nor a restart makes an entry wrong. The
  hypothesis that no `batch-worker` allocation is asked for is the exception under
  Findings: two of that job's allocations share an ID, and the property is false
  with it.
* `ListedIsFound`: within a cycle a slot that has started does not go back, so an
  ID that was listed is still listed, until `moved` says that another cycle or another
  epoch has begun (`Findable`).
* `RolloutConsistent`, for every length of rollout and of the pause after it and every
  instant. `CycleFacts` is the arithmetic of the cycle (the version is the quotient, the
  time into the cycle the remainder), `StageAt` where a slot is at an instant. Two
  counts agree although one is of slots and the other of allocations, by a bijection: the new allocations of a group are the
  images of the slots that have reached their stage (`NewCounted`). That a deployment is
  successful exactly when all are healthy is `RolledOut`: the offset of the last slot
  lies within the rollout. `OneRuns` gives each replica one running allocation, in each of
  the three stages that a slot can be in; `VersionsDoMatch` goes through
  the kinds of job.
* `RolloutForward`, between any two instants of one epoch, not only neighbouring ones.
  A slot's stage and the version grow with the time (`StageForward`, `VersionGrows`), so
  an allocation's life does (`LivesForward`). The badge is `Deployments!LatestInfo` of the
  demo's list of deployments, of six jobs, and of the sums over the two task groups, both
  made by folds; these are of a known length, and `IterStep` is one step of one, which
  takes no induction (`FourDeployments`, `TotalOfTwo`). `ShownIs` and `BadgeIs` compute
  what the page then shows, and `BadgesForward` compares two of them: the healthy count grows, and a
  percentage is a quotient of it by a constant. The proof needs that the server's start
  is not the zero time, which `NomadDemoAssumption` says: with it the page would find
  the time of the first rollout unknown and show no duration.

`UnhousedAssumption` says that files are lists of profiles of strings, that the
watched jobs are among the demo's, and that instants are naturals.

### The table

`JobStatusProofs` proves the four properties of `MCAllocationTable.cfg` for
lists and histories of any length and any requests. The invariant is that the answer
is the answer to the request (`TypeInv`); the content is in the lemmas about
`Allocations`, most of them in `TableLemmas`:

* `ArrangedFacts`: arranging a finite set by a strict order gives a sequence of
  all of it, each once, in order: the rank of an element, the number of elements before
  it, is a bijection to `0 .. n - 1` (by the library's facts on finite cardinality; no
  induction is needed). `StableOrderIsStrict` then says that the comparison by a
  column, with the place in Nomad's list where it is equal, is strict.
* `CeilingFacts`, `PaginateFacts`, `OffsetFits`, `PageOfFacts`: the clamped page has a
  valid offset, every place is on one page, at one row. `PagesPartition` is these and
  that filtering and sorting repeat and lose nothing.
* `ShownInOrder`: truncation, the clamp to 0 and saturation keep an order of submit
  times, so `LastModifiedAsShown`.
* `KeptByGroup`: the count of a status in a group is the size of the same set of
  places that the group's filters select, so `CountsMatchFilter`.

`AllocationsAssumption` is that the page-size limits and the longest duration are
numbers in order; `AllocationTableAssumption` gives the types of the stubs, the
version history and the requests, that IDs differ within a list, that the present
is within the range of a duration, and that "any" is none of the values.

### The job-status handler

`JobStatusProofs` also proves the four safety properties of `MCJobStatus.cfg` for any
query, any number of allocations, concurrent fetches and cluster changes. `JInv` is

* `ClusterInv`: no listed ID is above `placed`. As IDs are never reused, an
  allocation that is `Gone` stays so, which makes the "not found" a callback met
  still true when the answer is given (`NotFoundMeansGone`);
* `CallsInv`, `CallsAreCurrent`: which calls have returned at which point, and that
  what they returned is the cluster's state if that has not changed since the
  request began (`QuietAnswerIsCurrent`);
* `FanInv`: before the fan-out nothing runs; in it the table is that of what the calls
  returned, a row whose callback succeeded is filled with its own ports, a callback
  whose error is "not found" asked for an allocation that is gone, and after the wait
  every callback of the page has ended and the errors are those of the failed ones;
* `AnswerInv`: what the answer is, once given.

`CompleteRows` follows because 200 is given only when no callback failed;
`RowsAgreeWithGroups` from `TableFacts`, that a row's duration and canary mark are a
function of its version. The fifth call, for the nodes, is made only for a search:
`NodesOnlyForSearch` says that the table does not depend on it otherwise, without which
`QuietAnswerIsCurrent` could not speak of one table. The one assumption is that
the page numbers of a query are integers.

### Job list

`ListJobsProofs` proves `QuietAnswerIsCurrent` and `RolloutClockSteady` of
`MCListJobs.cfg`, for any number of jobs, deployments in any order, task groups, polls,
failed calls and changes of the cluster. `IInv` is

* `Lists`: the deployments that the cluster has, and those that a call returned, have
  indices that differ and were given by now, and were created by now;
* `Undisturbed`: while the cluster stands still (`quiet`), what the calls returned is
  what it has;
* `OneMoment`: an index, wherever it is seen (in the cluster, in what a call returned, in
  the rows of the last answer), was begun at one moment, and is not one that is yet to be
  given. Without the three places `RolloutClockSteady` is not inductive: between two
  answers that show a rollout it may have ended and been collected;
* `Durations`: the time that a row shows was measured from its begin, by now.

`RolloutClockSteady` then needs that truncation and saturation keep the order of two
moments. `QuietAnswerIsCurrent` needs what the handler computes of lists of any length:
that the newest of a job's deployments is found in any order (`LatestIs`), and
that the progress is that of the sums over the groups (`ProgressIs`, `TotalNat`). A sum is
a fold; the recursion that defines it is unfolded one step at a time, and the
induction is by the least number for which the claim would fail (`LeastExists`,
`UpTo`), since a rule that takes the claim as an operator is out of reach.

`OneMoment` is also why `NextIndex` counts the changes. One more than the greatest index
in the list would do for the two changes of the run, but gives the index of a deployment
that has been collected to another one, which Nomad's raft index never does; the
property fails with it, after four changes.

`ListJobsAssumption` is that there is a job and that the task groups of a deployment are
a sequence of natural counts.

### Notifications

`QueryCacheProofs` also proves both properties of
`MCDeploymentNotifications.cfg`, whatever the cache, the toggle and the browser's
permission do. Every step of the cache is of one form (`Moves`): an
entry keeps its data or gets the answer that was on its way, and what is on its
way is what the server said at some moment. `ToldOfEveryChange` needs of this
only that what is shown is an answer, for any set of selections; its invariant
adds that something was told when something was seen (`TellInv`).
`NoticesMoveForward` is proved for one selection (`Keys = {k0}`, the hypothesis; with
two it is false, see Findings). There the answers come in the order in which they
were read, since an entry has one request at a time: `QueriesInOrder` orders told,
data, answer on its way and server, and equal numbers are equal answers
(`NoticeInv`). `DeploymentNotificationsAssumption` is that the bounds are naturals
and `Nothing` is nothing else.

### The pages

Of `JobStatusPage`, `QueryCacheProofs` proves `HandlersKeepUrl` and `NothingHidden`, which
are all that `MCJobStatusPage.cfg` checks, for any lists of allocations, bookmarks,
searches, texts and page sizes. The invariant is `PageInv`: the view has a value for each
parameter that the page accepts from a URL, every cached entry is the server's `Table`
for its key of one of the lists, the query observed is that of the view, and the URL and
the history are query strings the page was opened with, that of a view, or none. That
the URL is the view's is not in it: it is false while a late switch or Back has left its
mark, which is why the property is of steps. That the view stays valid is the delicate
part, as only a valid one is read back from the URL a click writes. The options of a
dropdown come from the answer that is *shown*, which may be another view's; its items are
of one of the lists, so what is chosen is what some allocation has, which is a text a URL
may say (`Texts`), and Next counts on from the page of the answer, which is positive.
`RoundTrip` of `TableLemmas`, shared with the profile page, turns a valid view into the
URL and back. `NothingHidden` follows from the facts on filtering and paging that the
table's theorems rest on: without a filter an answer has all the allocations, with one
its page has a row if any allocation matches, and the groups of a list that is not
empty are on some page.

`ProfilePageProofs` proves `HandlersKeepUrl` and `NoEmptyPage` for any job lists,
searches, bookmarks and page sizes. `RoundTrip` is the lemma that matters: parsing the URL
built of a view gives the view, also though `sort` and `dir` are written and read
together. For this every handler must make a valid view; the invariant says so
(`TypeInv`, with the URLs in the history, to which Back mounts the page), and
`NextDirectionIsOne` is needed for it; `UrlIsKept` says that of each action. `NoEmptyPage` is
arithmetic: the clamped page begins before the end (`EffectiveFacts`,
`SliceNotEmpty`). `ProfilePageAssumption` is that lists are sequences and sizes
positive.

`LayoutProofs` proves `PauseIsForThisJob` and `SwitchLandsOnListedJob` for any
profiles and jobs. A paused user is on the job of `pausedOn`, and Back can lead to any
entry of the history: so the invariant says of the whole trail, history and route, that
two neighbours with one job are under one profile unless a switch has ended on that job
(`CrossedBySwitches`). Links never cross profiles on a job, a switch records the crossing
in `carried`, and going back takes a neighbour away (`TrailGrows`, `TrailShrinks`,
`TrailStays`). While a switch is under way `listed` has what the profile has now
and what was read for the answer (`AnswerIsListed`); the answer is applied
whatever happened meanwhile, and still lands on a job that was listed. `LayoutAssumption`
is that `None` is nothing else.

### What is only model-checked

* Liveness, which is out of the provers' reach: `Termination`, `SwitchEnds`,
  `EventuallyCurrent`.
* `JobStatus!NeverStuck`, which is about ENABLED.

Every other property of a passing run is a theorem.

## Not modelled

* `transport.go` reads, logs and replaces a body within one call and keeps no state;
  what it does is I/O that nothing above it tells apart.
* The browser's Forward, which needs what Back left behind; it mounts a page, or
  changes the URL under the mounted one, as Back does.
* The theme is one value in local storage and one toggle, with no second actor.
* Presentation: JSON, HTTP headers, YAML, port address templates, Docker images and
  version tags (copied through), colours, icons and wording; static file serving.
* Flags, listening and shutting down; the listen port and the public URL, which have
  defaults and are read once.
* `useProfiles`, which is fetched once, and `useJobs`, which is `useJobStatus`
  without the pause.
* A negative `MaxConcurrent` or capacity panics or is meaningless and is never
  passed.
* Nomad itself is external: the modules have what the code in `internal/` relies
  on. `handleJobStatus` reads `job` only to copy its name and status, so
  `JobStatus` keeps of that call only how it ended.
* Of the demo's data, image names, port numbers and the order of a job's
  allocations in its list, which the callers sort.

## Plan

Compositions are left: `Layout` with `ProfilePage` in one module, as both are driven by
the same links and Back; a page over `ListJobs` instead of over a list that changes at
will.
