----------------------------- MODULE JobStatus -----------------------------
(***************************************************************************)
(* internal/httpapi/handlers.go: one run of handleJobStatus while the      *)
(* Nomad cluster it asks goes on changing.                                 *)
(*                                                                         *)
(* The handler makes four independent calls at once, and when all of them  *)
(* have returned maybe a fifth; it then fetches the ports of the page's    *)
(* allocations through a FanOut, here the ParallelFor it implements.  No   *)
(* two of these calls see the same moment of the cluster.                  *)
(*                                                                         *)
(* Nomad is external: the version history and the allocations of one job,  *)
(* which deploys, places and collects allocations, forgets old versions    *)
(* and may be purged.  Any call may fail, as it also does when the browser *)
(* goes away and the request's context is cancelled.                       *)
(***************************************************************************)
EXTENDS Allocations

CONSTANTS
  Queries,             \* the query parameters a request may have
  FetchConcurrency,    \* allocationFetchConcurrency
  MaxChanges           \* bound on the changes of the cluster

ASSUME JobStatusAssumption ==
  \A q \in Queries : q.page \in Int /\ q.pageSize \in Int

VARIABLES
  (* external: the Nomad cluster *)
  jobExists,     \* FALSE once the job is purged
  history,       \* the job versions it keeps, newest first
  listed,        \* the allocation stubs, in the order it lists them
  placed,        \* the last allocation ID given: IDs are never reused
  canary,        \* the version a canary deployment rolls out, 0 if none
  submitted,     \* history: the submit time of every version there was
  changes,       \* how many changes there have been: also the clock
  (* the client's port cache *)
  cached,        \* the allocations whose ports are cached
  (* the handler *)
  pc,            \* where it is
  query,         \* the request
  profileKnown,  \* whether the request names a configured profile
  fetched,       \* how each call to Nomad ended: "none" while it has not
  gotVersions, gotStubs, gotCanary,    \* what the calls returned
  now,           \* s.now(), read once after the first calls
  table,         \* what is computed from the answers
  rows,          \* the allocations slice the callbacks write to
  fetchErr,      \* the error of each callback that failed
  running, outcome, returned, errors,  \* the fan-out
  response,
  startedAt      \* history: changes when the request started

nomadVars == <<jobExists, history, listed, placed, canary, submitted, changes>>
fanVars == <<running, outcome, returned, errors>>
gotVars == <<fetched, gotVersions, gotStubs, gotCanary>>
requestVars == <<query, profileKnown, startedAt>>
handlerVars ==
  <<cached, pc, requestVars, gotVars, now, table, rows, fetchErr, fanVars,
    response>>
jobVars == <<nomadVars, handlerVars>>

Calls == {"job", "versions", "allocations", "deployments"}

Slots == 1 .. MaxPageSize

Fan == INSTANCE ParallelFor WITH Tasks <- Slots, Limit <- FetchConcurrency

Clock == changes * TicksPerSecond

NoRow == [id |-> 0]

NoAnswer == [status |-> 0]

NoTable == [rows |-> <<>>]

NodeIPs == [n \in {1} |-> 10]

-----------------------------------------------------------------------------
(* External: the cluster. *)

Stub(id, version) ==
  [id |-> id, node |-> 1, status |-> 1, desired |-> 1, taskGroup |-> 1,
   version |-> version]

NewestVersion == Head(history).version

NomadInit ==
  /\ jobExists = TRUE
  /\ history = <<[version |-> 1, submitTime |-> 0]>>
  /\ listed = <<Stub(1, 1), Stub(2, 1)>>
  /\ placed = 2
  /\ canary = 0
  /\ submitted = <<0>>
  /\ changes = 0

Change ==
  /\ changes < MaxChanges
  /\ changes' = changes + 1
  /\ UNCHANGED handlerVars

Deploy ==
  /\ Change
  /\ jobExists
  /\ LET v == NewestVersion + 1
     IN  /\ history' = <<[version |-> v, submitTime |-> Clock]>> \o history
         /\ submitted' = Append(submitted, Clock)
         /\ canary' = v
  /\ UNCHANGED <<jobExists, listed, placed>>

Promote ==
  /\ Change
  /\ canary # 0
  /\ canary' = 0
  /\ UNCHANGED <<jobExists, history, listed, placed, submitted>>

Place ==
  /\ Change
  /\ jobExists
  /\ placed' = placed + 1
  /\ listed' = <<Stub(placed', NewestVersion)>> \o listed
  /\ UNCHANGED <<jobExists, history, canary, submitted>>

CollectAllocation ==
  /\ Change
  /\ \E i \in DOMAIN listed : listed' = RemoveAt(listed, i)
  /\ UNCHANGED <<jobExists, history, placed, canary, submitted>>

ForgetVersion ==
  /\ Change
  /\ Len(history) > 1
  /\ history' = Front(history)
  /\ UNCHANGED <<jobExists, listed, placed, canary, submitted>>

(* The allocations of a purged job stay until they are collected. *)
Purge ==
  /\ Change
  /\ jobExists
  /\ jobExists' = FALSE
  /\ history' = <<>>
  /\ canary' = 0
  /\ UNCHANGED <<listed, placed, submitted>>

Cluster ==
  \/ Deploy \/ Promote \/ Place \/ CollectAllocation \/ ForgetVersion
  \/ Purge

(* Other requests store ports in the client's cache, and evict from it. *)
OtherRequest ==
  /\ \/ \E s \in ToSet(listed) : cached' = cached \cup {s.id}
     \/ \E id \in cached : cached' = cached \ {id}
  /\ UNCHANGED <<nomadVars, pc, requestVars, gotVars, now, table, rows,
                 fetchErr, fanVars, response>>

-----------------------------------------------------------------------------
(* The handler. *)

HandlerInit ==
  /\ cached = {}
  /\ pc = "start"
  /\ query \in Queries
  /\ profileKnown \in BOOLEAN
  /\ fetched = [c \in Calls |-> "none"]
  /\ gotVersions = <<>>
  /\ gotStubs = <<>>
  /\ gotCanary = 0
  /\ now = 0
  /\ table = NoTable
  /\ rows = <<>>
  /\ fetchErr = [i \in Slots |-> "none"]
  /\ Fan!Init
  /\ response = NoAnswer
  /\ startedAt = 0

(* writeError with the status classifyNomadErr gives the error. *)
NotFound(what) == [status |-> 404, message |-> what]

BadGateway == [status |-> 502]

Classified(error, what) ==
  IF error = "404" THEN NotFound(what) ELSE BadGateway

Answered(r) ==
  /\ response' = r
  /\ pc' = "done"

UnknownProfile ==
  /\ pc = "start"
  /\ ~profileKnown
  /\ Answered(NotFound("profile"))
  /\ UNCHANGED <<nomadVars, cached, requestVars, gotVars, now, table, rows,
                 fetchErr, fanVars>>

Start ==
  /\ pc = "start"
  /\ profileKnown
  /\ pc' = "fetching"
  /\ startedAt' = changes
  /\ UNCHANGED <<nomadVars, cached, query, profileKnown, gotVars, now, table,
                 rows, fetchErr, fanVars, response>>

(* One of the four goroutines: its call returns. *)
Call(c) ==
  /\ pc = "fetching"
  /\ fetched[c] = "none"
  /\ \/ /\ jobExists \/ c \in {"allocations", "deployments"}
        /\ fetched' = [fetched EXCEPT ![c] = "ok"]
        /\ gotVersions' = IF c = "versions" THEN history ELSE gotVersions
        /\ gotStubs' = IF c = "allocations" THEN listed ELSE gotStubs
        /\ gotCanary' = IF c = "deployments" THEN canary ELSE gotCanary
     \/ /\ \/ fetched' = [fetched EXCEPT ![c] = "502"]
           \/ /\ ~jobExists /\ c # "deployments"
              /\ fetched' = [fetched EXCEPT ![c] = "404"]
        /\ UNCHANGED <<gotVersions, gotStubs, gotCanary>>
  /\ UNCHANGED <<nomadVars, cached, pc, requestVars, now, table, rows,
                 fetchErr, fanVars, response>>

(* wg.Wait returned: the first error in the order job, versions,           *)
(* allocations, deployments is the answer, whichever came first in time.   *)
CallOrder == <<"job", "versions", "allocations", "deployments">>

FirstError == SelectInSeq(CallOrder, LAMBDA c : fetched[c] # "ok")

CallsReturned ==
  pc = "fetching" /\ \A c \in Calls : fetched[c] # "none"

CallFailed ==
  /\ CallsReturned
  /\ FirstError > 0
  /\ Answered(Classified(fetched[CallOrder[FirstError]], "job"))
  /\ UNCHANGED <<nomadVars, cached, requestVars, gotVars, now, table, rows,
                 fetchErr, fanVars>>

(* isCanaryVersion, of the job's latest deployment. *)
IsCanary(version, current) == current # 0 /\ version = current

CanaryMarked(t, current) ==
  [t EXCEPT !.groups =
     [n \in DOMAIN t.groups |->
        LET g == t.groups[n]
        IN  [version |-> g.version, lastModified |-> g.lastModified,
             counts |-> g.counts, canary |-> IsCanary(g.version, current)]]]

Derive(nodeIPs, time) ==
  LET t == CanaryMarked(
             Table(gotStubs, SubmitTimes(gotVersions), nodeIPs, time, query),
             gotCanary)
  IN  /\ table' = t
      /\ rows' = [i \in DOMAIN t.rows |-> NoRow]
      /\ pc' = "fanout"

CallsSucceeded ==
  /\ CallsReturned
  /\ FirstError = 0
  /\ now' = Clock
  /\ IF query.filters.search = AnyValue
     THEN Derive([n \in {} |-> 0], Clock)
     ELSE /\ pc' = "nodes"
          /\ UNCHANGED <<table, rows>>
  /\ UNCHANGED <<nomadVars, cached, requestVars, gotVars, fetchErr, fanVars,
                 response>>

(* ListNodes, for a search only. *)
Nodes ==
  /\ pc = "nodes"
  /\ \/ Derive(NodeIPs, now) /\ UNCHANGED <<now, response>>
     \/ Answered(BadGateway) /\ UNCHANGED <<now, table, rows>>
  /\ UNCHANGED <<nomadVars, cached, requestVars, gotVars, fetchErr, fanVars>>

-----------------------------------------------------------------------------
(* The fan-out over the page. *)

Page == DOMAIN table.rows

(* Run: the i-th callback starts, in the order of the page. *)
Begin(i) ==
  /\ pc = "fanout"
  /\ i \in Page
  /\ \A j \in 1 .. i - 1 : outcome[j] # "none" \/ j \in running
  /\ Fan!Begin(i)
  /\ UNCHANGED <<nomadVars, cached, pc, requestVars, gotVars, now, table,
                 rows, fetchErr, response>>

(* Mutant: the clock is read again in the callback. *)
RowReadingClock(i) ==
  LET s == table.rows[i]
  IN  [id |-> s.id, ports |-> s.id, version |-> s.version,
       lastModified |-> LastModifiedSeconds(SubmitTimes(gotVersions),
                                            s.version, Clock),
       canary |-> IsCanary(s.version, gotCanary)]

(* Mutant: during a canary deployment every row is a canary. *)
RowAllCanary(i) ==
  LET s == table.rows[i]
  IN  [id |-> s.id, ports |-> s.id, version |-> s.version,
       lastModified |-> LastModifiedSeconds(SubmitTimes(gotVersions),
                                            s.version, now),
       canary |-> gotCanary # 0]

Row(i) ==
  LET s == table.rows[i]
  IN  [id |-> s.id, ports |-> s.id, version |-> s.version,
       lastModified |-> LastModifiedSeconds(SubmitTimes(gotVersions),
                                            s.version, now),
       canary |-> IsCanary(s.version, gotCanary)]

KnownPorts(i) ==
  \/ table.rows[i].id \in cached
  \/ \E s \in ToSet(listed) : s.id = table.rows[i].id

(* Mutant: the callbacks share one loop variable. *)
PortsFoundShared(i) ==
  /\ pc = "fanout"
  /\ i \in Page /\ KnownPorts(i)
  /\ Fan!End(i, "nil")
  /\ LET last == Max({j \in Page : j \in running \/ outcome[j] # "none"})
     IN  rows' = [rows EXCEPT ![last] = Row(last)]
  /\ cached' = cached \cup {table.rows[i].id}
  /\ UNCHANGED <<nomadVars, pc, requestVars, gotVars, now, table, fetchErr,
                 response>>

(* GetAllocationPorts found the ports, cached or in Nomad. *)
PortsFound(i) ==
  /\ pc = "fanout"
  /\ i \in Page /\ KnownPorts(i)
  /\ Fan!End(i, "nil")
  /\ rows' = [rows EXCEPT ![i] = Row(i)]
  /\ cached' = cached \cup {table.rows[i].id}
  /\ UNCHANGED <<nomadVars, pc, requestVars, gotVars, now, table, fetchErr,
                 response>>

(* Mutant: any failure to get the ports counts as a missing allocation. *)
PortsFailedAs404(i) ==
  /\ pc = "fanout"
  /\ i \in Page /\ table.rows[i].id \notin cached
  /\ Fan!End(i, "error")
  /\ fetchErr' = [fetchErr EXCEPT ![i] = "404"]
  /\ UNCHANGED <<nomadVars, cached, pc, requestVars, gotVars, now, table,
                 rows, response>>

(* It failed: a cached allocation cannot. *)
PortsFailed(i) ==
  /\ pc = "fanout"
  /\ i \in Page /\ table.rows[i].id \notin cached
  /\ Fan!End(i, "error")
  /\ \/ fetchErr' = [fetchErr EXCEPT ![i] = "502"]
     \/ /\ ~KnownPorts(i)
        /\ fetchErr' = [fetchErr EXCEPT ![i] = "404"]
  /\ UNCHANGED <<nomadVars, cached, pc, requestVars, gotVars, now, table,
                 rows, response>>

(* Mutant: the caller waits for as many callbacks as a full page has. *)
WaitForFullPage ==
  /\ pc = "fanout"
  /\ \A i \in Slots : outcome[i] # "none"
  /\ Fan!Return
  /\ UNCHANGED <<nomadVars, cached, pc, requestVars, gotVars, now, table,
                 rows, fetchErr, response>>

Wait ==
  /\ pc = "fanout"
  /\ \A i \in Page : outcome[i] # "none"
  /\ Fan!Return
  /\ UNCHANGED <<nomadVars, cached, pc, requestVars, gotVars, now, table,
                 rows, fetchErr, response>>

Respond ==
  /\ pc = "fanout"
  /\ returned
  /\ IF errors # <<>>
     THEN Answered(Classified(fetchErr[errors[1]], "allocation"))
     ELSE Answered([status |-> 200, table |-> table, rows |-> rows])
  /\ UNCHANGED <<nomadVars, cached, requestVars, gotVars, now, table, rows,
                 fetchErr, fanVars>>

FetchPorts ==
  \/ \E i \in Slots : Begin(i) \/ PortsFound(i) \/ PortsFailed(i)
  \/ Wait \/ Respond

Handler ==
  \/ UnknownProfile \/ Start
  \/ \E c \in Calls : Call(c)
  \/ CallFailed \/ CallsSucceeded \/ Nodes
  \/ FetchPorts

-----------------------------------------------------------------------------
JInit == NomadInit /\ HandlerInit

JNext == Cluster \/ OtherRequest \/ Handler

JSpec == JInit /\ [][JNext]_jobVars

-----------------------------------------------------------------------------
Ok == response.status = 200

(* An answer of 200 is whole: there is a row for each allocation of the    *)
(* page, each filled by its own callback with its own ports, although the  *)
(* callbacks write the slice at the same time and in any order; if one of  *)
(* them failed there is no answer of 200.                                  *)
CompleteRows ==
  Ok => /\ DOMAIN response.rows = DOMAIN table.rows
        /\ \A i \in DOMAIN response.rows :
             /\ response.rows[i].id = table.rows[i].id
             /\ response.rows[i].ports = table.rows[i].id
             /\ response.rows[i].version = table.rows[i].version

(* 404 is never the answer to a failure that may pass: "job not found"     *)
(* means that the job is gone, "allocation not found" that an allocation   *)
(* of the page is gone.                                                    *)
NotFoundMeansGone ==
  response.status = 404 =>
    CASE response.message = "profile" -> ~profileKnown
      [] response.message = "job" -> ~jobExists
      [] response.message = "allocation" ->
           \E i \in DOMAIN table.rows :
             \A s \in ToSet(listed) : s.id # table.rows[i].id

(* If the cluster did not change while the request was served, the answer  *)
(* is the cluster as it is now, as if all the calls had been one.          *)
QuietAnswerIsCurrent ==
  Ok /\ changes = startedAt =>
    LET t == response.table
    IN  /\ t = CanaryMarked(Table(listed, SubmitTimes(history), NodeIPs, now,
                              query), canary)
        /\ \A i \in DOMAIN response.rows :
             response.rows[i].canary <=> IsCanary(response.rows[i].version,
                                                  canary)

(* The callbacks run at different times, in an answer pieced together from *)
(* different moments, and yet every row shows the lastModified and the     *)
(* canary mark its version group shows: "All allocations within a version  *)
(* group therefore share the same last-modified value".                    *)
RowsAgreeWithGroups ==
  Ok => \A i \in DOMAIN response.rows :
          \E g \in DOMAIN response.table.groups :
            /\ response.table.groups[g].version = response.rows[i].version
            /\ response.table.groups[g].lastModified
                 = response.rows[i].lastModified
            /\ response.table.groups[g].canary = response.rows[i].canary

(* No request is left hanging in the fan-out, whatever fails in whatever   *)
(* order: until the answer is out a fetch or the handler can go on, and    *)
(* each of their steps is taken once.                                      *)
NeverStuck == pc = "fanout" => ENABLED FetchPorts

-----------------------------------------------------------------------------
(* specs/api.md: "lastModifiedSeconds (per allocation) and                 *)
(* newestAllocationLastModifiedSeconds (per version group) are both        *)
(* now - submitTime, where submitTime is the Nomad job version's           *)
(* SubmitTime".                                                            *)
LastModifiedIsSinceSubmit ==
  Ok => \A i \in DOMAIN response.rows :
          response.rows[i].lastModified
            = (now - submitted[response.rows[i].version]) \div TicksPerSecond

(* specs/api.md, of this endpoint: "Errors: 404 if {profile} or {jobId}    *)
(* don't exist; 502 if the Nomad API call fails."                          *)
NotFoundMeansProfileOrJob ==
  response.status = 404 => ~profileKnown \/ ~jobExists
=============================================================================
