----------------------------- MODULE NomadDemo -----------------------------
(***************************************************************************)
(* internal/nomaddemo: a simulated Nomad, of which everything is a         *)
(* function of the time.  Five jobs stand still; payments-api is rolled    *)
(* out again and again, one slot of each task group after the other.       *)
(*                                                                         *)
(* deterministicID hashes its arguments and is taken to be injective, so   *)
(* an ID is the tuple of them; a node is its index in demoNodes, which     *)
(* stands for its ID, name and address.  A job's allocations are a set; in *)
(* the program's list they are in the order of their places.  A tick is    *)
(* 10 s: the slots of payments-api take 50 and 100 s, a fifth of it        *)
(* pending.                                                                *)
(***************************************************************************)
EXTENDS Integers, FiniteSets, SequencesExt

CONSTANTS
  Rollout, Idle,   \* deployRolloutDuration and deployIdleDuration, in ticks
  Hour,            \* in ticks
  Epoch            \* when the server started

ASSUME NomadDemoAssumption ==
  /\ Rollout \in Nat \ {0} /\ Idle \in Nat \ {0}
  /\ Hour \in Nat /\ Epoch \in Nat \ {0}

CycleLength == Rollout + Idle

NodeAt(n) == n % 8

Alloc(id, group, version, place, client, desired, labels) ==
  [id |-> id, group |-> group, version |-> version, place |-> place,
   node |-> NodeAt(place), client |-> client, desired |-> desired,
   ports |-> [i \in DOMAIN labels |->
                [of |-> id, label |-> labels[i], host |-> NodeAt(place)]]]

JobVersion(version, submit) == [version |-> version, submit |-> submit]

Deployment(job, status, index, created, modified, groups) ==
  [job |-> job, index |-> index, status |-> status, version |-> 0,
   created |-> created, modified |-> modified, groups |-> groups]

-----------------------------------------------------------------------------
(* The jobs that stand still. *)

StaticJob(id, stop, status, submit, versions, allocs, deployment) ==
  [id |-> id, stop |-> stop, status |-> status, submit |-> submit,
   versions |-> versions, allocs |-> allocs,
   deployments |-> IF deployment = "" THEN <<>>
                   ELSE <<Deployment(id, deployment, 1, submit - (Hour \div 60),
                                     submit, <<>>)>>]

StableAllocs(job, group, version, count, offset, client, desired, labels) ==
  {Alloc(<<job, group, version, i>>, group, version, offset + i,
         client, desired, labels) : i \in 0 .. (count - 1)}

WebFrontend ==
  LET id == "web-frontend" submit == Epoch - 72 * Hour
  IN  StaticJob(id, FALSE, "running", submit, <<JobVersion(3, submit)>>,
        StableAllocs(id, "web", 3, 8, 0, "running", "run",
                     <<"http", "https">>), "successful")

ApiGateway ==
  LET id == "api-gateway" submit == Epoch - 6 * Hour
  IN  StaticJob(id, FALSE, "running", submit,
        <<JobVersion(4, Epoch - 9 * 24 * Hour), JobVersion(5, submit)>>,
        StableAllocs(id, "api", 5, 5, 8, "running", "run", <<"http">>)
          \cup StableAllocs(id, "api", 4, 1, 13, "running", "run", <<"http">>),
        "successful")

BatchWorker ==
  LET id == "batch-worker" submit == Epoch - 30 * Hour
  IN  StaticJob(id, FALSE, "running", submit, <<JobVersion(7, submit)>>,
        StableAllocs(id, "worker", 7, 3, 2, "running", "run", <<>>)
          \cup StableAllocs(id, "worker", 7, 1, 5, "failed", "stop", <<>>),
        "failed")

CronScheduler ==
  LET id == "cron-scheduler" submit == Epoch - 200 * Hour
  IN  StaticJob(id, FALSE, "running", submit, <<JobVersion(1, submit)>>,
        StableAllocs(id, "cron", 1, 1, 6, "running", "run", <<>>), "")

LegacyCheckout ==
  LET id == "legacy-checkout" submit == Epoch - 400 * Hour
  IN  StaticJob(id, TRUE, "dead", submit, <<JobVersion(11, submit)>>,
        StableAllocs(id, "checkout", 11, 2, 7, "complete", "stop", <<>>), "")

-----------------------------------------------------------------------------
(* The job that is rolled out: spec is [id, base, groups], each group      *)
(* [name, replicas, labels]; slots count from 0.                           *)

(* Mutant: the version moves on when a rollout ends, not when the next     *)
(* begins.                                                                 *)
CycleStateByRollout(spec, now) ==
  LET t == (IF now < Epoch THEN Epoch ELSE now) - Epoch
      index == t \div Rollout
  IN  [old |-> spec.base + index, new |-> spec.base + index + 1,
       elapsed |-> t % CycleLength]

CycleState(spec, now) ==
  LET t     == IF now < Epoch THEN Epoch ELSE now
      index == (t - Epoch) \div CycleLength
  IN  [old |-> spec.base + index, new |-> spec.base + index + 1,
       elapsed |-> t - (Epoch + index * CycleLength)]

VersionSubmitTime(spec, v) ==
  IF v <= spec.base THEN Epoch - Hour
  ELSE Epoch + (v - spec.base - 1) * CycleLength

SlotDuration(group) == Rollout \div group.replicas
PendingPhase(group) == SlotDuration(group) \div 5

SlotPhase(slotElapsed, pendingPhase) ==
  CASE slotElapsed < 0 -> "notStarted"
    [] 0 <= slotElapsed /\ slotElapsed < pendingPhase -> "replacing"
    [] OTHER -> "replaced"

PhaseAt(group, slot, elapsed) ==
  SlotPhase(elapsed - slot * SlotDuration(group), PendingPhase(group))

Slots(group) == 0 .. (group.replicas - 1)

(* Mutant: a replica counts as healthy once it is placed. *)
TaskGroupStatePlaced(group, elapsed) ==
  LET placed == {s \in Slots(group) :
                   PhaseAt(group, s, elapsed) # "notStarted"}
  IN  [desired |-> group.replicas, canaries |-> 0,
       placed |-> Cardinality(placed), healthy |-> Cardinality(placed)]

TaskGroupState(group, elapsed) ==
  [desired |-> group.replicas, canaries |-> 0,
   placed  |-> Cardinality({s \in Slots(group) :
                  PhaseAt(group, s, elapsed) # "notStarted"}),
   healthy |-> Cardinality({s \in Slots(group) :
                  PhaseAt(group, s, elapsed) = "replaced"})]

(* What a slot has: its old allocation, its new one, or both. *)
SlotAllocations(spec, group, offset, slot, now) ==
  LET cycle == CycleState(spec, now)
      Of(v, client, desired) ==
        Alloc(<<spec.id, group.name, slot, v>>, group.name, v,
              offset + slot, client, desired, group.labels)
      phase == PhaseAt(group, slot, cycle.elapsed)
  IN  CASE phase = "notStarted" -> {Of(cycle.old, "running", "run")}
        [] phase = "replacing"  -> {Of(cycle.old, "running", "stop"),
                                    Of(cycle.new, "pending", "run")}
        [] phase = "replaced"   -> {Of(cycle.old, "complete", "stop"),
                                    Of(cycle.new, "running", "run")}

NodeOffset(spec, g) ==
  FoldLeft(LAMBDA sum, group : sum + group.replicas, 0,
           SubSeq(spec.groups, 1, g - 1))

DeployAllocations(spec, now) ==
  UNION {UNION {SlotAllocations(spec, spec.groups[g], NodeOffset(spec, g), s, now) :
                  s \in Slots(spec.groups[g])} : g \in DOMAIN spec.groups}

DeployDeployment(spec, now) ==
  LET cycle   == CycleState(spec, now)
      created == VersionSubmitTime(spec, cycle.new)
      going   == cycle.elapsed < Rollout
  IN  Deployment(spec.id, IF going THEN "running" ELSE "successful",
        cycle.new, created, IF going THEN now ELSE created + Rollout,
        [g \in DOMAIN spec.groups |->
           TaskGroupState(spec.groups[g], cycle.elapsed)])

DeployingJob(spec, now) ==
  LET cycle == CycleState(spec, now)
  IN  [id |-> spec.id, stop |-> FALSE, status |-> "running",
       submit |-> VersionSubmitTime(spec, cycle.new),
       versions |-> <<JobVersion(cycle.old, VersionSubmitTime(spec, cycle.old)),
                      JobVersion(cycle.new, VersionSubmitTime(spec, cycle.new))>>,
       allocs |-> DeployAllocations(spec, now),
       deployments |-> <<DeployDeployment(spec, now)>>]

-----------------------------------------------------------------------------
PaymentsApi ==
  [id |-> "payments-api", base |-> 12,
   groups |-> <<[name |-> "api", replicas |-> 6, labels |-> <<"http">>],
                [name |-> "worker", replicas |-> 3, labels |-> <<>>]>>]

(* buildJobs *)
Jobs(now) ==
  <<WebFrontend, ApiGateway, BatchWorker, CronScheduler, LegacyCheckout,
    DeployingJob(PaymentsApi, now)>>

(* The endpoints that unhoused calls. *)

JobNamed(id, now) == CHOOSE job \in ToSet(Jobs(now)) : job.id = id

ListStub(a) ==
  [id |-> a.id, group |-> a.group, node |-> a.node, version |-> a.version,
   client |-> a.client, desired |-> a.desired]

JobAllocations(id, now) == {ListStub(a) : a \in JobNamed(id, now).allocs}

AllAllocations(now) == UNION {job.allocs : job \in ToSet(Jobs(now))}

(* Mutant: an allocation that is to stop is not found. *)
WithIdRunning(id, now) ==
  {a \in AllAllocations(now) : a.id = id /\ a.desired = "run"}

WithId(id, now) == {a \in AllAllocations(now) : a.id = id}

(* handleAllocationInfo, of those found the first. *)
AllocationInfo(found) ==
  LET first == CHOOSE a \in found : \A b \in found : a.place <= b.place
  IN  [networks |-> <<first.node>>, ports |-> first.ports]

ListDeployments(now) ==
  FoldLeft(LAMBDA all, job : all \o job.deployments, <<>>, Jobs(now))
=============================================================================
