---------------------------- MODULE Deployments ----------------------------
(***************************************************************************)
(* internal/httpapi/derive.go: the state of a job's latest deployment, as  *)
(* the job list and the job status page show it.                           *)
(*                                                                         *)
(* A deployment is a record [job, index, status, version, created,         *)
(* modified, groups]: index orders deployments by their creation, a time   *)
(* of 0 is not set, groups is a sequence of [healthy, desired, canaries].  *)
(* Times are in ticks, of which a second has two.                          *)
(***************************************************************************)
EXTENDS Integers, FiniteSets, SequencesExt

CONSTANT Unknown   \* null, and the empty string of an unknown time

Label(status) ==
  CASE status = "successful" -> "deployed"
    [] status \in {"failed", "cancelled"} -> "failed"
    [] OTHER -> "deploying"

JobIndicator(stop, status) == IF stop THEN "stopped" ELSE status

(* Summed over the groups, rounded down and clamped.                       *)

Total(groups, field) ==
  FoldLeft(LAMBDA sum, g : sum + g[field], 0, groups)

(* Mutant: the mean of the groups' percentages. *)
ProgressByGroup(groups) ==
  LET counted == SelectSeq(groups, LAMBDA g : g.desired > 0)
  IN  IF counted = <<>> THEN Unknown
      ELSE Min({100, FoldLeft(LAMBDA sum, g :
                       sum + ((g.healthy * 100) \div g.desired), 0, counted)
                     \div Len(counted)})

Progress(groups) ==
  LET desired == Total(groups, "desired")
  IN  IF desired <= 0 THEN Unknown
      ELSE Min({100, (Total(groups, "healthy") * 100) \div desired})

IsCanaryDeployment(d) == \E n \in DOMAIN d.groups : d.groups[n].canaries > 0

-----------------------------------------------------------------------------
(* Where a job's deployments are in the list.                              *)
Positions(deployments, job) ==
  {n \in DOMAIN deployments : deployments[n].job = job}

(* Mutant: of a job's deployments, the one listed last counts. *)
LatestListed(deployments) ==
  [job \in {d.job : d \in ToSet(deployments)} |->
     deployments[Max(Positions(deployments, job))]]

(* Of a job's deployments, the one created last counts.                    *)
Latest(deployments) ==
  [job \in {d.job : d \in ToSet(deployments)} |->
     LET own    == Positions(deployments, job)
         newest == {n \in own : \A m \in own :
                      deployments[m].index <= deployments[n].index}
     IN  deployments[Min(newest)]]

(* Mutant: the last change counts, also of a deployment in progress. *)
MeasuredFromModified(d) == IF d.modified # 0 THEN d.modified ELSE d.created

MeasuredFrom(d) ==
  IF Label(d.status) # "deploying" /\ d.modified # 0
  THEN d.modified ELSE d.created

Seconds(since, now) == IF now < since THEN 0 ELSE (now - since) \div 2

NoDeployment ==
  [status |-> "", since |-> Unknown, elapsed |-> Unknown,
   progress |-> Unknown, canary |-> FALSE, version |-> 0]

Info(d, now) ==
  LET status == Label(d.status)
      since  == MeasuredFrom(d)
      going  == status = "deploying"
  IN  [status   |-> status,
       since    |-> IF since = 0 THEN Unknown ELSE since,
       elapsed  |-> IF since = 0 THEN Unknown ELSE Seconds(since, now),
       progress |-> IF going THEN Progress(d.groups) ELSE Unknown,
       canary   |-> going /\ IsCanaryDeployment(d),
       version  |-> IF going THEN d.version ELSE 0]

LatestInfo(deployments, job, now) ==
  LET latest == Latest(deployments)
  IN  IF job \in DOMAIN latest THEN Info(latest[job], now) ELSE NoDeployment
=============================================================================
