------------------------------ MODULE ListJobs ------------------------------
(***************************************************************************)
(* internal/httpapi/handlers.go, handleListJobs: one poll of the profile   *)
(* page after the other, against a cluster that registers, rolls out and   *)
(* purges jobs meanwhile.  The job list and the deployments are read by    *)
(* two concurrent calls, at two moments.                                   *)
(***************************************************************************)
EXTENDS Deployments, TLC

CONSTANTS
  Jobs,
  Shapes,         \* the task groups' counts a deployment may report
  Nothing,        \* a call that has not returned
  Broken,         \* what a failed call returns
  MaxTime,        \* bound: the clock
  MaxChanges,     \* bound: changes of the cluster
  MaxFailures     \* bound: calls that fail

ASSUME ListJobsAssumption ==
  /\ Jobs # {}
  /\ Shapes \subseteq Seq([healthy : Nat, desired : Nat, canaries : Nat])

VARIABLES
  jobs,           \* Nomad: job -> [submitTime, stop, status]
  deployments,    \* Nomad: the deployments, in the order it lists them
  now,
  changes, failures,
  stubs,          \* the handler: what each call returned
  listed,
  answer,         \* the last answer: its code and rows
  quiet           \* history: the cluster, if it stood still since the calls
                  \* began, or Nothing

clusterVars == <<jobs, deployments, now, changes>>
handlerVars == <<stubs, listed, failures>>
vars == <<clusterVars, handlerVars, answer, quiet>>

-----------------------------------------------------------------------------
(* Nomad.                                                                  *)

Change ==
  /\ changes < MaxChanges
  /\ changes' = changes + 1
  /\ quiet' = Nothing
  /\ UNCHANGED <<now, handlerVars, answer>>

(* Nomad numbers the changes of its state, and never again gives a number  *)
(* it gave.  Here it is also the version, which tells rollouts apart.      *)
NextIndex == changes + 2

Newer(job, index, groups) ==
  [job |-> job, index |-> index, status |-> "running", version |-> index,
   created |-> now, modified |-> 0, groups |-> groups]

(* A job is registered: the deployment before is cancelled, and the new    *)
(* one is listed wherever its ID sorts.                                    *)
Register(job) ==
  /\ jobs' = [j \in DOMAIN jobs \cup {job} |->
                IF j = job THEN [submitTime |-> now, stop |-> FALSE,
                                 status |-> "running"]
                           ELSE jobs[j]]
  /\ LET ended == [n \in DOMAIN deployments |->
                     IF deployments[n].job = job
                        /\ Label(deployments[n].status) = "deploying"
                     THEN [deployments[n] EXCEPT !.status = "cancelled"]
                     ELSE deployments[n]]
     IN  \/ \E shape \in Shapes, n \in 1..(Len(deployments) + 1) :
              deployments' =
                InsertAt(ended, n, Newer(job, NextIndex, shape))
         \/ deployments' = ended
  /\ Change

(* Allocations become healthy, or the rollout ends; the time of it is not  *)
(* stamped on every transition.                                            *)
RollOut ==
  /\ \E n \in DOMAIN deployments :
       /\ Label(deployments[n].status) = "deploying"
       /\ \E modified \in {now, deployments[n].modified} :
            \/ \E shape \in Shapes :
                 deployments' = [deployments EXCEPT ![n].modified = modified,
                                                    ![n].groups = shape]
            \/ \E status \in {"successful", "failed"} :
                 deployments' = [deployments EXCEPT ![n].modified = modified,
                                                    ![n].status = status]
  /\ Change
  /\ UNCHANGED jobs

CollectDeployment ==
  /\ \E n \in DOMAIN deployments :
       /\ Label(deployments[n].status) # "deploying"
       /\ deployments' = RemoveAt(deployments, n)
  /\ Change
  /\ UNCHANGED jobs

Stop ==
  /\ \E j \in DOMAIN jobs : /\ ~jobs[j].stop
                            /\ jobs' = [jobs EXCEPT ![j].stop = TRUE]
  /\ Change
  /\ UNCHANGED deployments

(* The job goes; its deployments stay until they are collected.            *)
Purge ==
  /\ \E j \in DOMAIN jobs : jobs' = [i \in DOMAIN jobs \ {j} |-> jobs[i]]
  /\ Change
  /\ UNCHANGED deployments

Tick ==
  /\ now < MaxTime
  /\ now' = now + 1
  /\ UNCHANGED <<jobs, deployments, changes, handlerVars, answer, quiet>>

-----------------------------------------------------------------------------
(* The handler.                                                            *)

Cluster == [jobs |-> jobs, deployments |-> deployments]

Call(read, other) == read = Nothing /\ (other = Nothing => quiet' = Cluster)
                                    /\ (other # Nothing => UNCHANGED quiet)

UnknownProfile ==
  /\ stubs = Nothing /\ listed = Nothing
  /\ answer' = [code |-> 404, rows |-> <<>>]
  /\ UNCHANGED <<clusterVars, handlerVars, quiet>>

CallJobs ==
  /\ Call(stubs, listed)
  /\ stubs' = jobs
  /\ UNCHANGED <<clusterVars, listed, failures, answer>>

CallDeployments ==
  /\ Call(listed, stubs)
  /\ listed' = deployments
  /\ UNCHANGED <<clusterVars, stubs, failures, answer>>

CallFails ==
  /\ failures < MaxFailures
  /\ failures' = failures + 1
  /\ \/ Call(stubs, listed) /\ stubs' = Broken /\ UNCHANGED listed
     \/ Call(listed, stubs) /\ listed' = Broken /\ UNCHANGED stubs
  /\ UNCHANGED <<clusterVars, answer>>

Returned == stubs # Nothing /\ listed # Nothing

Row(job, stub) ==
  [id |-> job, submitTime |-> stub.submitTime,
   status |-> JobIndicator(stub.stop, stub.status),
   deployment |-> LatestInfo(listed, job, now)]

(* The orders that sort.Slice, which is not stable, may leave the jobs in. *)
Orders ==
  {order \in SetToSeqs(DOMAIN stubs) :
     \A m, n \in DOMAIN order :
       m < n => stubs[order[m]].submitTime >= stubs[order[n]].submitTime}

(* A 404 of Nomad's is passed on, as if a job were asked for.              *)
Respond ==
  /\ Returned
  /\ IF stubs = Broken \/ listed = Broken
     THEN \E code \in {404, 502} : answer' = [code |-> code, rows |-> <<>>]
     ELSE \E order \in Orders :
            answer' = [code |-> 200,
                       rows |-> [n \in DOMAIN order |->
                                   Row(order[n], stubs[order[n]])]]
  /\ stubs' = Nothing /\ listed' = Nothing
  /\ UNCHANGED <<clusterVars, failures, quiet>>

-----------------------------------------------------------------------------
(* One job, whose deployment has succeeded.                                *)
Init ==
  /\ now = 1
  /\ LET j == CHOOSE job \in Jobs : TRUE
     IN  /\ jobs = (j :> [submitTime |-> 1, stop |-> FALSE,
                          status |-> "running"])
         /\ deployments =
              << [Newer(j, 1, <<>>) EXCEPT !.status = "successful"] >>
  /\ changes = 0 /\ failures = 0
  /\ stubs = Nothing /\ listed = Nothing
  /\ answer = Nothing
  /\ quiet = Nothing

Next ==
  \/ \E j \in Jobs : Register(j)
  \/ RollOut \/ CollectDeployment \/ Stop \/ Purge \/ Tick
  \/ UnknownProfile \/ CallJobs \/ CallDeployments \/ CallFails \/ Respond

Spec == Init /\ [][Next]_vars

-----------------------------------------------------------------------------
(* Properties. *)

Answers(a) == a # Nothing /\ a.code = 200

(* p is the largest percentage of the desired allocations that the healthy *)
(* ones reach, 100 exactly if they reach all of them; there is none where  *)
(* nothing is desired.                                                     *)
IsProgress(p, groups) ==
  LET healthy == Total(groups, "healthy")
      desired == Total(groups, "desired")
  IN  IF desired = 0 THEN p = Unknown
      ELSE /\ p \in 0..100
           /\ p * desired <= healthy * 100
           /\ p < 100 => healthy * 100 < (p + 1) * desired
           /\ p = 100 <=> healthy >= desired

(* If the cluster stood still since the calls began, every row is true of  *)
(* it: the job's state, and that of the deployment Nomad made last of that *)
(* job's, wherever in the list it is: one and the same deployment's status *)
(* and time, version, canary mark and progress, which reaches 100% only    *)
(* with every desired allocation.                                          *)
QuietAnswerIsCurrent ==
  [][Respond /\ Answers(answer') /\ quiet # Nothing =>
       \A r \in ToSet(answer'.rows) :
         LET own == {d \in ToSet(deployments) : d.job = r.id}
         IN  /\ r.id \in DOMAIN jobs
             /\ r.submitTime = jobs[r.id].submitTime
             /\ r.status = JobIndicator(jobs[r.id].stop, jobs[r.id].status)
             /\ own = {} <=> r.deployment.status = ""
             /\ \A d \in own :
                  (\A e \in own : e.index <= d.index) =>
                    /\ r.deployment.status = Label(d.status)
                    /\ r.deployment.since \in {d.created, d.modified} \ {0}
                    /\ r.deployment.elapsed = Seconds(r.deployment.since, now)
                    /\ r.deployment.status = "deploying" =>
                         /\ r.deployment.version = d.version
                         /\ IsProgress(r.deployment.progress, d.groups)
                         /\ r.deployment.canary <=>
                              \E g \in ToSet(d.groups) : g.canaries > 0]_vars

(* From one poll to the next a rollout is measured from the same moment,   *)
(* however often it changes, so its duration never goes down.              *)
RolloutClockSteady ==
  [][Answers(answer) /\ Answers(answer') =>
       \A r \in ToSet(answer.rows), s \in ToSet(answer'.rows) :
         /\ r.id = s.id
         /\ r.deployment.status = "deploying"
         /\ s.deployment.status = "deploying"
         /\ r.deployment.version = s.deployment.version
         => /\ s.deployment.since = r.deployment.since
            /\ s.deployment.elapsed >= r.deployment.elapsed]_answer
=============================================================================
