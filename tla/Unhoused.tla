------------------------------ MODULE Unhoused ------------------------------
(***************************************************************************)
(* main.go: unhoused starts from a configuration file, or exits.  With a   *)
(* good one, whose profile is the demo server (cmd/nomaddemo), requests    *)
(* list a job's allocations and ask for their ports while the time passes  *)
(* and the demo server is restarted.  Each of a request's calls is served  *)
(* at an instant of its own, and any of them may fail.                     *)
(*                                                                         *)
(* A restart sets the clock to Epoch: of times only their distance from    *)
(* the start of the server matters.                                        *)
(***************************************************************************)
EXTENDS AllocationPorts, Config, NomadDemo

CONSTANTS
  Files,      \* the configuration files
  Polled,     \* bound: the file with which requests are looked at
  Watched,    \* bound: the <<job, group, node>> of the allocations asked for
  Instants    \* bound: when the clock is read, in ticks since the start
              \* of the demo server

(* The files are what YAML can put in a Config, and the allocations asked  *)
(* for are of jobs that the demo server has.                               *)
ASSUME UnhousedAssumption ==
  /\ \A f \in Files :
       f.profiles \in Seq([name : STRING, slug : STRING,
                           url : STRING, template : STRING])
  /\ \A w \in Watched : \E job \in ToSet(Jobs(Epoch)) : job.id = w[1]
  /\ Instants \subseteq Nat

VARIABLES
  phase,      \* of unhoused: "starting", "serving" or "exited"
  file,       \* the configuration file
  config,     \* what Load made of it
  clients,    \* the URL of each profile's client, by the profile's name
  clock,      \* the demo server's
  listed,     \* the ID and node of the stub that each caller's request listed
  moved       \* history: has a rollout begun, or the demo server, since then?

mainVars == <<phase, file, config, clients>>
demoVars == <<clock, listed, moved>>
allVars == <<vars, portsVars, mainVars, demoVars>>

UInit ==
  /\ PInit
  /\ phase = "starting" /\ file \in Files
  /\ config = [refresh |-> 0, profiles |-> <<>>]
  /\ clients = [n \in {} |-> ""]
  /\ clock = Epoch
  /\ listed = [c \in Caller |-> None]
  /\ moved = [c \in Caller |-> FALSE]

-----------------------------------------------------------------------------
(* nomadclient.New fails on what is not a URL. *)
GoodURL(url) == url # "%"

NamesOf(conf) == {conf.profiles[i].name : i \in DOMAIN conf.profiles}

(* Mutant: the clients are keyed by slug. *)
ClientsBySlug(conf) ==
  [n \in {EffectiveSlug(conf.profiles[i]) : i \in DOMAIN conf.profiles} |->
     conf.profiles[Min({i \in DOMAIN conf.profiles :
                          EffectiveSlug(conf.profiles[i]) = n})].url]

(* A client per profile, keyed by the profile's name. *)
Clients(conf) ==
  [n \in NamesOf(conf) |->
     conf.profiles[Max({i \in DOMAIN conf.profiles :
                          conf.profiles[i].name = n})].url]

Loads(f) == Valid(ApplyDefaults(f))

Serve ==
  /\ phase = "starting"
  /\ Loads(file)
  /\ \A i \in DOMAIN file.profiles : GoodURL(file.profiles[i].url)
  /\ phase' = "serving"
  /\ config' = ApplyDefaults(file)
  /\ clients' = Clients(config')
  /\ UNCHANGED <<vars, portsVars, demoVars, file>>

Exit ==
  /\ phase = "starting"
  /\ \/ ~Loads(file)
     \/ \E i \in DOMAIN file.profiles : ~GoodURL(file.profiles[i].url)
  /\ phase' = "exited"
  /\ UNCHANGED <<vars, portsVars, demoVars, file, config, clients>>

-----------------------------------------------------------------------------
(* A request has the list of a job's allocations, and asks for the ports   *)
(* of one of them.                                                         *)
ListAndAsk(c) ==
  /\ \E w \in Watched : \E stub \in JobAllocations(w[1], clock) :
       /\ stub.group = w[2] /\ stub.node = w[3]
       /\ Ask(c, stub.id)
       /\ listed' = [listed EXCEPT ![c] =
            [id |-> stub.id, node |-> stub.node]]
  /\ moved' = [moved EXCEPT ![c] = FALSE]
  /\ UNCHANGED <<mainVars, clock>>

(* handleAllocationInfo, and what may go wrong on the way to it. *)
Served(c) ==
  \/ /\ pc[c] = "fetching"
     /\ LET found == WithId(asked[c], clock)
        IN  IF found = {} THEN FetchFailed(c, NotFound)
                          ELSE Fetched(c, AllocationInfo(found))
  \/ FetchFailed(c, Failure)

Request(c) ==
  \/ ListAndAsk(c)
  \/ /\ Lookup(c) \/ Served(c) \/ Store(c)
     /\ UNCHANGED <<mainVars, demoVars>>
  \/ /\ Done(c)
     /\ listed' = [listed EXCEPT ![c] = None]
     /\ moved' = [moved EXCEPT ![c] = FALSE]
     /\ UNCHANGED <<mainVars, clock>>

Version(t) == CycleState(PaymentsApi, t).new

TimePasses ==
  /\ \E i \in Instants :
       /\ clock < Epoch + i
       /\ \A j \in Instants : clock < Epoch + j => i <= j
       /\ clock' = Epoch + i
  /\ moved' = [c \in Caller |->
       moved[c] \/ (pc[c] # "idle" /\ Version(clock') # Version(clock))]
  /\ UNCHANGED <<vars, portsVars, mainVars, listed>>

(* NewServer: its epoch is the present. *)
RestartDemo ==
  /\ clock' = Epoch
  /\ moved' = [c \in Caller |-> moved[c] \/ pc[c] # "idle"]
  /\ UNCHANGED <<vars, portsVars, mainVars, listed>>

UNext ==
  \/ Serve
  \/ Exit
  \/ /\ phase = "serving" /\ file = Polled
     /\ \/ \E c \in Caller : Request(c)
        \/ TimePasses
        \/ RestartDemo

USpec == UInit /\ [][UNext]_allVars

-----------------------------------------------------------------------------
(* A configuration that loads gives every profile an address of its own:   *)
(* its link on the home page is not empty, and leads to that profile and   *)
(* to the Nomad of its own URL, also when its slug is another's name.      *)
SlugsResolve ==
  phase = "serving" =>
    \A i \in DOMAIN config.profiles :
      LET link == ListProfiles(config).profiles[i].slug
          p    == ProfileAt(config, link)
      IN  /\ link # ""
          /\ p = config.profiles[i]
          /\ clients[p.name] = file.profiles[i].url

(* client.go:134: GetAllocationPorts returns "the IP of the node it's       *)
(* running on".                                                            *)
NodeIPIsOfTheNode ==
  \A c \in Caller : answer[c].status = "ok" => answer[c].nodeIP = listed[c].node

(* Every successful call for the ports of an allocation returns those of   *)
(* the allocation and the node that the request lists, though the cache    *)
(* never forgets by time, and its entry may be from before a rollout or a  *)
(* restart of the server, or from another request that missed meanwhile.   *)
AnswersAreOwnPorts ==
  /\ NodeIPIsOfTheNode
  /\ \A c \in Caller :
       answer[c].status = "ok" =>
         \A i \in DOMAIN answer[c].ports :
           /\ answer[c].ports[i].of = listed[c].id
           /\ answer[c].ports[i].host = listed[c].node

(* An allocation that a request has listed is found when its ports are     *)
(* asked for, whatever slots were replaced in between; only the beginning  *)
(* of another rollout, or a restart, can make a 404 of it.                 *)
ListedIsFound ==
  \A c \in Caller : answer[c] = NotFound => moved[c]

-----------------------------------------------------------------------------
(* What the slots say, the deployment says: the placed and healthy counts  *)
(* of a group are those of its new allocations, a deployment is successful *)
(* when all are healthy, and every replica has exactly one allocation that *)
(* runs.                                                                   *)
CountsMatch(t) ==
  LET allocs == DeployAllocations(PaymentsApi, t)
      cycle  == CycleState(PaymentsApi, t)
      deployment == DeployDeployment(PaymentsApi, t)
  IN  \A g \in DOMAIN PaymentsApi.groups :
        LET group == PaymentsApi.groups[g]
            state == deployment.groups[g]
            New(S) == Cardinality({a \in allocs : a.group = group.name
                                    /\ a.version = cycle.new /\ a.client \in S})
        IN  /\ state.placed = New({"pending", "running"})
            /\ state.healthy = New({"running"})
            /\ \A s \in Slots(group) :
                 Cardinality({a \in allocs :
                   /\ a.client = "running"
                   /\ \E v \in {cycle.old, cycle.new} :
                        a.id = <<PaymentsApi.id, group.name, s, v>>}) = 1
            /\ deployment.status = "successful" =>
                 state.healthy = state.desired

(* A job's versions, submit time and deployment are of one piece: every    *)
(* allocation is of a version in the history, the job was submitted with   *)
(* the newest of these, and nothing happens in the future.                 *)
VersionsMatch(t) ==
  \A job \in ToSet(Jobs(t)) :
    LET versions == {v.version : v \in ToSet(job.versions)}
    IN  /\ \A a \in job.allocs : a.version \in versions
        /\ \E v \in ToSet(job.versions) :
             v.version = Max(versions) /\ v.submit = job.submit
        /\ \A d \in ToSet(job.deployments) :
             d.created <= d.modified /\ d.modified <= t
        /\ job.submit <= t

(* At every instant the demo's functions of time agree with each other.    *)
RolloutConsistent == CountsMatch(clock) /\ VersionsMatch(clock)

-----------------------------------------------------------------------------
D == INSTANCE Deployments WITH Unknown <- "none"

(* Where an allocation that is listed is in its life. *)
Stages == <<<<"pending", "run">>, <<"running", "run">>,
            <<"running", "stop">>, <<"complete", "stop">>>>
Stage(a) == CHOOSE i \in DOMAIN Stages : Stages[i] = <<a.client, a.desired>>

(* From t to u no allocation's life goes back. *)
AllocationsForward(t, u) ==
  LET before == DeployAllocations(PaymentsApi, t)
      ids    == {a.id : a \in before}
  IN  \A a \in DeployAllocations(PaymentsApi, u) :
        IF a.id \in ids
        THEN \E b \in before : b.id = a.id /\ Stage(b) <= Stage(a)
        ELSE a.version > CycleState(PaymentsApi, t).old

(* The badge of a job, as derive.go makes it of the demo's answer. *)
Shown(t) ==
  LET list == ListDeployments(t)
  IN  D!LatestInfo([i \in DOMAIN list |->
                      [list[i] EXCEPT !.created = 20 * @, !.modified = 20 * @]],
                   PaymentsApi.id, 20 * t)

(* Of one rollout, the badge does not go back from deployed to deploying,  *)
(* nor its progress or, in the same status, its duration to less.          *)
BadgeForward(t, u) ==
  LET old == Shown(t) new == Shown(u)
  IN  /\ Version(u) >= Version(t)
      /\ Version(u) = Version(t) =>
           /\ old.status = "deployed" => new.status = "deployed"
           /\ old.status = new.status => old.elapsed <= new.elapsed
           /\ new.status = "deploying" => old.progress <= new.progress

(* While the demo server is up, an allocation only goes from pending to    *)
(* running to draining to complete to gone, and what the page shows of a   *)
(* rollout only goes forward.                                              *)
RolloutForward ==
  [][clock' > clock =>
       AllocationsForward(clock, clock') /\ BadgeForward(clock, clock')]_allVars
=============================================================================
