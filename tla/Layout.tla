------------------------------- MODULE Layout -------------------------------
(***************************************************************************)
(* frontend/src/Layout.tsx: what stays mounted while the user goes from    *)
(* page to page: the profile switch, which on a job's page first asks      *)
(* whether the other profile has that job, and the pause of the automatic  *)
(* updates.                                                                *)
(*                                                                         *)
(* The switch's handler runs on with the route it was called on, wherever  *)
(* the user is when its request ends; the user can follow links and go     *)
(* Back meanwhile.                                                         *)
(***************************************************************************)
EXTENDS Integers, SequencesExt

CONSTANTS
  Profiles, Jobs,
  None,           \* a part of the route that is not there; no switch
  MaxActs,        \* bound: what the user does
  MaxChanges      \* bound: changes of the profiles' jobs

VARIABLES
  route,          \* [profile, job]
  past,           \* the browser's history before it
  paused,         \* autoRefreshPaused
  switch,         \* the switch under way (isSwitchingProfile), or None:
                  \* [to, job, answer: the jobs read, or None]
  jobs,           \* the server: profile -> its jobs
  acts, changes,
  listed,         \* history: the jobs the chosen profile has had since the
                  \* switch began
  pausedOn,       \* history: the route on which the user paused
  carried         \* history: the jobs on whose page a switch has ended

vars ==
  <<route, past, paused, switch, jobs, acts, changes, listed, pausedOn, carried>>

Routes == [profile : Profiles, job : Jobs \cup {None}]
            \cup {[profile |-> None, job |-> None]}

Switches == [to : Profiles, job : Jobs, answer : (SUBSET Jobs) \cup {None}]

ASSUME LayoutAssumption ==
  None \notin Profiles \cup Jobs /\ \A s \in Switches : s # None

-----------------------------------------------------------------------------
(* Mutant: the pause is kept from job to job. *)
RenderKeepingPause(r) == route' = r /\ UNCHANGED paused

(* A render with another job ID starts unpaused.                           *)
Render(r) == route' = r /\ paused' = (paused /\ r.job = route.job)

(* navigate pushes; so does a link, but for one to where one is.           *)
Navigate(r) == past' = Append(past, route) /\ Render(r)

Act == acts < MaxActs /\ acts' = acts + 1

(* The links of the header and of the pages, and a typed URL's part of     *)
(* them: home, the profiles, the profile one is on, its jobs.              *)
Links ==
  {[profile |-> None, job |-> None]} \cup
  (IF route.profile = None
   THEN [profile : Profiles, job : {None}]
   ELSE [profile : {route.profile}, job : {None} \cup
           (IF route.job = None THEN Jobs ELSE {})])

Follow ==
  /\ Act
  /\ \E r \in Links \ {route} : Navigate(r)
  /\ UNCHANGED <<switch, jobs, changes, listed, pausedOn, carried>>

Back ==
  /\ past # <<>>
  /\ Act
  /\ past' = Front(past)
  /\ Render(Last(past))
  /\ UNCHANGED <<switch, jobs, changes, listed, pausedOn, carried>>

(* The button is there on a job's page.                                    *)
TogglePause ==
  /\ route.job # None
  /\ Act
  /\ paused' = ~paused
  /\ pausedOn' = route
  /\ UNCHANGED <<route, past, switch, jobs, changes, listed, carried>>

-----------------------------------------------------------------------------
(* handleProfileChange; the select is disabled while a switch is under way. *)

Switch(to) ==
  /\ route.profile \notin {None, to}
  /\ switch = None
  /\ Act
  /\ IF route.job = None
     THEN /\ Navigate([profile |-> to, job |-> None])
          /\ UNCHANGED <<switch, listed>>
     ELSE /\ switch' = [to |-> to, job |-> route.job, answer |-> None]
          /\ listed' = jobs[to]
          /\ UNCHANGED <<route, past, paused>>
  /\ UNCHANGED <<jobs, changes, pausedOn, carried>>

Read ==
  /\ switch # None
  /\ switch.answer = None
  /\ switch' = [switch EXCEPT !.answer = jobs[switch.to]]
  /\ UNCHANGED <<route, past, paused, jobs, acts, changes, listed, pausedOn, carried>>

(* Mutant: the job looked up is the one on the page now. *)
LandingOfRoute ==
  [profile |-> switch.to,
   job |-> IF route.job \in switch.answer THEN route.job ELSE None]

Landing ==
  [profile |-> switch.to,
   job |-> IF switch.job \in switch.answer THEN switch.job ELSE None]

(* Mutant: an answer is ignored when the user has left the page. *)
LandIfStillThere ==
  /\ switch # None
  /\ switch.answer # None
  /\ route.job = switch.job
  /\ Navigate(Landing)
  /\ switch' = None
  /\ carried' = carried \cup ({Landing.job} \ {None})
  /\ UNCHANGED <<jobs, acts, changes, listed, pausedOn>>

Land ==
  /\ switch # None
  /\ switch.answer # None
  /\ Navigate(Landing)
  /\ switch' = None
  /\ carried' = carried \cup ({Landing.job} \ {None})
  /\ UNCHANGED <<jobs, acts, changes, listed, pausedOn>>

(* The lookup fails, before or after the server has read its jobs.         *)
LookupFails ==
  /\ switch # None
  /\ Navigate([profile |-> switch.to, job |-> None])
  /\ switch' = None
  /\ UNCHANGED <<jobs, acts, changes, listed, pausedOn, carried>>

(* A job starts or ends.                                                   *)
JobsChange ==
  /\ changes < MaxChanges
  /\ changes' = changes + 1
  /\ \E p \in Profiles, now \in SUBSET Jobs :
       /\ now # jobs[p]
       /\ jobs' = [jobs EXCEPT ![p] = now]
  /\ listed' = IF switch = None THEN listed ELSE listed \cup jobs'[switch.to]
  /\ UNCHANGED <<route, past, paused, switch, acts, pausedOn, carried>>

-----------------------------------------------------------------------------
Init ==
  /\ route \in Routes
  /\ past = <<>>
  /\ paused = FALSE
  /\ switch = None
  /\ jobs \in [Profiles -> {{}, Jobs}]
  /\ acts = 0 /\ changes = 0
  /\ listed = {}
  /\ pausedOn = None
  /\ carried = {}

Lookup == Read \/ Land \/ LookupFails

Next ==
  \/ Follow \/ Back \/ TogglePause \/ (\E p \in Profiles : Switch(p))
  \/ Lookup \/ JobsChange

Spec == Init /\ [][Next]_vars

(* Every request that does not fail is answered.                           *)
FairSpec == Spec /\ WF_vars(Read \/ Land)

-----------------------------------------------------------------------------
(* Properties. *)

(* Wherever the user has gone meanwhile, a switch ends on the profile that *)
(* was chosen, and there on the page of the job it was chosen on only if   *)
(* the profile has had that job since.                                     *)
SwitchLandsOnListedJob ==
  [][switch # None /\ switch' = None =>
       /\ route'.profile = switch.to
       /\ route'.job \in ({switch.job} \cap listed) \cup {None}]_vars

(* The select does not stay disabled.                                      *)
SwitchEnds == switch # None ~> switch = None

(* Automatic updates stay paused only on the page they were paused on and, *)
(* once a switch has ended on that job's page, on the page of the job of   *)
(* the same ID in another profile: after any other way, by links and Back  *)
(* through any pages, they run.                                            *)
PauseIsForThisJob ==
  paused => /\ route.job = pausedOn.job
            /\ route.profile # pausedOn.profile => route.job \in carried

(* "Each job visit starts with automatic updates running, regardless of    *)
(* whether a previous job was paused": also that of a job of the same ID   *)
(* in another profile.                                                     *)
VisitStartsRunning ==
  [][route' # route /\ route'.job # None => ~paused']_vars
=============================================================================
