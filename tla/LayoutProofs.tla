--------------------------- MODULE LayoutProofs ---------------------------
(***************************************************************************)
(* Theorems about Layout, for any profiles and jobs and however much the   *)
(* user does and the jobs change.                                          *)
(***************************************************************************)
EXTENDS Layout, TLAPS

TypeInv ==
  /\ route \in Routes /\ past \in Seq(Routes)
  /\ paused \in BOOLEAN
  /\ jobs \in [Profiles -> SUBSET Jobs]
  /\ switch \in Switches \cup {None}

(* While a switch is under way listed is what the chosen profile has had   *)
(* since it began: it has what the profile has now, and what was read.     *)
(* This is what an answer read before the last change relies on.           *)
AnswerIsListed ==
  switch # None =>
    /\ jobs[switch.to] \subseteq listed
    /\ switch.answer # None => switch.answer \subseteq listed

(* The history with the page shown: next to each other are pages of the    *)
(* same job in two profiles only where a switch has ended on that job; the *)
(* links lead nowhere like that.  This is what Back relies on.             *)
Crossing(r, s) == r.job # None /\ r.job = s.job /\ r.profile # s.profile

Linked(trail) ==
  \A i \in 1 .. Len(trail) - 1 :
    Crossing(trail[i], trail[i + 1]) => trail[i].job \in carried

CrossedBySwitches == Linked(Append(past, route))

PausedOnAJob == paused => route.job # None

IInv ==
  /\ TypeInv /\ AnswerIsListed
  /\ CrossedBySwitches /\ PausedOnAJob /\ PauseIsForThisJob

-----------------------------------------------------------------------------
(* A render does not pause, and keeps a pause only on the same job.        *)
LEMMA RenderKeepsPause ==
  ASSUME NEW r, Render(r), paused \in BOOLEAN, PausedOnAJob, PauseIsForThisJob,
         Crossing(route, r) => route.job \in carried',
         carried \subseteq carried', UNCHANGED pausedOn
  PROVE  paused' \in BOOLEAN /\ PausedOnAJob' /\ PauseIsForThisJob'
<1>1. route' = r /\ paused' = (paused /\ r.job = route.job)
  BY DEF Render
<1>2. paused' \in BOOLEAN
  BY <1>1
<1>3. ASSUME paused'
      PROVE  /\ route'.job # None /\ route'.job = pausedOn'.job
             /\ route'.profile # pausedOn'.profile => route'.job \in carried'
  <2>1. paused /\ r.job = route.job /\ route.job # None
    BY <1>1, <1>3 DEF PausedOnAJob
  <2>2. /\ route.job = pausedOn.job
        /\ route.profile # pausedOn.profile => route.job \in carried
    BY <2>1 DEF PauseIsForThisJob
  <2>3. CASE r.profile = route.profile
    BY <1>1, <2>1, <2>2, <2>3
  <2>4. CASE r.profile # route.profile
    BY <1>1, <2>1, <2>2, <2>4 DEF Crossing
  <2>5. QED
    BY <2>3, <2>4
<1>4. QED
  BY <1>2, <1>3 DEF PausedOnAJob, PauseIsForThisJob

(* The links lead to pages there are.                                      *)
LEMMA LinksAreRoutes ==
  ASSUME route \in Routes
  PROVE  Links \subseteq Routes /\ \A r \in Links : ~Crossing(route, r)
<1>1. ASSUME NEW r \in [profile : {route.profile}, job : {None} \cup
                          (IF route.job = None THEN Jobs ELSE {})],
             route.profile # None
      PROVE  r \in Routes
  BY <1>1 DEF Routes
<1>2. Links \subseteq Routes
  BY <1>1 DEF Links, Routes
<1>3. ASSUME NEW r \in Links PROVE ~Crossing(route, r)
  <2>1. CASE route.profile = None
    <3>1. r.job = None
      BY <1>3, <2>1 DEF Links
    <3>2. QED
      BY <3>1 DEF Crossing
  <2>2. CASE route.profile # None
    <3>1. r.profile = route.profile \/ r.job = None
      BY <1>3, <2>2 DEF Links
    <3>2. QED
      BY <3>1 DEF Crossing
  <2>3. QED
    BY <2>1, <2>2
<1>4. QED
  BY <1>2, <1>3

(* Going on along the trail and going back on it.                          *)
LEMMA TrailGrows ==
  ASSUME CrossedBySwitches, past \in Seq(Routes), route \in Routes,
         NEW r \in Routes, Navigate(r),
         Crossing(route, r) => route.job \in carried',
         carried \subseteq carried'
  PROVE  CrossedBySwitches'
<1> DEFINE old == Append(past, route)
           new == Append(old, r)
<1>1. /\ old \in Seq(Routes) /\ new \in Seq(Routes)
      /\ Len(old) = Len(past) + 1 /\ Len(new) = Len(past) + 2
      /\ \A i \in 1 .. Len(old) : new[i] = old[i]
      /\ old[Len(old)] = route /\ new[Len(new)] = r
      /\ Len(past) \in Nat
  OBVIOUS
<1>2. Append(past', route') = new
  BY DEF Navigate, Render
<1>3. Linked(old)
  BY DEF CrossedBySwitches
<1> HIDE DEF old, new
<1>4. ASSUME NEW i \in 1 .. Len(new) - 1, Crossing(new[i], new[i + 1])
      PROVE  new[i].job \in carried'
  <2>1. CASE i = Len(old)
    BY <1>1, <1>4, <2>1
  <2>2. CASE i # Len(old)
    <3>1. i \in 1 .. Len(old) - 1 /\ new[i] = old[i] /\ new[i + 1] = old[i + 1]
      BY <1>1, <1>4, <2>2
    <3>2. QED
      BY <1>3, <1>4, <3>1 DEF Linked
  <2>3. QED
    BY <2>1, <2>2
<1>5. QED
  BY <1>2, <1>4 DEF CrossedBySwitches, Linked

LEMMA TrailShrinks ==
  ASSUME CrossedBySwitches, past \in Seq(Routes), route \in Routes,
         past # << >>, past' = Front(past), route' = Last(past),
         UNCHANGED carried
  PROVE  /\ CrossedBySwitches'
         /\ Front(past) \in Seq(Routes) /\ Last(past) \in Routes
         /\ Crossing(route, Last(past)) => route.job \in carried
<1> DEFINE old == Append(past, route)
<1>1. PICK n \in Nat : n = Len(past) /\ n > 0
  OBVIOUS
<1>2. Front(past) = SubSeq(past, 1, n - 1) /\ Last(past) = past[n]
  BY <1>1 DEF Front, Last
<1>3. /\ SubSeq(past, 1, n - 1) \in Seq(Routes)
      /\ Len(SubSeq(past, 1, n - 1)) = n - 1
      /\ \A i \in 1 .. n - 1 : SubSeq(past, 1, n - 1)[i] = past[i]
  BY <1>1
<1>4. Last(past) \in Routes /\ Front(past) \in Seq(Routes)
  BY <1>1, <1>2, <1>3
<1>5. Append(past', route') = past
  <2> DEFINE front == SubSeq(past, 1, n - 1)
             again == Append(front, past[n])
  <2>1. again \in Seq(Routes) /\ Len(again) = n
        /\ \A i \in 1 .. n : again[i] = past[i]
    <3> HIDE DEF front
    <3>1. front \in Seq(Routes) /\ Len(front) = n - 1 /\ past[n] \in Routes
          /\ \A i \in 1 .. n - 1 : front[i] = past[i]
      BY <1>1, <1>3 DEF front
    <3>2. QED
      BY <3>1
  <2>2. again = past
    <3> HIDE DEF again
    <3>1. QED
      BY <1>1, <2>1
  <2>3. QED
    BY <1>2, <2>2
<1>6. /\ Len(old) = n + 1
      /\ \A i \in 1 .. n : old[i] = past[i]
      /\ old[n + 1] = route
  BY <1>1
<1>7. Linked(old)
  BY DEF CrossedBySwitches
<1> HIDE DEF old
<1>8. ASSUME NEW i \in 1 .. n - 1, Crossing(past[i], past[i + 1])
      PROVE  past[i].job \in carried
  <2>1. i \in 1 .. Len(old) - 1 /\ old[i] = past[i] /\ old[i + 1] = past[i + 1]
    BY <1>1, <1>6, <1>8
  <2>2. QED
    BY <1>7, <1>8, <2>1 DEF Linked
<1>9. CrossedBySwitches'
  BY <1>1, <1>5, <1>8 DEF CrossedBySwitches, Linked
<1>10. ASSUME Crossing(route, Last(past)) PROVE route.job \in carried
  <2>1. Crossing(past[n], route) /\ past[n].job = route.job
    BY <1>2, <1>10 DEF Crossing
  <2>2. n \in 1 .. Len(old) - 1 /\ old[n] = past[n] /\ old[n + 1] = route
    BY <1>1, <1>6
  <2>3. QED
    BY <1>7, <2>1, <2>2 DEF Linked
<1>11. QED
  BY <1>4, <1>9, <1>10

LEMMA InitIInv == Init => IInv
<1> SUFFICES ASSUME Init PROVE IInv
  OBVIOUS
<1>1. /\ paused = FALSE /\ switch = None /\ jobs \in [Profiles -> {{}, Jobs}]
      /\ route \in Routes /\ past = <<>>
  BY DEF Init
<1>2. jobs \in [Profiles -> SUBSET Jobs]
  BY <1>1
<1>3. past \in Seq(Routes)
  BY <1>1
<1>4. CrossedBySwitches
  <2>1. Len(Append(past, route)) - 1 = 0
    BY <1>1
  <2>2. QED
    BY <2>1 DEF CrossedBySwitches, Linked
<1>5. QED
  BY <1>1, <1>2, <1>3, <1>4
  DEF IInv, TypeInv, AnswerIsListed, PausedOnAJob, PauseIsForThisJob

(* Steps that leave the trail alone.                                       *)
LEMMA TrailStays ==
  ASSUME IInv, UNCHANGED <<route, past, paused, pausedOn, carried>>
  PROVE  CrossedBySwitches' /\ PausedOnAJob' /\ PauseIsForThisJob'
<1>1. CrossedBySwitches /\ PausedOnAJob /\ PauseIsForThisJob
  BY DEF IInv
<1>2. CrossedBySwitches'
  BY <1>1 DEF CrossedBySwitches, Linked
<1>3. QED
  BY <1>1, <1>2 DEF PausedOnAJob, PauseIsForThisJob

LEMMA NextIInv == IInv /\ [Next]_vars => IInv'
<1> SUFFICES ASSUME IInv, [Next]_vars PROVE IInv'
  OBVIOUS
<1>0. /\ paused \in BOOLEAN /\ jobs \in [Profiles -> SUBSET Jobs]
      /\ route \in Routes /\ past \in Seq(Routes)
      /\ switch # None => switch \in Switches
      /\ TypeInv /\ AnswerIsListed
      /\ CrossedBySwitches /\ PausedOnAJob /\ PauseIsForThisJob
  BY DEF IInv, TypeInv
(* A render, with or without a switch that ends. *)
<1>1. ASSUME NEW r \in Routes, Render(r), past' \in Seq(Routes),
             CrossedBySwitches',
             Crossing(route, r) => route.job \in carried',
             carried \subseteq carried',
             switch' = switch \/ switch' = None, UNCHANGED <<jobs, pausedOn>>,
             switch' # None => UNCHANGED listed
      PROVE  IInv'
  <2>1. paused' \in BOOLEAN /\ PausedOnAJob' /\ PauseIsForThisJob'
    BY <1>0, <1>1, RenderKeepsPause
  <2>2. TypeInv'
    BY <1>0, <1>1, <2>1 DEF TypeInv, Render
  <2>3. AnswerIsListed'
    BY <1>0, <1>1 DEF AnswerIsListed
  <2>4. QED
    BY <1>1, <2>1, <2>2, <2>3 DEF IInv
<1>2. ASSUME NEW r \in Routes, Navigate(r),
             Crossing(route, r) => route.job \in carried',
             carried \subseteq carried',
             switch' = switch \/ switch' = None, UNCHANGED <<jobs, pausedOn>>,
             switch' # None => UNCHANGED listed
      PROVE  IInv'
  <2>1. past' \in Seq(Routes) /\ Render(r)
    BY <1>0, <1>2 DEF Navigate
  <2>2. CrossedBySwitches'
    BY <1>0, <1>2, TrailGrows
  <2>3. QED
    BY <1>1, <1>2, <2>1, <2>2
<1>3. CASE Follow
  <2>1. PICK r \in Links : Navigate(r)
    BY <1>3 DEF Follow
  <2>2. r \in Routes /\ ~Crossing(route, r)
    BY <1>0, LinksAreRoutes
  <2>3. UNCHANGED <<switch, jobs, listed, pausedOn, carried>>
    BY <1>3 DEF Follow
  <2>4. QED
    BY <1>2, <2>1, <2>2, <2>3
<1>4. CASE Back
  <2>1. /\ past # << >> /\ past' = Front(past) /\ Render(Last(past))
        /\ UNCHANGED <<switch, jobs, listed, pausedOn, carried>>
    BY <1>4 DEF Back
  <2>2. route' = Last(past)
    BY <2>1 DEF Render
  <2>3. /\ CrossedBySwitches'
        /\ Front(past) \in Seq(Routes) /\ Last(past) \in Routes
        /\ Crossing(route, Last(past)) => route.job \in carried
    BY <1>0, <2>1, <2>2, TrailShrinks
  <2>4. QED
    BY <1>1, <2>1, <2>3
<1>5. CASE TogglePause
  <2>1. /\ route.job # None /\ paused' = ~paused /\ pausedOn' = route
        /\ UNCHANGED <<route, past, switch, jobs, listed, carried>>
    BY <1>5 DEF TogglePause
  <2>2. paused' \in BOOLEAN /\ PausedOnAJob' /\ PauseIsForThisJob'
    BY <1>0, <2>1 DEF PausedOnAJob, PauseIsForThisJob
  <2>3. TypeInv' /\ AnswerIsListed'
    BY <1>0, <2>1, <2>2 DEF TypeInv, AnswerIsListed
  <2>4. CrossedBySwitches'
    BY <1>0, <2>1 DEF CrossedBySwitches, Linked
  <2>5. QED
    BY <2>2, <2>3, <2>4 DEF IInv
<1>6. ASSUME NEW to \in Profiles, Switch(to) PROVE IInv'
  <2>1. CASE route.job = None
    <3>1. Navigate([profile |-> to, job |-> None])
          /\ UNCHANGED <<switch, listed, jobs, pausedOn, carried>>
      BY <1>6, <2>1 DEF Switch
    <3>2. [profile |-> to, job |-> None] \in Routes
      BY DEF Routes
    <3>3. ~Crossing(route, [profile |-> to, job |-> None])
      BY <2>1 DEF Crossing
    <3>4. QED
      BY <1>2, <3>1, <3>2, <3>3
  <2>2. CASE route.job # None
    <3>1. /\ switch' = [to |-> to, job |-> route.job, answer |-> None]
          /\ listed' = jobs[to]
          /\ UNCHANGED <<route, past, paused, jobs, pausedOn, carried>>
      BY <1>6, <2>2 DEF Switch
    <3>2. CrossedBySwitches' /\ PausedOnAJob' /\ PauseIsForThisJob'
      BY <3>1, TrailStays
    <3>3. AnswerIsListed'
      BY <3>1 DEF AnswerIsListed
    <3>4. route.job \in Jobs
      BY <1>0, <2>2 DEF Routes
    <3>5. TypeInv'
      BY <1>0, <3>1, <3>4 DEF TypeInv, Switches
    <3>6. QED
      BY <3>2, <3>3, <3>5 DEF IInv
  <2>3. QED
    BY <2>1, <2>2
<1>7. CASE Read
  <2>1. /\ switch \in Switches /\ switch' = [switch EXCEPT !.answer = jobs[switch.to]]
        /\ UNCHANGED <<route, past, paused, jobs, listed, pausedOn, carried>>
    BY <1>0, <1>7 DEF Read
  <2>2. /\ switch'.answer = jobs[switch.to] /\ switch'.to = switch.to
        /\ switch' \in Switches /\ switch # None
    BY <1>0, <1>7, <2>1 DEF Switches, Read
  <2>3. TypeInv' /\ AnswerIsListed'
    BY <1>0, <2>1, <2>2 DEF TypeInv, AnswerIsListed
  <2>4. QED
    BY <2>1, <2>3, TrailStays DEF IInv
<1>8. CASE Land
  <2>1. /\ Navigate(Landing) /\ switch # None /\ switch' = None
        /\ carried' = carried \cup ({Landing.job} \ {None})
        /\ UNCHANGED <<jobs, pausedOn>>
    BY <1>8 DEF Land
  <2>2. Landing \in Routes
    BY <1>0, <2>1 DEF Switches, Landing, Routes
  <2>3. Crossing(route, Landing) => route.job \in carried'
    BY <2>1 DEF Crossing
  <2>4. QED
    BY <1>2, <2>1, <2>2, <2>3
<1>9. CASE LookupFails
  <2> DEFINE r == [profile |-> switch.to, job |-> None]
  <2>1. /\ Navigate(r) /\ switch # None /\ switch' = None
        /\ UNCHANGED <<jobs, pausedOn, carried>>
    BY <1>9 DEF LookupFails
  <2>2. r \in Routes
    BY <1>0, <2>1 DEF Switches, Routes
  <2>3. ~Crossing(route, r)
    BY DEF Crossing
  <2>4. QED
    BY <1>2, <2>1, <2>2, <2>3
<1>10. CASE JobsChange
  <2>1. PICK p \in Profiles, now \in SUBSET Jobs :
          jobs' = [jobs EXCEPT ![p] = now]
    BY <1>10 DEF JobsChange
  <2>2. jobs' \in [Profiles -> SUBSET Jobs]
    BY <1>0, <2>1
  <2>3. UNCHANGED <<route, past, paused, switch, pausedOn, carried>>
    BY <1>10 DEF JobsChange
  <2>4. switch # None => listed' = listed \cup jobs'[switch.to]
    BY <1>10 DEF JobsChange
  <2>5. TypeInv' /\ AnswerIsListed'
    BY <1>0, <2>2, <2>3, <2>4 DEF TypeInv, AnswerIsListed
  <2>6. QED
    BY <2>3, <2>5, TrailStays DEF IInv
<1>11. CASE UNCHANGED vars
  <2>1. UNCHANGED <<route, past, paused, switch, jobs, listed, pausedOn, carried>>
    BY <1>11 DEF vars
  <2>2. TypeInv' /\ AnswerIsListed'
    BY <1>0, <2>1 DEF TypeInv, AnswerIsListed
  <2>3. QED
    BY <2>1, <2>2, TrailStays DEF IInv
<1>12. QED
  BY <1>3, <1>4, <1>5, <1>6, <1>7, <1>8, <1>9, <1>10, <1>11 DEF Next, Lookup

(* A pause stays on the page it was set on; through whatever pages the     *)
(* user, the Back button and a switch that ends late have led, it is kept  *)
(* in another profile only on a job of the same ID on whose page a switch  *)
(* has ended: Layout.tsx compares the job's ID with that of the render     *)
(* before, and only the switch, and Back over it, lead from one to the     *)
(* other without a page between them.                                      *)
THEOREM SpecPauseIsForThisJob == Spec => []PauseIsForThisJob
  BY InitIInv, NextIInv, PTL DEF Spec, IInv

(* A switch ends on the chosen profile, and on the page of its job only if *)
(* the profile has had that job since the switch began, though the answer  *)
(* is from an earlier moment and the user may be elsewhere.                *)
THEOREM SpecSwitchLandsOnListedJob == Spec => SwitchLandsOnListedJob
<1>1. ASSUME IInv, [Next]_vars, switch # None, switch' = None
      PROVE  /\ route'.profile = switch.to
             /\ route'.job \in ({switch.job} \cap listed) \cup {None}
  <2>1. Land \/ LookupFails
    <3>1. Read => switch' # None
      <4>1. SUFFICES ASSUME Read PROVE switch' \in Switches
        BY LayoutAssumption
      <4>2. switch \in Switches /\ jobs \in [Profiles -> SUBSET Jobs]
        BY <1>1 DEF IInv, TypeInv
      <4>3. QED
        BY <4>1, <4>2 DEF Read, Switches
    <3>2. Follow \/ Back \/ TogglePause \/ JobsChange \/ UNCHANGED vars
            => switch' = switch
      BY DEF Follow, Back, TogglePause, JobsChange, vars
    <3>3. \A p \in Profiles : ~Switch(p)
      BY <1>1 DEF Switch
    <3>4. QED
      BY <1>1, <3>1, <3>2, <3>3 DEF Next, Lookup
  <2>2. CASE Land
    <3>1. switch.answer # None /\ route' = Landing
      BY <2>2 DEF Land, Navigate, Render
    <3>2. switch.answer \subseteq listed
      BY <1>1, <3>1 DEF IInv, AnswerIsListed
    <3>3. QED
      BY <3>1, <3>2 DEF Landing
  <2>3. CASE LookupFails
    BY <2>3 DEF LookupFails, Navigate, Render
  <2>4. QED
    BY <2>1, <2>2, <2>3
<1>2. QED
  BY <1>1, InitIInv, NextIInv, PTL DEF Spec, SwitchLandsOnListedJob
=============================================================================
