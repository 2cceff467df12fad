-------------------------- MODULE JobStatusQuery --------------------------
(***************************************************************************)
(* What the job status page is shown while its user changes filters,       *)
(* switches profiles, pauses, hides the tab, leaves and comes back, and    *)
(* requests fail: the query cache of QueryCache with a server whose        *)
(* answers are numbered.                                                   *)
(***************************************************************************)
EXTENDS QueryCache

CONSTANTS
  Keys,           \* the queries the user asks for
  Profile         \* the profile of each of them

ASSUME JobStatusQueryAssumption ==
  /\ MaxChanges \in Nat /\ MaxFailures \in Nat
  /\ Nothing \notin Keys \cup Nat \cup [key : Keys, data : Nat]

VARIABLE
  updates         \* history: how often what is shown has changed since the
                  \* user last did something: 0, 1, or 2 for more

queryVars == <<cacheVars, updates>>

SameProfile(j, k) == Profile[j] = Profile[k]

QueryInit ==
  /\ server = 0
  /\ \E k \in Keys : CacheInit(k)
  /\ updates = 0

ServerChanges ==
  /\ server < MaxChanges
  /\ server' = server + 1
  /\ UNCHANGED <<queries, key, held, paused, visible, failures, updates>>

UserActs ==
  /\ \/ \E k \in Keys :
          IF key = Nothing \/ SameProfile(k, key) THEN Observe(k) ELSE Visit(k)
     \/ Leave \/ TogglePause \/ Hide \/ Show
  /\ updates' = 0

(* What happens without the user.                                          *)
WithoutUser ==
  /\ Poll \/ Requests \/ (\E k \in DOMAIN queries : Collect(k))
  /\ updates' = IF key # Nothing /\ Entry.data # queries'[key].data
                THEN IF updates = 0 THEN 1 ELSE 2
                ELSE updates

QueryNext == ServerChanges \/ UserActs \/ WithoutUser

QuerySpec == QueryInit /\ [][QueryNext]_queryVars

FairQuerySpec == QuerySpec /\ CacheFairness(Keys)

-----------------------------------------------------------------------------
(* The inductive invariant. *)

Entries ==
  [data : Nat \cup {Nothing}, failed : BOOLEAN,
   request : {"none", "asked", "read", "waiting"},
   read : Nat \cup {Nothing}, retried : BOOLEAN]

TypeOK ==
  /\ server \in Nat /\ failures \in Nat
  /\ queries \in [DOMAIN queries -> Entries]
  /\ DOMAIN queries \subseteq Keys
  /\ key \in Keys \cup {Nothing}
  /\ key # Nothing => key \in DOMAIN queries
  /\ held \in [key : Keys, data : Nat] \cup {Nothing}
  /\ paused \in BOOLEAN /\ visible \in BOOLEAN
  /\ updates \in 0..2

(* A request that was read has an answer, and one that has ended has left  *)
(* data or an error.                                                       *)
RequestsLeaveSomething ==
  \A k \in DOMAIN queries :
    /\ queries[k].request = "read" => queries[k].read # Nothing
    /\ queries[k].request = "none" =>
         queries[k].failed \/ queries[k].data # Nothing

(* What is held is what the mounted page has been shown. *)
HeldIsOfThePage ==
  /\ held # Nothing => key # Nothing /\ SameProfile(held.key, key)
  /\ key # Nothing /\ Entry.data # Nothing =>
       held = [key |-> key, data |-> Entry.data]

(* After the one update that a pause may see, no request is under way. *)
PausedIsQuiet ==
  paused /\ updates > 0 =>
    /\ updates = 1
    /\ key # Nothing
    /\ Entry.request = "none"

IInv ==
  TypeOK /\ RequestsLeaveSomething /\ HeldIsOfThePage /\ PausedIsQuiet

-----------------------------------------------------------------------------
(* Properties. *)

(* While automatic updates are paused, what is shown changes at most once  *)
(* for each thing the user does: the request that was already under way,   *)
(* or the one that a new selection or a return to the tab makes.           *)
PauseHolds == paused => updates <= 1

(* Changing a filter does not blank a page that shows something: until the *)
(* new answer is there the previous one stays, unless requests fail.       *)
NoFlicker ==
  [][Shown # Nothing /\ key' # Nothing /\ SameProfile(key, key')
       => Shown' # Nothing \/ Failed']_queryVars

(* After a switch of the profile, what is shown is never the other         *)
(* profile's job, not even until the first answer ("a stale previous       *)
(* profile's data lingering", Layout.tsx:129).                             *)
NeverAnothers == Shown # Nothing => SameProfile(Shown.key, key)

(* The page never waits for nothing: without a request under way it shows  *)
(* the answer to its own query, or says that the query failed.             *)
NoIdleWait ==
  key # Nothing /\ Entry.request = "none" => Failed \/ Entry.data # Nothing

(* A page whose user leaves it alone, in a visible tab and not paused,     *)
(* comes to show what the server says now, after failures too.             *)
EventuallyCurrent ==
  \A k \in Keys :
    <>[](key = k /\ visible /\ ~paused)
      => <>[](Shown = [key |-> k, data |-> server] /\ ~Failed)

=============================================================================
