---------------------- MODULE DeploymentNotifications ----------------------
(***************************************************************************)
(* frontend/src/lib/useDeploymentNotifications.ts and                      *)
(* useNotificationsEnabled.ts over the query cache: the job status page    *)
(* compares the deployment status it is shown with the one it was shown    *)
(* before, and tells the user of a change.                                 *)
(*                                                                         *)
(* The server's answer is the deployment's status, numbered by the changes *)
(* there were, so that properties can tell an old status from a new one of *)
(* the same name; the code sees the status only.                           *)
(***************************************************************************)
EXTENDS QueryCache

CONSTANTS
  Selections,     \* the filter selections the user goes through
  Statuses        \* deployment statuses; "" for a job without deployment

Answers == [status : Statuses, at : Nat]

ASSUME DeploymentNotificationsAssumption ==
  /\ MaxChanges \in Nat /\ MaxFailures \in Nat
  /\ Nothing \notin Selections /\ Nothing \notin Statuses
  /\ Nothing \notin Answers \cup [key : Selections, data : Answers]

VARIABLES
  enabled,        \* the toggle
  stored,         \* what localStorage says of the toggle
  permission,     \* Notification.permission
  asking,         \* the permission prompt is open
  previous,       \* the status seen last, or Nothing
  notice,         \* the notification this step fired, or Nothing
  told,           \* history: the last thing the user was told on this page:
                  \* the first status seen, then the notifications
  optedIn         \* history: notifications were on ever since the page opened

toggleVars == <<enabled, stored, permission, asking>>
noticeVars == <<previous, notice, told, optedIn>>
deploymentVars == <<cacheVars, toggleVars, noticeVars>>

On == enabled /\ permission = "granted"

DeploymentInit ==
  /\ server \in [status : Statuses, at : {0}]
  /\ \E k \in Selections : CacheInit(k)
  /\ stored \in BOOLEAN
  /\ permission \in {"default", "granted", "denied"}
  /\ enabled = (stored /\ permission = "granted")
  /\ asking = FALSE
  /\ previous = Nothing
  /\ notice = Nothing
  /\ told = Nothing
  /\ optedIn = On

-----------------------------------------------------------------------------
(* The effect: it runs after a render in which the status, or the toggle,  *)
(* is another than before.                                                 *)

(* Mutant: an effect that does not compare with the status before. *)
EffectWithoutComparing(seen) ==
  /\ previous' = IF seen = Nothing THEN previous ELSE seen.status
  /\ notice' = IF \/ seen = Nothing
                  \/ previous = Nothing
                  \/ seen.status = ""
                  \/ ~On'
               THEN Nothing ELSE seen

(* Mutant: only a finished rollout is worth a notification. *)
EffectWhenDeployed(seen) ==
  /\ previous' = IF seen = Nothing THEN previous ELSE seen.status
  /\ notice' = IF \/ seen = Nothing
                  \/ previous \in {Nothing, seen.status}
                  \/ seen.status # "deployed"
                  \/ ~On'
               THEN Nothing ELSE seen

Effect(seen) ==
  /\ previous' = IF seen = Nothing THEN previous ELSE seen.status
  /\ notice' = IF \/ seen = Nothing
                  \/ previous \in {Nothing, seen.status}
                  \/ seen.status = ""
                  \/ ~On'
               THEN Nothing ELSE seen

(* The page renders; the next page the user opens starts anew.             *)
Render ==
  IF key' = Nothing
  THEN /\ previous' = Nothing
       /\ notice' = Nothing
       /\ told' = Nothing
       /\ optedIn' = TRUE
  ELSE LET seen == IF Shown' = Nothing THEN Nothing ELSE Shown'.data
       IN  /\ Effect(seen)
           /\ told' = IF told = Nothing THEN seen
                      ELSE IF notice' # Nothing THEN notice' ELSE told
           /\ optedIn' = (optedIn /\ On')

-----------------------------------------------------------------------------
StatusChanges ==
  /\ server.at < MaxChanges
  /\ \E s \in Statuses \ {server.status} :
       server' = [status |-> s, at |-> server.at + 1]
  /\ notice' = Nothing
  /\ UNCHANGED <<queries, key, held, paused, visible, failures, toggleVars,
                 previous, told, optedIn>>

CacheStep ==
  /\ \/ \E k \in Selections : Observe(k)
     \/ Leave \/ TogglePause \/ Hide \/ Show \/ Poll \/ Requests
     \/ \E k \in DOMAIN queries : Collect(k)
  /\ UNCHANGED toggleVars
  /\ Render

Persist(value) == enabled' = value /\ stored' = value

(* The toggle is in the header of a job page.  Turning it on asks for      *)
(* permission, which is at once given or refused if it was before.         *)
Toggle ==
  /\ key # Nothing
  /\ IF enabled
     THEN Persist(FALSE) /\ UNCHANGED asking
     ELSE IF permission = "default"
     THEN asking' = TRUE /\ UNCHANGED <<enabled, stored>>
     ELSE Persist(permission = "granted") /\ UNCHANGED asking
  /\ UNCHANGED <<cacheVars, permission>>
  /\ Render

(* The user answers the prompt, or closes it: every click that waits for   *)
(* the prompt goes on.                                                     *)
AnswerPrompt ==
  /\ asking
  /\ asking' = FALSE
  /\ permission' \in {"default", "granted", "denied"}
  /\ Persist(permission' = "granted")
  /\ UNCHANGED cacheVars
  /\ Render

(* In the browser's settings.                                              *)
ChangePermission ==
  /\ ~asking
  /\ permission' \in {"default", "granted", "denied"} \ {permission}
  /\ notice' = Nothing
  /\ UNCHANGED <<cacheVars, enabled, stored, asking, previous, told>>
  /\ optedIn' = (optedIn /\ On')

DeploymentNext ==
  StatusChanges \/ CacheStep \/ Toggle \/ AnswerPrompt \/ ChangePermission

DeploymentSpec == DeploymentInit /\ [][DeploymentNext]_deploymentVars

FairDeploymentSpec == DeploymentSpec /\ CacheFairness(Selections)

-----------------------------------------------------------------------------
(* Properties. *)

(* A notification is about a status that is newer than everything the user *)
(* was told on this page before: first by the page itself, then by         *)
(* notifications.                                                          *)
NoticesMoveForward ==
  [][notice' # Nothing /\ notice' # notice
       => told # Nothing /\ notice'.at > told.at]_deploymentVars

(* With notifications on ever since the page was opened, the user was told *)
(* of every status the page was shown: what it saw last, unless that is    *)
(* "no deployment", is what the user was told last.                        *)
ToldOfEveryChange ==
  optedIn /\ previous \notin {Nothing, ""} => told.status = previous

(* "A notification fires whenever the job's deployment status changes,     *)
(* regardless of whether the tab is focused": a page that stays open, not  *)
(* paused and with notifications on, comes to know a status that stays.    *)
NoticesInAnyTab ==
  \A k \in Selections :
    <>[](key = k /\ ~paused /\ On) => <>[](previous = server.status)
=============================================================================
