---------------------------- MODULE ParallelFor ----------------------------
(***************************************************************************)
(* What syncutil.FanOut promises its caller: a bounded parallel loop.  At  *)
(* most Limit callbacks run at once, and the call that waits for them      *)
(* returns only when all of them have ended, with the error of every       *)
(* callback that failed, each exactly once, in some order.                 *)
(*                                                                         *)
(* FanOut implements this module; JobStatus uses it for the fan-out over   *)
(* the allocations of a page.                                              *)
(***************************************************************************)
EXTENDS Naturals, FiniteSets, SequencesExt

CONSTANTS
  Tasks,    \* the callbacks the caller may start
  Limit     \* how many of them may run at once, at least 1

VARIABLES
  running,    \* the tasks whose callback is executing
  outcome,    \* "none" until the callback returned, then "nil" or "error"
  returned,   \* whether Wait has returned to the caller
  errors      \* what Wait returned

vars == <<running, outcome, returned, errors>>

Failed == {t \in Tasks : outcome[t] = "error"}

Init ==
  /\ running = {}
  /\ outcome = [t \in Tasks |-> "none"]
  /\ returned = FALSE
  /\ errors = <<>>

Begin(t) ==
  /\ ~returned
  /\ t \notin running
  /\ outcome[t] = "none"
  /\ Cardinality(running) < Limit
  /\ running' = running \cup {t}
  /\ UNCHANGED <<outcome, returned, errors>>

End(t, o) ==
  /\ t \in running
  /\ running' = running \ {t}
  /\ outcome' = [outcome EXCEPT ![t] = o]
  /\ UNCHANGED <<returned, errors>>

Return ==
  /\ ~returned
  /\ running = {}
  /\ returned' = TRUE
  /\ errors' \in SetToSeqs(Failed)
  /\ UNCHANGED <<running, outcome>>

Next ==
  \/ \E t \in Tasks : Begin(t)
  \/ \E t \in Tasks, o \in {"nil", "error"} : End(t, o)
  \/ Return

Spec == Init /\ [][Next]_vars
=============================================================================
