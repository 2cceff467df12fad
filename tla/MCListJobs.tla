----------------------------- MODULE MCListJobs -----------------------------
EXTENDS ListJobs

CONSTANTS j1, j2

G(healthy, desired, canaries) ==
  [healthy |-> healthy, desired |-> desired, canaries |-> canaries]

(* A third done; and one allocation too many in a group of one, beside a   *)
(* large canary group that has just begun.                                 *)
MCShapes == { << G(1, 3, 0) >>, << G(2, 1, 0), G(0, 6, 1) >> }
=============================================================================
