------------------------- MODULE MCJobStatusQuery -------------------------
EXTENDS JobStatusQuery

CONSTANTS k1, k2, other

(* Two selections of filters of one job, and another profile's job. *)
MCKeys == {k1, k2, other}
MCProfile == [k \in MCKeys |-> IF k = other THEN 2 ELSE 1]
=============================================================================
