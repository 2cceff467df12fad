---------------------------- MODULE MCJobStatus ----------------------------
(***************************************************************************)
(* Model checking of JobStatus: a job with two allocations to begin with,  *)
(* a page of three, two fetches at a time, and up to MaxChanges changes of *)
(* the cluster at any moments.  One query has no filter; the other         *)
(* searches for an address, which takes the call for the nodes.            *)
(***************************************************************************)
EXTENDS JobStatus

MCClientStatuses == {1}

NoFilter ==
  [search |-> AnyValue, taskGroup |-> AnyValue, version |-> AnyValue,
   node |-> AnyValue, status |-> AnyValue, desired |-> AnyValue]

Query(filters) ==
  [filters |-> filters, column |-> "version", dir |-> "asc", page |-> 1,
   pageSize |-> 3]

MCQueries ==
  {Query(NoFilter),
   Query([NoFilter EXCEPT !.search =
            [ids |-> {2}, nodes |-> {}, ips |-> {10}]])}
=============================================================================
