--------------------------- MODULE MCProfilePage ---------------------------
EXTENDS ProfilePage

Job(name, status, time) ==
  [name |-> name, status |-> status, deploymentStatus |-> 1,
   submitTime |-> time]

(* Newest first, as the server answers; the third was stopped, the second  *)
(* forgotten, since.                                                       *)
MCJobLists == { << Job(2, 1, 3), Job(3, 1, 2), Job(1, 1, 1) >>,
                << Job(2, 1, 3), Job(1, 2, 1) >>, <<>> }

MCSearches == {{1, 3}, {}}

MCBookmarks ==
  { [p \in {} |-> 0],
    [q |-> {1, 3}, sort |-> "name", dir |-> "asc", page |-> 9, pageSize |-> 2],
    [sort |-> "name", page |-> 0, pageSize |-> 7] }
=============================================================================
