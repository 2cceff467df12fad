-------------------------- MODULE MCJobStatusPage --------------------------
EXTENDS JobStatusPage

Alloc(id, version, node, status) ==
  [id |-> id, node |-> node, status |-> status, desired |-> 1,
   taskGroup |-> 1, version |-> version]

(* A rollout of version 2, on two nodes; later only its end is left.       *)
Rollout == << Alloc(1, 1, 1, "running"), Alloc(2, 2, 1, "running"),
              Alloc(3, 2, 2, "running") >>

MCLists == {Rollout, << Alloc(3, 2, 2, "running") >>}

Matching == [ids |-> {}, nodes |-> {1}, ips |-> {}]
NotMatching == [ids |-> {}, nodes |-> {}, ips |-> {}]

MCSearches == {Matching, NotMatching}

OneSearch == {Matching}

(* A node and a status that no allocation has are texts too.               *)
MCTexts == [taskGroup |-> {1}, version |-> {1, 2}, node |-> {1, 2, 9},
            status |-> {"running", "gone"}]

(* Everything set, a page size that is not offered, and a node that only   *)
(* the longer of the lists has.                                            *)
MCBookmarks ==
  { [q |-> Matching, version |-> 2, node |-> 1, sort |-> "node",
     dir |-> "desc", page |-> 9, pageSize |-> 7, versionPage |-> 2,
     versionPageSize |-> 2] }

(* The second page.                                                        *)
PageTwo == {[page |-> 2]}

MCTimes == [v \in {1, 2} |-> v]

MCNodeIP == [n \in {1, 2} |-> n]
=============================================================================
