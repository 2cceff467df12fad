------------------------- MODULE MCAllocationTable -------------------------
(***************************************************************************)
(* Model checking of AllocationTable: lists of up to three allocations, in *)
(* several orders of their IDs, whose fields differ and coincide; statuses *)
(* outside the counted ones; versions that have no time, or one in the     *)
(* future; pages below, on and past the ends.                              *)
(***************************************************************************)
EXTENDS AllocationTable

Running == 1
Pending == 2
Unknown == 3

MCClientStatuses == {Running, Pending}

Kinds == {
  [node |-> 1, status |-> Running, desired |-> 1, taskGroup |-> 1,
   version |-> 1],
  [node |-> 2, status |-> Running, desired |-> 1, taskGroup |-> 2,
   version |-> 2],
  [node |-> 2, status |-> Unknown, desired |-> 2, taskGroup |-> 1,
   version |-> 1],
  [node |-> 1, status |-> Pending, desired |-> 2, taskGroup |-> 2,
   version |-> 2]}

WithID(kind, id) ==
  [id |-> id, node |-> kind.node, status |-> kind.status,
   desired |-> kind.desired, taskGroup |-> kind.taskGroup,
   version |-> kind.version]

IDs == {<<2, 3, 1>>, <<3, 2, 1>>}

MCStubLists ==
  UNION {
    {[i \in 1 .. n |-> WithID(kinds[i], ids[i])] :
       kinds \in [1 .. n -> Kinds], ids \in IDs} : n \in 0 .. 3}

Version(v, t) == [version |-> v, submitTime |-> t]

MCVersionLists == {
  <<Version(2, 6), Version(1, 3)>>,
  <<Version(2, 12), Version(1, 5)>>,
  <<Version(2, Nil), Version(1, 4)>>}

MCAddresses == [n \in {2} |-> 20]

Searches == {
  [ids |-> {1, 3}, nodes |-> {}, ips |-> {}],
  [ids |-> {}, nodes |-> {1}, ips |-> {20}]}

SomeFilters ==
  {NoFilter,
   [NoFilter EXCEPT !.status = Running],
   [NoFilter EXCEPT !.version = 1, !.node = 2],
   [NoFilter EXCEPT !.taskGroup = 2, !.desired = 1]}
  \cup {[NoFilter EXCEPT !.search = s] : s \in Searches}

Query(filters, column, dir, page, pageSize) ==
  [filters |-> filters, column |-> column, dir |-> dir, page |-> page,
   pageSize |-> pageSize]

MCRequests ==
  {Query(f, "id", "asc", page, size) :
     f \in SomeFilters, page \in {1, 4}, size \in {0, 1}}
  \cup {Query(NoFilter, "id", "desc", -1, 9)}
  \cup {Query(NoFilter, column, dir, 2, 2) :
     column \in SortColumns \cup {"other"}, dir \in {"asc", "desc"}}
  \cup {Query(NoFilter, "node", "up", 2, 2)}
=============================================================================
