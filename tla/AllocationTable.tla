-------------------------- MODULE AllocationTable --------------------------
(***************************************************************************)
(* The allocation table as its reader sees it: any sequence of requests    *)
(* (filter, sort, page, page size) over one list of allocations, and what  *)
(* one answer says of the others.                                          *)
(***************************************************************************)
EXTENDS Allocations

CONSTANTS
  StubLists,       \* the lists of allocations Nomad may return
  VersionLists,    \* the version histories it may return
  Addresses,       \* the address of each node
  Now,             \* the time of the requests
  Requests         \* the query parameters a request may have

Stubs ==
  [id : Nat, node : Nat, status : Nat, desired : Nat, taskGroup : Nat,
   version : Nat]

(* No two allocations have the same ID, and no time is further from now    *)
(* than a time.Duration can say.                                           *)
ASSUME AllocationTableAssumption ==
  /\ \A list \in StubLists :
       /\ list \in Seq(Stubs)
       /\ \A i, j \in DOMAIN list : list[i].id = list[j].id => i = j
  /\ \A list \in VersionLists :
       list \in Seq([version : Nat, submitTime : Nat \cup {Nil}])
  /\ Now \in 0 .. MaxSeconds * TicksPerSecond
  /\ \A q \in Requests :
       /\ DOMAIN q = {"filters", "column", "dir", "page", "pageSize"}
       /\ q.page \in Int /\ q.pageSize \in Int
  /\ AnyValue \notin Nat \cup ClientStatuses

VARIABLES
  stubs,
  versions,
  request,     \* the query parameters of the last request
  answer       \* the table in the answer to it

tableVars == <<stubs, versions, request, answer>>

NoFilter ==
  [search |-> AnyValue, taskGroup |-> AnyValue, version |-> AnyValue,
   node |-> AnyValue, status |-> AnyValue, desired |-> AnyValue]

FirstRequest ==
  [filters |-> NoFilter, column |-> "", dir |-> "", page |-> 0,
   pageSize |-> 0]

Answer(q) == Table(stubs, SubmitTimes(versions), Addresses, Now, q)

TInit ==
  /\ stubs \in StubLists
  /\ versions \in VersionLists
  /\ request = FirstRequest
  /\ answer = Answer(FirstRequest)

Serve(q) ==
  /\ request' = q
  /\ answer' = Answer(q)
  /\ UNCHANGED <<stubs, versions>>

TNext == \E q \in Requests : Serve(q)

TSpec == TInit /\ [][TNext]_tableVars

-----------------------------------------------------------------------------
(* The pages 1, 2, ... of a query, and the places of their rows: the p-th  *)
(* page has an i-th row.                                                   *)
Pages ==
  [p \in 1 .. answer.totalPages |-> Answer([request EXCEPT !.page = p]).rows]

Places(pages) ==
  UNION {{<<p, i>> : i \in DOMAIN pages[p]} : p \in DOMAIN pages}

Position(s) == CHOOSE i \in DOMAIN stubs : stubs[i] = s

(* Paging from the first page to the last shows every allocation that      *)
(* matches the filters once, and nothing else, on pages of which only the  *)
(* last is not full; whatever page was asked for, the answer is one of     *)
(* them, and is only empty if nothing matches.                             *)
PagesPartition ==
  LET pages == Pages
      At(x) == pages[x[1]][x[2]]
  IN  /\ {At(x) : x \in Places(pages)}
           = {s \in ToSet(stubs) : Matches(s, request.filters, Addresses)}
      /\ \A x, y \in Places(pages) : At(x).id = At(y).id => x = y
      /\ \A p \in 1 .. answer.totalPages - 1 :
           Len(pages[p]) = answer.pageSize
      /\ answer.page \in 1 .. answer.totalPages
      /\ answer.rows = pages[answer.page]
      /\ answer.rows = <<>> => answer.totalItems = 0

(* Across pages the rows follow the sort column, and rows the column does  *)
(* not tell apart keep Nomad's order in both directions, so a refresh does *)
(* not shuffle them.                                                       *)
SortIsStable ==
  LET pages == Pages
      At(x) == pages[x[1]][x[2]]
      Below(s, t) == Less(request.column, SubmitTimes(versions), s, t)
      active == /\ request.column \in SortColumns
                /\ request.dir \in {"asc", "desc"}
      Tied(s, t) == ~active \/ (~Below(s, t) /\ ~Below(t, s))
  IN  \A x, y \in Places(pages) :
        x[1] < y[1] \/ (x[1] = y[1] /\ x[2] < y[2]) =>
          IF Tied(At(x), At(y)) THEN Position(At(x)) < Position(At(y))
          ELSE IF request.dir = "asc" THEN Below(At(x), At(y))
                                      ELSE Below(At(y), At(x))

(* Sorting by lastModified orders the times the rows display, although it  *)
(* compares submit times and the rows show truncated, clamped durations.   *)
LastModifiedAsShown ==
  request.column = "lastModified" =>
    \A i, j \in DOMAIN answer.rows :
      LET Shown(n) == LastModifiedSeconds(SubmitTimes(versions),
                                          answer.rows[n].version, Now)
      IN  i < j => CASE request.dir = "asc"  -> Shown(i) <= Shown(j)
                     [] request.dir = "desc" -> Shown(i) >= Shown(j)
                     [] OTHER -> TRUE

(* Every count the version groups show is the number of rows its filter    *)
(* leaves: filtering by that version and that status finds exactly as many *)
(* allocations, whatever filters the request itself had.                   *)
CountsMatchFilter ==
  \A i \in DOMAIN answer.groups :
    LET g == answer.groups[i]
    IN  \A status \in ClientStatuses :
          g.counts[status]
            = Answer([request EXCEPT !.filters =
                        [NoFilter EXCEPT !.version = g.version,
                                         !.status = status]]).totalItems
=============================================================================
