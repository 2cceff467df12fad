---------------------------- MODULE Allocations ----------------------------
(***************************************************************************)
(* internal/httpapi/derive.go: what the job-status handler computes from   *)
(* Nomad's answers: the filtered, sorted and paginated allocation table,   *)
(* the counts by version and the filter options.                           *)
(*                                                                         *)
(* A stub is a record [id, node, status, desired, taskGroup, version]; its *)
(* strings are numbers in the order the strings sort.  A search text is    *)
(* the set of strings that contain it: [ids, nodes, ips].  Times are in    *)
(* ticks, of which a second has two, so that sub-second parts exist.       *)
(***************************************************************************)
EXTENDS Integers, FiniteSets, SequencesExt

CONSTANTS
  ClientStatuses,     \* the statuses that are counted
  DefaultPageSize,    \* 50
  MaxPageSize,        \* 500
  MaxSeconds,         \* the longest time.Duration, about 292 years
  AnyValue,                \* an empty filter field
  Nil                 \* a version without a submit time

TicksPerSecond == 2

ASSUME AllocationsAssumption ==
  /\ MaxPageSize \in Nat /\ DefaultPageSize \in 1 .. MaxPageSize
  /\ MaxSeconds \in Nat

SortColumns ==
  {"id", "node", "status", "desired", "taskGroup", "version", "lastModified"}

-----------------------------------------------------------------------------
(* The elements of a finite set in the order that before, a set of pairs,  *)
(* is on it: each comes after those that are before it.                    *)
Rank(S, before, x) == Cardinality({y \in S : <<y, x>> \in before})

Arranged(S, before) ==
  [n \in 1 .. Cardinality(S) |-> CHOOSE x \in S : Rank(S, before, x) = n - 1]

Ascending(S) == Arranged(S, {p \in S \X S : p[1] < p[2]})

Descending(S) == Arranged(S, {p \in S \X S : p[1] > p[2]})

-----------------------------------------------------------------------------
(* A time that is unknown is Go's zero time: before every other one.       *)

SubmitTimes(versions) ==
  LET known == {v \in ToSet(versions) : v.submitTime # Nil}
  IN  [n \in {v.version : v \in known} |->
         (CHOOSE v \in known : v.version = n).submitTime]

(* Mutant: the earlier time counts as the later one. *)
LaterSwapped(times, v, w) ==
  /\ w \in DOMAIN times
  /\ v \in DOMAIN times => times[v] < times[w]

Later(times, v, w) ==
  /\ v \in DOMAIN times
  /\ w \in DOMAIN times => times[v] > times[w]

LastModifiedSeconds(times, v, now) ==
  IF v \notin DOMAIN times THEN MaxSeconds
  ELSE IF now < times[v] THEN 0
  ELSE (now - times[v]) \div TicksPerSecond

-----------------------------------------------------------------------------
(* Mutant: a version filter is ignored when a status is filtered for. *)
MatchesStatusOnly(s, f, nodeIPs) ==
  /\ f.version = AnyValue \/ f.status # AnyValue \/ s.version = f.version
  /\ f.status = AnyValue \/ s.status = f.status

Matches(s, f, nodeIPs) ==
  /\ \/ f.search = AnyValue
     \/ s.id \in f.search.ids
     \/ s.node \in f.search.nodes
     \/ s.node \in DOMAIN nodeIPs /\ nodeIPs[s.node] \in f.search.ips
  /\ \A field \in {"taskGroup", "version", "node", "status", "desired"} :
       f[field] = AnyValue \/ s[field] = f[field]

Filtered(stubs, f, nodeIPs) ==
  LET kept == {i \in DOMAIN stubs : Matches(stubs[i], f, nodeIPs)}
  IN  [n \in 1 .. Cardinality(kept) |-> stubs[Ascending(kept)[n]]]

-----------------------------------------------------------------------------
Less(column, times, s, t) ==
  IF column = "lastModified" THEN Later(times, s.version, t.version)
                             ELSE s[column] < t[column]

(* "desc" sorts by the converse.                                           *)
Before(column, dir, times, s, t) ==
  IF dir = "desc" THEN Less(column, times, t, s) ELSE Less(column, times, s, t)

(* sort.SliceStable: equal stubs keep the order Nomad returned them in.    *)
StableOrder(stubs, column, dir, times) ==
  {p \in (DOMAIN stubs) \X (DOMAIN stubs) :
     \/ Before(column, dir, times, stubs[p[1]], stubs[p[2]])
     \/ /\ ~Before(column, dir, times, stubs[p[2]], stubs[p[1]])
        /\ p[1] < p[2]}

(* Mutant: "desc" is the ascending table read backwards. *)
SortedReversing(stubs, column, dir, times) ==
  LET order == Arranged(DOMAIN stubs, StableOrder(stubs, column, "asc", times))
      up == [n \in DOMAIN stubs |-> stubs[order[n]]]
  IN  IF column \notin SortColumns \/ dir \notin {"asc", "desc"} THEN stubs
      ELSE IF dir = "asc" THEN up ELSE Reverse(up)

Sorted(stubs, column, dir, times) ==
  LET order == Arranged(DOMAIN stubs, StableOrder(stubs, column, dir, times))
  IN  IF column \in SortColumns /\ dir \in {"asc", "desc"}
      THEN [n \in DOMAIN stubs |-> stubs[order[n]]]
      ELSE stubs

-----------------------------------------------------------------------------
Ceiling(a, b) == (a + b - 1) \div b

(* Mutant: the last, partly filled page is not counted. *)
PaginateRoundingDown(page, pageSize, totalItems) ==
  LET size == IF pageSize <= 0 THEN DefaultPageSize
              ELSE Min({pageSize, MaxPageSize})
      pages == Max({1, totalItems \div size})
      effective == Max({1, Min({page, pages})})
  IN  [page |-> effective, pageSize |-> size, totalPages |-> pages,
       offset |-> (effective - 1) * size]

Paginate(page, pageSize, totalItems) ==
  LET size == IF pageSize <= 0 THEN DefaultPageSize
              ELSE Min({pageSize, MaxPageSize})
      pages == Max({1, Ceiling(totalItems, size)})
      effective == Max({1, Min({page, pages})})
  IN  [page |-> effective, pageSize |-> size, totalPages |-> pages,
       offset |-> (effective - 1) * size]

PageOf(stubs, p) ==
  SubSeq(stubs, p.offset + 1, Min({p.offset + p.pageSize, Len(stubs)}))

-----------------------------------------------------------------------------
(* The counts by version, newest version first.  A status outside          *)
(* ClientStatuses makes a group but is not counted.                        *)
GroupByVersion(stubs, times, now) ==
  LET versions == Descending({s.version : s \in ToSet(stubs)})
      Count(v, status) ==
        Cardinality({i \in DOMAIN stubs :
                       stubs[i].version = v /\ stubs[i].status = status})
  IN  [n \in DOMAIN versions |->
         [version |-> versions[n],
          lastModified |-> LastModifiedSeconds(times, versions[n], now),
          counts |-> [c \in ClientStatuses |-> Count(versions[n], c)]]]

FilterOptions(stubs) ==
  [taskGroups |-> Ascending({s.taskGroup : s \in ToSet(stubs)}),
   versions |-> Descending({s.version : s \in ToSet(stubs)}),
   nodes |-> Ascending({s.node : s \in ToSet(stubs)})]

-----------------------------------------------------------------------------
(* The part of handleJobStatus between its two rounds of Nomad calls.      *)

Table(stubs, times, nodeIPs, now, q) ==
  LET filtered == Filtered(stubs, q.filters, nodeIPs)
      sorted   == Sorted(filtered, q.column, q.dir, times)
      p        == Paginate(q.page, q.pageSize, Len(sorted))
  IN  [rows |-> PageOf(sorted, p),
       page |-> p.page, pageSize |-> p.pageSize,
       totalItems |-> Len(filtered), totalPages |-> p.totalPages,
       groups |-> GroupByVersion(stubs, times, now),
       options |-> FilterOptions(stubs)]
=============================================================================
