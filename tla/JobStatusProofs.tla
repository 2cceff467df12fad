-------------------------- MODULE JobStatusProofs --------------------------
(***************************************************************************)
(* Theorems about the job status handler.  Those about AllocationTable say *)
(* what its answers say of each other, for all lists of allocations,       *)
(* version histories and requests; those about JobStatus what one answer   *)
(* says of the cluster, for any query, any number of allocations and of    *)
(* changes of the cluster, and any number of fetches at a time.            *)
(***************************************************************************)
EXTENDS JobStatus, AllocationTable, TableLemmas

-----------------------------------------------------------------------------
(* Sorting: Less, and its converse, order the allocations weakly; with the *)
(* position to decide between equals that is a strict order.               *)

TimesOK(times) == \A v \in DOMAIN times : times[v] \in Nat

LEMMA BeforeFacts ==
  ASSUME NEW column \in SortColumns, NEW dir, NEW times, TimesOK(times)
  PROVE  /\ \A s \in Stubs : ~Before(column, dir, times, s, s)
         /\ \A s, t \in Stubs : Before(column, dir, times, s, t)
              => ~Before(column, dir, times, t, s)
         /\ \A s, t, u \in Stubs :
              /\ Before(column, dir, times, s, t)
              /\ Before(column, dir, times, t, u)
              => Before(column, dir, times, s, u)
         /\ \A s, t, u \in Stubs :
              /\ ~Before(column, dir, times, s, t)
              /\ ~Before(column, dir, times, t, u)
              => ~Before(column, dir, times, s, u)
<1>1. CASE column = "lastModified"
  BY <1>1 DEF Before, Less, Later, TimesOK
<1>2. CASE column # "lastModified"
  <2>1. \A s \in Stubs : s[column] \in Nat
    BY <1>2 DEF SortColumns, Stubs
  <2>2. \A s, t \in Stubs :
          Less(column, times, s, t) <=> s[column] < t[column]
    BY <1>2 DEF Less
  <2>3. CASE dir = "desc"
    BY <2>1, <2>2, <2>3 DEF Before
  <2>4. CASE dir # "desc"
    BY <2>1, <2>2, <2>4 DEF Before
  <2>5. QED
    BY <2>3, <2>4
<1>3. QED
  BY <1>1, <1>2

LEMMA StableOrderIsStrict ==
  ASSUME NEW list \in Seq(Stubs), NEW column \in SortColumns, NEW dir,
         NEW times, TimesOK(times)
  PROVE  StrictOrder(DOMAIN list, StableOrder(list, column, dir, times))
<1> DEFINE S == DOMAIN list
           R == StableOrder(list, column, dir, times)
           B(i, j) == Before(column, dir, times, list[i], list[j])
<1>1. \A i \in S : i \in Int /\ list[i] \in Stubs
  OBVIOUS
<1>2. \A i, j \in S : <<i, j>> \in R <=> B(i, j) \/ (~B(j, i) /\ i < j)
  BY DEF StableOrder
<1>3. /\ \A i \in S : ~B(i, i)
      /\ \A i, j \in S : B(i, j) => ~B(j, i)
      /\ \A i, j, k \in S : B(i, j) /\ B(j, k) => B(i, k)
      /\ \A i, j, k \in S : ~B(i, j) /\ ~B(j, k) => ~B(i, k)
  BY <1>1, BeforeFacts
<1> HIDE DEF B, R, S
<1>4. \A i \in S : <<i, i>> \notin R
  BY <1>1, <1>2, <1>3
<1>5. ASSUME NEW i \in S, NEW j \in S
      PROVE  i = j \/ <<i, j>> \in R \/ <<j, i>> \in R
  <2>1. i = j \/ i < j \/ j < i
    BY <1>1
  <2>2. /\ <<i, j>> \in R <=> B(i, j) \/ (~B(j, i) /\ i < j)
        /\ <<j, i>> \in R <=> B(j, i) \/ (~B(i, j) /\ j < i)
    BY <1>2
  <2>3. QED
    BY <2>1, <2>2
<1>6. ASSUME NEW i \in S, NEW j \in S, NEW k \in S,
             <<i, j>> \in R, <<j, k>> \in R
      PROVE  <<i, k>> \in R
  BY <1>1, <1>2, <1>3, <1>6
<1>7. QED
  BY <1>4, <1>5, <1>6 DEF StrictOrder, S, R

Active(column, dir) == column \in SortColumns /\ dir \in {"asc", "desc"}

Sorts(g, list, column, dir, times) ==
  /\ g \in [DOMAIN list -> DOMAIN list]
  /\ \A n \in DOMAIN list : Sorted(list, column, dir, times)[n] = list[g[n]]
  /\ \A i \in DOMAIN list : \E n \in DOMAIN list : g[n] = i
  /\ \A m, n \in DOMAIN list : g[m] = g[n] => m = n
  /\ \A m, n \in DOMAIN list : m < n =>
       IF Active(column, dir)
       THEN \/ Before(column, dir, times, list[g[m]], list[g[n]])
            \/ /\ ~Before(column, dir, times, list[g[n]], list[g[m]])
               /\ g[m] < g[n]
       ELSE g[m] < g[n]

LEMMA SortedFacts ==
  ASSUME NEW list \in Seq(Stubs), NEW column, NEW dir, NEW times,
         TimesOK(times)
  PROVE  /\ Sorted(list, column, dir, times) \in [DOMAIN list -> Stubs]
         /\ \E g : Sorts(g, list, column, dir, times)
<1> DEFINE S == DOMAIN list
<1>1. S = 1 .. Len(list) /\ Len(list) \in Nat
  OBVIOUS
<1>2. CASE ~Active(column, dir)
  <2> DEFINE id == [n \in S |-> n]
  <2>1. Sorted(list, column, dir, times) = list
    BY <1>2 DEF Sorted, Active
  <2>2. list \in [S -> Stubs] /\ \A n \in S : list[n] = list[id[n]]
    OBVIOUS
  <2>3. id \in [S -> S] /\ \A n \in S : id[n] = n
    OBVIOUS
  <2> HIDE DEF id
  <2>4. Sorts(id, list, column, dir, times)
    BY <1>2, <2>1, <2>2, <2>3 DEF Sorts
  <2>5. QED
    BY <2>1, <2>2, <2>4
<1>3. CASE Active(column, dir)
  <2> DEFINE R == StableOrder(list, column, dir, times)
             g == Arranged(S, R)
  <2>1. IsFiniteSet(S) /\ Cardinality(S) = Len(list)
    BY <1>1, Counting
  <2>2. StrictOrder(S, R)
    BY <1>3, StableOrderIsStrict DEF Active
  <2>3. \A i, j \in S : <<i, j>> \in R =>
          \/ Before(column, dir, times, list[i], list[j])
          \/ ~Before(column, dir, times, list[j], list[i]) /\ i < j
    BY DEF StableOrder
  <2>4. Sorted(list, column, dir, times) = [n \in S |-> list[g[n]]]
    BY <1>3 DEF Sorted, Active
  <2> HIDE DEF R, S
  <2>5. /\ g \in [S -> S]
        /\ \A i \in S : \E n \in S : g[n] = i
        /\ \A m, n \in S : m < n => <<g[m], g[n]>> \in R
        /\ \A m, n \in S : g[m] = g[n] => m = n
    <3> DEFINE k == Cardinality(S)
    <3>1. /\ g \in [1 .. k -> S]
          /\ \A i \in S : \E n \in 1 .. k : g[n] = i
          /\ \A m, n \in 1 .. k : m < n => <<g[m], g[n]>> \in R
          /\ \A m, n \in 1 .. k : g[m] = g[n] => m = n
      BY <2>1, <2>2, ArrangedFacts
    <3>2. 1 .. k = S
      BY <1>1, <2>1
    <3> HIDE DEF k, g
    <3>3. QED
      BY <3>1, <3>2
  <2> HIDE DEF g
  <2>6. ASSUME NEW m \in S, NEW n \in S, m < n
        PROVE  \/ Before(column, dir, times, list[g[m]], list[g[n]])
               \/ /\ ~Before(column, dir, times, list[g[n]], list[g[m]])
                  /\ g[m] < g[n]
    <3>1. g[m] \in S /\ g[n] \in S
      BY <2>5
    <3>2. QED
      BY <2>3, <2>5, <2>6, <3>1
  <2>7. Sorts(g, list, column, dir, times)
    BY <1>3, <2>4, <2>5, <2>6 DEF S, Sorts
  <2>8. Sorted(list, column, dir, times) \in [S -> Stubs]
    <3>1. \A n \in S : list[n] \in Stubs
      BY DEF S
    <3>2. QED
      BY <2>4, <2>5, <3>1
  <2>9. QED
    BY <2>7, <2>8 DEF S
<1>4. QED
  BY <1>2, <1>3

-----------------------------------------------------------------------------
(* AllocationTable: its invariant is that the answer is the answer to the  *)
(* request.                                                                *)

TypeInv ==
  /\ stubs \in StubLists
  /\ versions \in VersionLists
  /\ request \in Requests \cup {FirstRequest}
  /\ answer = Answer(request)

LEMMA RequestFacts ==
  \A q \in Requests \cup {FirstRequest} :
    /\ DOMAIN q = {"filters", "column", "dir", "page", "pageSize"}
    /\ q.page \in Int /\ q.pageSize \in Int
<1>1. /\ DOMAIN FirstRequest = {"filters", "column", "dir", "page", "pageSize"}
      /\ FirstRequest.page \in Int /\ FirstRequest.pageSize \in Int
  BY DEF FirstRequest
<1>2. QED
  BY <1>1, AllocationTableAssumption

LEMMA SpecTypeInv == TSpec => []TypeInv
<1>1. TInit => TypeInv
  BY DEF TInit, TypeInv
<1>2. TypeInv /\ [TNext]_tableVars => TypeInv'
  <2> SUFFICES ASSUME TypeInv, [TNext]_tableVars PROVE TypeInv'
    OBVIOUS
  <2>1. ASSUME NEW q \in Requests, Serve(q) PROVE TypeInv'
    <3>1. answer' = Answer(q)' /\ request' = q
      BY <2>1 DEF Serve, Answer
    <3>2. QED
      BY <2>1, <3>1 DEF Serve, TypeInv, Answer
  <2>2. CASE UNCHANGED tableVars
    BY <2>2 DEF tableVars, TypeInv, Answer
  <2>3. QED
    BY <2>1, <2>2 DEF TNext
<1>3. QED
  BY <1>1, <1>2, PTL DEF TSpec

VersionRecords == [version : Nat, submitTime : Nat \cup {Nil}]

LEMMA SubmitTimesFacts ==
  ASSUME NEW list \in Seq(VersionRecords)
  PROVE  TimesOK(SubmitTimes(list))
<1> DEFINE known == {v \in ToSet(list) : v.submitTime # Nil}
           times == SubmitTimes(list)
<1>1. \A v \in known : v.submitTime \in Nat
  <2>1. \A i \in DOMAIN list : list[i] \in VersionRecords
    OBVIOUS
  <2>2. \A v \in known : v \in VersionRecords
    BY <2>1 DEF ToSet
  <2>3. QED
    BY <2>2 DEF VersionRecords
<1>2. times = [n \in {v.version : v \in known} |->
                 (CHOOSE v \in known : v.version = n).submitTime]
  BY DEF SubmitTimes
<1> HIDE DEF known, times
<1>3. ASSUME NEW n \in DOMAIN times PROVE times[n] \in Nat
  <2>1. \E v \in known : v.version = n
    BY <1>2
  <2>2. times[n] = (CHOOSE v \in known : v.version = n).submitTime
    BY <1>2
  <2>3. (CHOOSE v \in known : v.version = n) \in known
    BY <2>1
  <2>4. QED
    BY <1>1, <2>2, <2>3
<1>4. QED
  BY <1>3 DEF TimesOK, times

-----------------------------------------------------------------------------
(* The rows of all pages, seen from Nomad's list: the n-th row is the      *)
(* allocation in the h[n]-th place of the list.                            *)

Kept == KeptOf(stubs, request.filters, Addresses)

Comes(i, j) ==
  IF Active(request.column, request.dir)
  THEN \/ Before(request.column, request.dir, SubmitTimes(versions),
                 stubs[i], stubs[j])
       \/ /\ ~Before(request.column, request.dir, SubmitTimes(versions),
                     stubs[j], stubs[i])
          /\ i < j
  ELSE i < j

SortedRows ==
  Sorted(Filtered(stubs, request.filters, Addresses),
         request.column, request.dir, SubmitTimes(versions))

LEMMA SortedRowsFacts ==
  ASSUME TypeInv
  PROVE  LET L == Cardinality(Kept)
         IN  /\ L \in Nat
             /\ Len(Filtered(stubs, request.filters, Addresses)) = L
             /\ SortedRows \in Seq(Stubs) /\ Len(SortedRows) = L
             /\ \E h \in [1 .. L -> Kept] :
                  /\ \A n \in 1 .. L : SortedRows[n] = stubs[h[n]]
                  /\ \A i \in Kept : \E n \in 1 .. L : h[n] = i
                  /\ \A m, n \in 1 .. L : h[m] = h[n] => m = n
                  /\ \A m, n \in 1 .. L : m < n => Comes(h[m], h[n])
<1> DEFINE L == Cardinality(Kept)
           F == Filtered(stubs, request.filters, Addresses)
           times == SubmitTimes(versions)
           column == request.column
           dir == request.dir
<1>1. stubs \in Seq(Stubs) /\ TimesOK(times)
  <2>1. versions \in Seq(VersionRecords)
    BY AllocationTableAssumption DEF TypeInv, VersionRecords
  <2>2. QED
    BY <2>1, AllocationTableAssumption, SubmitTimesFacts DEF TypeInv
<1>2. /\ L \in Nat
      /\ F \in [1 .. L -> Stubs]
      /\ Kept \subseteq DOMAIN stubs
  BY <1>1, FilteredFacts DEF Kept
<1> HIDE DEF times, column, dir
<1>3. PICK g \in [1 .. L -> Kept] :
        /\ \A n \in 1 .. L : F[n] = stubs[g[n]]
        /\ \A i \in Kept : \E n \in 1 .. L : g[n] = i
        /\ \A m, n \in 1 .. L : m < n => g[m] < g[n]
  <2>1. PICK g : Filters(g, stubs, request.filters, Addresses)
    BY <1>1, FilteredFacts
  <2>2. QED
    BY <2>1 DEF Filters, Kept
<1> HIDE DEF L, F
<1>4. F \in Seq(Stubs) /\ Len(F) = L /\ DOMAIN F = 1 .. L
  BY <1>2
<1>5. SortedRows = Sorted(F, column, dir, times)
  BY DEF SortedRows, F, column, dir, times
<1>6. PICK f : Sorts(f, F, column, dir, times)
  BY <1>1, <1>4, SortedFacts
<1>7. /\ f \in [1 .. L -> 1 .. L]
      /\ \A n \in 1 .. L : SortedRows[n] = F[f[n]]
      /\ \A i \in 1 .. L : \E n \in 1 .. L : f[n] = i
      /\ \A m, n \in 1 .. L : f[m] = f[n] => m = n
      /\ \A m, n \in 1 .. L : m < n =>
           IF Active(column, dir)
           THEN \/ Before(column, dir, times, F[f[m]], F[f[n]])
                \/ /\ ~Before(column, dir, times, F[f[n]], F[f[m]])
                   /\ f[m] < f[n]
           ELSE f[m] < f[n]
  BY <1>4, <1>5, <1>6 DEF Sorts
<1> DEFINE h == [n \in 1 .. L |-> g[f[n]]]
<1>8. h \in [1 .. L -> Kept] /\ \A n \in 1 .. L : h[n] = g[f[n]]
  BY <1>3, <1>7
<1>9. \A n \in 1 .. L : SortedRows[n] = stubs[h[n]]
  BY <1>3, <1>7, <1>8
<1> HIDE DEF h
<1>10. \A i \in Kept : \E n \in 1 .. L : h[n] = i
  <2> SUFFICES ASSUME NEW i \in Kept PROVE \E n \in 1 .. L : h[n] = i
    OBVIOUS
  <2>1. PICK m \in 1 .. L : g[m] = i
    BY <1>3
  <2>2. PICK n \in 1 .. L : f[n] = m
    BY <1>7
  <2>3. QED
    BY <1>8, <2>1, <2>2
<1>11. \A m, n \in 1 .. L : g[m] = g[n] => m = n
  <2> SUFFICES ASSUME NEW m \in 1 .. L, NEW n \in 1 .. L, m # n
               PROVE  g[m] # g[n]
    OBVIOUS
  <2>1. g[m] \in Int /\ g[n] \in Int
    <3>1. Kept \subseteq Int
      BY <1>1, <1>2
    <3>2. QED
      BY <1>3, <3>1
  <2>2. m < n \/ n < m
    BY <1>2
  <2>3. QED
    BY <1>3, <2>1, <2>2
<1>12. \A m, n \in 1 .. L : h[m] = h[n] => m = n
  <2> SUFFICES ASSUME NEW m \in 1 .. L, NEW n \in 1 .. L, h[m] = h[n]
               PROVE  m = n
    OBVIOUS
  <2>1. f[m] \in 1 .. L /\ f[n] \in 1 .. L
    BY <1>7
  <2>2. g[f[m]] = g[f[n]]
    BY <1>8
  <2>3. f[m] = f[n]
    BY <1>11, <2>1, <2>2
  <2>4. QED
    BY <1>7, <2>3
<1>13. ASSUME NEW m \in 1 .. L, NEW n \in 1 .. L, m < n
       PROVE  Comes(h[m], h[n])
  <2>1. f[m] \in 1 .. L /\ f[n] \in 1 .. L
    BY <1>7
  <2>2. F[f[m]] = stubs[h[m]] /\ F[f[n]] = stubs[h[n]]
    BY <1>3, <1>8, <2>1
  <2>3. f[m] < f[n] => h[m] < h[n]
    BY <1>3, <1>8, <2>1
  <2>4. IF Active(column, dir)
        THEN \/ Before(column, dir, times, stubs[h[m]], stubs[h[n]])
             \/ /\ ~Before(column, dir, times, stubs[h[n]], stubs[h[m]])
                /\ f[m] < f[n]
        ELSE f[m] < f[n]
    BY <1>7, <1>13, <2>2
  <2>5. QED
    BY <2>3, <2>4 DEF Comes, column, dir, times
<1>14. SortedRows \in Seq(Stubs) /\ Len(SortedRows) = L
  <2>1. SortedRows \in [DOMAIN F -> Stubs]
    BY <1>1, <1>4, <1>5, SortedFacts
  <2>2. SortedRows \in [1 .. L -> Stubs]
    BY <1>4, <2>1
  <2>3. QED
    BY <1>2, <2>2
<1>15. QED
  BY <1>2, <1>4, <1>8, <1>9, <1>10, <1>12, <1>13, <1>14 DEF L, F

LEMMA AnswerFields ==
  ASSUME NEW q, q.filters = request.filters, q.column = request.column,
         q.dir = request.dir, q.pageSize = request.pageSize
  PROVE  LET at == Paginate(q.page, request.pageSize, Len(SortedRows))
         IN  /\ Answer(q).rows = PageOf(SortedRows, at)
             /\ Answer(q).page = at.page /\ Answer(q).pageSize = at.pageSize
             /\ Answer(q).totalPages = at.totalPages
             /\ Answer(q).totalItems =
                  Len(Filtered(stubs, request.filters, Addresses))
             /\ Answer(q).groups =
                  GroupByVersion(stubs, SubmitTimes(versions), Now)
  BY DEF Answer, Table, SortedRows

LEMMA Monotonic ==
  \A a, b, c \in Nat : a <= b => a * c <= b * c
<1> SUFFICES ASSUME NEW a \in Nat, NEW b \in Nat, NEW c \in Nat, a <= b
             PROVE  a * c <= b * c
  OBVIOUS
<1> DEFINE d == b - a
<1>1. d \in Nat /\ b = a + d
  OBVIOUS
<1> HIDE DEF d
<1>2. b * c = a * c + d * c
  BY <1>1
<1>3. d * c \in Nat /\ a * c \in Nat
  BY <1>1
<1>4. QED
  BY <1>2, <1>3

LEMMA OffsetFits ==
  ASSUME NEW size \in Nat, NEW pages \in Nat \ {0}, NEW L \in Nat,
         L # 0 => (pages - 1) * size < L, L = 0 => pages = 1,
         NEW p \in 1 .. pages
  PROVE  (p - 1) * size <= L
<1>1. (p - 1) * size <= (pages - 1) * size
  <2>1. p - 1 \in Nat /\ pages - 1 \in Nat /\ p - 1 <= pages - 1
    OBVIOUS
  <2>2. QED
    BY <2>1, Monotonic
<1>2. CASE L = 0
  <2>1. p - 1 = 0
    BY <1>2
  <2>2. QED
    BY <1>2, <2>1
<1>3. CASE L # 0
  <2> DEFINE x == (p - 1) * size
             y == (pages - 1) * size
  <2>1. x \in Int /\ y \in Int /\ x <= y /\ y < L
    BY <1>1, <1>3
  <2> HIDE DEF x, y
  <2>2. x <= L
    BY <2>1
  <2>3. QED
    BY <2>2 DEF x
<1>4. QED
  BY <1>2, <1>3

Paged(size, pages) ==
  LET L == Cardinality(Kept)
  IN  /\ answer.pageSize = size /\ answer.totalPages = pages
      /\ answer.totalItems = L /\ answer.page \in 1 .. pages
      /\ answer.rows = Pages[answer.page]
      /\ L <= pages * size
      /\ L # 0 => (pages - 1) * size < L
      /\ L = 0 => pages = 1
      /\ DOMAIN Pages = 1 .. pages
      /\ \A p \in 1 .. pages :
           Pages[p] \in Seq(Stubs) /\ IsPage(Pages[p], SortedRows, size, p)

LEMMA PagesFacts ==
  ASSUME TypeInv
  PROVE  \E size \in Nat \ {0}, pages \in Nat \ {0} : Paged(size, pages)
<1> DEFINE L == Cardinality(Kept)
           Turn(p) == [request EXCEPT !.page = p]
           At(page) == Paginate(page, request.pageSize, L)
<1>1. /\ L \in Nat
      /\ Len(Filtered(stubs, request.filters, Addresses)) = L
      /\ SortedRows \in Seq(Stubs) /\ Len(SortedRows) = L
  BY SortedRowsFacts
<1> HIDE DEF L
<1>2. /\ DOMAIN request = {"filters", "column", "dir", "page", "pageSize"}
      /\ request.page \in Int /\ request.pageSize \in Int
  BY RequestFacts DEF TypeInv
<1>3. PICK size \in 1 .. MaxPageSize, pages \in Nat \ {0} :
        Pagination(size, pages, request.pageSize, L)
  BY <1>1, <1>2, PaginateFacts
<1>4. /\ L <= pages * size
      /\ L # 0 => (pages - 1) * size < L
      /\ L = 0 => pages = 1
      /\ \A page \in Int :
           /\ At(page).pageSize = size /\ At(page).totalPages = pages
           /\ At(page).page \in 1 .. pages
           /\ page \in 1 .. pages => At(page).page = page
           /\ At(page).offset = (At(page).page - 1) * size
  BY <1>3 DEF Pagination
<1>5. ASSUME NEW q, q.filters = request.filters, q.column = request.column,
             q.dir = request.dir, q.pageSize = request.pageSize
      PROVE  /\ Answer(q).rows = PageOf(SortedRows, At(q.page))
             /\ Answer(q).page = At(q.page).page
             /\ Answer(q).pageSize = At(q.page).pageSize
             /\ Answer(q).totalPages = At(q.page).totalPages
             /\ Answer(q).totalItems = L
  BY <1>1, <1>5, AnswerFields
<1> HIDE DEF At
<1>6. size \in Nat \ {0}
  BY AllocationsAssumption
<1>7. /\ answer.rows = PageOf(SortedRows, At(request.page))
      /\ answer.page = At(request.page).page
      /\ answer.pageSize = size /\ answer.totalPages = pages
      /\ answer.totalItems = L
  BY <1>2, <1>4, <1>5 DEF TypeInv
<1>8. ASSUME NEW p \in 1 .. pages
      PROVE  Answer(Turn(p)).rows = PageOf(SortedRows, At(p))
  <2>1. /\ Turn(p).filters = request.filters /\ Turn(p).column = request.column
        /\ Turn(p).dir = request.dir /\ Turn(p).pageSize = request.pageSize
        /\ Turn(p).page = p
    BY <1>2
  <2> HIDE DEF Turn
  <2>2. QED
    BY <1>5, <2>1
<1>9. /\ DOMAIN Pages = 1 .. pages
      /\ \A p \in 1 .. pages : Pages[p] = PageOf(SortedRows, At(p))
  BY <1>7, <1>8 DEF Pages
<1>10. ASSUME NEW p \in 1 .. pages
      PROVE  Pages[p] \in Seq(Stubs) /\ IsPage(Pages[p], SortedRows, size, p)
  <2>1. At(p).offset = (p - 1) * size /\ At(p).pageSize = size
    BY <1>4
  <2>2. (p - 1) * size <= L
    BY <1>1, <1>4, <1>6, OffsetFits
  <2>3. p \in Nat \ {0}
    OBVIOUS
  <2> HIDE DEF At
  <2>4. QED
    BY <1>1, <1>6, <1>9, <2>1, <2>2, <2>3, PageOfFacts
<1>11. answer.page \in 1 .. pages /\ answer.rows = Pages[answer.page]
  <2>1. answer.page \in 1 .. pages
    BY <1>2, <1>4, <1>7
  <2>2. At(request.page) = At(answer.page)
    <3>1. Paginate(request.page, request.pageSize, L)
            = Paginate(answer.page, request.pageSize, L)
      <4> DEFINE a == At(request.page)
                 b == At(answer.page)
      <4>1. a = [page |-> a.page, pageSize |-> a.pageSize,
                 totalPages |-> a.totalPages, offset |-> a.offset]
        BY DEF At, Paginate
      <4>2. b = [page |-> b.page, pageSize |-> b.pageSize,
                 totalPages |-> b.totalPages, offset |-> b.offset]
        BY DEF At, Paginate
      <4>3. a.page = b.page
        BY <1>4, <1>7, <2>1
      <4>4. /\ a.pageSize = b.pageSize /\ a.totalPages = b.totalPages
            /\ a.offset = b.offset
        BY <1>2, <1>4, <2>1, <4>3
      <4> HIDE DEF a, b
      <4>5. a = b
        BY <4>1, <4>2, <4>3, <4>4
      <4>6. QED
        BY <4>5 DEF a, b, At
    <3>2. QED
      BY <3>1 DEF At
  <2>3. QED
    BY <1>7, <1>9, <2>1, <2>2
<1>12. Paged(size, pages)
  BY <1>4, <1>7, <1>9, <1>10, <1>11 DEF Paged, L
<1>13. QED
  BY <1>6, <1>12

LEMMA PlacesFacts ==
  \A pages, x : x \in Places(pages) <=>
    \E p \in DOMAIN pages : \E i \in DOMAIN pages[p] : x = <<p, i>>
  BY DEF Places

-----------------------------------------------------------------------------
(* Paging. *)

(* The place of the n-th row, and the row of a place.                      *)
LEMMA PlaceOfRow ==
  ASSUME TypeInv, NEW size \in Nat \ {0}, NEW pages \in Nat \ {0},
         Paged(size, pages)
  PROVE  LET L == Cardinality(Kept)
         IN  /\ \A x \in Places(Pages) :
                  /\ x[1] \in 1 .. pages /\ x[2] \in 1 .. size
                  /\ x = <<x[1], x[2]>>
                  /\ Nth(size, x[1], x[2]) \in 1 .. L
                  /\ Pages[x[1]][x[2]] = SortedRows[Nth(size, x[1], x[2])]
             /\ \A n \in 1 .. L : \E x \in Places(Pages) :
                  n = Nth(size, x[1], x[2])
<1> DEFINE L == Cardinality(Kept)
<1>1. /\ DOMAIN Pages = 1 .. pages /\ L <= pages * size
      /\ \A p \in 1 .. pages :
           /\ DOMAIN Pages[p] = {i \in 1 .. size : Nth(size, p, i) <= L}
           /\ \A i \in DOMAIN Pages[p] :
                Pages[p][i] = SortedRows[Nth(size, p, i)]
  BY SortedRowsFacts DEF Paged, IsPage
<1>2. L \in Nat
  BY SortedRowsFacts
<1> HIDE DEF L
<1>3. ASSUME NEW x \in Places(Pages)
      PROVE  /\ x[1] \in 1 .. pages /\ x[2] \in 1 .. size
             /\ x = <<x[1], x[2]>>
             /\ Nth(size, x[1], x[2]) \in 1 .. L
             /\ Pages[x[1]][x[2]] = SortedRows[Nth(size, x[1], x[2])]
  <2>1. PICK p \in DOMAIN Pages : \E i \in DOMAIN Pages[p] : x = <<p, i>>
    BY PlacesFacts
  <2>2. PICK i \in DOMAIN Pages[p] : x = <<p, i>>
    BY <2>1
  <2>3. p \in 1 .. pages /\ i \in 1 .. size /\ Nth(size, p, i) <= L
    BY <1>1
  <2>4. Nth(size, p, i) \in Nat \ {0}
    BY <2>3, NthFacts
  <2>5. QED
    BY <1>1, <1>2, <2>2, <2>3, <2>4
<1>4. ASSUME NEW n \in 1 .. L
      PROVE  \E x \in Places(Pages) : n = Nth(size, x[1], x[2])
  <2>1. n \in Nat \ {0} /\ n <= pages * size
    <3>1. pages * size \in Int
      OBVIOUS
    <3> DEFINE y == pages * size
    <3>2. y \in Int /\ L <= y
      BY <1>1, <3>1
    <3> HIDE DEF y
    <3>3. n \in Nat \ {0} /\ n <= y
      BY <1>2, <3>2
    <3>4. QED
      BY <3>3 DEF y
  <2>2. PICK p \in 1 .. pages : \E i \in 1 .. size : n = Nth(size, p, i)
    BY <2>1, EveryNth
  <2>3. PICK i \in 1 .. size : n = Nth(size, p, i)
    BY <2>2
  <2>4. i \in DOMAIN Pages[p] /\ p \in DOMAIN Pages
    BY <1>1, <1>2, <2>3
  <2>5. <<p, i>> \in Places(Pages)
    BY <2>4, PlacesFacts
  <2>6. QED
    BY <2>3, <2>5
<1>5. QED
  BY <1>3, <1>4 DEF L

LEMMA Partition == TypeInv => PagesPartition
<1> SUFFICES ASSUME TypeInv PROVE PagesPartition
  OBVIOUS
<1> DEFINE L == Cardinality(Kept)
           At(x) == Pages[x[1]][x[2]]
<1>1. PICK size \in Nat \ {0}, pages \in Nat \ {0} : Paged(size, pages)
  BY PagesFacts
<1>2. L \in Nat /\ Kept \subseteq DOMAIN stubs /\ stubs \in Seq(Stubs)
      /\ \A i, j \in DOMAIN stubs : stubs[i].id = stubs[j].id => i = j
  BY SortedRowsFacts, AllocationTableAssumption DEF TypeInv, Kept, KeptOf
<1>3. PICK h \in [1 .. L -> Kept] :
        /\ \A n \in 1 .. L : SortedRows[n] = stubs[h[n]]
        /\ \A i \in Kept : \E n \in 1 .. L : h[n] = i
        /\ \A m, n \in 1 .. L : h[m] = h[n] => m = n
  BY SortedRowsFacts
<1>4. /\ \A x \in Places(Pages) :
           /\ x[1] \in 1 .. pages /\ x[2] \in 1 .. size
           /\ x = <<x[1], x[2]>>
           /\ Nth(size, x[1], x[2]) \in 1 .. L
           /\ At(x) = SortedRows[Nth(size, x[1], x[2])]
      /\ \A n \in 1 .. L : \E x \in Places(Pages) : n = Nth(size, x[1], x[2])
  BY <1>1, PlaceOfRow
<1>5. /\ answer.pageSize = size /\ answer.totalPages = pages
      /\ answer.totalItems = L /\ answer.page \in 1 .. pages
      /\ answer.rows = Pages[answer.page]
      /\ L # 0 => (pages - 1) * size < L
      /\ L = 0 => pages = 1
      /\ \A p \in 1 .. pages :
           /\ DOMAIN Pages[p] = {i \in 1 .. size : Nth(size, p, i) <= L}
           /\ Nth(size, p, size) <= L => Len(Pages[p]) = size
  BY <1>1, SortedRowsFacts DEF Paged, IsPage
<1> HIDE DEF L, At
<1>6. {At(x) : x \in Places(Pages)}
        = {s \in ToSet(stubs) : Matches(s, request.filters, Addresses)}
  <2>1. ASSUME NEW x \in Places(Pages)
        PROVE  /\ At(x) \in ToSet(stubs)
               /\ Matches(At(x), request.filters, Addresses)
    <3>1. PICK n \in 1 .. L : At(x) = stubs[h[n]]
      BY <1>3, <1>4
    <3>2. h[n] \in Kept
      BY <1>3
    <3>3. QED
      BY <1>2, <3>1, <3>2 DEF ToSet, Kept, KeptOf
  <2>2. ASSUME NEW s \in ToSet(stubs), Matches(s, request.filters, Addresses)
        PROVE  \E x \in Places(Pages) : At(x) = s
    <3>1. PICK i \in DOMAIN stubs : s = stubs[i]
      BY DEF ToSet
    <3>2. i \in Kept
      BY <2>2, <3>1 DEF Kept, KeptOf
    <3>3. PICK n \in 1 .. L : h[n] = i
      BY <1>3, <3>2
    <3>4. PICK x \in Places(Pages) : n = Nth(size, x[1], x[2])
      BY <1>4
    <3>5. QED
      BY <1>3, <1>4, <3>1, <3>3, <3>4
  <2>3. QED
    BY <2>1, <2>2
<1>7. ASSUME NEW x \in Places(Pages), NEW y \in Places(Pages),
             At(x).id = At(y).id
      PROVE  x = y
  <2> DEFINE m == Nth(size, x[1], x[2])
             n == Nth(size, y[1], y[2])
  <2>1. m \in 1 .. L /\ n \in 1 .. L /\ At(x) = stubs[h[m]] /\ At(y) = stubs[h[n]]
    BY <1>3, <1>4
  <2>2. h[m] \in DOMAIN stubs /\ h[n] \in DOMAIN stubs
    BY <1>2, <1>3, <2>1
  <2>3. m = n
    BY <1>2, <1>3, <1>7, <2>1, <2>2
  <2>4. /\ x[1] \in Nat \ {0} /\ y[1] \in Nat \ {0}
        /\ x[2] \in 1 .. size /\ y[2] \in 1 .. size
    BY <1>4
  <2>5. x[1] = y[1] /\ x[2] = y[2]
    <3>1. \A p, q \in Nat \ {0}, i, j \in 1 .. size :
            Nth(size, p, i) = Nth(size, q, j) => p = q /\ i = j
      BY NthFacts
    <3>2. Nth(size, x[1], x[2]) = Nth(size, y[1], y[2])
      BY <2>3
    <3>3. QED
      BY <2>4, <3>1, <3>2
  <2>6. QED
    BY <1>4, <2>5
<1>8. ASSUME NEW p \in 1 .. pages - 1 PROVE Len(Pages[p]) = size
  <2>1. L # 0
    BY <1>5
  <2>2. Nth(size, p, size) = p * size
    BY DEF Nth
  <2>3. p * size <= (pages - 1) * size
    <3>1. p \in Nat /\ pages - 1 \in Nat /\ p <= pages - 1
      OBVIOUS
    <3>2. QED
      BY <3>1, Monotonic
  <2> DEFINE a == p * size
             b == (pages - 1) * size
  <2>4. a \in Int /\ b \in Int /\ a <= b /\ b < L
    BY <1>5, <2>1, <2>3
  <2> HIDE DEF a, b
  <2>5. a <= L
    BY <1>2, <2>4
  <2>6. p \in 1 .. pages
    OBVIOUS
  <2>7. QED
    BY <1>5, <2>2, <2>5, <2>6 DEF a
<1>9. answer.rows = << >> => answer.totalItems = 0
  <2> SUFFICES ASSUME L # 0 PROVE answer.rows # << >>
    BY <1>5
  <2> DEFINE p == answer.page
  <2>1. Nth(size, p, 1) <= L
    <3>1. (p - 1) * size <= (pages - 1) * size
      <4>1. p - 1 \in Nat /\ pages - 1 \in Nat /\ p - 1 <= pages - 1
        BY <1>5
      <4>2. QED
        BY <4>1, Monotonic
    <3> DEFINE a == (p - 1) * size
               b == (pages - 1) * size
    <3>2. a \in Int /\ b \in Int /\ a <= b /\ b < L
      BY <1>5, <3>1
    <3>3. Nth(size, p, 1) = a + 1
      BY DEF Nth
    <3> HIDE DEF a, b
    <3>4. QED
      BY <1>2, <3>2, <3>3
  <2>2. p \in 1 .. pages /\ answer.rows = Pages[p]
    BY <1>5
  <2>3. DOMAIN Pages[p] = {i \in 1 .. size : Nth(size, p, i) <= L}
    BY <1>5, <2>2
  <2>4. 1 \in 1 .. size
    OBVIOUS
  <2>5. 1 \in DOMAIN Pages[p]
    BY ONLY <2>1, <2>3, <2>4
  <2>6. QED
    BY <2>2, <2>5
<1>10. QED
  BY <1>5, <1>6, <1>7, <1>8, <1>9 DEF PagesPartition, At

(* handleJobStatus and paginate: turning the pages of a query one by one   *)
(* shows every allocation that matches its filters exactly once, with any  *)
(* number of allocations, any page size, sort and filters; and a page past *)
(* the end, or before the first, is answered by one of them.               *)
THEOREM SpecPagesPartition == TSpec => []PagesPartition
  BY Partition, SpecTypeInv, PTL

-----------------------------------------------------------------------------
(* Sorting. *)

LEMMA Stable == TypeInv => SortIsStable
<1> SUFFICES ASSUME TypeInv PROVE SortIsStable
  OBVIOUS
<1> DEFINE L == Cardinality(Kept)
           At(x) == Pages[x[1]][x[2]]
           Below(s, t) == Less(request.column, SubmitTimes(versions), s, t)
           active == /\ request.column \in SortColumns
                     /\ request.dir \in {"asc", "desc"}
           Tied(s, t) == ~active \/ (~Below(s, t) /\ ~Below(t, s))
<1>1. PICK size \in Nat \ {0}, pages \in Nat \ {0} : Paged(size, pages)
  BY PagesFacts
<1>2. /\ Kept \subseteq DOMAIN stubs /\ stubs \in Seq(Stubs)
      /\ \A i, j \in DOMAIN stubs : stubs[i].id = stubs[j].id => i = j
  BY AllocationTableAssumption DEF TypeInv, Kept, KeptOf
<1>3. PICK h \in [1 .. L -> Kept] :
        /\ \A n \in 1 .. L : SortedRows[n] = stubs[h[n]]
        /\ \A m, n \in 1 .. L : m < n => Comes(h[m], h[n])
  BY SortedRowsFacts
<1>4. \A x \in Places(Pages) :
        /\ x[1] \in 1 .. pages /\ x[2] \in 1 .. size
        /\ Nth(size, x[1], x[2]) \in 1 .. L
        /\ At(x) = SortedRows[Nth(size, x[1], x[2])]
  BY <1>1, PlaceOfRow
<1>5. \A i \in DOMAIN stubs : Position(stubs[i]) = i
  <2> SUFFICES ASSUME NEW i \in DOMAIN stubs PROVE Position(stubs[i]) = i
    OBVIOUS
  <2>1. \A j \in DOMAIN stubs : stubs[j] = stubs[i] => j = i
    BY <1>2
  <2>2. QED
    BY <2>1 DEF Position
<1> HIDE DEF L, At, Tied
<1>6. ASSUME NEW x \in Places(Pages), NEW y \in Places(Pages),
             x[1] < y[1] \/ (x[1] = y[1] /\ x[2] < y[2])
      PROVE  IF Tied(At(x), At(y)) THEN Position(At(x)) < Position(At(y))
             ELSE IF request.dir = "asc" THEN Below(At(x), At(y))
                                         ELSE Below(At(y), At(x))
  <2> DEFINE i == h[Nth(size, x[1], x[2])]
             j == h[Nth(size, y[1], y[2])]
  <2>1. Nth(size, x[1], x[2]) < Nth(size, y[1], y[2])
    <3>1. \A p, q \in Nat \ {0}, a, b \in 1 .. size :
            p < q \/ (p = q /\ a < b) => Nth(size, p, a) < Nth(size, q, b)
      BY NthFacts
    <3>2. /\ x[1] \in Nat \ {0} /\ y[1] \in Nat \ {0}
          /\ x[2] \in 1 .. size /\ y[2] \in 1 .. size
      BY <1>4
    <3>3. QED
      BY <1>6, <3>1, <3>2
  <2>2. Comes(i, j)
    BY <1>3, <1>4, <2>1
  <2>3. /\ At(x) = stubs[i] /\ At(y) = stubs[j]
        /\ i \in DOMAIN stubs /\ j \in DOMAIN stubs
    BY <1>2, <1>3, <1>4, SMTT(30)
  <2> HIDE DEF i, j
  <2>4. Position(At(x)) = i /\ Position(At(y)) = j
    BY <1>5, <2>3
  <2>5. active <=> Active(request.column, request.dir)
    BY DEF Active
  <2>6. CASE ~active
    BY <2>2, <2>4, <2>5, <2>6 DEF Comes, Tied
  <2>7. CASE active /\ request.dir = "asc"
    <3>1. \/ Below(At(x), At(y))
          \/ ~Below(At(y), At(x)) /\ i < j
      BY <2>2, <2>3, <2>5, <2>7 DEF Comes, Before
    <3>2. QED
      BY <2>4, <2>7, <3>1 DEF Tied
  <2>8. CASE active /\ request.dir = "desc"
    <3>1. \/ Below(At(y), At(x))
          \/ ~Below(At(x), At(y)) /\ i < j
      BY <2>2, <2>3, <2>5, <2>8 DEF Comes, Before
    <3>2. request.dir # "asc"
      BY <2>8
    <3>3. QED
      BY <2>4, <2>8, <3>1, <3>2 DEF Tied
  <2>9. QED
    BY <2>6, <2>7, <2>8
<1>7. QED
  BY <1>6 DEF SortIsStable, At, Tied

(* sortAllocationStubs: in every column and both directions, on every page *)
(* and across pages, the rows follow the column, and rows that it does not *)
(* tell apart keep the order of Nomad's list.                              *)
THEOREM SpecSortIsStable == TSpec => []SortIsStable
  BY Stable, SpecTypeInv, PTL

-----------------------------------------------------------------------------

(* Not to come later is to show no less time since.                        *)
LEMMA ShownInOrder ==
  ASSUME NEW times, TimesOK(times), NEW v, NEW w, ~Later(times, w, v)
  PROVE  LastModifiedSeconds(times, v, Now) <= LastModifiedSeconds(times, w, Now)
<1>1. Now \in Nat /\ MaxSeconds \in Nat /\ Now <= MaxSeconds * 2
  BY AllocationsAssumption, AllocationTableAssumption DEF TicksPerSecond
<1>2. ASSUME NEW t \in Nat PROVE (Now - t) \div 2 <= MaxSeconds
  BY <1>1
<1>3. ASSUME NEW t \in Nat, t <= Now PROVE (Now - t) \div 2 \in Nat
  BY <1>1, <1>3
<1>4. ASSUME NEW t \in Nat, NEW u \in Nat, t <= u, u <= Now
      PROVE  (Now - u) \div 2 <= (Now - t) \div 2
  BY <1>1, <1>4
<1>5. CASE w \notin DOMAIN times
  <2>1. LastModifiedSeconds(times, w, Now) = MaxSeconds
    BY <1>5 DEF LastModifiedSeconds
  <2>2. LastModifiedSeconds(times, v, Now) <= MaxSeconds
    BY <1>1, <1>2 DEF LastModifiedSeconds, TimesOK, TicksPerSecond
  <2>3. QED
    BY <2>1, <2>2
<1>6. CASE w \in DOMAIN times
  <2>1. v \in DOMAIN times /\ times[w] <= times[v]
    BY <1>6 DEF Later, TimesOK
  <2>2. times[v] \in Nat /\ times[w] \in Nat
    BY <1>6, <2>1 DEF TimesOK
  <2>3. CASE Now < times[v]
    <3>1. LastModifiedSeconds(times, v, Now) = 0
      BY <2>1, <2>3 DEF LastModifiedSeconds
    <3>2. LastModifiedSeconds(times, w, Now) >= 0
      BY <1>1, <1>3, <1>6, <2>2 DEF LastModifiedSeconds, TicksPerSecond
    <3>3. QED
      BY <3>1, <3>2
  <2>4. CASE ~(Now < times[v])
    <3>1. LastModifiedSeconds(times, v, Now) = (Now - times[v]) \div 2
      BY <2>1, <2>4 DEF LastModifiedSeconds, TicksPerSecond
    <3>2. LastModifiedSeconds(times, w, Now) = (Now - times[w]) \div 2
      BY <1>1, <1>6, <2>1, <2>2, <2>4 DEF LastModifiedSeconds, TicksPerSecond
    <3>3. times[v] <= Now
      BY <1>1, <2>2, <2>4
    <3>4. QED
      BY <1>4, <2>1, <2>2, <3>1, <3>2, <3>3
  <2>5. QED
    BY <2>3, <2>4
<1>7. QED
  BY <1>5, <1>6

LEMMA AsShown == TypeInv => LastModifiedAsShown
<1> DEFINE times == SubmitTimes(versions)
           shown == answer.rows
           Shown(n) == LastModifiedSeconds(times, shown[n].version, Now)
<1> SUFFICES ASSUME TypeInv, request.column = "lastModified",
                    NEW i \in DOMAIN shown, NEW j \in DOMAIN shown, i < j
             PROVE  CASE request.dir = "asc"  -> Shown(i) <= Shown(j)
                      [] request.dir = "desc" -> Shown(i) >= Shown(j)
                      [] OTHER -> TRUE
  BY DEF LastModifiedAsShown
<1>1. TimesOK(times) /\ stubs \in Seq(Stubs)
  <2>1. versions \in Seq(VersionRecords)
    BY AllocationTableAssumption DEF TypeInv, VersionRecords
  <2>2. QED
    BY <2>1, AllocationTableAssumption, SubmitTimesFacts DEF TypeInv
<1>2. PICK size \in Nat \ {0}, pages \in Nat \ {0} : Paged(size, pages)
  BY PagesFacts
<1> DEFINE L == Cardinality(Kept)
           p == answer.page
           m == Nth(size, p, i)
           n == Nth(size, p, j)
<1>3. /\ L \in Nat /\ p \in 1 .. pages /\ shown = Pages[p]
      /\ IsPage(Pages[p], SortedRows, size, p)
      /\ Len(SortedRows) = L
  BY <1>2, SortedRowsFacts DEF Paged
<1>4. /\ i \in 1 .. size /\ j \in 1 .. size /\ m <= L /\ n <= L
      /\ shown[i] = SortedRows[m] /\ shown[j] = SortedRows[n]
  BY <1>3 DEF IsPage
<1>5. m \in Nat \ {0} /\ n \in Nat \ {0} /\ m < n
  <2>1. \A q, r \in Nat \ {0}, a, b \in 1 .. size :
          /\ Nth(size, q, a) \in Nat \ {0}
          /\ q < r \/ (q = r /\ a < b) => Nth(size, q, a) < Nth(size, r, b)
    BY NthFacts
  <2>2. p \in Nat \ {0}
    BY <1>3
  <2>3. QED
    BY <1>4, <2>1, <2>2
<1> HIDE DEF m, n, L
<1>6. m \in 1 .. L /\ n \in 1 .. L
  BY <1>3, <1>4, <1>5
<1>7. PICK h \in [1 .. L -> Kept] :
        /\ \A a \in 1 .. L : SortedRows[a] = stubs[h[a]]
        /\ \A a, b \in 1 .. L : a < b => Comes(h[a], h[b])
  BY SortedRowsFacts DEF L
<1>8. /\ shown[i] = stubs[h[m]] /\ shown[j] = stubs[h[n]]
      /\ Comes(h[m], h[n])
      /\ h[m] \in DOMAIN stubs /\ h[n] \in DOMAIN stubs
  BY <1>4, <1>5, <1>6, <1>7 DEF Kept, KeptOf
<1> HIDE DEF shown, times
<1>9. shown[i] \in Stubs /\ shown[j] \in Stubs
  BY <1>1, <1>8
<1>10. request.column \in SortColumns
  BY DEF SortColumns
<1>11. \A s, t \in Stubs :
         Before(request.column, request.dir, times, s, t)
           => ~Before(request.column, request.dir, times, t, s)
  BY <1>1, <1>10, BeforeFacts
<1>12. ASSUME request.dir \in {"asc", "desc"}
       PROVE  ~Before(request.column, request.dir, times, shown[j], shown[i])
  BY <1>8, <1>9, <1>10, <1>11, <1>12 DEF Comes, Active, times
<1>13. CASE request.dir = "asc"
  <2>1. ~Later(times, shown[j].version, shown[i].version)
    BY <1>12, <1>13 DEF Before, Less
  <2>2. QED
    BY <1>1, <1>13, <2>1, ShownInOrder
<1>14. CASE request.dir = "desc"
  <2>1. ~Later(times, shown[i].version, shown[j].version)
    BY <1>12, <1>14 DEF Before, Less
  <2>2. Shown(j) <= Shown(i)
    BY <1>1, <2>1, ShownInOrder
  <2>3. Shown(i) \in Int /\ Shown(j) \in Int
    BY <1>1, AllocationsAssumption, AllocationTableAssumption
       DEF LastModifiedSeconds, TicksPerSecond, TimesOK
  <2>4. QED
    BY <1>14, <2>2, <2>3
<1>15. QED
  BY <1>13, <1>14

(* lastModifiedSeconds and the sort by it: the durations shown are in the  *)
(* order of the column, though what is compared are the submit times and   *)
(* what is shown is truncated to seconds, 0 for a time in the future and   *)
(* the longest duration for a version of unknown time.                     *)
THEOREM SpecLastModifiedAsShown == TSpec => []LastModifiedAsShown
  BY AsShown, SpecTypeInv, PTL

-----------------------------------------------------------------------------
(* Counting. *)

LEMMA StubsVersioned == \A list \in Seq(Stubs) : Versioned(list)
<1> SUFFICES ASSUME NEW list \in Seq(Stubs) PROVE Versioned(list)
  OBVIOUS
<1>1. \A i \in DOMAIN list : list[i] \in Stubs
  OBVIOUS
<1>2. \A s \in ToSet(list) : s.version \in Nat
  <2>1. \A s \in Stubs : s.version \in Nat
    BY DEF Stubs
  <2>2. QED
    BY <1>1, <2>1 DEF ToSet
<1>3. QED
  BY <1>2 DEF Versioned

(* What a version and a status filter leave. *)
LEMMA KeptByGroup ==
  ASSUME NEW list \in Seq(Stubs), NEW v \in Nat, NEW status \in ClientStatuses
  PROVE  KeptOf(list, [NoFilter EXCEPT !.version = v, !.status = status],
                Addresses)
           = InGroup(list, v, status)
<1> DEFINE f == [NoFilter EXCEPT !.version = v, !.status = status]
<1>1. /\ f["search"] = AnyValue /\ f["taskGroup"] = AnyValue
      /\ f["node"] = AnyValue /\ f["desired"] = AnyValue
      /\ f["version"] = v /\ f["status"] = status
  BY DEF NoFilter
<1>2. v # AnyValue /\ status # AnyValue
  BY AllocationTableAssumption
<1> HIDE DEF f
<1>3. ASSUME NEW i \in DOMAIN list
      PROVE  Matches(list[i], f, Addresses)
               <=> list[i].version = v /\ list[i].status = status
  BY <1>1, <1>2 DEF Matches
<1>4. QED
  BY <1>3 DEF KeptOf, InGroup, f

LEMMA CountsAsFiltered == TypeInv => CountsMatchFilter
<1> SUFFICES ASSUME TypeInv, NEW n \in DOMAIN answer.groups,
                    NEW status \in ClientStatuses
             PROVE  answer.groups[n].counts[status]
                      = Answer([request EXCEPT !.filters =
                          [NoFilter EXCEPT
                             !.version = answer.groups[n].version,
                             !.status = status]]).totalItems
  BY DEF CountsMatchFilter
<1> DEFINE v == answer.groups[n].version
           f == [NoFilter EXCEPT !.version = v, !.status = status]
           q == [request EXCEPT !.filters = f]
<1>1. stubs \in Seq(Stubs)
  BY AllocationTableAssumption DEF TypeInv
<1>2. answer.groups = GroupByVersion(stubs, SubmitTimes(versions), Now)
  BY DEF TypeInv, Answer, Table
<1>3. v \in VersionsOf(stubs)
      /\ answer.groups[n].counts[status] = Cardinality(InGroup(stubs, v, status))
  BY <1>1, <1>2, StubsVersioned, GroupsFacts DEF Grouping
<1>4. v \in Nat
  BY <1>1, <1>3, StubsVersioned, VersionsOfFacts
<1>5. q.filters = f
  <2>1. "filters" \in DOMAIN request
    BY RequestFacts DEF TypeInv
  <2> HIDE DEF f
  <2>2. QED
    BY <2>1
<1>6. Answer(q).totalItems = Len(Filtered(stubs, f, Addresses))
  <2> HIDE DEF q, f
  <2>1. QED
    BY <1>5 DEF Answer, Table
<1>7. KeptOf(stubs, f, Addresses) = InGroup(stubs, v, status)
  BY <1>1, <1>4, KeptByGroup
<1> HIDE DEF f, v
<1>8. Len(Filtered(stubs, f, Addresses)) = Cardinality(KeptOf(stubs, f, Addresses))
  <2>1. /\ Cardinality(KeptOf(stubs, f, Addresses)) \in Nat
        /\ Filtered(stubs, f, Addresses)
             \in [1 .. Cardinality(KeptOf(stubs, f, Addresses)) -> Stubs]
    BY <1>1, FilteredFacts
  <2>2. QED
    BY <2>1
<1>9. QED
  BY <1>3, <1>6, <1>7, <1>8 DEF f, v, q

(* groupByVersion and filterAllocationStubs: each number a version group   *)
(* shows is the number of rows that its version and status filters leave,  *)
(* whatever was asked for.                                                 *)
THEOREM SpecCountsMatchFilter == TSpec => []CountsMatchFilter
  BY CountsAsFiltered, SpecTypeInv, PTL

-----------------------------------------------------------------------------
(* JobStatus: the inductive invariant. *)

(* No ID is above placed, so none that was collected can come back.        *)
ClusterInv ==
  /\ changes \in Nat /\ placed \in Nat /\ canary \in Nat
  /\ jobExists \in BOOLEAN
  /\ history \in Seq(VersionRecords)
  /\ jobExists => history # <<>>
  /\ listed \in Seq(Stubs)
  /\ \A i \in DOMAIN listed : listed[i].id <= placed

Gone(id) == id \in 0 .. placed /\ \A s \in ToSet(listed) : s.id # id

(* What the calls returned; unless the cluster changed since the request   *)
(* started, it is what the cluster is now.                                 *)
CallsInv ==
  /\ query \in Queries
  /\ startedAt \in Nat /\ startedAt <= changes
  /\ fetched \in [Calls -> {"none", "ok", "404", "502"}]
  /\ pc = "start" => \A c \in Calls : fetched[c] = "none"
  /\ pc \in {"nodes", "fanout"} => \A c \in Calls : fetched[c] = "ok"
  /\ \A c \in Calls : fetched[c] = "404" => ~jobExists
  /\ gotVersions \in Seq(VersionRecords)
  /\ gotStubs \in Seq(Stubs)
  /\ \A i \in DOMAIN gotStubs : gotStubs[i].id <= placed
  /\ now \in Nat

CallsAreCurrent ==
  changes = startedAt =>
    /\ fetched["versions"] = "ok" => gotVersions = history
    /\ fetched["allocations"] = "ok" => gotStubs = listed
    /\ fetched["deployments"] = "ok" => gotCanary = canary

(* The fan-out has not begun before the table is there. *)
Idle ==
  /\ running = {} /\ ~returned
  /\ \A i \in Slots : outcome[i] = "none" /\ fetchErr[i] = "none"

TheTable ==
  CanaryMarked(Table(gotStubs, SubmitTimes(gotVersions), NodeIPs, now, query),
               gotCanary)

RowsInv ==
  /\ table = TheTable
  /\ DOMAIN rows = Page
  /\ \A i \in Page : outcome[i] = "nil" => rows[i] = Row(i)

(* Callbacks run for rows of the page only; one whose error is "not found" *)
(* asked for an allocation that is gone.                                   *)
FanInv ==
  /\ outcome \in [Slots -> {"none", "nil", "error"}]
  /\ fetchErr \in [Slots -> {"none", "404", "502"}]
  /\ running \subseteq Slots
  /\ pc \in {"start", "fetching", "nodes"} => Idle
  /\ pc = "fanout" => RowsInv
  /\ pc = "fanout" /\ returned =>
       /\ running = {}
       /\ \A i \in Page : outcome[i] # "none"
       /\ errors \in Fan!SetToSeqs(Fan!Failed)
  /\ \A i \in Slots : fetchErr[i] = "404" => i \in Page /\ Gone(table.rows[i].id)

AnswerInv ==
  /\ pc \in {"start", "fetching", "nodes", "fanout", "done"}
  /\ pc # "done" => response = NoAnswer
  /\ Ok => /\ pc = "done"
           /\ \A c \in Calls : fetched[c] = "ok"
           /\ response = [status |-> 200, table |-> table, rows |-> rows]
           /\ table = TheTable
           /\ DOMAIN rows = Page
           /\ \A i \in Page : rows[i] = Row(i)
  /\ response.status = 404 =>
       \/ response.message = "profile" /\ ~profileKnown
       \/ response.message = "job" /\ ~jobExists
       \/ /\ response.message = "allocation"
          /\ \E i \in Page : Gone(table.rows[i].id)

JInv == ClusterInv /\ CallsInv /\ CallsAreCurrent /\ FanInv /\ AnswerInv

-----------------------------------------------------------------------------
(* The cluster: allocations that are gone stay away, and so does the job.  *)

LEMMA RemoveAtFacts ==
  ASSUME NEW T, NEW s \in Seq(T), NEW i \in DOMAIN s
  PROVE  /\ RemoveAt(s, i) \in Seq(T)
         /\ \A n \in DOMAIN RemoveAt(s, i) :
              \E m \in DOMAIN s : RemoveAt(s, i)[n] = s[m]
<1> DEFINE a == SubSeq(s, 1, i - 1)
           b == SubSeq(s, i + 1, Len(s))
           S == {s[m] : m \in DOMAIN s}
<1>1. i \in 1 .. Len(s) /\ Len(s) \in Nat /\ DOMAIN s = 1 .. Len(s)
  OBVIOUS
<1>2. \A m \in DOMAIN s : s[m] \in S /\ s[m] \in T
  OBVIOUS
<1> HIDE DEF S
<1>3. s \in Seq(S)
  BY <1>1, <1>2
<1>4. a \in Seq(S) /\ b \in Seq(S)
  BY <1>1, <1>3
<1>5. RemoveAt(s, i) = a \o b
  BY DEF RemoveAt
<1> HIDE DEF a, b
<1>6. RemoveAt(s, i) \in Seq(S)
  BY <1>4, <1>5
<1>7. \A n \in DOMAIN RemoveAt(s, i) : RemoveAt(s, i)[n] \in S
  BY <1>6
<1>8. S \subseteq T /\ \A x \in S : \E m \in DOMAIN s : x = s[m]
  BY <1>2 DEF S
<1>9. QED
  BY <1>6, <1>7, <1>8

ClusterMoves ==
  /\ ClusterInv'
  /\ changes' = changes + 1
  /\ jobExists' => jobExists
  /\ placed <= placed'
  /\ \A id : Gone(id) => Gone(id)'
  /\ UNCHANGED handlerVars

LEMMA ClusterStep == ClusterInv /\ Cluster => ClusterMoves
<1> SUFFICES ASSUME ClusterInv, Cluster PROVE ClusterMoves
  OBVIOUS
<1> USE DEF ClusterInv
<1>1. Clock \in Nat
  BY DEF Clock, TicksPerSecond
<1>2. ASSUME UNCHANGED <<listed, placed>>
      PROVE  \A id : Gone(id) => Gone(id)'
  BY <1>2 DEF Gone
<1>3. CASE Deploy
  <2>1. /\ history # <<>> /\ history \in Seq(VersionRecords)
    BY <1>3 DEF Deploy
  <2>2. Head(history) \in VersionRecords
    BY <2>1
  <2> DEFINE v == NewestVersion + 1
             new == [version |-> v, submitTime |-> Clock]
  <2>3. v \in Nat
    BY <2>2 DEF NewestVersion, VersionRecords
  <2>4. new \in VersionRecords
    BY <1>1, <2>3 DEF VersionRecords
  <2>5. history' = <<new>> \o history /\ canary' = v
    BY <1>3 DEF Deploy
  <2> HIDE DEF new, v
  <2>6. history' \in Seq(VersionRecords) /\ history' # <<>>
    BY <2>1, <2>4, <2>5
  <2>7. QED
    BY <1>2, <1>3, <2>3, <2>5, <2>6 DEF Deploy, Change, ClusterMoves
<1>4. CASE Promote
  BY <1>2, <1>4 DEF Promote, Change, ClusterMoves
<1>5. CASE Place
  <2>1. /\ history # <<>> /\ history \in Seq(VersionRecords)
    BY <1>5 DEF Place
  <2>2. Head(history) \in VersionRecords
    BY <2>1
  <2> DEFINE new == Stub(placed + 1, NewestVersion)
  <2>3. new \in Stubs /\ new.id = placed + 1
    BY <2>2 DEF NewestVersion, VersionRecords, Stub, Stubs
  <2>4. listed' = <<new>> \o listed /\ placed' = placed + 1
    BY <1>5 DEF Place
  <2> HIDE DEF new
  <2>5. listed' \in Seq(Stubs)
    BY <2>3, <2>4
  <2>6. \A i \in DOMAIN listed' :
          listed'[i] = new \/ \E j \in DOMAIN listed : listed'[i] = listed[j]
    <3>1. Len(listed') = 1 + Len(listed) /\ Len(listed) \in Nat
      BY <2>4
    <3>2. \A i \in 1 .. 1 + Len(listed) :
            listed'[i] = IF i = 1 THEN new ELSE listed[i - 1]
      BY <2>4
    <3>3. DOMAIN listed' = 1 .. 1 + Len(listed) /\ DOMAIN listed = 1 .. Len(listed)
      BY <2>5, <3>1
    <3>4. \A i \in DOMAIN listed' : i = 1 \/ i - 1 \in DOMAIN listed
      BY <3>1, <3>3
    <3>5. QED
      BY <3>2, <3>3, <3>4
  <2>7. \A i \in DOMAIN listed' : listed'[i].id <= placed'
    <3>1. \A j \in DOMAIN listed : listed[j].id <= placed /\ listed[j].id \in Nat
      <4>1. \A j \in DOMAIN listed : listed[j] \in Stubs
        OBVIOUS
      <4>2. QED
        BY <4>1 DEF Stubs
    <3>2. QED
      BY <2>3, <2>4, <2>6, <3>1
  <2>8. ASSUME NEW id, Gone(id) PROVE Gone(id)'
    BY <2>3, <2>4, <2>6, <2>8 DEF Gone, ToSet
  <2>9. QED
    BY <1>5, <2>4, <2>5, <2>7, <2>8 DEF Place, Change, ClusterMoves
<1>6. CASE CollectAllocation
  <2>1. PICK i \in DOMAIN listed : listed' = RemoveAt(listed, i)
    BY <1>6 DEF CollectAllocation
  <2>2. /\ listed' \in Seq(Stubs)
        /\ \A n \in DOMAIN listed' :
             \E m \in DOMAIN listed : listed'[n] = listed[m]
    BY <2>1, RemoveAtFacts
  <2>3. \A n \in DOMAIN listed' : listed'[n].id <= placed
    BY <2>2
  <2>4. ASSUME NEW id, Gone(id), placed' = placed PROVE Gone(id)'
    BY <2>2, <2>4 DEF Gone, ToSet
  <2>5. QED
    BY <1>6, <2>2, <2>3, <2>4 DEF CollectAllocation, Change, ClusterMoves
<1>7. CASE ForgetVersion
  <2>1. history' = SubSeq(history, 1, Len(history) - 1) /\ Len(history) > 1
    BY <1>7 DEF ForgetVersion, Front
  <2>2. history' \in Seq(VersionRecords) /\ Len(history') = Len(history) - 1
    BY <2>1
  <2>3. history' # <<>>
    <3>1. Len(history) \in Nat /\ Len(<<>>) = 0
      OBVIOUS
    <3>2. Len(history') # 0
      BY <2>1, <2>2, <3>1
    <3>3. QED
      BY <3>1, <3>2
  <2>4. QED
    BY <1>2, <1>7, <2>2, <2>3 DEF ForgetVersion, Change, ClusterMoves
<1>8. CASE Purge
  <2>1. <<>> \in Seq(VersionRecords)
    OBVIOUS
  <2>2. /\ history' = <<>> /\ jobExists' = FALSE /\ canary' = 0
        /\ UNCHANGED <<listed, placed>> /\ changes' = changes + 1
        /\ UNCHANGED handlerVars
    BY <1>8 DEF Purge, Change
  <2>3. \A id : Gone(id) => Gone(id)'
    BY <1>2, <2>2
  <2>4. ClusterInv'
    <3>1. history' \in Seq(VersionRecords)
      BY <2>1, <2>2
    <3>2. /\ changes' \in Nat /\ placed' \in Nat /\ canary' \in Nat
          /\ jobExists' = FALSE
      BY <2>2
    <3>3. listed' = listed /\ placed' = placed
      BY <2>2
    <3>4. listed' \in Seq(Stubs) /\ \A i \in DOMAIN listed' : listed'[i].id <= placed'
      BY <3>3
    <3>5. QED
      BY <3>1, <3>2, <3>4
  <2>5. QED
    BY <2>2, <2>3, <2>4 DEF ClusterMoves
<1>9. QED
  BY <1>3, <1>4, <1>5, <1>6, <1>7, <1>8 DEF Cluster

-----------------------------------------------------------------------------
(* The table: its rows are allocations of the list, and the version group  *)
(* of a row says what the row will say.                                    *)

IsTable(t, list, times, time, current) ==
  /\ t.rows \in Seq(Stubs)
  /\ DOMAIN t.rows \subseteq Slots
  /\ \A i \in DOMAIN t.rows : \E j \in DOMAIN list : t.rows[i] = list[j]
  /\ \A i \in DOMAIN t.rows : \E g \in DOMAIN t.groups :
       /\ t.groups[g].version = t.rows[i].version
       /\ t.groups[g].lastModified
            = LastModifiedSeconds(times, t.rows[i].version, time)
       /\ t.groups[g].canary = IsCanary(t.rows[i].version, current)

LEMMA RowsOfTable ==
  ASSUME NEW list \in Seq(Stubs), NEW times, TimesOK(times), NEW nodeIPs,
         NEW time, NEW q, q.page \in Int, q.pageSize \in Int
  PROVE  LET rws == Table(list, times, nodeIPs, time, q).rows
         IN  /\ rws \in Seq(Stubs)
             /\ DOMAIN rws \subseteq Slots
             /\ \A i \in DOMAIN rws : \E j \in DOMAIN list : rws[i] = list[j]
<1> DEFINE F == Filtered(list, q.filters, nodeIPs)
           R == Sorted(F, q.column, q.dir, times)
           at == Paginate(q.page, q.pageSize, Len(R))
           rws == PageOf(R, at)
           k == Cardinality(KeptOf(list, q.filters, nodeIPs))
<1>1. Table(list, times, nodeIPs, time, q).rows = rws
  BY DEF Table
<1>2. /\ k \in Nat /\ F \in [1 .. k -> Stubs]
      /\ \A n \in 1 .. k : \E j \in DOMAIN list : F[n] = list[j]
  <2>1. PICK g : Filters(g, list, q.filters, nodeIPs)
    BY FilteredFacts
  <2>2. /\ k \in Nat /\ F \in [1 .. k -> Stubs]
        /\ KeptOf(list, q.filters, nodeIPs) \subseteq DOMAIN list
    BY FilteredFacts
  <2>3. \A n \in 1 .. k : /\ g[n] \in KeptOf(list, q.filters, nodeIPs)
                          /\ F[n] = list[g[n]]
    BY <2>1 DEF Filters
  <2>4. QED
    BY <2>2, <2>3
<1> HIDE DEF F, k
<1>3. F \in Seq(Stubs) /\ DOMAIN F = 1 .. k
  BY <1>2
<1>4. /\ R \in [1 .. k -> Stubs]
      /\ \A n \in 1 .. k : \E m \in 1 .. k : R[n] = F[m]
  <2>1. R \in [DOMAIN F -> Stubs]
    BY <1>3, SortedFacts
  <2>2. PICK g : Sorts(g, F, q.column, q.dir, times)
    BY <1>3, SortedFacts
  <2>3. QED
    BY <1>3, <2>1, <2>2 DEF Sorts
<1> HIDE DEF R
<1>5. R \in Seq(Stubs) /\ Len(R) = k /\ DOMAIN R = 1 .. k
  BY <1>2, <1>4
<1>6. PICK size \in 1 .. MaxPageSize, pages \in Nat \ {0} :
        Pagination(size, pages, q.pageSize, k)
  BY <1>2, PaginateFacts
<1>7. /\ at.pageSize = size /\ at.page \in 1 .. pages
      /\ at.offset = (at.page - 1) * size
      /\ k # 0 => (pages - 1) * size < k
      /\ k = 0 => pages = 1
  BY <1>5, <1>6 DEF Pagination
<1> HIDE DEF at
<1>8. size \in Nat \ {0} /\ at.page \in Nat \ {0}
  BY <1>7, AllocationsAssumption
<1>9. (at.page - 1) * size <= Len(R)
  BY <1>2, <1>5, <1>7, <1>8, OffsetFits
<1>10. rws \in Seq(Stubs) /\ IsPage(rws, R, size, at.page)
  BY <1>5, <1>7, <1>8, <1>9, PageOfFacts
<1> HIDE DEF rws
<1>11. ASSUME NEW i \in DOMAIN rws
       PROVE  i \in 1 .. size /\ \E n \in 1 .. k : rws[i] = R[n]
  <2>1. /\ i \in 1 .. size /\ Nth(size, at.page, i) <= k
        /\ rws[i] = R[Nth(size, at.page, i)]
    BY <1>5, <1>10 DEF IsPage
  <2>2. Nth(size, at.page, i) \in Nat \ {0}
    BY <1>8, <2>1, NthFacts
  <2>3. Nth(size, at.page, i) \in 1 .. k
    BY <1>2, <2>1, <2>2
  <2>4. QED
    BY <2>1, <2>3
<1>12. \A i \in DOMAIN rws : i \in Slots
  BY <1>6, <1>11, AllocationsAssumption DEF Slots
<1>13. ASSUME NEW i \in DOMAIN rws
       PROVE  \E j \in DOMAIN list : rws[i] = list[j]
  BY <1>2, <1>4, <1>11
<1>14. QED
  BY <1>1, <1>10, <1>12, <1>13

LEMMA TableFacts ==
  ASSUME NEW list \in Seq(Stubs), NEW times, TimesOK(times), NEW nodeIPs,
         NEW time, NEW q, q.page \in Int, q.pageSize \in Int, NEW current
  PROVE  IsTable(CanaryMarked(Table(list, times, nodeIPs, time, q), current),
                 list, times, time, current)
<1> DEFINE t == Table(list, times, nodeIPs, time, q)
           m == CanaryMarked(t, current)
           groups == GroupByVersion(list, times, time)
<1>1. t.groups = groups
  BY DEF Table
<1>2. /\ m.rows = t.rows
      /\ m.groups = [n \in DOMAIN groups |->
           [version |-> groups[n].version,
            lastModified |-> groups[n].lastModified,
            counts |-> groups[n].counts,
            canary |-> IsCanary(groups[n].version, current)]]
  <2>1. "groups" \in DOMAIN t /\ "rows" \in DOMAIN t
    BY DEF Table
  <2> HIDE DEF t
  <2>2. QED
    BY <1>1, <2>1 DEF CanaryMarked
<1>3. /\ t.rows \in Seq(Stubs) /\ DOMAIN t.rows \subseteq Slots
      /\ \A i \in DOMAIN t.rows : \E j \in DOMAIN list : t.rows[i] = list[j]
  BY RowsOfTable
<1>4. Grouping(groups, list, times, time)
  BY StubsVersioned, GroupsFacts
<1> HIDE DEF m, t, groups
<1>5. DOMAIN m.groups = DOMAIN groups
      /\ \A n \in DOMAIN groups :
           /\ m.groups[n].version = groups[n].version
           /\ m.groups[n].lastModified = groups[n].lastModified
           /\ m.groups[n].canary = IsCanary(groups[n].version, current)
  BY <1>2
<1>6. ASSUME NEW i \in DOMAIN m.rows
      PROVE  \E g \in DOMAIN m.groups :
               /\ m.groups[g].version = m.rows[i].version
               /\ m.groups[g].lastModified
                    = LastModifiedSeconds(times, m.rows[i].version, time)
               /\ m.groups[g].canary = IsCanary(m.rows[i].version, current)
  <2>1. m.rows[i].version \in VersionsOf(list)
    BY <1>2, <1>3 DEF VersionsOf, ToSet
  <2>2. PICK g \in DOMAIN groups : groups[g].version = m.rows[i].version
    BY <1>4, <2>1 DEF Grouping
  <2>3. groups[g].lastModified
          = LastModifiedSeconds(times, groups[g].version, time)
    BY <1>4 DEF Grouping
  <2>4. QED
    BY <1>5, <2>2, <2>3
<1>7. QED
  BY <1>2, <1>3, <1>6 DEF IsTable, m, t

(* ListNodes is called for a search only: nothing else needs the nodes.    *)
LEMMA NodesOnlyForSearch ==
  ASSUME NEW list, NEW times, NEW time, NEW q, NEW a, NEW b,
         q.filters.search = AnyValue
  PROVE  Table(list, times, a, time, q) = Table(list, times, b, time, q)
<1>1. ASSUME NEW i \in DOMAIN list
      PROVE  Matches(list[i], q.filters, a) <=> Matches(list[i], q.filters, b)
  BY DEF Matches
<1>2. KeptOf(list, q.filters, a) = KeptOf(list, q.filters, b)
  BY <1>1 DEF KeptOf
<1>3. Filtered(list, q.filters, a) = Filtered(list, q.filters, b)
  BY <1>2 DEF Filtered, KeptOf
<1>4. QED
  BY <1>3 DEF Table

(* The table of the answers, once all the calls have succeeded. *)
LEMMA TheTableFacts ==
  ASSUME CallsInv
  PROVE  /\ IsTable(TheTable, gotStubs, SubmitTimes(gotVersions), now, gotCanary)
         /\ \A i \in DOMAIN TheTable.rows :
              TheTable.rows[i].id \in 0 .. placed
<1>1. TimesOK(SubmitTimes(gotVersions))
  BY SubmitTimesFacts DEF CallsInv
<1>2. query.page \in Int /\ query.pageSize \in Int
  BY JobStatusAssumption DEF CallsInv
<1>3. gotStubs \in Seq(Stubs)
  BY DEF CallsInv
<1>4. IsTable(TheTable, gotStubs, SubmitTimes(gotVersions), now, gotCanary)
  BY <1>1, <1>2, <1>3, TableFacts DEF TheTable
<1>5. \A j \in DOMAIN gotStubs : gotStubs[j].id \in 0 .. placed
  <2>1. \A j \in DOMAIN gotStubs : gotStubs[j] \in Stubs
    BY <1>3
  <2>2. \A j \in DOMAIN gotStubs : gotStubs[j].id <= placed
    BY DEF CallsInv
  <2>3. QED
    BY <2>1, <2>2 DEF Stubs
<1>6. \A i \in DOMAIN TheTable.rows :
        \E j \in DOMAIN gotStubs : TheTable.rows[i] = gotStubs[j]
  BY <1>4 DEF IsTable
<1>7. QED
  BY <1>4, <1>5, <1>6

-----------------------------------------------------------------------------
(* The initial states. *)

LEMMA JobInit == JInit => JInv
<1> SUFFICES ASSUME JInit PROVE JInv
  OBVIOUS
<1> USE DEF JInit, NomadInit, HandlerInit, Fan!Init
<1>1. ClusterInv
  <2>1. history \in Seq(VersionRecords) /\ history # <<>>
    BY DEF VersionRecords
  <2>2. /\ listed \in Seq(Stubs)
        /\ \A i \in DOMAIN listed : listed[i].id <= placed
    <3>1. Stub(1, 1) \in Stubs /\ Stub(2, 1) \in Stubs
      BY DEF Stub, Stubs
    <3>2. Stub(1, 1).id = 1 /\ Stub(2, 1).id = 2
      BY DEF Stub
    <3> DEFINE a == Stub(1, 1)
               b == Stub(2, 1)
    <3>3. listed = <<a, b>> /\ placed = 2
      OBVIOUS
    <3> HIDE DEF a, b
    <3>4. QED
      BY <3>1, <3>2, <3>3 DEF a, b
  <2>3. QED
    BY <2>1, <2>2 DEF ClusterInv
<1>2. CallsInv
  <2>1. <<>> \in Seq(VersionRecords) /\ <<>> \in Seq(Stubs)
    OBVIOUS
  <2>2. QED
    BY <2>1 DEF CallsInv
<1>3. CallsAreCurrent
  BY DEF CallsAreCurrent, Calls
<1>4. FanInv
  BY DEF FanInv, Idle
<1>5. AnswerInv
  BY DEF AnswerInv, Ok, NoAnswer
<1>6. QED
  BY <1>1, <1>2, <1>3, <1>4, <1>5 DEF JInv

-----------------------------------------------------------------------------
(* The steps of others. *)

LEMMA RowsStay ==
  ASSUME UNCHANGED <<table, gotVersions, gotStubs, gotCanary, now, query>>
  PROVE  /\ TheTable' = TheTable
         /\ Page' = Page
         /\ \A i : Row(i)' = Row(i)
         /\ \A i : table.rows[i]' = table.rows[i]
<1>1. TheTable' = TheTable
  BY DEF TheTable
<1>2. Page' = Page
  BY DEF Page
<1>3. \A i : Row(i)' = Row(i)
  BY DEF Row
<1>4. QED
  BY <1>1, <1>2, <1>3

(* No step of the others, whatever the cluster does, touches the request.  *)
LEMMA OthersKeep ==
  ASSUME JInv, ClusterInv', jobExists' => jobExists, placed <= placed',
         startedAt <= changes',
         \A id : Gone(id) => Gone(id)',
         UNCHANGED <<pc, requestVars, gotVars, now, table, rows, fetchErr,
                     fanVars, response>>,
         CallsAreCurrent'
  PROVE  JInv'
<1> USE DEF JInv
<1>1. UNCHANGED <<pc, query, profileKnown, startedAt, fetched, gotVersions,
                  gotStubs, gotCanary, now, table, rows, fetchErr, running,
                  outcome, returned, errors, response>>
  BY DEF requestVars, gotVars, fanVars
<1>2. CallsInv'
  <2>1. \A i \in DOMAIN gotStubs' : gotStubs'[i].id <= placed'
    <3>1. \A i \in DOMAIN gotStubs : gotStubs[i] \in Stubs
      BY DEF CallsInv
    <3>2. \A i \in DOMAIN gotStubs :
            gotStubs[i].id \in Nat /\ gotStubs[i].id <= placed
      BY <3>1 DEF CallsInv, Stubs
    <3>3. QED
      BY <1>1, <3>2 DEF ClusterInv
  <2>2. QED
    BY <1>1, <2>1 DEF CallsInv
<1>3. /\ TheTable' = TheTable /\ Page' = Page
      /\ \A i : Row(i)' = Row(i)
      /\ \A i : table.rows[i]' = table.rows[i]
  BY <1>1, RowsStay
<1>4. FanInv'
  <2>1. Fan!Failed' = Fan!Failed
    BY <1>1 DEF Fan!Failed
  <2>2. pc' = "fanout" => RowsInv'
    BY <1>1, <1>3 DEF FanInv, RowsInv
  <2>3. pc' \in {"start", "fetching", "nodes"} => Idle'
    BY <1>1 DEF FanInv, Idle
  <2>4. \A i \in Slots : fetchErr'[i] = "404" =>
          i \in Page' /\ Gone(table.rows[i].id)'
    BY <1>1, <1>3 DEF FanInv
  <2>5. pc' = "fanout" /\ returned' =>
          /\ running' = {}
          /\ \A i \in Page' : outcome'[i] # "none"
          /\ errors' \in Fan!SetToSeqs(Fan!Failed')
    BY <1>1, <1>3, <2>1 DEF FanInv
  <2>6. QED
    BY <1>1, <2>2, <2>3, <2>4, <2>5 DEF FanInv
<1>5. AnswerInv'
  <2>1. (\E i \in Page : Gone(table.rows[i].id)) =>
          \E i \in Page' : Gone(table.rows[i].id)'
    BY <1>3
  <2>2. response'.status = 404 =>
          \/ response'.message = "profile" /\ ~profileKnown'
          \/ response'.message = "job" /\ ~jobExists'
          \/ /\ response'.message = "allocation"
             /\ \E i \in Page' : Gone(table.rows[i].id)'
    BY <1>1, <2>1 DEF AnswerInv
  <2>3. QED
    BY <1>1, <1>3, <2>2 DEF AnswerInv, Ok
<1>6. QED
  BY <1>2, <1>4, <1>5

LEMMA ClusterKeeps == JInv /\ Cluster => JInv'
<1> SUFFICES ASSUME JInv, Cluster PROVE JInv'
  OBVIOUS
<1>1. ClusterMoves
  BY ClusterStep DEF JInv
<1>2. /\ ClusterInv'
      /\ jobExists' => jobExists
      /\ placed <= placed'
      /\ \A id : Gone(id) => Gone(id)'
      /\ changes' = changes + 1
      /\ UNCHANGED <<pc, requestVars, gotVars, now, table, rows, fetchErr,
                     fanVars, response>>
  BY <1>1 DEF ClusterMoves, handlerVars
<1>3. changes' # startedAt' /\ startedAt <= changes'
  BY <1>2 DEF JInv, ClusterInv, CallsInv, requestVars
<1>4. CallsAreCurrent'
  BY <1>3 DEF CallsAreCurrent
<1>5. QED
  BY <1>1, <1>2, <1>3, <1>4, OthersKeep DEF ClusterMoves

LEMMA OtherRequestKeeps == JInv /\ OtherRequest => JInv'
<1> SUFFICES ASSUME JInv, OtherRequest PROVE JInv'
  OBVIOUS
<1>1. /\ UNCHANGED <<jobExists, history, listed, placed, canary, submitted,
                     changes>>
      /\ UNCHANGED <<pc, requestVars, gotVars, now, table, rows, fetchErr,
                     fanVars, response>>
  BY DEF OtherRequest, nomadVars
<1>2. /\ ClusterInv'
      /\ jobExists' => jobExists
      /\ placed <= placed'
      /\ startedAt <= changes'
  BY <1>1 DEF JInv, ClusterInv, CallsInv
<1>3. \A id : Gone(id) => Gone(id)'
  BY <1>1 DEF Gone
<1>4. CallsAreCurrent'
  BY <1>1 DEF JInv, CallsAreCurrent, gotVars, requestVars
<1>5. QED
  BY <1>1, <1>2, <1>3, <1>4, OthersKeep

-----------------------------------------------------------------------------
(* The handler, until the fan-out. *)

LEMMA SameCluster ==
  ASSUME ClusterInv, UNCHANGED nomadVars
  PROVE  /\ UNCHANGED <<jobExists, history, listed, placed, canary, changes>>
         /\ ClusterInv'
         /\ \A id : Gone(id)' <=> Gone(id)
<1>1. UNCHANGED <<jobExists, history, listed, placed, canary, changes>>
  BY DEF nomadVars
<1>2. QED
  BY <1>1 DEF ClusterInv, Gone

LEMMA RowsHaveSlots == CallsInv => DOMAIN TheTable.rows \subseteq Slots
  BY TheTableFacts DEF IsTable

LEMMA StillIdle ==
  ASSUME FanInv, CallsInv', pc \in {"start", "fetching", "nodes"},
         UNCHANGED <<fetchErr, fanVars>>,
         pc' = "fanout" => table' = TheTable' /\ DOMAIN rows' = Page'
  PROVE  FanInv'
<1>1. Idle /\ UNCHANGED <<fetchErr, running, outcome, returned, errors>>
  BY DEF FanInv, fanVars
<1>2. Idle'
  BY <1>1 DEF Idle
<1>3. pc' = "fanout" => RowsInv'
  <2>1. (DOMAIN TheTable.rows \subseteq Slots)'
    BY RowsHaveSlots, PTL
  <2>2. ASSUME pc' = "fanout", NEW i \in Page'
        PROVE  outcome'[i] # "nil"
    BY <1>1, <2>1, <2>2 DEF Idle, FanInv, Page
  <2>3. QED
    BY <2>2 DEF RowsInv
<1>4. QED
  BY <1>1, <1>2, <1>3 DEF FanInv, Idle

LEMMA NoAnswerYet ==
  ASSUME pc' \in {"start", "fetching", "nodes", "fanout"},
         response' = NoAnswer
  PROVE  AnswerInv'
BY DEF AnswerInv, Ok, NoAnswer

LEMMA UnknownProfileKeeps == JInv /\ UnknownProfile => JInv'
<1> SUFFICES ASSUME JInv, UnknownProfile PROVE JInv'
  OBVIOUS
<1> USE DEF JInv
<1>1. /\ pc = "start" /\ pc' = "done" /\ ~profileKnown
      /\ response' = NotFound("profile")
      /\ UNCHANGED nomadVars
      /\ UNCHANGED <<query, profileKnown, startedAt, fetched, gotVersions,
                     gotStubs, gotCanary, now, table, rows>>
      /\ UNCHANGED <<fetchErr, fanVars>>
  BY DEF UnknownProfile, Answered, requestVars, gotVars
<1>2. /\ UNCHANGED <<jobExists, history, listed, placed, canary, changes>>
      /\ ClusterInv'
  BY <1>1, SameCluster
<1>3. CallsInv'
  BY <1>1, <1>2 DEF CallsInv
<1>4. CallsAreCurrent'
  BY <1>1, <1>2 DEF CallsAreCurrent
<1>5. FanInv'
  BY <1>1, <1>3, StillIdle
<1>6. AnswerInv'
  BY <1>1 DEF AnswerInv, Ok, NotFound
<1>7. QED
  BY <1>2, <1>3, <1>4, <1>5, <1>6

LEMMA StartKeeps == JInv /\ Start => JInv'
<1> SUFFICES ASSUME JInv, Start PROVE JInv'
  OBVIOUS
<1> USE DEF JInv
<1>1. /\ pc = "start" /\ pc' = "fetching" /\ startedAt' = changes
      /\ UNCHANGED nomadVars
      /\ UNCHANGED <<query, profileKnown, fetched, gotVersions, gotStubs,
                     gotCanary, now, table, rows, response>>
      /\ UNCHANGED <<fetchErr, fanVars>>
  BY DEF Start, gotVars
<1>2. /\ UNCHANGED <<jobExists, history, listed, placed, canary, changes>>
      /\ ClusterInv'
  BY <1>1, SameCluster
<1>3. \A c \in Calls : fetched[c] = "none"
  BY <1>1 DEF CallsInv
<1>4. CallsInv'
  BY <1>1, <1>2 DEF CallsInv, ClusterInv
<1>5. CallsAreCurrent'
  BY <1>1, <1>3 DEF CallsAreCurrent, Calls
<1>6. FanInv'
  BY <1>1, <1>4, StillIdle
<1>7. AnswerInv'
  BY <1>1, NoAnswerYet DEF AnswerInv
<1>8. QED
  BY <1>2, <1>4, <1>5, <1>6, <1>7

LEMMA CallKeeps == ASSUME JInv, NEW c \in Calls, Call(c) PROVE JInv'
<1> USE DEF JInv
<1>1. /\ pc = "fetching" /\ pc' = "fetching" /\ fetched[c] = "none"
      /\ UNCHANGED nomadVars
      /\ UNCHANGED <<query, profileKnown, startedAt, now, table, rows,
                     response>>
      /\ UNCHANGED <<fetchErr, fanVars>>
  BY DEF Call, requestVars
<1>2. /\ UNCHANGED <<jobExists, history, listed, placed, canary, changes>>
      /\ ClusterInv'
  BY <1>1, SameCluster
<1>3. \E e \in {"ok", "404", "502"} :
        /\ fetched' = [fetched EXCEPT ![c] = e]
        /\ e = "404" => ~jobExists
  BY DEF Call
<1>4. fetched \in [Calls -> {"none", "ok", "404", "502"}]
  BY DEF CallsInv
<1>5. /\ fetched' \in [Calls -> {"none", "ok", "404", "502"}]
      /\ \A d \in Calls : fetched'[d] = "404" => ~jobExists
      /\ \A d \in Calls : d # c => fetched'[d] = fetched[d]
  BY <1>3, <1>4 DEF CallsInv
<1>6. /\ gotVersions' = gotVersions \/ gotVersions' = history
      /\ gotStubs' = gotStubs \/ gotStubs' = listed
  BY DEF Call
<1>7. CallsInv'
  <2>1. /\ gotVersions' \in Seq(VersionRecords) /\ gotStubs' \in Seq(Stubs)
        /\ \A i \in DOMAIN gotStubs' : gotStubs'[i].id <= placed
    BY <1>6 DEF CallsInv, ClusterInv
  <2>2. QED
    BY <1>1, <1>2, <1>5, <2>1 DEF CallsInv
<1>8. CallsAreCurrent'
  <2>1. SUFFICES ASSUME changes = startedAt PROVE CallsAreCurrent'
    BY <1>1, <1>2 DEF CallsAreCurrent
  <2>2. /\ fetched["versions"] = "ok" => gotVersions = history
        /\ fetched["allocations"] = "ok" => gotStubs = listed
        /\ fetched["deployments"] = "ok" => gotCanary = canary
    BY <2>1 DEF CallsAreCurrent
  <2>3. /\ "versions" \in Calls /\ "allocations" \in Calls
        /\ "deployments" \in Calls
    BY DEF Calls
  <2>4. fetched'["versions"] = "ok" => gotVersions' = history
    BY <1>4, <1>5, <2>2, <2>3 DEF Call
  <2>5. fetched'["allocations"] = "ok" => gotStubs' = listed
    BY <1>4, <1>5, <2>2, <2>3 DEF Call
  <2>6. fetched'["deployments"] = "ok" => gotCanary' = canary
    BY <1>4, <1>5, <2>2, <2>3 DEF Call
  <2>7. QED
    BY <1>2, <2>4, <2>5, <2>6 DEF CallsAreCurrent
<1>9. FanInv'
  BY <1>1, <1>7, StillIdle
<1>10. AnswerInv'
  BY <1>1, NoAnswerYet DEF AnswerInv
<1>11. QED
  BY <1>2, <1>7, <1>8, <1>9, <1>10

(* The error that is reported is that of a call that failed. *)
LEMMA FirstErrorFacts ==
  /\ FirstError \in 0 .. 4
  /\ FirstError = 0 => \A c \in Calls : fetched[c] = "ok"
  /\ FirstError > 0 => CallOrder[FirstError] \in Calls
<1> DEFINE I == {i \in 1 .. 4 : fetched[CallOrder[i]] # "ok"}
<1>1. FirstError = IF I # {} THEN Min(I) ELSE 0
  <2>1. Len(CallOrder) = 4
    BY DEF CallOrder
  <2>2. QED
    BY <2>1 DEF FirstError, SelectInSeq
<1>2. /\ CallOrder[1] = "job" /\ CallOrder[2] = "versions"
      /\ CallOrder[3] = "allocations" /\ CallOrder[4] = "deployments"
  BY DEF CallOrder
<1>3. CASE I = {}
  BY <1>1, <1>2, <1>3 DEF Calls
<1>4. CASE I # {}
  <2>1. I \subseteq Int /\ \E i \in I : \A j \in I : i <= j
    BY <1>4
  <2>2. Min(I) \in I
    BY <2>1 DEF Min
  <2>3. QED
    BY <1>1, <1>2, <1>4, <2>2 DEF Calls
<1>5. QED
  BY <1>3, <1>4

LEMMA CallFailedKeeps == JInv /\ CallFailed => JInv'
<1> SUFFICES ASSUME JInv, CallFailed PROVE JInv'
  OBVIOUS
<1> USE DEF JInv
<1> DEFINE e == fetched[CallOrder[FirstError]]
<1>1. /\ pc = "fetching" /\ pc' = "done" /\ FirstError > 0
      /\ response' = Classified(e, "job")
      /\ UNCHANGED nomadVars
      /\ UNCHANGED <<query, profileKnown, startedAt, fetched, gotVersions,
                     gotStubs, gotCanary, now, table, rows>>
      /\ UNCHANGED <<fetchErr, fanVars>>
  BY DEF CallFailed, CallsReturned, Answered, requestVars, gotVars
<1>2. /\ UNCHANGED <<jobExists, history, listed, placed, canary, changes>>
      /\ ClusterInv'
  BY <1>1, SameCluster
<1>3. e = "404" => ~jobExists
  BY <1>1, FirstErrorFacts DEF CallsInv
<1>4. CallsInv'
  BY <1>1, <1>2 DEF CallsInv
<1>5. CallsAreCurrent'
  BY <1>1, <1>2 DEF CallsAreCurrent
<1>6. FanInv'
  BY <1>1, <1>4, StillIdle
<1> HIDE DEF e
<1>7. AnswerInv'
  BY <1>1, <1>2, <1>3 DEF AnswerInv, Ok, Classified, NotFound, BadGateway
<1>8. QED
  BY <1>2, <1>4, <1>5, <1>6, <1>7

LEMMA DeriveFacts ==
  ASSUME JInv, NEW nodeIPs, NEW time, Derive(nodeIPs, time),
         nodeIPs = NodeIPs \/ query.filters.search = AnyValue,
         now' = time, UNCHANGED <<query, gotVersions, gotStubs, gotCanary>>
  PROVE  pc' = "fanout" /\ table' = TheTable' /\ DOMAIN rows' = Page'
<1>1. Table(gotStubs, SubmitTimes(gotVersions), nodeIPs, time, query)
        = Table(gotStubs, SubmitTimes(gotVersions), NodeIPs, time, query)
  BY NodesOnlyForSearch
<1>2. TheTable' = CanaryMarked(Table(gotStubs, SubmitTimes(gotVersions),
                                     NodeIPs, time, query), gotCanary)
  BY DEF TheTable, NodeIPs
<1>3. QED
  BY <1>1, <1>2 DEF Derive, Page

LEMMA CallsSucceededKeeps == JInv /\ CallsSucceeded => JInv'
<1> SUFFICES ASSUME JInv, CallsSucceeded PROVE JInv'
  OBVIOUS
<1> USE DEF JInv
<1>1. /\ pc = "fetching" /\ FirstError = 0 /\ now' = Clock
      /\ UNCHANGED nomadVars
      /\ UNCHANGED <<query, profileKnown, startedAt, fetched, gotVersions,
                     gotStubs, gotCanary, response>>
      /\ UNCHANGED <<fetchErr, fanVars>>
  BY DEF CallsSucceeded, CallsReturned, requestVars, gotVars
<1>2. /\ UNCHANGED <<jobExists, history, listed, placed, canary, changes>>
      /\ ClusterInv'
  BY <1>1, SameCluster
<1>3. \/ pc' = "nodes"
      \/ pc' = "fanout" /\ table' = TheTable' /\ DOMAIN rows' = Page'
  <2>1. CASE query.filters.search = AnyValue
    BY <1>1, <2>1, DeriveFacts DEF CallsSucceeded
  <2>2. CASE query.filters.search # AnyValue
    BY <2>2 DEF CallsSucceeded
  <2>3. QED
    BY <2>1, <2>2
<1>4. Clock \in Nat
  BY DEF Clock, TicksPerSecond, ClusterInv
<1>5. CallsInv'
  BY <1>1, <1>2, <1>3, <1>4, FirstErrorFacts DEF CallsInv
<1>6. CallsAreCurrent'
  BY <1>1, <1>2 DEF CallsAreCurrent
<1>7. FanInv'
  BY <1>1, <1>3, <1>5, StillIdle
<1>8. AnswerInv'
  BY <1>1, <1>3, NoAnswerYet DEF AnswerInv
<1>9. QED
  BY <1>2, <1>5, <1>6, <1>7, <1>8

LEMMA NodesKeeps == JInv /\ Nodes => JInv'
<1> SUFFICES ASSUME JInv, Nodes PROVE JInv'
  OBVIOUS
<1> USE DEF JInv
<1>1. /\ pc = "nodes" /\ now' = now
      /\ UNCHANGED nomadVars
      /\ UNCHANGED <<query, profileKnown, startedAt, fetched, gotVersions,
                     gotStubs, gotCanary>>
      /\ UNCHANGED <<fetchErr, fanVars>>
  BY DEF Nodes, requestVars, gotVars
<1>2. /\ UNCHANGED <<jobExists, history, listed, placed, canary, changes>>
      /\ ClusterInv'
  BY <1>1, SameCluster
<1>3. \/ pc' = "done" /\ response' = BadGateway
      \/ /\ pc' = "fanout" /\ table' = TheTable' /\ DOMAIN rows' = Page'
         /\ response' = response
  <2>1. CASE Derive(NodeIPs, now) /\ UNCHANGED <<now, response>>
    BY <1>1, <2>1, DeriveFacts
  <2>2. CASE Answered(BadGateway)
    BY <2>2 DEF Answered
  <2>3. QED
    BY <2>1, <2>2 DEF Nodes
<1>4. CallsInv'
  BY <1>1, <1>2, <1>3 DEF CallsInv
<1>5. CallsAreCurrent'
  BY <1>1, <1>2 DEF CallsAreCurrent
<1>6. FanInv'
  BY <1>1, <1>3, <1>4, StillIdle
<1>7. AnswerInv'
  <2>1. CASE pc' = "done" /\ response' = BadGateway
    BY <2>1 DEF AnswerInv, Ok, BadGateway
  <2>2. CASE pc' = "fanout" /\ response' = response
    BY <1>1, <2>2, NoAnswerYet DEF AnswerInv
  <2>3. QED
    BY <1>3, <2>1, <2>2
<1>8. QED
  BY <1>2, <1>4, <1>5, <1>6, <1>7

-----------------------------------------------------------------------------
(* The fan-out. *)

LEMMA FanOutFrame ==
  ASSUME JInv, pc = "fanout", pc' \in {"fanout", "done"},
         UNCHANGED <<nomadVars, requestVars, gotVars, now, table>>
  PROVE  /\ ClusterInv' /\ CallsInv' /\ CallsAreCurrent'
         /\ TheTable' = TheTable /\ Page' = Page
         /\ Page \subseteq Slots
         /\ \A i : Row(i)' = Row(i)
         /\ \A i : Gone(table.rows[i].id)' <=> Gone(table.rows[i].id)
         /\ \A i \in Page : table.rows[i].id \in 0 .. placed
<1> USE DEF JInv
<1>1. UNCHANGED <<query, profileKnown, startedAt, fetched, gotVersions,
                  gotStubs, gotCanary, now, table>>
  BY DEF requestVars, gotVars
<1>2. /\ UNCHANGED <<jobExists, history, listed, placed, canary, changes>>
      /\ ClusterInv'
      /\ \A id : Gone(id)' <=> Gone(id)
  BY SameCluster
<1>3. CallsInv'
  BY <1>1, <1>2 DEF CallsInv
<1>4. CallsAreCurrent'
  BY <1>1, <1>2 DEF CallsAreCurrent
<1>5. /\ TheTable' = TheTable /\ Page' = Page
      /\ \A i : Row(i)' = Row(i)
      /\ \A i : table.rows[i]' = table.rows[i]
  BY <1>1, RowsStay
<1>6. table = TheTable
  BY DEF FanInv, RowsInv
<1>7. Page \subseteq Slots /\ \A i \in Page : table.rows[i].id \in 0 .. placed
  BY <1>6, TheTableFacts DEF IsTable, Page
<1>8. \A i : Gone(table.rows[i].id)' <=> Gone(table.rows[i].id)
  BY <1>2, <1>5
<1>9. QED
  BY <1>2, <1>3, <1>4, <1>5, <1>7, <1>8

LEMMA BeginKeeps == ASSUME JInv, NEW i \in Slots, Begin(i) PROVE JInv'
<1> USE DEF JInv
<1>1. /\ pc = "fanout" /\ pc' = "fanout"
      /\ UNCHANGED <<nomadVars, requestVars, gotVars, now, table>>
      /\ UNCHANGED <<rows, fetchErr, response>>
      /\ ~returned /\ running' = running \cup {i}
      /\ UNCHANGED <<outcome, returned, errors>>
  BY DEF Begin, Fan!Begin
<1>2. /\ ClusterInv' /\ CallsInv' /\ CallsAreCurrent'
      /\ TheTable' = TheTable /\ Page' = Page
      /\ \A j : Row(j)' = Row(j)
      /\ \A j : Gone(table.rows[j].id)' <=> Gone(table.rows[j].id)
  BY <1>1, FanOutFrame
<1>3. RowsInv'
  BY <1>1, <1>2 DEF FanInv, RowsInv
<1>4. FanInv'
  BY <1>1, <1>2, <1>3 DEF FanInv
<1>5. AnswerInv'
  BY <1>1, NoAnswerYet DEF AnswerInv
<1>6. QED
  BY <1>2, <1>4, <1>5

LEMMA PortsFoundKeeps ==
  ASSUME JInv, NEW i \in Slots, PortsFound(i) PROVE JInv'
<1> USE DEF JInv
<1>1. /\ pc = "fanout" /\ pc' = "fanout"
      /\ UNCHANGED <<nomadVars, requestVars, gotVars, now, table>>
      /\ UNCHANGED <<fetchErr, response>>
      /\ i \in Page /\ i \in running /\ running' = running \ {i}
      /\ outcome' = [outcome EXCEPT ![i] = "nil"]
      /\ rows' = [rows EXCEPT ![i] = Row(i)]
      /\ UNCHANGED <<returned, errors>>
  BY DEF PortsFound, Fan!End
<1>2. /\ ClusterInv' /\ CallsInv' /\ CallsAreCurrent'
      /\ TheTable' = TheTable /\ Page' = Page
      /\ \A j : Row(j)' = Row(j)
      /\ \A j : Gone(table.rows[j].id)' <=> Gone(table.rows[j].id)
  BY <1>1, FanOutFrame
<1>3. RowsInv /\ ~returned
  BY <1>1 DEF FanInv
<1>4. outcome \in [Slots -> {"none", "nil", "error"}]
  BY DEF FanInv
<1>5. RowsInv'
  <2>1. table' = TheTable' /\ DOMAIN rows' = Page'
    BY <1>1, <1>2, <1>3 DEF RowsInv
  <2>2. ASSUME NEW j \in Page', outcome'[j] = "nil" PROVE rows'[j] = Row(j)'
    <3>1. CASE j = i
      BY <1>1, <1>2, <1>3, <3>1 DEF RowsInv
    <3>2. CASE j # i
      <4>1. outcome[j] = "nil"
        BY <1>1, <1>4, <2>2, <3>2
      <4>2. QED
        BY <1>1, <1>2, <1>3, <3>2, <4>1 DEF RowsInv
    <3>3. QED
      BY <3>1, <3>2
  <2>3. QED
    BY <2>1, <2>2 DEF RowsInv
<1>6. FanInv'
  BY <1>1, <1>2, <1>3, <1>4, <1>5 DEF FanInv
<1>7. AnswerInv'
  BY <1>1, NoAnswerYet DEF AnswerInv
<1>8. QED
  BY <1>2, <1>6, <1>7

LEMMA PortsFailedKeeps ==
  ASSUME JInv, NEW i \in Slots, PortsFailed(i) PROVE JInv'
<1> USE DEF JInv
<1>1. /\ pc = "fanout" /\ pc' = "fanout"
      /\ UNCHANGED <<nomadVars, requestVars, gotVars, now, table>>
      /\ UNCHANGED <<rows, response>>
      /\ i \in Page /\ i \in running /\ running' = running \ {i}
      /\ outcome' = [outcome EXCEPT ![i] = "error"]
      /\ UNCHANGED <<returned, errors>>
  BY DEF PortsFailed, Fan!End
<1>2. /\ ClusterInv' /\ CallsInv' /\ CallsAreCurrent'
      /\ TheTable' = TheTable /\ Page' = Page
      /\ \A j : Row(j)' = Row(j)
      /\ \A j : Gone(table.rows[j].id)' <=> Gone(table.rows[j].id)
      /\ \A j \in Page : table.rows[j].id \in 0 .. placed
  BY <1>1, FanOutFrame
<1>3. RowsInv /\ ~returned
  BY <1>1 DEF FanInv
<1>4. /\ outcome \in [Slots -> {"none", "nil", "error"}]
      /\ fetchErr \in [Slots -> {"none", "404", "502"}]
  BY DEF FanInv
<1>5. RowsInv'
  BY <1>1, <1>2, <1>3, <1>4 DEF RowsInv
<1>6. \E e \in {"404", "502"} :
        /\ fetchErr' = [fetchErr EXCEPT ![i] = e]
        /\ e = "404" => ~KnownPorts(i)
  BY DEF PortsFailed
<1>7. ~KnownPorts(i) => Gone(table.rows[i].id)
  BY <1>1, <1>2 DEF KnownPorts, Gone
<1>8. /\ fetchErr' \in [Slots -> {"none", "404", "502"}]
      /\ \A j \in Slots : fetchErr'[j] = "404" =>
           j \in Page /\ Gone(table.rows[j].id)
  BY <1>1, <1>4, <1>6, <1>7 DEF FanInv
<1>9. FanInv'
  <2>1. outcome' \in [Slots -> {"none", "nil", "error"}]
    BY <1>1, <1>4
  <2>2. \A j \in Slots : fetchErr'[j] = "404" =>
          j \in Page' /\ Gone(table.rows[j].id)'
    BY <1>2, <1>8
  <2>3. QED
    BY <1>1, <1>3, <1>5, <1>8, <2>1, <2>2 DEF FanInv
<1>10. AnswerInv'
  BY <1>1, NoAnswerYet DEF AnswerInv
<1>11. QED
  BY <1>2, <1>9, <1>10

LEMMA WaitKeeps == JInv /\ Wait => JInv'
<1> SUFFICES ASSUME JInv, Wait PROVE JInv'
  OBVIOUS
<1> USE DEF JInv
<1>1. /\ pc = "fanout" /\ pc' = "fanout"
      /\ UNCHANGED <<nomadVars, requestVars, gotVars, now, table>>
      /\ UNCHANGED <<rows, fetchErr, response>>
      /\ \A i \in Page : outcome[i] # "none"
      /\ running = {} /\ UNCHANGED <<running, outcome>>
      /\ errors' \in Fan!SetToSeqs(Fan!Failed)
  BY DEF Wait, Fan!Return
<1>2. /\ ClusterInv' /\ CallsInv' /\ CallsAreCurrent'
      /\ TheTable' = TheTable /\ Page' = Page
      /\ \A j : Row(j)' = Row(j)
      /\ \A j : Gone(table.rows[j].id)' <=> Gone(table.rows[j].id)
  BY <1>1, FanOutFrame
<1>3. RowsInv'
  BY <1>1, <1>2 DEF FanInv, RowsInv
<1>4. Fan!Failed' = Fan!Failed
  BY <1>1 DEF Fan!Failed
<1>5. FanInv'
  BY <1>1, <1>2, <1>3, <1>4 DEF FanInv
<1>6. AnswerInv'
  BY <1>1, NoAnswerYet DEF AnswerInv
<1>7. QED
  BY <1>2, <1>5, <1>6

LEMMA FanCardinality ==
  ASSUME NEW S PROVE Fan!Cardinality(S) = Cardinality(S)
BY DEF Fan!Cardinality, Cardinality

(* No error is left out, and the first one is that of a callback.          *)
LEMMA ErrorsFacts ==
  ASSUME FanInv, errors \in Fan!SetToSeqs(Fan!Failed)
  PROVE  IF errors = <<>> THEN \A i \in Slots : outcome[i] # "error"
                          ELSE errors[1] \in Slots
<1> DEFINE k == Cardinality(Fan!Failed)
<1>1. IsFiniteSet(Fan!Failed) /\ Fan!Failed \subseteq Slots
  <2>1. Fan!Failed \in SUBSET Slots
    BY DEF Fan!Failed
  <2>2. IsFiniteSet(Slots)
    BY Counting, AllocationsAssumption DEF Slots
  <2>3. QED
    BY <2>1, <2>2, FS_Subset
<1>2. k \in Nat /\ (k = 0 <=> Fan!Failed = {})
  BY <1>1, FS_CardinalityType, FS_EmptySet
<1>3. errors \in [1 .. k -> Fan!Failed]
  <2> DEFINE S == Fan!Failed
  <2>1. errors \in Fan!SetToSeqs(S)
    OBVIOUS
  <2> HIDE DEF S
  <2>2. errors \in [1 .. Cardinality(S) -> S]
    BY <2>1, FanCardinality DEF Fan!SetToSeqs
  <2>3. QED
    BY <2>2 DEF S
<1> HIDE DEF k
<1>4. errors = <<>> => k = 0
  BY <1>2, <1>3
<1>5. errors # <<>> => 1 \in 1 .. k
  BY <1>2, <1>3
<1>6. QED
  BY <1>1, <1>2, <1>3, <1>4, <1>5 DEF Fan!Failed

LEMMA RespondKeeps == JInv /\ Respond => JInv'
<1> SUFFICES ASSUME JInv, Respond PROVE JInv'
  OBVIOUS
<1> USE DEF JInv
<1>1. /\ pc = "fanout" /\ pc' = "done" /\ returned
      /\ UNCHANGED <<nomadVars, requestVars, gotVars, now, table>>
      /\ UNCHANGED <<rows, fetchErr, running, outcome, returned, errors>>
      /\ response' = IF errors # <<>>
                     THEN Classified(fetchErr[errors[1]], "allocation")
                     ELSE [status |-> 200, table |-> table, rows |-> rows]
  BY DEF Respond, Answered, fanVars
<1>2. /\ ClusterInv' /\ CallsInv' /\ CallsAreCurrent'
      /\ TheTable' = TheTable /\ Page' = Page
      /\ Page \subseteq Slots
      /\ \A j : Row(j)' = Row(j)
      /\ \A j : Gone(table.rows[j].id)' <=> Gone(table.rows[j].id)
  BY <1>1, FanOutFrame
<1>3. /\ RowsInv
      /\ \A i \in Page : outcome[i] # "none"
      /\ errors \in Fan!SetToSeqs(Fan!Failed)
      /\ outcome \in [Slots -> {"none", "nil", "error"}]
  BY <1>1 DEF FanInv
<1>4. IF errors = <<>> THEN \A i \in Slots : outcome[i] # "error"
                       ELSE errors[1] \in Slots
  BY <1>3, ErrorsFacts
<1>5. FanInv'
  BY <1>1, <1>2 DEF FanInv
<1>6. AnswerInv'
  <2>1. CASE errors = <<>>
    <3>1. \A i \in Page : rows[i] = Row(i)
      BY <1>2, <1>3, <1>4, <2>1 DEF RowsInv
    <3>2. response' = [status |-> 200, table |-> table, rows |-> rows]
      BY <1>1, <2>1
    <3>3. \A c \in Calls : fetched[c] = "ok"
      BY <1>1 DEF CallsInv
    <3>4. fetched' = fetched
      BY <1>1 DEF gotVars
    <3>5. table' = TheTable' /\ DOMAIN rows' = Page'
      BY <1>1, <1>2, <1>3 DEF RowsInv
    <3>6. QED
      BY <1>1, <1>2, <3>1, <3>2, <3>3, <3>4, <3>5 DEF AnswerInv, Ok
  <2>2. CASE errors # <<>>
    <3> DEFINE e == fetchErr[errors[1]]
    <3>1. response' = Classified(e, "allocation")
      BY <1>1, <2>2
    <3>2. e = "404" => \E i \in Page : Gone(table.rows[i].id)
      BY <1>4, <2>2 DEF FanInv
    <3> HIDE DEF e
    <3>3. CASE e = "404"
      <4>1. \E i \in Page' : Gone(table.rows[i].id)'
        BY <1>2, <3>2, <3>3
      <4>2. response' = NotFound("allocation")
        BY <3>1, <3>3 DEF Classified
      <4>3. QED
        BY <1>1, <4>1, <4>2 DEF AnswerInv, Ok, NotFound
    <3>4. CASE e # "404"
      BY <1>1, <3>1, <3>4 DEF AnswerInv, Ok, Classified, BadGateway
    <3>5. QED
      BY <3>3, <3>4
  <2>3. QED
    BY <2>1, <2>2
<1>7. QED
  BY <1>2, <1>5, <1>6

-----------------------------------------------------------------------------
LEMMA HandlerKeeps == JInv /\ Handler => JInv'
<1> SUFFICES ASSUME JInv, Handler PROVE JInv'
  OBVIOUS
<1>1. CASE \E c \in Calls : Call(c)
  BY <1>1, CallKeeps
<1>2. CASE \E i \in Slots : Begin(i) \/ PortsFound(i) \/ PortsFailed(i)
  BY <1>2, BeginKeeps, PortsFoundKeeps, PortsFailedKeeps
<1>3. CASE Wait \/ Respond
  BY <1>3, WaitKeeps, RespondKeeps
<1>4. QED
  BY <1>1, <1>2, <1>3, UnknownProfileKeeps, StartKeeps, CallFailedKeeps,
     CallsSucceededKeeps, NodesKeeps DEF Handler, FetchPorts

LEMMA Stutter == JInv /\ UNCHANGED jobVars => JInv'
<1> SUFFICES ASSUME JInv, UNCHANGED jobVars PROVE JInv'
  OBVIOUS
<1>1. UNCHANGED nomadVars
      /\ UNCHANGED <<pc, requestVars, gotVars, now, table, rows, fetchErr,
                     fanVars, response>>
  BY DEF jobVars, handlerVars
<1>2. /\ UNCHANGED <<jobExists, history, listed, placed, canary, changes>>
      /\ ClusterInv'
      /\ \A id : Gone(id)' <=> Gone(id)
  BY <1>1, SameCluster DEF JInv
<1>3. placed <= placed' /\ startedAt <= changes'
  BY <1>2 DEF JInv, ClusterInv, CallsInv
<1>4. CallsAreCurrent'
  BY <1>1, <1>2 DEF JInv, CallsAreCurrent, gotVars, requestVars
<1>5. jobExists' => jobExists
  BY <1>2
<1>6. QED
  BY <1>1, <1>2, <1>3, <1>4, <1>5, OthersKeep

(* The invariant: no allocation ID is used again; what a call returned is  *)
(* the cluster's state unless that has changed since; the table is that of *)
(* what they returned; a row whose callback succeeded is that row, one     *)
(* whose callback found nothing is an allocation that is gone; and the     *)
(* answer is 200 only when every callback has succeeded.                   *)
THEOREM SpecJInv == JSpec => []JInv
<1>1. JInv /\ [JNext]_jobVars => JInv'
  BY ClusterKeeps, OtherRequestKeeps, HandlerKeeps, Stutter DEF JNext
<1>2. QED
  BY <1>1, JobInit, PTL DEF JSpec

-----------------------------------------------------------------------------
(* What a row of an answer says. *)
LEMMA AnsweredRows ==
  ASSUME JInv, Ok
  PROVE  /\ response.table = table /\ response.rows = rows
         /\ DOMAIN rows = DOMAIN table.rows
         /\ \A i \in DOMAIN rows :
              /\ rows[i].id = table.rows[i].id
              /\ rows[i].ports = table.rows[i].id
              /\ rows[i].version = table.rows[i].version
              /\ rows[i].lastModified
                   = LastModifiedSeconds(SubmitTimes(gotVersions),
                                         table.rows[i].version, now)
              /\ rows[i].canary = IsCanary(table.rows[i].version, gotCanary)
<1>1. /\ response = [status |-> 200, table |-> table, rows |-> rows]
      /\ DOMAIN rows = DOMAIN table.rows
      /\ \A i \in DOMAIN rows : rows[i] = Row(i)
  BY DEF JInv, AnswerInv, Page
<1>2. ASSUME NEW i
      PROVE  /\ Row(i).id = table.rows[i].id
             /\ Row(i).ports = table.rows[i].id
             /\ Row(i).version = table.rows[i].version
             /\ Row(i).lastModified
                  = LastModifiedSeconds(SubmitTimes(gotVersions),
                                        table.rows[i].version, now)
  BY DEF Row
<1>3. ASSUME NEW i
      PROVE  Row(i).canary = IsCanary(table.rows[i].version, gotCanary)
  BY DEF Row
<1>4. QED
  BY <1>1, <1>2, <1>3

(* handleJobStatus: an answer of 200 has a row for every allocation of the *)
(* page, filled by its own callback with its own ports, in whatever order  *)
(* any number of callbacks ran and whatever the cluster did meanwhile.     *)
THEOREM SpecCompleteRows == JSpec => []CompleteRows
<1>1. JInv => CompleteRows
  BY AnsweredRows DEF CompleteRows
<1>2. QED
  BY <1>1, SpecJInv, PTL

(* classifyNomadErr and the two "not found" answers of handleJobStatus:    *)
(* 404 is the answer only if the profile is unknown, the job is gone or an *)
(* allocation of the page is gone, for good: a failure of the network      *)
(* never looks like it.                                                    *)
THEOREM SpecNotFoundMeansGone == JSpec => []NotFoundMeansGone
<1>1. JInv => NotFoundMeansGone
  <2>1. SUFFICES ASSUME JInv, response.status = 404 PROVE NotFoundMeansGone
    BY DEF NotFoundMeansGone
  <2>2. \/ response.message = "profile" /\ ~profileKnown
        \/ response.message = "job" /\ ~jobExists
        \/ /\ response.message = "allocation"
           /\ \E i \in Page : Gone(table.rows[i].id)
    BY <2>1 DEF JInv, AnswerInv
  <2>3. QED
    BY <2>2 DEF NotFoundMeansGone, Gone, Page
<1>2. QED
  BY <1>1, SpecJInv, PTL

(* handleJobStatus, "All allocations within a version group therefore      *)
(* share the same last-modified value": the callbacks run at different     *)
(* times and the calls saw the cluster at different moments, and each row  *)
(* still shows what its version group shows.                               *)
THEOREM SpecRowsAgreeWithGroups == JSpec => []RowsAgreeWithGroups
<1>1. JInv => RowsAgreeWithGroups
  <2>1. SUFFICES ASSUME JInv, Ok, NEW i \in DOMAIN response.rows
                 PROVE  \E g \in DOMAIN response.table.groups :
                          /\ response.table.groups[g].version
                               = response.rows[i].version
                          /\ response.table.groups[g].lastModified
                               = response.rows[i].lastModified
                          /\ response.table.groups[g].canary
                               = response.rows[i].canary
    BY DEF RowsAgreeWithGroups
  <2>2. /\ i \in DOMAIN table.rows /\ response.table = table
        /\ response.rows = rows
        /\ rows[i].version = table.rows[i].version
        /\ rows[i].lastModified
             = LastModifiedSeconds(SubmitTimes(gotVersions),
                                   table.rows[i].version, now)
        /\ rows[i].canary = IsCanary(table.rows[i].version, gotCanary)
    BY <2>1, AnsweredRows
  <2>3. IsTable(table, gotStubs, SubmitTimes(gotVersions), now, gotCanary)
    BY <2>1, TheTableFacts DEF JInv, AnswerInv
  <2>4. PICK g \in DOMAIN table.groups :
          /\ table.groups[g].version = table.rows[i].version
          /\ table.groups[g].lastModified
               = LastModifiedSeconds(SubmitTimes(gotVersions),
                                     table.rows[i].version, now)
          /\ table.groups[g].canary = IsCanary(table.rows[i].version, gotCanary)
    BY <2>2, <2>3 DEF IsTable
  <2>5. QED
    BY <2>2, <2>4
<1>2. QED
  BY <1>1, SpecJInv, PTL

(* The goroutines of handleJobStatus: if the cluster did not change while  *)
(* the request was served, the calls made at different times and with or   *)
(* without the one for the nodes amount to one look at the cluster.        *)
THEOREM SpecQuietAnswerIsCurrent == JSpec => []QuietAnswerIsCurrent
<1>1. JInv => QuietAnswerIsCurrent
  <2>1. SUFFICES ASSUME JInv, Ok, changes = startedAt
                 PROVE  QuietAnswerIsCurrent
    BY DEF QuietAnswerIsCurrent
  <2>2. gotVersions = history /\ gotStubs = listed /\ gotCanary = canary
    BY <2>1 DEF JInv, AnswerInv, CallsAreCurrent, Calls
  <2>3. response.table = TheTable
    BY <2>1, AnsweredRows DEF JInv, AnswerInv
  <2>4. \A i \in DOMAIN response.rows :
          response.rows[i].canary
            = IsCanary(response.rows[i].version, gotCanary)
    BY <2>1, AnsweredRows
  <2>5. QED
    BY <2>2, <2>3, <2>4 DEF QuietAnswerIsCurrent, TheTable
<1>2. QED
  BY <1>1, SpecJInv, PTL
=============================================================================
