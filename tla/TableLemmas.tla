---------------------------- MODULE TableLemmas ----------------------------
(***************************************************************************)
(* Lemmas about the operators of Allocations and TableView, which the      *)
(* theorems about the modules that use them cite: what arranging, filtering *)
(* and paginating a list gives, and that a view is what its query string   *)
(* says.                                                                   *)
(***************************************************************************)
EXTENDS Allocations, TableView, FiniteSetTheorems, TLAPS

-----------------------------------------------------------------------------
(* Arranging a finite set: the rank of an element is its number, because   *)
(* what is before one element is less than what is before a later one.     *)

StrictOrder(S, R) ==
  /\ \A x \in S : <<x, x>> \notin R
  /\ \A x, y, z \in S : <<x, y>> \in R /\ <<y, z>> \in R => <<x, z>> \in R
  /\ \A x, y \in S : x = y \/ <<x, y>> \in R \/ <<y, x>> \in R

LEMMA Counting ==
  /\ \A n \in Nat : IsFiniteSet(1 .. n) /\ Cardinality(1 .. n) = n
  /\ \A n \in Nat : IsFiniteSet(0 .. n - 1) /\ Cardinality(0 .. n - 1) = n
<1>1. ASSUME NEW n \in Nat PROVE IsFiniteSet(1 .. n) /\ Cardinality(1 .. n) = n
  BY FS_Interval
<1>2. ASSUME NEW n \in Nat
      PROVE  IsFiniteSet(0 .. n - 1) /\ Cardinality(0 .. n - 1) = n
  <2>1. n - 1 \in Int /\ 0 \in Int
    OBVIOUS
  <2>2. /\ IsFiniteSet(0 .. n - 1)
        /\ Cardinality(0 .. n - 1) = IF 0 > n - 1 THEN 0 ELSE (n - 1) - 0 + 1
    BY <2>1, FS_Interval
  <2>3. QED
    BY <2>2
<1>3. QED
  BY <1>1, <1>2

LEMMA RankFacts ==
  ASSUME NEW S, IsFiniteSet(S), NEW R, StrictOrder(S, R)
  PROVE  /\ Cardinality(S) \in Nat
         /\ \A x \in S : Rank(S, R, x) \in 0 .. Cardinality(S) - 1
         /\ \A x, y \in S : <<x, y>> \in R => Rank(S, R, x) < Rank(S, R, y)
<1> DEFINE B(x) == {y \in S : <<y, x>> \in R}
<1>1. Cardinality(S) \in Nat
  BY FS_CardinalityType
<1>2. ASSUME NEW x \in S
      PROVE  /\ Rank(S, R, x) = Cardinality(B(x))
             /\ IsFiniteSet(B(x)) /\ Cardinality(B(x)) \in Nat
             /\ Cardinality(B(x)) < Cardinality(S)
  <2>1. B(x) \in SUBSET S /\ B(x) # S
    BY <1>2 DEF StrictOrder
  <2>2. Rank(S, R, x) = Cardinality(B(x))
    BY DEF Rank
  <2> HIDE DEF B
  <2>3. IsFiniteSet(B(x)) /\ Cardinality(B(x)) <= Cardinality(S)
        /\ Cardinality(B(x)) # Cardinality(S)
    BY <2>1, FS_Subset
  <2>4. Cardinality(B(x)) \in Nat
    BY <2>3, FS_CardinalityType
  <2>5. QED
    BY <1>1, <2>2, <2>3, <2>4
<1>3. ASSUME NEW x \in S, NEW y \in S, <<x, y>> \in R
      PROVE  Rank(S, R, x) < Rank(S, R, y)
  <2>1. B(x) \in SUBSET B(y)
    BY <1>3 DEF StrictOrder
  <2>2. x \in B(y) /\ x \notin B(x)
    BY <1>3 DEF StrictOrder
  <2>3. B(x) # B(y)
    BY <2>2
  <2> HIDE DEF B
  <2>4. Cardinality(B(x)) <= Cardinality(B(y)) /\ Cardinality(B(x)) # Cardinality(B(y))
    BY <1>2, <2>1, <2>3, FS_Subset
  <2>5. QED
    BY <1>2, <2>4
<1> HIDE DEF B
<1>4. ASSUME NEW x \in S PROVE Rank(S, R, x) \in 0 .. Cardinality(S) - 1
  BY <1>1, <1>2
<1>5. QED
  BY <1>1, <1>3, <1>4

LEMMA ArrangedFacts ==
  ASSUME NEW S, IsFiniteSet(S), NEW R, StrictOrder(S, R)
  PROVE  LET k == Cardinality(S)
             a == Arranged(S, R)
         IN  /\ k \in Nat
             /\ a \in [1 .. k -> S]
             /\ \A x \in S : \E n \in 1 .. k : a[n] = x
             /\ \A m, n \in 1 .. k : m < n => <<a[m], a[n]>> \in R
             /\ \A m, n \in 1 .. k : a[m] = a[n] => m = n
<1> DEFINE k == Cardinality(S)
           a == Arranged(S, R)
           rank == [x \in S |-> Rank(S, R, x)]
<1>1. /\ k \in Nat
      /\ \A x \in S : Rank(S, R, x) \in 0 .. k - 1
      /\ \A x, y \in S : <<x, y>> \in R => Rank(S, R, x) < Rank(S, R, y)
  BY RankFacts
<1>2. \A x, y \in S : Rank(S, R, x) = Rank(S, R, y) => x = y
  <2>1. SUFFICES ASSUME NEW x \in S, NEW y \in S, x # y
                 PROVE  Rank(S, R, x) # Rank(S, R, y)
    OBVIOUS
  <2>2. <<x, y>> \in R \/ <<y, x>> \in R
    BY <2>1 DEF StrictOrder
  <2>3. Rank(S, R, x) \in Int /\ Rank(S, R, y) \in Int
    BY <1>1
  <2>4. QED
    BY <1>1, <2>2, <2>3
<1>3. rank \in Injection(S, 0 .. k - 1)
  BY <1>1, <1>2 DEF Injection, IsInjective
<1>4. rank \in Surjection(S, 0 .. k - 1)
  BY <1>1, <1>3, Counting, FS_Injection
<1>5. \A n \in 1 .. k : \E x \in S : Rank(S, R, x) = n - 1
  <2>1. \A m \in 0 .. k - 1 : \E x \in S : rank[x] = m
    BY <1>4 DEF Surjection
  <2>2. ASSUME NEW n \in 1 .. k PROVE n - 1 \in 0 .. k - 1
    BY <1>1
  <2>3. QED
    BY <2>1, <2>2
<1>6. /\ DOMAIN a = 1 .. k
      /\ a = [n \in 1 .. k |-> a[n]]
      /\ \A n \in 1 .. k : a[n] = CHOOSE x \in S : Rank(S, R, x) = n - 1
  BY DEF Arranged
<1> HIDE DEF a, k, rank
<1>7. \A n \in 1 .. k : a[n] \in S /\ Rank(S, R, a[n]) = n - 1
  BY <1>5, <1>6
<1>8. a \in [1 .. k -> S]
  BY <1>6, <1>7
<1>9. ASSUME NEW x \in S PROVE \E n \in 1 .. k : a[n] = x
  <2>1. PICK m \in 0 .. k - 1 : Rank(S, R, x) = m
    BY <1>1
  <2>2. m + 1 \in 1 .. k /\ (m + 1) - 1 = m
    BY <1>1
  <2>3. Rank(S, R, a[m + 1]) = m /\ a[m + 1] \in S
    BY <1>7, <2>2
  <2>4. QED
    BY <1>2, <2>1, <2>2, <2>3
<1>10. ASSUME NEW m \in 1 .. k, NEW n \in 1 .. k, m < n
       PROVE  <<a[m], a[n]>> \in R
  <2>1. Rank(S, R, a[m]) = m - 1 /\ Rank(S, R, a[n]) = n - 1
    BY <1>7
  <2>2. a[m] # a[n]
    BY <1>10, <2>1, <1>1
  <2>3. ASSUME <<a[n], a[m]>> \in R PROVE FALSE
    <3>1. Rank(S, R, a[n]) < Rank(S, R, a[m])
      BY <1>1, <1>7, <2>3
    <3>2. QED
      BY <1>1, <1>10, <2>1, <3>1
  <2>4. QED
    BY <1>7, <2>2, <2>3 DEF StrictOrder
<1>11. ASSUME NEW m \in 1 .. k, NEW n \in 1 .. k, a[m] = a[n]
       PROVE  m = n
  <2>1. m - 1 = n - 1
    BY <1>7, <1>11
  <2>2. QED
    BY <1>1, <2>1
<1>12. QED
  BY <1>1, <1>8, <1>9, <1>10, <1>11 DEF a, k

LEMMA AscendingFacts ==
  ASSUME NEW S, IsFiniteSet(S), S \subseteq Int
  PROVE  LET k == Cardinality(S)
             a == Ascending(S)
         IN  /\ k \in Nat
             /\ a \in [1 .. k -> S]
             /\ \A x \in S : \E n \in 1 .. k : a[n] = x
             /\ \A m, n \in 1 .. k : m < n => a[m] < a[n]
             /\ \A m, n \in 1 .. k : a[m] = a[n] => m = n
<1> DEFINE R == {p \in S \X S : p[1] < p[2]}
<1>1. \A x, y \in S : <<x, y>> \in R <=> x < y
  OBVIOUS
<1> HIDE DEF R
<1>2. StrictOrder(S, R)
  BY <1>1 DEF StrictOrder
<1>3. Ascending(S) = Arranged(S, R)
  BY DEF Ascending, R
<1> DEFINE k == Cardinality(S)
           a == Ascending(S)
<1>4. /\ k \in Nat
      /\ a \in [1 .. k -> S]
      /\ \A x \in S : \E n \in 1 .. k : a[n] = x
      /\ \A m, n \in 1 .. k : m < n => <<a[m], a[n]>> \in R
      /\ \A m, n \in 1 .. k : a[m] = a[n] => m = n
  BY <1>2, <1>3, ArrangedFacts
<1> HIDE DEF a, k
<1>5. \A m, n \in 1 .. k : m < n => a[m] < a[n]
  BY <1>1, <1>4
<1>6. QED
  BY <1>4, <1>5 DEF a, k

LEMMA DescendingFacts ==
  ASSUME NEW S, IsFiniteSet(S), S \subseteq Int
  PROVE  LET k == Cardinality(S)
             a == Descending(S)
         IN  /\ k \in Nat
             /\ a \in [1 .. k -> S]
             /\ \A x \in S : \E n \in 1 .. k : a[n] = x
<1> DEFINE R == {p \in S \X S : p[1] > p[2]}
<1>1. \A x, y \in S : <<x, y>> \in R <=> x > y
  OBVIOUS
<1> HIDE DEF R
<1>2. StrictOrder(S, R)
  BY <1>1 DEF StrictOrder
<1>3. Descending(S) = Arranged(S, R)
  BY DEF Descending, R
<1>4. QED
  BY <1>2, <1>3, ArrangedFacts

-----------------------------------------------------------------------------
(* Filtering: the n-th row that is left is the f[n]-th of the list.        *)

KeptOf(list, f, nodeIPs) ==
  {i \in DOMAIN list : Matches(list[i], f, nodeIPs)}

Filters(g, list, f, nodeIPs) ==
  LET kept == KeptOf(list, f, nodeIPs)
      k    == Cardinality(kept)
  IN  /\ g \in [1 .. k -> kept]
      /\ \A n \in 1 .. k : Filtered(list, f, nodeIPs)[n] = list[g[n]]
      /\ \A i \in kept : \E n \in 1 .. k : g[n] = i
      /\ \A m, n \in 1 .. k : m < n => g[m] < g[n]

LEMMA FilteredFacts ==
  ASSUME NEW T, NEW list \in Seq(T), NEW f, NEW nodeIPs
  PROVE  /\ KeptOf(list, f, nodeIPs) \subseteq DOMAIN list
         /\ Cardinality(KeptOf(list, f, nodeIPs)) \in Nat
         /\ Filtered(list, f, nodeIPs)
              \in [1 .. Cardinality(KeptOf(list, f, nodeIPs)) -> T]
         /\ \E g : Filters(g, list, f, nodeIPs)
<1> DEFINE kept == KeptOf(list, f, nodeIPs)
           k    == Cardinality(kept)
           g    == Ascending(kept)
<1>1. IsFiniteSet(kept) /\ kept \subseteq Int /\ kept \subseteq DOMAIN list
  <2>1. Len(list) \in Nat /\ DOMAIN list = 1 .. Len(list)
    OBVIOUS
  <2>2. IsFiniteSet(DOMAIN list)
    BY <2>1, Counting
  <2>3. kept \in SUBSET DOMAIN list
    BY DEF KeptOf
  <2>4. IsFiniteSet(kept)
    BY <2>2, <2>3, FS_Subset
  <2>5. QED
    BY <2>1, <2>3, <2>4
<1>2. Filtered(list, f, nodeIPs) = [n \in 1 .. k |-> list[g[n]]]
  BY DEF Filtered, KeptOf
<1> HIDE DEF kept
<1>3. /\ k \in Nat
      /\ g \in [1 .. k -> kept]
      /\ \A i \in kept : \E n \in 1 .. k : g[n] = i
      /\ \A m, n \in 1 .. k : m < n => g[m] < g[n]
  BY <1>1, AscendingFacts
<1> HIDE DEF g, k
<1>4. \A n \in 1 .. k : list[g[n]] \in T
  <2>1. \A n \in 1 .. k : g[n] \in DOMAIN list
    BY <1>1, <1>3
  <2>2. \A i \in DOMAIN list : list[i] \in T
    OBVIOUS
  <2>3. QED
    BY <2>1, <2>2
<1>5. Filters(g, list, f, nodeIPs)
  BY <1>2, <1>3 DEF k, kept, Filters
<1>6. QED
  BY <1>1, <1>2, <1>3, <1>4, <1>5 DEF k, kept

-----------------------------------------------------------------------------
(* Pages. *)

LEMMA MinMax ==
  \A a, b \in Int :
    /\ Min({a, b}) = IF a =< b THEN a ELSE b
    /\ Max({a, b}) = IF a >= b THEN a ELSE b
<1> SUFFICES ASSUME NEW a \in Int, NEW b \in Int
             PROVE  /\ Min({a, b}) = IF a =< b THEN a ELSE b
                    /\ Max({a, b}) = IF a >= b THEN a ELSE b
  OBVIOUS
<1>1. Min({a, b}) = IF a =< b THEN a ELSE b
  <2>1. \E x \in {a, b} : \A y \in {a, b} : x =< y
    OBVIOUS
  <2>2. Min({a, b}) \in {a, b} /\ \A y \in {a, b} : Min({a, b}) =< y
    BY <2>1 DEF Min
  <2>3. QED
    BY <2>2
<1>2. Max({a, b}) = IF a >= b THEN a ELSE b
  <2>1. \E x \in {a, b} : \A y \in {a, b} : x >= y
    OBVIOUS
  <2>2. Max({a, b}) \in {a, b} /\ \A y \in {a, b} : Max({a, b}) >= y
    BY <2>1 DEF Max
  <2>3. QED
    BY <2>2
<1>3. QED
  BY <1>1, <1>2

LEMMA CeilingFacts ==
  \A total \in Nat, size \in Nat \ {0} :
    /\ Ceiling(total, size) \in Nat
    /\ total <= Ceiling(total, size) * size
    /\ (Ceiling(total, size) - 1) * size < total
    /\ Ceiling(total, size) = 0 <=> total = 0
<1> SUFFICES ASSUME NEW total \in Nat, NEW size \in Nat \ {0}
             PROVE  /\ Ceiling(total, size) \in Nat
                    /\ total <= Ceiling(total, size) * size
                    /\ (Ceiling(total, size) - 1) * size < total
                    /\ Ceiling(total, size) = 0 <=> total = 0
  OBVIOUS
<1> DEFINE c == Ceiling(total, size)
<1>1. /\ c \in Int
      /\ c * size =< total + size - 1
      /\ total + size - 1 < c * size + size
  BY DEF Ceiling
<1> HIDE DEF c
<1>2. c >= 0
  <2>1. SUFFICES ASSUME c <= -1 PROVE FALSE
    BY <1>1
  <2>2. c * size <= -size
    BY <1>1, <2>1
  <2>3. QED
    BY <1>1, <2>2
<1>3. (c - 1) * size = c * size - size
  BY <1>1
<1>4. total = 0 => c = 0
  <2>1. SUFFICES ASSUME total = 0, c >= 1 PROVE FALSE
    BY <1>1, <1>2
  <2>2. c * size >= size
    BY <1>1, <2>1
  <2>3. QED
    BY <1>1, <2>1, <2>2
<1>5. c = 0 => total = 0
  BY <1>1
<1>6. QED
  BY <1>1, <1>2, <1>3, <1>4, <1>5 DEF c

(* The size of a page and the number of pages do not depend on the page    *)
(* asked for, and the pages are as many as it takes.                       *)
Pagination(size, pages, pageSize, total) ==
  /\ total <= pages * size
  /\ total # 0 => (pages - 1) * size < total
  /\ total = 0 => pages = 1
  /\ \A page \in Int :
       LET p == Paginate(page, pageSize, total)
       IN  /\ p.pageSize = size /\ p.totalPages = pages
           /\ p.page \in 1 .. pages
           /\ page \in 1 .. pages => p.page = page
           /\ p.offset = (p.page - 1) * size

LEMMA PaginateFacts ==
  ASSUME NEW pageSize \in Int, NEW total \in Nat
  PROVE  \E size \in 1 .. MaxPageSize, pages \in Nat \ {0} :
           Pagination(size, pages, pageSize, total)
<1> DEFINE size  == IF pageSize <= 0 THEN DefaultPageSize
                    ELSE Min({pageSize, MaxPageSize})
           pages == Max({1, Ceiling(total, size)})
<1>1. size \in 1 .. MaxPageSize
  BY AllocationsAssumption, MinMax
<1> HIDE DEF size
<1>2. /\ Ceiling(total, size) \in Nat
      /\ total <= Ceiling(total, size) * size
      /\ (Ceiling(total, size) - 1) * size < total
      /\ Ceiling(total, size) = 0 <=> total = 0
  BY <1>1, CeilingFacts
<1>3. pages = IF 1 >= Ceiling(total, size) THEN 1 ELSE Ceiling(total, size)
  <2>1. Ceiling(total, size) \in Int /\ 1 \in Int
    BY <1>2
  <2>2. QED
    BY <2>1, MinMax, Zenon
<1>4. pages \in Nat \ {0}
  BY <1>2, <1>3
<1>5. /\ total <= pages * size
      /\ total # 0 => (pages - 1) * size < total
      /\ total = 0 => pages = 1
  <2>1. CASE total = 0
    <3>1. pages = 1
      BY <1>2, <1>3, <2>1
    <3>2. QED
      BY <1>1, <2>1, <3>1
  <2>2. CASE total # 0
    <3>1. pages = Ceiling(total, size)
      BY <1>2, <1>3, <2>2
    <3>2. QED
      BY <1>2, <2>2, <3>1
  <2>3. QED
    BY <2>1, <2>2
<1>6. ASSUME NEW page \in Int
      PROVE  LET p == Paginate(page, pageSize, total)
             IN  /\ p.pageSize = size /\ p.totalPages = pages
                 /\ p.page \in 1 .. pages
                 /\ page \in 1 .. pages => p.page = page
                 /\ p.offset = (p.page - 1) * size
  <2> DEFINE effective == Max({1, Min({page, pages})})
  <2>1. Paginate(page, pageSize, total) =
          [page |-> effective, pageSize |-> size, totalPages |-> pages,
           offset |-> (effective - 1) * size]
    BY DEF Paginate, size
  <2> HIDE DEF pages
  <2>2. effective \in 1 .. pages /\ (page \in 1 .. pages => effective = page)
    <3>1. Min({page, pages}) = IF page =< pages THEN page ELSE pages
      BY <1>4, MinMax
    <3>2. effective = IF 1 >= Min({page, pages}) THEN 1 ELSE Min({page, pages})
      BY <1>4, <3>1, MinMax
    <3>3. QED
      BY <1>4, <3>1, <3>2
  <2>3. QED
    BY <2>1, <2>2
<1> HIDE DEF pages
<1>7. Pagination(size, pages, pageSize, total)
  BY <1>5, <1>6 DEF Pagination
<1>8. QED
  BY <1>1, <1>4, <1>7

(* Where the rows of pages are: the i-th row of page p is the Nth(p, i)-th *)
(* of all, and all places are there once and in order.                     *)
Nth(size, p, i) == (p - 1) * size + i

LEMMA NthFacts ==
  ASSUME NEW size \in Nat \ {0}, NEW p \in Nat \ {0}, NEW i \in 1 .. size,
         NEW q \in Nat \ {0}, NEW j \in 1 .. size
  PROVE  /\ Nth(size, p, i) \in Nat \ {0}
         /\ p < q \/ (p = q /\ i < j) => Nth(size, p, i) < Nth(size, q, j)
         /\ Nth(size, p, i) = Nth(size, q, j) => p = q /\ i = j
<1> DEFINE Next(a, b) == (a - 1) * size >= (b - 1) * size + size
<1>1. \A a, b \in Nat \ {0} : a > b => Next(a, b)
  <2>1. SUFFICES ASSUME NEW a \in Nat \ {0}, NEW b \in Nat \ {0}, a > b
                 PROVE  Next(a, b)
    OBVIOUS
  <2> DEFINE d == a - b - 1
  <2>2. d \in Nat /\ a = b + d + 1
    BY <2>1
  <2> HIDE DEF d
  <2>3. (a - 1) * size = (b - 1) * size + size + d * size
    BY <2>2
  <2>4. d * size \in Nat /\ (b - 1) * size \in Int
    BY <2>2
  <2>5. QED
    BY <2>3, <2>4
<1>2. /\ (p - 1) * size \in Nat /\ (q - 1) * size \in Nat
  <2>1. p - 1 \in Nat /\ q - 1 \in Nat /\ \A a, b \in Nat : a * b \in Nat
    OBVIOUS
  <2>2. QED
    BY <2>1
<1>3. /\ p > q => (p - 1) * size >= (q - 1) * size + size
      /\ q > p => (q - 1) * size >= (p - 1) * size + size
  BY <1>1
<1>4. p = q => (p - 1) * size = (q - 1) * size
  OBVIOUS
<1>5. QED
  BY <1>2, <1>3, <1>4 DEF Nth

LEMMA EveryNth ==
  ASSUME NEW size \in Nat \ {0}, NEW pages \in Nat \ {0},
         NEW n \in Nat \ {0}, n <= pages * size
  PROVE  \E p \in 1 .. pages, i \in 1 .. size : n = Nth(size, p, i)
<1> DEFINE d == (n - 1) \div size
           r == (n - 1) % size
<1>1. n - 1 \in Nat
  OBVIOUS
<1>2. d \in Int /\ n - 1 = d * size + r /\ r \in 0 .. size - 1
  BY <1>1
<1> HIDE DEF d, r
<1>3. d >= 0
  <2>1. SUFFICES ASSUME d <= -1 PROVE FALSE
    BY <1>2
  <2>2. d * size <= -size
    BY <1>2, <2>1
  <2>3. QED
    BY <1>1, <1>2, <2>2
<1>4. d < pages
  <2>1. SUFFICES ASSUME d >= pages PROVE FALSE
    BY <1>2
  <2> DEFINE e == d - pages
  <2>2. e \in Nat /\ d = pages + e
    BY <1>2, <2>1
  <2> HIDE DEF e
  <2>3. d * size = pages * size + e * size
    BY <2>2
  <2>4. e * size \in Nat /\ pages * size \in Nat
    BY <2>2
  <2>5. QED
    BY <1>1, <1>2, <2>3, <2>4
<1>5. d + 1 \in 1 .. pages /\ r + 1 \in 1 .. size
  BY <1>2, <1>3, <1>4
<1>6. n = Nth(size, d + 1, r + 1)
  <2>1. (d + 1) - 1 = d
    BY <1>2
  <2>2. n = d * size + (r + 1)
    BY <1>1, <1>2
  <2>3. QED
    BY <2>1, <2>2 DEF Nth
<1>7. QED
  BY <1>5, <1>6

IsPage(rows, list, size, p) ==
  /\ DOMAIN rows = {i \in 1 .. size : Nth(size, p, i) <= Len(list)}
  /\ \A i \in DOMAIN rows : rows[i] = list[Nth(size, p, i)]
  /\ Nth(size, p, size) <= Len(list) => Len(rows) = size

LEMMA PageOfFacts ==
  ASSUME NEW T, NEW list \in Seq(T), NEW size \in Nat \ {0},
         NEW p \in Nat \ {0}, (p - 1) * size <= Len(list),
         NEW at, at.offset = (p - 1) * size, at.pageSize = size
  PROVE  /\ PageOf(list, at) \in Seq(T)
         /\ IsPage(PageOf(list, at), list, size, p)
<1> DEFINE o  == (p - 1) * size
           L  == Len(list)
           to == IF o + size <= L THEN o + size ELSE L
           k  == to - o
           rows == PageOf(list, at)
<1>1. o \in Nat
  <2>1. p - 1 \in Nat /\ \A a, b \in Nat : a * b \in Nat
    OBVIOUS
  <2>2. QED
    BY <2>1
<1>2. L \in Nat /\ DOMAIN list = 1 .. L /\ o <= L
  OBVIOUS
<1>3. rows = SubSeq(list, o + 1, to)
  <2>1. Min({o + size, L}) = to
    BY <1>1, <1>2, MinMax
  <2>2. QED
    BY <2>1 DEF PageOf
<1>4. \A i \in 1 .. size : Nth(size, p, i) = o + i
  BY DEF Nth
<1> HIDE DEF o, rows
<1> HIDE DEF L
<1>5. k \in 0 .. size /\ to \in 0 .. L /\ to = o + k
  BY <1>1, <1>2
<1>6. IF o + size <= L THEN k = size ELSE o + k = L /\ k < size
  BY <1>1, <1>2
<1> HIDE DEF to, k
<1>7. \A i \in 1 .. size : i <= k <=> o + i <= L
  BY <1>1, <1>2, <1>5, <1>6
<1>8. rows = [i \in 1 .. k |-> list[o + i]]
  <2>1. SubSeq(list, o + 1, to) = [i \in 1 .. (1 + to - (o + 1)) |->
                                     list[i + (o + 1) - 1]]
    BY <1>1, <1>2, <1>5
  <2>2. 1 + to - (o + 1) = k /\ \A i \in 1 .. k : i + (o + 1) - 1 = o + i
    BY <1>1, <1>5
  <2>3. QED
    BY <1>3, <2>1, <2>2
<1>9. \A i \in 1 .. k : list[o + i] \in T
  <2>1. \A i \in 1 .. k : o + i \in 1 .. L
    BY <1>1, <1>2, <1>5
  <2>2. \A i \in 1 .. L : list[i] \in T
    BY <1>2
  <2>3. QED
    BY <2>1, <2>2
<1>10. rows \in [1 .. k -> T] /\ k \in Nat
  BY <1>5, <1>8, <1>9
<1>11. rows \in Seq(T) /\ Len(rows) = k
  BY <1>10
<1>12. DOMAIN rows = {i \in 1 .. size : Nth(size, p, i) <= Len(list)}
  <2>1. ASSUME NEW i \in 1 .. size PROVE i <= k <=> o + i <= L
    BY <1>7
  <2>2. \A i \in 1 .. k : i \in 1 .. size
    BY <1>5
  <2>3. QED
    BY <1>4, <1>5, <1>10, <2>1, <2>2 DEF L
<1>13. \A i \in DOMAIN rows : rows[i] = list[Nth(size, p, i)]
  <2>1. \A i \in 1 .. k : i \in 1 .. size
    BY <1>5
  <2>2. QED
    BY <1>4, <1>8, <2>1
<1>14. Nth(size, p, size) <= Len(list) => Len(rows) = size
  <2>1. size \in 1 .. size
    OBVIOUS
  <2>2. Nth(size, p, size) <= L => size <= k
    BY <1>4, <1>7, <2>1
  <2>3. QED
    BY <1>5, <1>11, <2>2 DEF L
<1>15. QED
  BY <1>11, <1>12, <1>13, <1>14 DEF rows, IsPage

-----------------------------------------------------------------------------
(* Query strings: of a view all is written that is not the default, and    *)
(* the two parameters of the sort both or neither.                         *)

LEMMA BuildFacts ==
  ASSUME NEW Params, NEW view, NEW default,
         view = [p \in Params |-> view[p]], SortParams \subseteq Params
  PROVE  LET url == Build(view, default)
         IN  /\ DOMAIN url \subseteq Params
             /\ \A p \in DOMAIN url : url[p] = view[p]
             /\ \A p \in DOMAIN url :
                  view[p] # default[p] \/ p \in SortParams
             /\ \A p \in Params \ DOMAIN url : view[p] = default[p]
             /\ SortParams \subseteq DOMAIN url \/ SortParams \cap DOMAIN url = {}
<1> DEFINE changed == {p \in Params : view[p] # default[p]}
           written == IF changed \cap SortParams = {}
                      THEN changed ELSE changed \cup SortParams
           url == Build(view, default)
<1>1. DOMAIN view = Params
  OBVIOUS
<1>2. url = [p \in written |-> view[p]]
  BY <1>1 DEF Build, Restrict
<1>3. SortParams \subseteq written \/ SortParams \cap written = {}
  OBVIOUS
<1>4. /\ written \subseteq Params
      /\ \A p \in written : view[p] # default[p] \/ p \in SortParams
      /\ \A p \in Params \ written : view[p] = default[p]
  OBVIOUS
<1> HIDE DEF written, url
<1>5. DOMAIN url = written /\ \A p \in written : url[p] = view[p]
  BY <1>2
<1>6. QED
  BY <1>3, <1>4, <1>5 DEF url

(* What is accepted of a query string is read, but one parameter of the    *)
(* sort not without the other.                                             *)
LEMMA ParseFacts ==
  ASSUME NEW url, NEW default, NEW valid
  PROVE  \E read : /\ read \subseteq valid
                   /\ SortParams \subseteq valid \/ SortParams \cap valid = {}
                        => read = valid
                   /\ Parse(url, default, valid) =
                        [p \in DOMAIN default |->
                           IF p \in read THEN url[p] ELSE default[p]]
<1> DEFINE read == IF SortParams \subseteq valid
                   THEN valid ELSE valid \ SortParams
<1>1. /\ read \subseteq valid
      /\ SortParams \subseteq valid \/ SortParams \cap valid = {} => read = valid
  OBVIOUS
<1>2. Parse(url, default, valid) =
        [p \in DOMAIN default |-> IF p \in read THEN url[p] ELSE default[p]]
  BY DEF Parse
<1> HIDE DEF read
<1>3. QED
  BY <1>1, <1>2

(* If all that was written for a view is accepted, what is read is the     *)
(* view, though parameters that have their default were left out.          *)
LEMMA ParseBuild ==
  ASSUME NEW Params, NEW view, NEW default,
         view = [p \in Params |-> view[p]], SortParams \subseteq Params,
         DOMAIN default = Params
  PROVE  Parse(Build(view, default), default, DOMAIN Build(view, default))
           = view
<1> DEFINE url == Build(view, default)
           valid == DOMAIN url
<1>1. /\ valid \subseteq Params
      /\ \A p \in valid : url[p] = view[p]
      /\ \A p \in Params \ valid : view[p] = default[p]
      /\ SortParams \subseteq valid \/ SortParams \cap valid = {}
  BY BuildFacts
<1> HIDE DEF url, valid
<1>2. PICK read : /\ read = valid
                  /\ Parse(url, default, valid) =
                       [p \in Params |->
                          IF p \in read THEN url[p] ELSE default[p]]
  BY <1>1, ParseFacts
<1>3. \A p \in Params : (IF p \in read THEN url[p] ELSE default[p]) = view[p]
  BY <1>1, <1>2
<1>4. Parse(url, default, valid) = [p \in Params |-> view[p]]
  BY <1>2, <1>3
<1>5. QED
  BY <1>4 DEF url, valid

LEMMA NextDirectionIsOne ==
  \A dir \in {"asc", "desc", "none"} :
    NextDirection(dir) \in {"asc", "desc", "none"}
<1> SUFFICES ASSUME NEW dir \in {"asc", "desc", "none"}
             PROVE  NextDirection(dir) \in {"asc", "desc", "none"}
  OBVIOUS
<1> DEFINE i == CHOOSE n \in DOMAIN Directions : Directions[n] = dir
<1>1. DOMAIN Directions = 1 .. 3
  BY DEF Directions
<1>2. \E n \in DOMAIN Directions : Directions[n] = dir
  <2>1. Directions[1] = "asc" /\ Directions[2] = "desc" /\ Directions[3] = "none"
    BY DEF Directions
  <2>2. QED
    BY <1>1, <2>1
<1>3. i \in 1 .. 3
  BY <1>1, <1>2
<1>4. NextDirection(dir) = Directions[(i % 3) + 1]
  BY DEF NextDirection
<1> HIDE DEF i
<1>5. (i % 3) + 1 \in 1 .. 3
  BY <1>3
<1>6. QED
  BY <1>4, <1>5 DEF Directions

-----------------------------------------------------------------------------
(* The pages of a list.                                                    *)

LEMMA CeilingOfFacts ==
  \A items \in Nat \ {0}, size \in Nat \ {0} :
    /\ CeilingOf(items, size) \in Nat \ {0}
    /\ (CeilingOf(items, size) - 1) * size < items
<1> SUFFICES ASSUME NEW items \in Nat \ {0}, NEW size \in Nat \ {0}
             PROVE  /\ CeilingOf(items, size) \in Nat \ {0}
                    /\ (CeilingOf(items, size) - 1) * size < items
  OBVIOUS
<1> DEFINE c == CeilingOf(items, size)
<1>1. /\ c \in Int
      /\ c * size =< items + size - 1
      /\ items + size - 1 < c * size + size
  BY DEF CeilingOf
<1> HIDE DEF c
<1>2. c > 0
  <2>1. SUFFICES ASSUME c =< 0 PROVE FALSE
    BY <1>1
  <2>2. c * size =< 0
    BY <1>1, <2>1
  <2>3. QED
    BY <1>1, <2>2
<1>3. (c - 1) * size = c * size - size
  BY <1>1
<1>4. QED
  BY <1>1, <1>2, <1>3 DEF c

(* The page shown is a page, and it begins at or before the last item.     *)
LEMMA EffectiveFacts ==
  \A page \in Nat \ {0}, items \in Nat, size \in Nat \ {0} :
    /\ Effective(page, items, size) \in Nat \ {0}
    /\ items # 0 => (Effective(page, items, size) - 1) * size < items
<1> SUFFICES ASSUME NEW page \in Nat \ {0}, NEW items \in Nat,
                    NEW size \in Nat \ {0}
             PROVE  /\ Effective(page, items, size) \in Nat \ {0}
                    /\ items # 0 =>
                         (Effective(page, items, size) - 1) * size < items
  OBVIOUS
<1> DEFINE pages == PagesOf(items, size)
<1>1. pages \in Nat \ {0}
  BY CeilingOfFacts DEF PagesOf
<1>2. items # 0 => (pages - 1) * size < items
  BY CeilingOfFacts DEF PagesOf
<1>3. Effective(page, items, size) = IF page > pages THEN pages ELSE page
  BY DEF Effective
<1> HIDE DEF pages
<1>4. page =< pages => (page - 1) * size =< (pages - 1) * size
  <2> DEFINE d == pages - page
  <2>1. SUFFICES ASSUME page =< pages
                 PROVE  (page - 1) * size =< (pages - 1) * size
    OBVIOUS
  <2>2. d \in Nat /\ pages = page + d
    BY <1>1, <2>1
  <2> HIDE DEF d
  <2>3. (pages - 1) * size = (page - 1) * size + d * size
    BY <2>2
  <2>4. d * size \in Nat /\ (page - 1) * size \in Int
    BY <2>2
  <2>5. QED
    BY <2>3, <2>4
<1>5. (page - 1) * size \in Int /\ (pages - 1) * size \in Int
  BY <1>1
<1>6. QED
  BY <1>1, <1>2, <1>3, <1>4, <1>5

(* A page that begins at or before the last item shows one.                *)
LEMMA SliceNotEmpty ==
  ASSUME NEW S, NEW seq \in Seq(S), NEW page \in Nat \ {0},
         NEW size \in Nat \ {0}, (page - 1) * size < Len(seq)
  PROVE  Slice(seq, page, size) # << >>
<1> DEFINE first == (page - 1) * size + 1
           to    == IF page * size > Len(seq) THEN Len(seq) ELSE page * size
<1>1. page * size = (page - 1) * size + size
  OBVIOUS
<1>2. (page - 1) * size \in Nat /\ page * size \in Nat
  <2>1. page - 1 \in Nat
    OBVIOUS
  <2>2. \A a, b \in Nat : a * b \in Nat
    OBVIOUS
  <2>3. QED
    BY <2>1, <2>2
<1>3. first \in 1 .. Len(seq) /\ to \in 1 .. Len(seq) /\ first =< to
  BY <1>1, <1>2
<1>4. Slice(seq, page, size) = SubSeq(seq, first, to)
  BY DEF Slice
<1> HIDE DEF first, to
<1>5. Len(SubSeq(seq, first, to)) = to - first + 1
  BY <1>3
<1>6. Len(SubSeq(seq, first, to)) # 0
  BY <1>3, <1>5
<1>7. Len(<< >>) = 0
  OBVIOUS
<1>8. SubSeq(seq, first, to) # << >>
  BY <1>6, <1>7, Zenon
<1>9. QED
  BY <1>4, <1>8

(* A function on 1..n is a sequence of its values.                         *)
LEMMA IsSeq ==
  \A f : \A n \in Nat :
    f = [i \in 1 .. n |-> f[i]]
      => /\ f \in Seq({f[i] : i \in 1 .. n})
         /\ Len(f) = n
<1> SUFFICES ASSUME NEW f, NEW n \in Nat, f = [i \in 1 .. n |-> f[i]]
             PROVE  /\ f \in Seq({f[i] : i \in 1 .. n})
                    /\ Len(f) = n
  OBVIOUS
<1> DEFINE S == {f[i] : i \in 1 .. n}
<1>1. \A i \in 1 .. n : f[i] \in S
  OBVIOUS
<1> HIDE DEF S
<1>2. f \in [1 .. n -> S]
  BY <1>1
<1>3. f \in Seq(S)
  BY <1>2
<1>4. QED
  BY <1>2, <1>3 DEF S

-----------------------------------------------------------------------------
(* The counts by version.                                                  *)

VersionsOf(list) == {s.version : s \in ToSet(list)}

InGroup(list, v, status) ==
  {i \in DOMAIN list : list[i].version = v /\ list[i].status = status}

(* A group has the version of some allocation, every version has a group,  *)
(* and what a group counts is its allocations.                             *)
Grouping(groups, list, times, now) ==
  /\ \A n \in DOMAIN groups :
       /\ groups[n].version \in VersionsOf(list)
       /\ groups[n].lastModified
            = LastModifiedSeconds(times, groups[n].version, now)
       /\ \A status \in ClientStatuses :
            groups[n].counts[status]
              = Cardinality(InGroup(list, groups[n].version, status))
  /\ \A v \in VersionsOf(list) :
       \E n \in DOMAIN groups : groups[n].version = v

(* The list is one, and has version numbers.                               *)
Versioned(list) ==
  /\ \E T : list \in Seq(T)
  /\ \A s \in ToSet(list) : s.version \in Nat

LEMMA FieldFinite ==
  ASSUME NEW T, NEW list \in Seq(T), NEW field
  PROVE  IsFiniteSet({s[field] : s \in ToSet(list)})
<1> DEFINE S == DOMAIN list
           V == {s[field] : s \in ToSet(list)}
           f == [i \in S |-> list[i][field]]
<1>1. S = 1 .. Len(list) /\ Len(list) \in Nat
  OBVIOUS
<1>2. IsFiniteSet(S)
  BY <1>1, Counting
<1>3. /\ \A i \in S : list[i][field] \in V
      /\ \A v \in V : \E i \in S : v = list[i][field]
  BY DEF ToSet
<1> HIDE DEF S, V
<1>4. f \in Surjection(S, V)
  BY <1>3 DEF Surjection
<1>5. QED
  BY <1>2, <1>4, FS_Surjection DEF V

LEMMA VersionsOfFacts ==
  ASSUME NEW list, Versioned(list)
  PROVE  IsFiniteSet(VersionsOf(list)) /\ VersionsOf(list) \subseteq Nat
<1>1. PICK T : list \in Seq(T)
  BY DEF Versioned
<1>2. VersionsOf(list) = {s["version"] : s \in ToSet(list)}
  BY DEF VersionsOf
<1>3. QED
  BY <1>1, <1>2, FieldFinite DEF Versioned, VersionsOf

LEMMA GroupsFacts ==
  ASSUME NEW list, Versioned(list), NEW times, NEW now
  PROVE  Grouping(GroupByVersion(list, times, now), list, times, now)
<1> DEFINE V == VersionsOf(list)
           d == Descending(V)
           k == Cardinality(V)
           groups == GroupByVersion(list, times, now)
<1>1. groups = [n \in DOMAIN d |->
                  [version |-> d[n],
                   lastModified |-> LastModifiedSeconds(times, d[n], now),
                   counts |-> [c \in ClientStatuses |->
                                 Cardinality(InGroup(list, d[n], c))]]]
  BY DEF GroupByVersion, InGroup, VersionsOf
<1> HIDE DEF groups, V
<1>2. /\ k \in Nat
      /\ d \in [1 .. k -> V]
      /\ \A v \in V : \E n \in 1 .. k : d[n] = v
  <2>1. IsFiniteSet(V) /\ V \subseteq Int
    BY VersionsOfFacts DEF V
  <2>2. QED
    BY <2>1, DescendingFacts
<1> HIDE DEF d, k
<1>3. DOMAIN groups = 1 .. k /\ DOMAIN d = 1 .. k
  BY <1>1, <1>2
<1>4. ASSUME NEW n \in 1 .. k
      PROVE  /\ groups[n].version = d[n]
             /\ groups[n].lastModified = LastModifiedSeconds(times, d[n], now)
             /\ \A c \in ClientStatuses : groups[n].counts[c]
                                           = Cardinality(InGroup(list, d[n], c))
  BY <1>1, <1>3
<1>5. ASSUME NEW n \in 1 .. k
      PROVE  /\ groups[n].version \in V
             /\ groups[n].lastModified
                  = LastModifiedSeconds(times, groups[n].version, now)
             /\ \A status \in ClientStatuses :
                  groups[n].counts[status]
                    = Cardinality(InGroup(list, groups[n].version, status))
  <2>1. /\ groups[n].version \in V
        /\ groups[n].lastModified
             = LastModifiedSeconds(times, groups[n].version, now)
    BY <1>2, <1>4
  <2>2. ASSUME NEW status \in ClientStatuses
        PROVE  groups[n].counts[status]
                 = Cardinality(InGroup(list, groups[n].version, status))
    BY <1>4
  <2>3. QED
    BY <2>1, <2>2
<1>6. \A w \in V : \E n \in 1 .. k : groups[n].version = w
  BY <1>2, <1>4
<1>7. Grouping(groups, list, times, now)
  BY <1>3, <1>5, <1>6 DEF Grouping, V
<1>8. QED
  BY <1>7 DEF groups
=============================================================================
