--------------------------- MODULE ListJobsProofs ---------------------------
(***************************************************************************)
(* Proofs about ListJobs, for any number of jobs, deployments, task groups *)
(* and polls: what a row says is true of a cluster that stood still, and a *)
(* rollout is measured from one moment.                                    *)
(***************************************************************************)
EXTENDS ListJobs, WellFoundedInduction, TLAPS

-----------------------------------------------------------------------------
(* Numbers. *)

(* A set of naturals has a least element. *)
LEMMA LeastExists ==
  ASSUME NEW T, T \subseteq Nat, T # {}
  PROVE  Min(T) \in T /\ \A y \in T : Min(T) <= y
<1> DEFINE R == OpToRel(<, Nat)
<1>1. \A x, y \in Nat : <<y, x>> \in R <=> y < x
  BY Zenon DEF OpToRel
<1>2. IsWellFoundedOn(R, Nat)
  BY NatLessThanWellFounded, Zenon
<1> HIDE DEF R
<1>3. PICK x \in T : \A y \in T : ~(<<y, x>> \in R)
  BY <1>2, WFMin
<1>4. ASSUME NEW y \in T PROVE x <= y
  <2>1. x \in Nat /\ y \in Nat
    OBVIOUS
  <2>2. ~(y < x)
    BY <1>1, <1>3, <2>1
  <2>3. QED
    BY <2>1, <2>2
<1>6. QED
  BY <1>4 DEF Min

(* A bounded set of naturals has a greatest element. *)
LEMMA GreatestExists ==
  ASSUME NEW b \in Nat, NEW T, T \subseteq 0 .. b, T # {}
  PROVE  \E x \in T : \A y \in T : y <= x
<1> DEFINE U == {u \in 0 .. b : b - u \in T}
<1>1. PICK t \in T : TRUE
  OBVIOUS
<1>2. b - t \in U
  <2>1. t \in 0 .. b
    BY <1>1
  <2>2. b - t \in 0 .. b /\ b - (b - t) = t
    BY <2>1
  <2>3. QED
    BY <1>1, <2>2
<1>3. Min(U) \in U /\ \A u \in U : Min(U) <= u
  <2>1. U \subseteq Nat /\ U # {}
    BY <1>2
  <2> HIDE DEF U
  <2>2. QED
    BY <2>1, LeastExists
<1> DEFINE m == Min(U)
<1>4. m \in 0 .. b /\ b - m \in T /\ \A u \in U : m <= u
  BY <1>3
<1> HIDE DEF m
<1>5. ASSUME NEW y \in T PROVE y <= b - m
  <2>1. y \in 0 .. b
    OBVIOUS
  <2>2. b - y \in 0 .. b /\ b - (b - y) = y
    BY <2>1
  <2>3. b - y \in U
    BY <2>2
  <2>4. m <= b - y
    BY <1>4, <2>3
  <2>5. QED
    BY <1>4, <2>1, <2>4
<1>6. QED
  BY <1>4, <1>5

LEMMA MaxIs ==
  ASSUME NEW T, NEW m \in T, m \in Int, \A x \in T : x \in Int /\ x <= m
  PROVE  Max(T) = m
<1>1. \A x \in T : (\A y \in T : x >= y) <=> x = m
  OBVIOUS
<1>2. QED
  BY <1>1 DEF Max

(* What 0 has, and after every number below b the next one, b has. *)
LEMMA UpTo ==
  ASSUME NEW b \in Nat, NEW T, 0 \in T,
         \A n \in 0 .. b : n \in T /\ n < b => n + 1 \in T
  PROVE  b \in T
<1> DEFINE U == (0 .. b) \ T
<1>1. SUFFICES ASSUME b \notin T PROVE FALSE
  OBVIOUS
<1>2. U \subseteq Nat /\ U # {}
  BY <1>1
<1> DEFINE m == Min(U)
<1>3. m \in U /\ \A u \in U : m <= u
  <2> HIDE DEF U
  <2>1. QED
    BY <1>2, LeastExists
<1> HIDE DEF m
<1>4. m \in 0 .. b /\ m \notin T /\ m # 0
  BY <1>3
<1>5. m - 1 \in 0 .. b /\ m - 1 < b /\ (m - 1) + 1 = m /\ ~(m <= m - 1)
  BY <1>4
<1>6. m - 1 \in T
  BY <1>3, <1>5
<1>7. QED
  BY <1>4, <1>5, <1>6

-----------------------------------------------------------------------------
(* The sum of a field over a deployment's task groups. *)

LEMMA TotalNat ==
  ASSUME NEW groups, NEW field, NEW len \in Nat, DOMAIN groups = 1 .. len,
         \A n \in 1 .. len : groups[n][field] \in Nat
  PROVE  Total(groups, field) \in Nat
<1> DEFINE Sum(n, it) == [s \in SUBSET (1 .. n) |->
                            IF s = {} THEN 0
                            ELSE it[s \ {Max(s)}] + groups[Max(s)][field]]
           Sums == {n \in 0 .. len : \E it : it = Sum(n, it)}
<1>1. len \in Sums
  <2>1. 0 \in Sums
    <3> DEFINE it == [s \in SUBSET (1 .. 0) |-> 0]
    <3>1. it = Sum(0, it)
      <4>1. 1 .. 0 = {}
        OBVIOUS
      <4>2. \A s \in SUBSET (1 .. 0) : s = {}
        BY <4>1
      <4>3. QED
        BY <4>2
    <3>2. QED
      BY <3>1
  <2>2. ASSUME NEW n \in 0 .. len, n \in Sums, n < len
        PROVE  n + 1 \in Sums
    <3>1. PICK it : it = Sum(n, it)
      BY <2>2
    <3> DEFINE next == [s \in SUBSET (1 .. (n + 1)) |->
                          IF n + 1 \in s
                          THEN it[s \ {n + 1}] + groups[n + 1][field]
                          ELSE it[s]]
    <3>2. /\ n + 1 \notin 1 .. n
          /\ \A s \in SUBSET (1 .. (n + 1)) :
               /\ s \ {n + 1} \in SUBSET (1 .. n)
               /\ n + 1 \notin s => s \in SUBSET (1 .. n)
               /\ n + 1 \in s => Max(s) = n + 1
      <4>1. n + 1 \notin 1 .. n /\ 1 .. (n + 1) = (1 .. n) \cup {n + 1}
        OBVIOUS
      <4>2. ASSUME NEW s \in SUBSET (1 .. (n + 1)), n + 1 \in s
            PROVE  Max(s) = n + 1
        <5>1. \A x \in s : x \in Int /\ x <= n + 1
          OBVIOUS
        <5>2. QED
          BY <4>2, <5>1, MaxIs
      <4>3. QED
        BY <4>1, <4>2
    <3>3. ASSUME NEW s \in SUBSET (1 .. (n + 1))
          PROVE  next[s] = Sum(n + 1, next)[s]
      <4>1. CASE n + 1 \in s
        <5> DEFINE r == s \ {n + 1}
        <5>1. /\ s # {} /\ Max(s) = n + 1
              /\ r \in SUBSET (1 .. (n + 1)) /\ n + 1 \notin r
          BY <3>2, <4>1
        <5>2. next[r] = it[r] /\ next[s] = it[r] + groups[n + 1][field]
          BY <4>1, <5>1
        <5>3. Sum(n + 1, next)[s] = next[s \ {Max(s)}] + groups[Max(s)][field]
          BY <5>1
        <5> HIDE DEF next
        <5>4. QED
          BY <5>1, <5>2, <5>3
      <4>2. CASE n + 1 \notin s
        <5>1. s \in SUBSET (1 .. n) /\ next[s] = it[s]
          BY <3>2, <4>2
        <5>2. CASE s = {}
          BY <3>1, <5>1, <5>2
        <5>3. CASE s # {}
          <6> DEFINE r == s \ {Max(s)}
          <6>1. r \in SUBSET (1 .. (n + 1)) /\ n + 1 \notin r
                /\ r \in SUBSET (1 .. n)
            BY <4>2, <5>1
          <6>2. next[r] = it[r]
            BY <6>1
          <6>3. it[s] = it[r] + groups[Max(s)][field]
            BY <3>1, <5>1, <5>3
          <6>4. Sum(n + 1, next)[s] = next[r] + groups[Max(s)][field]
            BY <5>3
          <6> HIDE DEF next, r
          <6>5. QED
            BY <5>1, <6>2, <6>3, <6>4
        <5>4. QED
          BY <5>2, <5>3
      <4>3. QED
        BY <4>1, <4>2
    <3>4. next = Sum(n + 1, next)
      <4>1. DOMAIN next = DOMAIN Sum(n + 1, next)
        OBVIOUS
      <4>2. QED
        BY <3>3
    <3> HIDE DEF next
    <3>5. n + 1 \in 0 .. len
      BY <2>2
    <3>6. QED
      BY <3>4, <3>5
  <2> HIDE DEF Sums
  <2>3. QED
    BY <2>1, <2>2, UpTo
<1> DEFINE c == CHOOSE it : it = Sum(len, it)
<1>2. c = Sum(len, c)
  BY <1>1
<1>3. Total(groups, field) = c[1 .. len]
  BY DEF Total, FoldLeft, MapThenFoldSet
<1> DEFINE T == {n \in 0 .. len : c[1 .. n] \in Nat}
<1>4. 0 \in T
  <2>1. 1 .. 0 = {} /\ {} \in SUBSET (1 .. len)
    OBVIOUS
  <2> HIDE DEF c
  <2>2. QED
    BY <1>2, <2>1
<1>5. ASSUME NEW n \in 0 .. len, n \in T, n < len
      PROVE  n + 1 \in T
  <2> HIDE DEF c
  <2>1. n + 1 \in 1 .. (n + 1) /\ \A x \in 1 .. (n + 1) : x \in Int /\ x <= n + 1
    OBVIOUS
  <2>2. Max(1 .. (n + 1)) = n + 1
    BY <2>1, MaxIs
  <2>3. (1 .. (n + 1)) \ {n + 1} = 1 .. n
    OBVIOUS
  <2>4. 1 .. (n + 1) \in SUBSET (1 .. len)
    BY <1>5
  <2>5. c[1 .. (n + 1)] = c[1 .. n] + groups[n + 1][field]
    BY <1>2, <2>1, <2>2, <2>3, <2>4
  <2>6. groups[n + 1][field] \in Nat
    BY <1>5
  <2>7. QED
    BY <1>5, <2>5, <2>6
<1>6. len \in T
  <2> HIDE DEF T
  <2>1. QED
    BY <1>4, <1>5, UpTo
<1>7. QED
  BY <1>3, <1>6

-----------------------------------------------------------------------------
(* The progress shown is the one it is to be. *)

LEMMA DivFacts ==
  ASSUME NEW a \in Nat, NEW d \in Nat \ {0}
  PROVE  LET q == a \div d
         IN  q \in Nat /\ q * d <= a /\ a < (q + 1) * d
<1> DEFINE q == a \div d
<1>1. q \in Int
  OBVIOUS
<1>2. a % d \in 0 .. (d - 1)
  OBVIOUS
<1>3. a = d * q + (a % d)
  OBVIOUS
<1> HIDE DEF q
<1>4. q * d <= a
  BY <1>1, <1>2, <1>3
<1>5. a < (q + 1) * d
  BY <1>1, <1>2, <1>3
<1>6. q >= 0
  <2>1. q < 0 => (q + 1) * d <= 0
    BY <1>1
  <2>2. QED
    BY <1>1, <1>5, <2>1
<1>7. QED
  BY <1>1, <1>4, <1>5, <1>6 DEF q

LEMMA TimesMonotone ==
  ASSUME NEW a \in Int, NEW b \in Int, NEW d \in Nat \ {0}
  PROVE  a <= b <=> a * d <= b * d
OBVIOUS

Group == [healthy : Nat, desired : Nat, canaries : Nat]

LEMMA ProgressIs ==
  ASSUME NEW groups \in Seq(Group)
  PROVE  IsProgress(Progress(groups), groups)
<1> DEFINE healthy == Total(groups, "healthy")
           desired == Total(groups, "desired")
           q == (healthy * 100) \div desired
<1>1. healthy \in Nat /\ desired \in Nat
  <2>1. /\ Len(groups) \in Nat /\ DOMAIN groups = 1 .. Len(groups)
        /\ \A n \in 1 .. Len(groups) : groups[n] \in Group
    OBVIOUS
  <2>2. \A g \in Group : g["healthy"] \in Nat /\ g["desired"] \in Nat
    BY DEF Group
  <2>3. QED
    BY <2>1, <2>2, TotalNat
<1> HIDE DEF healthy, desired
<1>2. CASE desired = 0
  BY <1>2 DEF IsProgress, Progress, healthy, desired
<1>3. CASE desired # 0
  <2>1. q \in Nat /\ q * desired <= healthy * 100 /\ healthy * 100 < (q + 1) * desired
    BY <1>1, <1>3, DivFacts
  <2>2. Progress(groups) = Min({100, q})
    BY <1>1, <1>3 DEF Progress, healthy, desired
  <2> HIDE DEF q
  <2>3. healthy >= desired <=> q >= 100
    <3>1. CASE q >= 100
      <4>1. 100 * desired <= q * desired
        BY <1>1, <1>3, <2>1, <3>1, TimesMonotone
      <4>2. q * desired \in Int
        BY <1>1, <2>1
      <4>3. QED
        BY <1>1, <2>1, <3>1, <4>1, <4>2
    <3>2. CASE q < 100
      <4>1. (q + 1) * desired <= 100 * desired
        BY <1>1, <1>3, <2>1, <3>2, TimesMonotone
      <4>2. (q + 1) * desired \in Int
        BY <1>1, <2>1
      <4>3. QED
        BY <1>1, <2>1, <3>2, <4>1, <4>2
    <3>3. QED
      BY <2>1, <3>1, <3>2
  <2>4. Min({100, q}) = IF q >= 100 THEN 100 ELSE q
    <3>1. \A x \in {100, q} :
            (\A y \in {100, q} : x <= y) <=> x = (IF q >= 100 THEN 100 ELSE q)
      BY <2>1
    <3>2. (IF q >= 100 THEN 100 ELSE q) \in {100, q}
      OBVIOUS
    <3>3. QED
      BY <3>1, <3>2 DEF Min
  <2>5. /\ Min({100, q}) \in 0 .. 100
        /\ Min({100, q}) * desired <= healthy * 100
        /\ Min({100, q}) < 100 => healthy * 100 < (Min({100, q}) + 1) * desired
        /\ Min({100, q}) = 100 <=> healthy >= desired
    <3>1. CASE q >= 100
      BY <1>1, <2>1, <2>3, <2>4, <3>1
    <3>2. CASE q < 100
      <4>1. Min({100, q}) = q
        BY <2>1, <2>4, <3>2
      <4>2. q \in 0 .. 100 /\ q # 100 /\ ~(healthy >= desired)
        BY <2>1, <2>3, <3>2
      <4>3. QED
        BY <2>1, <4>1, <4>2, Zenon
    <3>3. QED
      BY <2>1, <3>1, <3>2
  <2>6. QED
    BY <1>3, <2>2, <2>5 DEF IsProgress, healthy, desired
<1>4. QED
  BY <1>2, <1>3

-----------------------------------------------------------------------------
(* Lists of deployments. *)

Deployment ==
  [job : Jobs, index : Nat, version : Nat, created : Nat, modified : Nat,
   status : {"running", "successful", "failed", "cancelled"},
   groups : Seq(Group)]

(* list was listed when the changes had numbers up to last, at t or before. *)
WellListed(list, last, t) ==
  /\ list \in Seq(Deployment)
  /\ \A n \in DOMAIN list : /\ list[n].index \in 1 .. last
                            /\ list[n].version = list[n].index
                            /\ list[n].created \in 1 .. t
  /\ \A m, n \in DOMAIN list : list[m].index = list[n].index => m = n

(* One of a job's deployments, if it has any, was made last, and it is the *)
(* one the row shows.                                                      *)
LEMMA LatestIs ==
  ASSUME NEW list, NEW last \in Nat, NEW t, WellListed(list, last, t),
         NEW job, NEW at
  PROVE  LET own == Positions(list, job)
         IN  \/ own = {} /\ LatestInfo(list, job, at) = NoDeployment
             \/ \E n \in own :
                  /\ \A m \in own : list[m].index <= list[n].index
                  /\ LatestInfo(list, job, at) = Info(list[n], at)
<1> DEFINE own == Positions(list, job)
           newest == {n \in own : \A m \in own : list[m].index <= list[n].index}
           having == {d.job : d \in ToSet(list)}
<1>1. /\ own \subseteq DOMAIN list /\ own \subseteq Nat
      /\ \A n \in own : list[n].index \in 0 .. last
  BY DEF WellListed, Positions
<1>2. job \in having <=> own # {}
  BY DEF Positions, ToSet
<1>3. CASE own = {}
  <2>1. job \notin DOMAIN Latest(list)
    BY <1>2, <1>3 DEF Latest
  <2>2. QED
    BY <1>3, <2>1 DEF LatestInfo
<1>4. CASE own # {}
  <2> DEFINE T == {list[n].index : n \in own}
  <2>1. T \subseteq 0 .. last /\ T # {}
    BY <1>1, <1>4
  <2>2. \E x \in T : \A y \in T : y <= x
    <3> HIDE DEF T
    <3>1. QED
      BY <2>1, GreatestExists
  <2>3. newest \subseteq Nat /\ newest # {}
    BY <1>1, <2>2
  <2>4. Min(newest) \in newest
    <3> HIDE DEF newest
    <3>1. QED
      BY <2>3, LeastExists
  <2>5. job \in DOMAIN Latest(list) /\ Latest(list)[job] = list[Min(newest)]
    BY <1>2, <1>4 DEF Latest
  <2>6. LatestInfo(list, job, at) = Info(list[Min(newest)], at)
    BY <2>5 DEF LatestInfo
  <2>7. QED
    BY <2>4, <2>6
<1>5. QED
  BY <1>3, <1>4

LEMMA ConcatFacts ==
  ASSUME NEW S, NEW a \in Seq(S), NEW b \in Seq(S)
  PROVE  /\ a \o b \in Seq(S) /\ Len(a \o b) = Len(a) + Len(b)
         /\ \A i \in 1 .. Len(a) : (a \o b)[i] = a[i]
         /\ \A i \in 1 .. Len(b) : (a \o b)[Len(a) + i] = b[i]
OBVIOUS

LEMMA InsertFacts ==
  ASSUME NEW S, NEW s \in Seq(S), NEW e \in S, NEW n \in 1 .. (Len(s) + 1)
  PROVE  /\ InsertAt(s, n, e) \in Seq(S)
         /\ Len(InsertAt(s, n, e)) = Len(s) + 1
         /\ \A i \in 1 .. (Len(s) + 1) :
              InsertAt(s, n, e)[i] = IF i < n THEN s[i]
                                     ELSE IF i = n THEN e ELSE s[i - 1]
<1> DEFINE a == SubSeq(s, 1, n - 1)
           b == SubSeq(s, n, Len(s))
<1>1. /\ a \in Seq(S) /\ Len(a) = n - 1
      /\ \A i \in 1 .. (n - 1) : a[i] = s[i]
  OBVIOUS
<1>2. /\ b \in Seq(S) /\ Len(b) = Len(s) - n + 1
      /\ \A i \in 1 .. (Len(s) - n + 1) : b[i] = s[n + i - 1]
  OBVIOUS
<1> DEFINE c == a \o <<e>>
           d == c \o b
<1>3. InsertAt(s, n, e) = d
  BY DEF InsertAt
<1>4. n \in Int /\ Len(s) \in Nat
  OBVIOUS
<1>5. <<e>> \in Seq(S) /\ Len(<<e>>) = 1 /\ <<e>>[1] = e
  OBVIOUS
<1> HIDE DEF a, b
<1>6. /\ c \in Seq(S) /\ Len(c) = (n - 1) + 1
      /\ \A i \in 1 .. (n - 1) : c[i] = a[i]
      /\ \A i \in 1 .. 1 : c[(n - 1) + i] = <<e>>[i]
  <2>1. /\ c \in Seq(S) /\ Len(c) = Len(a) + Len(<<e>>)
        /\ \A i \in 1 .. Len(a) : c[i] = a[i]
        /\ \A i \in 1 .. Len(<<e>>) : c[Len(a) + i] = <<e>>[i]
    BY <1>1, <1>5, ConcatFacts
  <2> HIDE DEF c
  <2>2. QED
    BY <1>1, <1>5, <2>1
<1>7. c \in Seq(S) /\ Len(c) = n /\ c[n] = e
  <2>1. 1 \in 1 .. 1 /\ (n - 1) + 1 = n
    BY <1>4
  <2>2. QED
    BY <1>5, <1>6, <2>1
<1> HIDE DEF c
<1>8. /\ d \in Seq(S) /\ Len(d) = n + (Len(s) - n + 1)
      /\ \A i \in 1 .. n : d[i] = c[i]
      /\ \A i \in 1 .. (Len(s) - n + 1) : d[n + i] = b[i]
  <2>1. c \in Seq(S) /\ b \in Seq(S)
    BY <1>2, <1>7
  <2>2. /\ d \in Seq(S) /\ Len(d) = Len(c) + Len(b)
        /\ \A i \in 1 .. Len(c) : d[i] = c[i]
        /\ \A i \in 1 .. Len(b) : d[Len(c) + i] = b[i]
    BY ONLY <2>1, ConcatFacts
  <2> HIDE DEF d
  <2>3. QED
    BY <1>2, <1>7, <2>2
<1> HIDE DEF d
<1>9. ASSUME NEW i \in 1 .. (Len(s) + 1)
      PROVE  d[i] = IF i < n THEN s[i] ELSE IF i = n THEN e ELSE s[i - 1]
  <2>1. CASE i < n
    <3>1. i \in 1 .. (n - 1) /\ i \in 1 .. n
      BY <1>4, <2>1
    <3>2. QED
      BY <1>1, <1>6, <1>8, <2>1, <3>1
  <2>2. CASE i = n
    BY <1>4, <1>7, <1>8, <2>2
  <2>3. CASE i > n
    <3>1. /\ i - n \in 1 .. (Len(s) - n + 1) /\ n + (i - n) = i
          /\ ~(i < n) /\ i # n /\ n + (i - n) - 1 = i - 1
      BY <1>4, <2>3
    <3>2. QED
      BY <1>2, <1>8, <3>1
  <2>4. QED
    BY <1>4, <2>1, <2>2, <2>3
<1>10. Len(d) = Len(s) + 1
  BY <1>4, <1>8
<1>11. QED
  BY <1>3, <1>8, <1>9, <1>10

LEMMA RemoveFacts ==
  ASSUME NEW S, NEW s \in Seq(S), NEW n \in 1 .. Len(s)
  PROVE  /\ RemoveAt(s, n) \in Seq(S)
         /\ Len(RemoveAt(s, n)) = Len(s) - 1
         /\ \A i \in 1 .. (Len(s) - 1) :
              RemoveAt(s, n)[i] = IF i < n THEN s[i] ELSE s[i + 1]
<1> DEFINE a == SubSeq(s, 1, n - 1)
           b == SubSeq(s, n + 1, Len(s))
<1>1. /\ a \in Seq(S) /\ Len(a) = n - 1
      /\ \A i \in 1 .. (n - 1) : a[i] = s[i]
  OBVIOUS
<1>2. /\ b \in Seq(S) /\ Len(b) = Len(s) - n
      /\ \A i \in 1 .. (Len(s) - n) : b[i] = s[n + i]
  OBVIOUS
<1> DEFINE d == a \o b
<1>3. RemoveAt(s, n) = d
  BY DEF RemoveAt
<1>4. n \in Int /\ Len(s) \in Nat
  OBVIOUS
<1> HIDE DEF a, b
<1>5. /\ d \in Seq(S) /\ Len(d) = (n - 1) + (Len(s) - n)
      /\ \A i \in 1 .. (n - 1) : d[i] = a[i]
      /\ \A i \in 1 .. (Len(s) - n) : d[(n - 1) + i] = b[i]
  <2>1. a \in Seq(S) /\ b \in Seq(S)
    BY <1>1, <1>2
  <2>2. /\ d \in Seq(S) /\ Len(d) = Len(a) + Len(b)
        /\ \A i \in 1 .. Len(a) : d[i] = a[i]
        /\ \A i \in 1 .. Len(b) : d[Len(a) + i] = b[i]
    BY ONLY <2>1, ConcatFacts
  <2> HIDE DEF d
  <2>3. QED
    BY <1>1, <1>2, <2>2
<1> HIDE DEF d
<1>6. ASSUME NEW i \in 1 .. (Len(s) - 1)
      PROVE  d[i] = IF i < n THEN s[i] ELSE s[i + 1]
  <2>1. CASE i < n
    <3>1. i \in 1 .. (n - 1)
      BY <1>4, <2>1
    <3>2. QED
      BY <1>1, <1>5, <2>1, <3>1
  <2>2. CASE i >= n
    <3>1. /\ i - (n - 1) \in 1 .. (Len(s) - n) /\ ~(i < n)
          /\ (n - 1) + (i - (n - 1)) = i /\ n + (i - (n - 1)) = i + 1
      BY <1>4, <2>2
    <3>2. d[i] = b[i - (n - 1)]
      BY <1>5, <3>1
    <3>3. b[i - (n - 1)] = s[i + 1]
      BY <1>2, <3>1
    <3>4. QED
      BY <3>1, <3>2, <3>3
  <2>3. QED
    BY <1>4, <2>1, <2>2
<1>7. Len(d) = Len(s) - 1
  BY <1>4, <1>5
<1>8. QED
  BY <1>3, <1>5, <1>6, <1>7

(* What Nomad does to its list keeps it so. *)

LEMMA LaterListed ==
  ASSUME NEW list, NEW last \in Nat, NEW t \in Nat, WellListed(list, last, t),
         NEW last2 \in Nat, NEW t2 \in Nat, last <= last2, t <= t2
  PROVE  WellListed(list, last2, t2)
BY DEF WellListed

LEMMA EditListed ==
  ASSUME NEW list, NEW last, NEW t, WellListed(list, last, t),
         NEW edited \in Seq(Deployment), DOMAIN edited = DOMAIN list,
         \A n \in DOMAIN list : /\ edited[n].index = list[n].index
                                /\ edited[n].version = list[n].version
                                /\ edited[n].created = list[n].created
  PROVE  WellListed(edited, last, t)
BY DEF WellListed

LEMMA InsertListed ==
  ASSUME NEW list, NEW last \in Nat, NEW t \in Nat, WellListed(list, last, t),
         NEW e \in Deployment, e.index = last + 1, e.version = e.index,
         e.created \in 1 .. t, NEW n \in 1 .. (Len(list) + 1)
  PROVE  WellListed(InsertAt(list, n, e), last + 1, t)
<1> DEFINE new == InsertAt(list, n, e)
           len == Len(list)
<1>1. /\ list \in Seq(Deployment) /\ len \in Nat /\ DOMAIN list = 1 .. len
      /\ \A i \in 1 .. len : /\ list[i].index \in 1 .. last
                             /\ list[i].version = list[i].index
                             /\ list[i].created \in 1 .. t
      /\ \A i, j \in 1 .. len : list[i].index = list[j].index => i = j
  BY DEF WellListed
<1>2. /\ new \in Seq(Deployment) /\ DOMAIN new = 1 .. (len + 1)
      /\ \A i \in 1 .. (len + 1) :
           new[i] = IF i < n THEN list[i] ELSE IF i = n THEN e ELSE list[i - 1]
  <2>1. list \in Seq(Deployment) /\ n \in 1 .. (len + 1)
    BY <1>1
  <2>2. /\ new \in Seq(Deployment) /\ Len(new) = len + 1
        /\ \A i \in 1 .. (len + 1) :
             new[i] = IF i < n THEN list[i] ELSE IF i = n THEN e ELSE list[i - 1]
    BY ONLY <2>1, InsertFacts, e \in Deployment
  <2> HIDE DEF new
  <2>3. QED
    BY <2>2
<1> HIDE DEF new, len
<1>3. ASSUME NEW i \in 1 .. (len + 1)
      PROVE  IF i = n THEN new[i] = e
             ELSE \E k \in 1 .. len : /\ new[i] = list[k]
                                      /\ k = IF i < n THEN i ELSE i - 1
  <2>1. n \in 1 .. (len + 1)
    BY DEF len
  <2>2. CASE i = n
    BY <1>1, <1>2, <2>2
  <2>3. CASE i < n
    <3>1. i \in 1 .. len /\ new[i] = list[i]
      BY <1>1, <1>2, <2>1, <2>3
    <3>2. QED
      BY <2>3, <3>1
  <2>4. CASE i > n
    <3>1. i - 1 \in 1 .. len /\ new[i] = list[i - 1] /\ ~(i < n) /\ i # n
      BY <1>1, <1>2, <2>1, <2>4
    <3>2. i - 1 = IF i < n THEN i ELSE i - 1
      BY <3>1
    <3>3. QED
      BY <3>1, <3>2
  <2>5. QED
    BY <1>1, <2>1, <2>2, <2>3, <2>4
<1>4. ASSUME NEW i \in 1 .. (len + 1)
      PROVE  /\ new[i].index \in 1 .. (last + 1)
             /\ new[i].version = new[i].index
             /\ new[i].created \in 1 .. t
             /\ new[i].index = last + 1 <=> i = n
  <2>1. CASE i = n
    BY <1>2, <2>1
  <2>2. CASE i # n
    <3>1. PICK k \in 1 .. len : new[i] = list[k]
      BY <1>3, <2>2
    <3>2. list[k].index \in 1 .. last
      BY <1>1
    <3>3. QED
      BY <1>1, <2>2, <3>1, <3>2
  <2>3. QED
    BY <2>1, <2>2
<1>5. ASSUME NEW i \in 1 .. (len + 1), NEW j \in 1 .. (len + 1),
             new[i].index = new[j].index
      PROVE  i = j
  <2>1. n \in 1 .. (len + 1)
    BY DEF len
  <2>2. i = n <=> j = n
    BY <1>4, <1>5
  <2>3. CASE i # n /\ j # n
    <3>1. PICK k \in 1 .. len : /\ new[i] = list[k]
                                /\ k = IF i < n THEN i ELSE i - 1
      BY <1>3, <2>3
    <3>2. PICK l \in 1 .. len : /\ new[j] = list[l]
                                /\ l = IF j < n THEN j ELSE j - 1
      BY <1>3, <2>3
    <3>3. k = l
      BY <1>1, <1>5, <3>1, <3>2
    <3>4. QED
      BY <2>1, <2>3, <3>1, <3>2, <3>3
  <2>4. QED
    BY <2>2, <2>3
<1>6. WellListed(new, last + 1, t)
  BY <1>2, <1>4, <1>5 DEF WellListed
<1>7. QED
  BY <1>6 DEF new

LEMMA RemoveListed ==
  ASSUME NEW list, NEW last, NEW t, WellListed(list, last, t),
         NEW n \in DOMAIN list
  PROVE  /\ WellListed(RemoveAt(list, n), last, t)
         /\ \A i \in DOMAIN RemoveAt(list, n) :
              \E j \in DOMAIN list : RemoveAt(list, n)[i] = list[j]
<1> DEFINE new == RemoveAt(list, n)
           len == Len(list)
           From(i) == IF i < n THEN i ELSE i + 1
<1>1. list \in Seq(Deployment) /\ len \in Nat /\ DOMAIN list = 1 .. len
  BY DEF WellListed
<1>2. n \in 1 .. len
  BY <1>1
<1>3. /\ new \in Seq(Deployment) /\ DOMAIN new = 1 .. (len - 1)
      /\ \A i \in 1 .. (len - 1) : new[i] = IF i < n THEN list[i] ELSE list[i + 1]
  <2>1. /\ new \in Seq(Deployment) /\ Len(new) = len - 1
        /\ \A i \in 1 .. (len - 1) : new[i] = IF i < n THEN list[i] ELSE list[i + 1]
    BY <1>1, <1>2, RemoveFacts
  <2> HIDE DEF new
  <2>2. QED
    BY <2>1
<1> HIDE DEF new, len
<1>4. \A i \in 1 .. (len - 1) : From(i) \in 1 .. len /\ new[i] = list[From(i)]
  BY <1>1, <1>2, <1>3
<1>5. \A i, j \in 1 .. (len - 1) : From(i) = From(j) => i = j
  BY <1>2
<1> HIDE DEF From
<1>6. \A i, j \in 1 .. (len - 1) : new[i].index = new[j].index => i = j
  <2>1. \A m, k \in 1 .. len : list[m].index = list[k].index => m = k
    BY <1>1 DEF WellListed
  <2>2. QED
    BY <1>4, <1>5, <2>1
<1>7. \A i \in 1 .. (len - 1) : \E j \in 1 .. len : new[i] = list[j]
  BY <1>4
<1>8. WellListed(new, last, t)
  <2>1. \A i \in 1 .. len : /\ list[i].index \in 1 .. last
                            /\ list[i].version = list[i].index
                            /\ list[i].created \in 1 .. t
    BY <1>1 DEF WellListed
  <2>2. \A i \in 1 .. (len - 1) : /\ new[i].index \in 1 .. last
                                  /\ new[i].version = new[i].index
                                  /\ new[i].created \in 1 .. t
    BY <1>4, <2>1
  <2>3. QED
    BY <1>3, <1>6, <2>2 DEF WellListed
<1>9. QED
  BY <1>1, <1>3, <1>7, <1>8 DEF new

-----------------------------------------------------------------------------
(* The inductive invariant: the lists are as Nomad makes them; what the    *)
(* calls returned is what a cluster has that stood still since; a version, *)
(* wherever it is seen, began at one moment, and no version is seen before *)
(* it begins; and a duration that is shown was measured at some time from  *)
(* that moment.                                                            *)

Has(returned) == returned # Nothing /\ returned # Broken

BegunIn(list, v, t) ==
  \E n \in DOMAIN list : list[n].index = v /\ list[n].created = t

ShownIn(rows, v, t) ==
  \E n \in DOMAIN rows : /\ rows[n].deployment.status = "deploying"
                         /\ rows[n].deployment.version = v
                         /\ rows[n].deployment.since = t

Begun(v, t) ==
  \/ BegunIn(deployments, v, t)
  \/ Has(listed) /\ BegunIn(listed, v, t)
  \/ Answers(answer) /\ ShownIn(answer.rows, v, t)

Measured(rows, at) ==
  \A n \in DOMAIN rows :
    rows[n].deployment.status = "deploying" =>
      /\ rows[n].deployment.since \in Nat
      /\ \E t \in 1 .. at :
           rows[n].deployment.elapsed = Seconds(rows[n].deployment.since, t)

Counters == changes \in Nat /\ now \in Nat \ {0}
Lists == /\ WellListed(deployments, changes + 1, now)
         /\ Has(listed) => WellListed(listed, changes + 1, now)
Undisturbed == quiet # Nothing => /\ Has(stubs) => stubs = jobs
                                  /\ Has(listed) => listed = deployments
OneMoment == /\ \A v, t, u : Begun(v, t) /\ Begun(v, u) => t = u
             /\ \A v, t : Begun(v, t) => v \in 1 .. (changes + 1)
Durations == Answers(answer) => Measured(answer.rows, now)

IInv == Counters /\ Lists /\ Undisturbed /\ OneMoment /\ Durations

-----------------------------------------------------------------------------
(* What a row says. *)

LEMMA Labels ==
  ASSUME NEW status
  PROVE  Label(status) \in {"deployed", "failed", "deploying"}
BY DEF Label

LEMMA InfoFacts ==
  ASSUME NEW d \in Deployment, d.created # 0, NEW at
  PROVE  LET i == Info(d, at)
         IN  /\ i.status = Label(d.status)
             /\ i.status = "deploying" =>
                  /\ i.version = d.version /\ i.since = d.created
                  /\ i.elapsed = Seconds(d.created, at)
                  /\ i.progress = Progress(d.groups)
                  /\ i.canary <=> IsCanaryDeployment(d)
             /\ i.since \in {d.created, d.modified} \ {0}
             /\ i.elapsed = Seconds(i.since, at)
<1>1. MeasuredFrom(d) \in {d.created, d.modified} \ {0}
  BY DEF MeasuredFrom
<1>2. QED
  BY <1>1 DEF Info, MeasuredFrom

(* A row that deploys shows a rollout that was listed. *)
LEMMA RowFacts ==
  ASSUME IInv, Has(listed), NEW job, NEW stub
  PROVE  LET i == Row(job, stub).deployment
         IN  i.status = "deploying" =>
               /\ BegunIn(listed, i.version, i.since)
               /\ i.since \in Nat
               /\ i.elapsed = Seconds(i.since, now)
<1> DEFINE i == Row(job, stub).deployment
<1>1. i = LatestInfo(listed, job, now)
  BY DEF Row
<1>2. /\ now \in Nat \ {0} /\ changes + 1 \in Nat
      /\ WellListed(listed, changes + 1, now)
  BY DEF IInv, Counters, Lists
<1> HIDE DEF i
<1>3. SUFFICES ASSUME i.status = "deploying"
               PROVE  /\ BegunIn(listed, i.version, i.since)
                      /\ i.since \in Nat
                      /\ i.elapsed = Seconds(i.since, now)
  BY DEF i
<1>4. i # NoDeployment
  <2>1. NoDeployment.status = ""
    BY DEF NoDeployment
  <2>2. QED
    BY <1>3, <2>1
<1>5. PICK n \in Positions(listed, job) : i = Info(listed[n], now)
  BY <1>1, <1>2, <1>4, LatestIs
<1>6. /\ n \in DOMAIN listed /\ listed[n] \in Deployment
      /\ listed[n].created \in 1 .. now /\ listed[n].version = listed[n].index
  BY <1>2 DEF Positions, WellListed
<1>7. /\ i.version = listed[n].index /\ i.since = listed[n].created
      /\ i.elapsed = Seconds(listed[n].created, now)
  <2>1. listed[n].created # 0
    BY <1>6
  <2>2. QED
    BY <1>3, <1>5, <1>6, <2>1, InfoFacts
<1>8. QED
  BY <1>6, <1>7 DEF BegunIn

-----------------------------------------------------------------------------
(* Each step keeps the invariant. *)

LEMMA InitInv == Init => IInv
<1> SUFFICES ASSUME Init PROVE IInv
  OBVIOUS
<1> DEFINE j == CHOOSE job \in Jobs : TRUE
           d == [Newer(j, 1, <<>>) EXCEPT !.status = "successful"]
<1>1. /\ now = 1 /\ changes = 0 /\ deployments = <<d>>
      /\ stubs = Nothing /\ listed = Nothing
      /\ answer = Nothing /\ quiet = Nothing
  BY DEF Init
<1>2. j \in Jobs
  BY ListJobsAssumption
<1>3. /\ d \in Deployment /\ d.index = 1 /\ d.version = 1 /\ d.created = 1
  <2> DEFINE e == Newer(j, 1, <<>>)
  <2>1. e = [job |-> j, index |-> 1, status |-> "running", version |-> 1,
             created |-> 1, modified |-> 0, groups |-> <<>>]
    BY <1>1 DEF Newer
  <2>2. <<>> \in Seq(Group)
    OBVIOUS
  <2> HIDE DEF e
  <2>3. e \in Deployment /\ e.index = 1 /\ e.version = 1 /\ e.created = 1
    BY <1>2, <2>1, <2>2 DEF Deployment
  <2>4. d = [e EXCEPT !.status = "successful"]
    BY DEF d, e
  <2>5. QED
    BY <2>3, <2>4 DEF Deployment
<1> HIDE DEF d
<1>4. /\ deployments \in Seq(Deployment) /\ DOMAIN deployments = {1}
      /\ deployments[1] = d
  BY <1>1, <1>3
<1>5. Lists
  BY <1>1, <1>3, <1>4 DEF Lists, WellListed, Has
<1>6. OneMoment
  BY <1>1, <1>3, <1>4 DEF OneMoment, Begun, BegunIn, Has, Answers
<1>7. QED
  BY <1>1, <1>5, <1>6 DEF IInv, Counters, Undisturbed, Durations, Answers

(* A change of the cluster that only begins what is new. *)
LEMMA ChangeKeeps ==
  ASSUME IInv, Change, WellListed(deployments', changes + 2, now),
         \A v, t : BegunIn(deployments', v, t) =>
                     \/ BegunIn(deployments, v, t)
                     \/ v = changes + 2 /\ t = now
  PROVE  IInv'
<1>1. /\ changes \in Nat /\ now \in Nat /\ changes' = changes + 1
      /\ quiet' = Nothing /\ UNCHANGED <<now, listed, answer>>
  BY DEF IInv, Counters, Change, handlerVars
<1>2. Counters'
  BY <1>1 DEF IInv, Counters
<1>3. Lists'
  <2>1. changes' + 1 = changes + 2
    BY <1>1
  <2>2. Has(listed) => WellListed(listed, changes + 2, now)
    <3>1. SUFFICES ASSUME Has(listed) PROVE WellListed(listed, changes + 2, now)
      OBVIOUS
    <3>2. WellListed(listed, changes + 1, now)
      BY <3>1 DEF IInv, Lists
    <3>3. /\ changes + 1 \in Nat /\ changes + 2 \in Nat
          /\ changes + 1 <= changes + 2 /\ now <= now
      BY <1>1
    <3>4. QED
      BY <1>1, <3>2, <3>3, LaterListed
  <2>3. QED
    BY <1>1, <2>1, <2>2 DEF Lists
<1>4. OneMoment'
  <2>1. ASSUME NEW v, NEW t, Begun(v, t)'
        PROVE  Begun(v, t) \/ (v = changes + 2 /\ t = now)
    BY <1>1, <2>1 DEF Begun
  <2>2. ASSUME NEW v, NEW t, Begun(v, t) PROVE v \in 1 .. (changes + 1)
    BY <2>2 DEF IInv, OneMoment
  <2>3. ASSUME NEW v, NEW t, NEW u, Begun(v, t)', Begun(v, u)' PROVE t = u
    <3>1. CASE v = changes + 2
      BY <1>1, <2>1, <2>2, <2>3, <3>1
    <3>2. CASE v # changes + 2
      <4>1. Begun(v, t) /\ Begun(v, u)
        BY <2>1, <2>3, <3>2
      <4>2. QED
        BY <4>1 DEF IInv, OneMoment
    <3>3. QED
      BY <3>1, <3>2
  <2>4. ASSUME NEW v, NEW t, Begun(v, t)' PROVE v \in 1 .. (changes' + 1)
    <3>1. v \in 1 .. (changes + 1) \/ v = changes + 2
      BY <2>1, <2>2, <2>4
    <3>2. QED
      BY <1>1, <3>1
  <2>5. QED
    BY <2>3, <2>4 DEF OneMoment
<1>5. Undisturbed' /\ Durations'
  BY <1>1 DEF IInv, Undisturbed, Durations
<1>6. QED
  BY <1>2, <1>3, <1>4, <1>5 DEF IInv

(* A deployment that is changed is still the one that began. *)
LEMMA EditKeeps ==
  ASSUME IInv, Change, deployments' \in Seq(Deployment),
         DOMAIN deployments' = DOMAIN deployments,
         \A n \in DOMAIN deployments :
           /\ deployments'[n].index = deployments[n].index
           /\ deployments'[n].version = deployments[n].version
           /\ deployments'[n].created = deployments[n].created
  PROVE  IInv'
<1>1. WellListed(deployments, changes + 1, now) /\ changes \in Nat /\ now \in Nat
  BY DEF IInv, Lists, Counters
<1>2. WellListed(deployments', changes + 1, now)
  BY <1>1, EditListed
<1>3. WellListed(deployments', changes + 2, now)
  <2>1. /\ changes + 1 \in Nat /\ changes + 2 \in Nat
        /\ changes + 1 <= changes + 2 /\ now <= now
    BY <1>1
  <2>2. QED
    BY <1>1, <1>2, <2>1, LaterListed
<1>4. \A v, t : BegunIn(deployments', v, t) => BegunIn(deployments, v, t)
  BY DEF BegunIn
<1>5. QED
  BY <1>3, <1>4, ChangeKeeps

LEMMA RegisterKeeps ==
  ASSUME IInv, NEW job \in Jobs, Register(job)
  PROVE  IInv'
<1> DEFINE ended == [n \in DOMAIN deployments |->
                       IF deployments[n].job = job
                          /\ Label(deployments[n].status) = "deploying"
                       THEN [deployments[n] EXCEPT !.status = "cancelled"]
                       ELSE deployments[n]]
           last == changes + 1
<1>1. /\ Change
      /\ \/ \E shape \in Shapes, n \in 1 .. (Len(deployments) + 1) :
              deployments' = InsertAt(ended, n, Newer(job, NextIndex, shape))
         \/ deployments' = ended
  BY DEF Register
<1>2. /\ WellListed(deployments, last, now) /\ last \in Nat /\ now \in Nat \ {0}
      /\ last + 1 = changes + 2 /\ changes \in Nat
  BY DEF IInv, Lists, Counters
<1>3. deployments \in Seq(Deployment) /\ Len(deployments) \in Nat
      /\ DOMAIN deployments = 1 .. Len(deployments)
  BY <1>2 DEF WellListed
<1>4. ASSUME NEW n \in DOMAIN deployments
      PROVE  /\ ended[n] \in Deployment
             /\ ended[n].index = deployments[n].index
             /\ ended[n].version = deployments[n].version
             /\ ended[n].created = deployments[n].created
  <2>1. deployments[n] \in Deployment
    BY <1>3
  <2>2. ended[n] \in {deployments[n], [deployments[n] EXCEPT !.status = "cancelled"]}
    OBVIOUS
  <2>3. QED
    BY <2>1, <2>2 DEF Deployment
<1>5. ended \in Seq(Deployment) /\ DOMAIN ended = DOMAIN deployments
      /\ Len(ended) = Len(deployments)
  <2>1. ended \in [1 .. Len(deployments) -> Deployment]
    BY <1>3, <1>4
  <2> HIDE DEF ended
  <2>2. QED
    BY <1>3, <2>1
<1> HIDE DEF ended
<1>6. CASE deployments' = ended
  BY <1>1, <1>4, <1>5, <1>6, EditKeeps
<1>7. ASSUME NEW shape \in Shapes, NEW n \in 1 .. (Len(deployments) + 1),
             deployments' = InsertAt(ended, n, Newer(job, NextIndex, shape))
      PROVE  IInv'
  <2> DEFINE d == Newer(job, NextIndex, shape)
  <2>1. /\ d \in Deployment /\ d.index = last + 1 /\ d.version = d.index
        /\ d.created = now
    <3>1. d = [job |-> job, index |-> changes + 2, status |-> "running",
               version |-> changes + 2, created |-> now, modified |-> 0,
               groups |-> shape]
      BY DEF Newer, NextIndex
    <3>2. shape \in Seq(Group)
      BY ListJobsAssumption DEF Group
    <3> HIDE DEF d
    <3>3. QED
      BY <1>2, <3>1, <3>2 DEF Deployment
  <2> HIDE DEF d
  <2>2. WellListed(ended, last, now)
    BY <1>2, <1>4, <1>5, EditListed
  <2>3. deployments' = InsertAt(ended, n, d)
    BY <1>7 DEF d
  <2>4. WellListed(deployments', last + 1, now)
    <3>1. n \in 1 .. (Len(ended) + 1) /\ d.created \in 1 .. now
      BY <1>2, <1>5, <2>1
    <3>2. QED
      BY <1>2, <2>1, <2>2, <2>3, <3>1, InsertListed
  <2>5. ASSUME NEW v, NEW t, BegunIn(deployments', v, t)
        PROVE  BegunIn(deployments, v, t) \/ (v = changes + 2 /\ t = now)
    <3>1. PICK i \in DOMAIN deployments' :
            deployments'[i].index = v /\ deployments'[i].created = t
      BY <2>5 DEF BegunIn
    <3>2. \/ deployments'[i] = d
          \/ \E k \in DOMAIN deployments : deployments'[i] = ended[k]
      <4>1. /\ deployments' \in Seq(Deployment)
            /\ Len(deployments') = Len(deployments) + 1
            /\ \A m \in 1 .. (Len(deployments) + 1) :
                 deployments'[m] = IF m < n THEN ended[m]
                                   ELSE IF m = n THEN d ELSE ended[m - 1]
        <5>1. /\ ended \in Seq(Deployment) /\ d \in Deployment
              /\ n \in 1 .. (Len(ended) + 1)
          BY <1>5, <2>1
        <5> DEFINE new == InsertAt(ended, n, d)
        <5>2. /\ new \in Seq(Deployment) /\ Len(new) = Len(ended) + 1
              /\ \A m \in 1 .. (Len(ended) + 1) :
                   new[m] = IF m < n THEN ended[m]
                            ELSE IF m = n THEN d ELSE ended[m - 1]
          BY ONLY <5>1, InsertFacts
        <5> HIDE DEF new
        <5>3. deployments' = new
          BY <2>3 DEF new
        <5>4. QED
          BY <1>5, <5>2, <5>3
      <4>2. i \in 1 .. (Len(deployments) + 1)
        BY <3>1, <4>1
      <4>3. CASE i < n
        BY <1>3, <4>1, <4>2, <4>3
      <4>4. CASE i = n
        BY <1>3, <4>1, <4>2, <4>4
      <4>5. CASE i > n
        <5>1. i - 1 \in DOMAIN deployments /\ ~(i < n) /\ i # n
          BY <1>3, <4>2, <4>5
        <5>2. QED
          BY <4>1, <4>2, <5>1
      <4>6. QED
        BY <1>3, <4>2, <4>3, <4>4, <4>5
    <3>3. CASE deployments'[i] = d
      BY <1>2, <2>1, <3>1, <3>3
    <3>4. ASSUME NEW k \in DOMAIN deployments, deployments'[i] = ended[k]
          PROVE  BegunIn(deployments, v, t)
      BY <1>4, <3>1, <3>4 DEF BegunIn
    <3>5. QED
      BY <3>2, <3>3, <3>4
  <2>6. QED
    BY <1>1, <1>2, <2>4, <2>5, ChangeKeeps
<1>8. QED
  BY <1>1, <1>6, <1>7

LEMMA RollOutKeeps == ASSUME IInv, RollOut PROVE IInv'
<1>1. deployments \in Seq(Deployment) /\ now \in Nat
  BY DEF IInv, Lists, WellListed, Counters
<1>2. PICK n \in DOMAIN deployments : \E modified \in {now, deployments[n].modified} :
        \/ \E shape \in Shapes :
             deployments' = [deployments EXCEPT ![n].modified = modified,
                                                ![n].groups = shape]
        \/ \E status \in {"successful", "failed"} :
             deployments' = [deployments EXCEPT ![n].modified = modified,
                                                ![n].status = status]
  BY DEF RollOut
<1>3. PICK d : /\ deployments' = [deployments EXCEPT ![n] = d]
               /\ d \in Deployment
               /\ d.index = deployments[n].index
               /\ d.version = deployments[n].version
               /\ d.created = deployments[n].created
  <2>1. deployments[n] \in Deployment
    BY <1>1
  <2>2. PICK modified \in {now, deployments[n].modified} :
          \/ \E shape \in Shapes :
               deployments' = [deployments EXCEPT ![n].modified = modified,
                                                  ![n].groups = shape]
          \/ \E status \in {"successful", "failed"} :
               deployments' = [deployments EXCEPT ![n].modified = modified,
                                                  ![n].status = status]
    BY <1>2
  <2>3. modified \in Nat
    BY <1>1, <2>1 DEF Deployment
  <2>4. ASSUME NEW shape \in Shapes,
               deployments' = [deployments EXCEPT ![n].modified = modified,
                                                  ![n].groups = shape]
        PROVE  \E e : /\ deployments' = [deployments EXCEPT ![n] = e]
                      /\ e \in Deployment
                      /\ e.index = deployments[n].index
                      /\ e.version = deployments[n].version
                      /\ e.created = deployments[n].created
    <3> DEFINE e == [deployments[n] EXCEPT !.modified = modified, !.groups = shape]
    <3>1. shape \in Seq(Group)
      BY ListJobsAssumption DEF Group
    <3>2. /\ e \in Deployment
          /\ e.index = deployments[n].index
          /\ e.version = deployments[n].version
          /\ e.created = deployments[n].created
      BY <2>1, <2>3, <3>1 DEF Deployment
    <3>3. deployments' = [deployments EXCEPT ![n] = e]
      BY <1>1, <2>1, <2>4
    <3>4. QED
      BY <3>2, <3>3
  <2>5. ASSUME NEW status \in {"successful", "failed"},
               deployments' = [deployments EXCEPT ![n].modified = modified,
                                                  ![n].status = status]
        PROVE  \E e : /\ deployments' = [deployments EXCEPT ![n] = e]
                      /\ e \in Deployment
                      /\ e.index = deployments[n].index
                      /\ e.version = deployments[n].version
                      /\ e.created = deployments[n].created
    <3> DEFINE e == [deployments[n] EXCEPT !.modified = modified, !.status = status]
    <3>1. /\ e \in Deployment
          /\ e.index = deployments[n].index
          /\ e.version = deployments[n].version
          /\ e.created = deployments[n].created
      BY <2>1, <2>3 DEF Deployment
    <3>2. deployments' = [deployments EXCEPT ![n] = e]
      BY <1>1, <2>1, <2>5
    <3>3. QED
      BY <3>1, <3>2
  <2>6. QED
    BY <2>2, <2>4, <2>5
<1>4. deployments' \in Seq(Deployment) /\ DOMAIN deployments' = DOMAIN deployments
  BY <1>1, <1>3
<1>5. \A m \in DOMAIN deployments :
        /\ deployments'[m].index = deployments[m].index
        /\ deployments'[m].version = deployments[m].version
        /\ deployments'[m].created = deployments[m].created
  BY <1>1, <1>3
<1>6. Change
  BY DEF RollOut
<1>7. QED
  BY <1>4, <1>5, <1>6, EditKeeps

LEMMA CollectKeeps == ASSUME IInv, CollectDeployment PROVE IInv'
<1>1. Change /\ \E n \in DOMAIN deployments : deployments' = RemoveAt(deployments, n)
  BY DEF CollectDeployment
<1>2. PICK n \in DOMAIN deployments : deployments' = RemoveAt(deployments, n)
  BY <1>1
<1>3. /\ WellListed(deployments, changes + 1, now)
      /\ changes \in Nat /\ now \in Nat
  BY DEF IInv, Lists, Counters
<1>4. /\ WellListed(deployments', changes + 1, now)
      /\ \A i \in DOMAIN deployments' :
           \E j \in DOMAIN deployments : deployments'[i] = deployments[j]
  BY <1>2, <1>3, RemoveListed
<1>5. WellListed(deployments', changes + 2, now)
  <2>1. /\ changes + 1 \in Nat /\ changes + 2 \in Nat
        /\ changes + 1 <= changes + 2 /\ now <= now
    BY <1>3
  <2>2. QED
    BY <1>3, <1>4, <2>1, LaterListed
<1>6. \A v, t : BegunIn(deployments', v, t) => BegunIn(deployments, v, t)
  BY <1>4 DEF BegunIn
<1>7. QED
  BY <1>1, <1>5, <1>6, ChangeKeeps

LEMMA JobChangeKeeps == ASSUME IInv, Stop \/ Purge PROVE IInv'
<1>1. Change /\ deployments' = deployments
  BY DEF Stop, Purge
<1>2. deployments \in Seq(Deployment)
  BY DEF IInv, Lists, WellListed
<1>3. QED
  BY <1>1, <1>2, EditKeeps

LEMMA TickKeeps == ASSUME IInv, Tick PROVE IInv'
<1>1. /\ now \in Nat \ {0} /\ now' = now + 1 /\ changes \in Nat
      /\ UNCHANGED <<jobs, deployments, changes, stubs, listed, answer, quiet>>
  BY DEF IInv, Counters, Tick, handlerVars
<1>2. Counters'
  BY <1>1 DEF Counters
<1>3. Lists'
  <2>1. /\ changes + 1 \in Nat /\ now \in Nat /\ now + 1 \in Nat
        /\ changes + 1 <= changes + 1 /\ now <= now + 1
    BY <1>1
  <2>2. \A list : WellListed(list, changes + 1, now)
                    => WellListed(list, changes + 1, now + 1)
    BY <2>1, LaterListed
  <2>3. QED
    BY <1>1, <2>2 DEF IInv, Lists
<1>4. Undisturbed' /\ OneMoment'
  BY <1>1 DEF IInv, Undisturbed, OneMoment, Begun
<1>5. Durations'
  <2>1. \A t \in 1 .. now : t \in 1 .. (now + 1)
    BY <1>1
  <2>2. \A rows : Measured(rows, now) => Measured(rows, now + 1)
    BY <2>1 DEF Measured
  <2>3. QED
    BY <1>1, <2>2 DEF IInv, Durations
<1>6. QED
  BY <1>2, <1>3, <1>4, <1>5 DEF IInv

(* The two calls, whatever they return. *)
LEMMA CallKeeps ==
  ASSUME IInv, UnknownProfile \/ CallJobs \/ CallDeployments \/ CallFails
  PROVE  IInv'
<1>1. UNCHANGED <<jobs, deployments, now, changes>>
  BY DEF UnknownProfile, CallJobs, CallDeployments, CallFails, clusterVars
<1>2. answer' = answer \/ ~Answers(answer')
  BY DEF UnknownProfile, CallJobs, CallDeployments, CallFails, Answers
<1>3. Has(listed') => listed' \in {listed, deployments}
  BY DEF UnknownProfile, CallJobs, CallDeployments, CallFails, handlerVars, Has
<1>4. Counters' /\ Durations'
  BY <1>1, <1>2 DEF IInv, Counters, Durations
<1>5. Lists'
  BY <1>1, <1>3 DEF IInv, Lists
<1>6. OneMoment'
  <2>1. \A v, t : Begun(v, t)' => Begun(v, t)
    BY <1>1, <1>2, <1>3 DEF Begun
  <2>2. QED
    BY <1>1, <2>1 DEF IInv, OneMoment
<1>7. Undisturbed'
  <2>1. CASE UnknownProfile
    BY <1>1, <2>1 DEF IInv, Undisturbed, UnknownProfile, handlerVars
  <2>2. CASE CallJobs
    BY <1>1, <2>2 DEF IInv, Undisturbed, CallJobs, Call, Has
  <2>3. CASE CallDeployments
    BY <1>1, <2>3 DEF IInv, Undisturbed, CallDeployments, Call, Has
  <2>4. CASE CallFails
    BY <1>1, <2>4 DEF IInv, Undisturbed, CallFails, Call, Has
  <2>5. QED
    BY <2>1, <2>2, <2>3, <2>4
<1>8. QED
  BY <1>4, <1>5, <1>6, <1>7 DEF IInv

(* What an answer is made of. *)
LEMMA AnswerFacts ==
  ASSUME Respond, Answers(answer')
  PROVE  /\ Has(stubs) /\ Has(listed)
         /\ \A n \in DOMAIN answer'.rows : \E job \in DOMAIN stubs :
              answer'.rows[n] = Row(job, stubs[job])
<1>1. /\ Has(stubs) /\ Has(listed)
      /\ \E order \in Orders :
           answer' = [code |-> 200,
                      rows |-> [n \in DOMAIN order |->
                                  Row(order[n], stubs[order[n]])]]
  BY DEF Respond, Returned, Answers, Has
<1>2. PICK order \in Orders :
        answer' = [code |-> 200,
                   rows |-> [n \in DOMAIN order |->
                               Row(order[n], stubs[order[n]])]]
  BY <1>1
<1>3. \A n \in DOMAIN order : order[n] \in DOMAIN stubs
  <2>1. order \in SetToSeqs(DOMAIN stubs)
    BY DEF Orders
  <2>2. order \in [1 .. Cardinality(DOMAIN stubs) -> DOMAIN stubs]
    BY <2>1 DEF SetToSeqs
  <2>3. QED
    BY <2>2
<1>4. answer'.rows = [n \in DOMAIN order |-> Row(order[n], stubs[order[n]])]
  BY <1>2
<1>5. QED
  BY <1>1, <1>3, <1>4

LEMMA RespondKeeps == ASSUME IInv, Respond PROVE IInv'
<1>1. /\ UNCHANGED <<jobs, deployments, now, changes, quiet>>
      /\ stubs' = Nothing /\ listed' = Nothing
  BY DEF Respond, clusterVars
<1>2. Counters' /\ Lists' /\ Undisturbed'
  BY <1>1 DEF IInv, Counters, Lists, Undisturbed, Has
<1>3. ASSUME Answers(answer'), NEW n \in DOMAIN answer'.rows,
             answer'.rows[n].deployment.status = "deploying"
      PROVE  LET i == answer'.rows[n].deployment
             IN  /\ Has(listed) /\ BegunIn(listed, i.version, i.since)
                 /\ i.since \in Nat
                 /\ i.elapsed = Seconds(i.since, now)
  <2>1. /\ Has(listed)
        /\ \E job \in DOMAIN stubs : answer'.rows[n] = Row(job, stubs[job])
    BY <1>3, AnswerFacts
  <2>2. PICK job \in DOMAIN stubs : answer'.rows[n] = Row(job, stubs[job])
    BY <2>1
  <2>3. QED
    BY <1>3, <2>1, <2>2, RowFacts
<1>4. Durations'
  <2>1. now \in 1 .. now
    BY DEF IInv, Counters
  <2>2. QED
    BY <1>1, <1>3, <2>1 DEF Durations, Measured
<1>5. \A v, t : Begun(v, t)' => Begun(v, t)
  BY <1>1, <1>3 DEF Begun, Has, ShownIn
<1>6. OneMoment'
  BY <1>1, <1>5 DEF IInv, OneMoment
<1>7. QED
  BY <1>2, <1>4, <1>6 DEF IInv

LEMMA NextInv == IInv /\ [Next]_vars => IInv'
<1> SUFFICES ASSUME IInv, [Next]_vars PROVE IInv'
  OBVIOUS
<1>1. CASE UNCHANGED vars
  BY <1>1 DEF vars, clusterVars, handlerVars, IInv, Counters, Lists,
              Undisturbed, OneMoment, Begun, Durations
<1>2. CASE Next
  BY <1>2, RegisterKeeps, RollOutKeeps, CollectKeeps, JobChangeKeeps,
     TickKeeps, CallKeeps, RespondKeeps DEF Next
<1>3. QED
  BY <1>1, <1>2

-----------------------------------------------------------------------------
(* For any number of jobs and deployments, in any order, and any task      *)
(* groups: if the cluster stood still since the calls began, every row     *)
(* shows the state of the job and of the deployment made last of that      *)
(* job's, with the progress of the desired allocations.                    *)
THEOREM SpecQuietAnswerIsCurrent == Spec => QuietAnswerIsCurrent
<1> DEFINE Current(r) ==
             LET own == {d \in ToSet(deployments) : d.job = r.id}
             IN  /\ r.id \in DOMAIN jobs
                 /\ r.submitTime = jobs[r.id].submitTime
                 /\ r.status = JobIndicator(jobs[r.id].stop, jobs[r.id].status)
                 /\ own = {} <=> r.deployment.status = ""
                 /\ \A d \in own :
                      (\A e \in own : e.index <= d.index) =>
                        /\ r.deployment.status = Label(d.status)
                        /\ r.deployment.since \in {d.created, d.modified} \ {0}
                        /\ r.deployment.elapsed = Seconds(r.deployment.since, now)
                        /\ r.deployment.status = "deploying" =>
                             /\ r.deployment.version = d.version
                             /\ IsProgress(r.deployment.progress, d.groups)
                             /\ r.deployment.canary <=>
                                  \E g \in ToSet(d.groups) : g.canaries > 0
<1>1. ASSUME IInv, Respond, Answers(answer'), quiet # Nothing,
             NEW r \in ToSet(answer'.rows)
      PROVE  Current(r)
  <2>1. /\ Has(stubs) /\ Has(listed)
        /\ \E job \in DOMAIN stubs : r = Row(job, stubs[job])
    BY <1>1, AnswerFacts DEF ToSet
  <2>2. stubs = jobs /\ listed = deployments
    BY <1>1, <2>1 DEF IInv, Undisturbed
  <2>3. PICK job \in DOMAIN jobs : r = Row(job, jobs[job])
    BY <2>1, <2>2
  <2>4. /\ r.id = job /\ r.submitTime = jobs[job].submitTime
        /\ r.status = JobIndicator(jobs[job].stop, jobs[job].status)
        /\ r.deployment = LatestInfo(deployments, job, now)
    BY <2>2, <2>3 DEF Row
  <2>5. WellListed(deployments, changes + 1, now) /\ changes + 1 \in Nat
    BY <1>1 DEF IInv, Lists, Counters
  <2> DEFINE own == {d \in ToSet(deployments) : d.job = job}
             i   == r.deployment
  <2>6. \A d : d \in own <=> \E n \in Positions(deployments, job) : d = deployments[n]
    BY DEF Positions, ToSet
  <2>7. \/ Positions(deployments, job) = {} /\ i = NoDeployment
        \/ \E n \in Positions(deployments, job) :
             /\ \A m \in Positions(deployments, job) :
                  deployments[m].index <= deployments[n].index
             /\ i = Info(deployments[n], now)
    <3>1. LET at == Positions(deployments, job)
          IN  \/ at = {} /\ LatestInfo(deployments, job, now) = NoDeployment
              \/ \E n \in at :
                   /\ \A m \in at : deployments[m].index <= deployments[n].index
                   /\ LatestInfo(deployments, job, now) = Info(deployments[n], now)
      BY <2>5, LatestIs
    <3>2. QED
      BY <2>4, <3>1
  <2>8. CASE Positions(deployments, job) = {}
    <3>1. own = {}
      BY <2>6, <2>8
    <3>2. i = NoDeployment
      BY <2>8, <2>7
    <3>3. i.status = ""
      <4>1. NoDeployment.status = ""
        BY DEF NoDeployment
      <4>2. QED
        BY <3>2, <4>1
    <3>4. QED
      BY <2>4, <3>1, <3>3
  <2>9. ASSUME NEW n \in Positions(deployments, job),
               \A m \in Positions(deployments, job) :
                 deployments[m].index <= deployments[n].index,
               i = Info(deployments[n], now)
        PROVE  Current(r)
    <3>1. /\ n \in DOMAIN deployments /\ deployments[n] \in Deployment
          /\ deployments[n].created # 0
          /\ deployments \in Seq(Deployment)
      BY <2>5 DEF Positions, WellListed
    <3>2. /\ i.status = Label(deployments[n].status)
          /\ i.since \in {deployments[n].created, deployments[n].modified} \ {0}
          /\ i.elapsed = Seconds(i.since, now)
          /\ i.status = "deploying" =>
               /\ i.version = deployments[n].version
               /\ i.progress = Progress(deployments[n].groups)
               /\ i.canary <=> IsCanaryDeployment(deployments[n])
      BY <2>9, <3>1, InfoFacts
    <3>3. own # {} /\ i.status # ""
      BY <2>6, <2>9, <3>2, Labels
    <3>4. ASSUME NEW d \in own, \A e \in own : e.index <= d.index
          PROVE  d = deployments[n]
      <4>1. PICK m \in Positions(deployments, job) : d = deployments[m]
        BY <2>6
      <4>2. deployments[n] \in own
        BY <2>6
      <4>3. deployments[m].index = deployments[n].index
        <5>1. m \in DOMAIN deployments
          BY DEF Positions
        <5>2. deployments[m] \in Deployment
          BY <3>1, <5>1
        <5>3. deployments[m].index \in Nat /\ deployments[n].index \in Nat
          BY <3>1, <5>2 DEF Deployment
        <5>4. deployments[n].index <= deployments[m].index
          BY <3>4, <4>1, <4>2
        <5>5. QED
          BY <2>9, <5>3, <5>4
      <4>4. m = n
        BY <2>5, <3>1, <4>3 DEF WellListed, Positions
      <4>5. QED
        BY <4>1, <4>4
    <3>5. IsProgress(Progress(deployments[n].groups), deployments[n].groups)
      <4>1. deployments[n].groups \in Seq(Group)
        BY <3>1 DEF Deployment
      <4>2. QED
        BY <4>1, ProgressIs
    <3>6. IsCanaryDeployment(deployments[n]) <=>
            \E g \in ToSet(deployments[n].groups) : g.canaries > 0
      BY DEF IsCanaryDeployment, ToSet
    <3>7. QED
      BY <2>4, <3>2, <3>3, <3>4, <3>5, <3>6
  <2>10. QED
    BY <2>8, <2>9, <2>7
<1>2. IInv /\ [Next]_vars =>
        [Respond /\ Answers(answer') /\ quiet # Nothing =>
           \A r \in ToSet(answer'.rows) : Current(r)]_vars
  BY <1>1
<1>3. QED
  BY <1>2, InitInv, NextInv, PTL DEF Spec, QuietAnswerIsCurrent

(* For any number of polls and changes of the cluster: a rollout that two  *)
(* answers show is measured from one moment, and its duration never goes   *)
(* down.                                                                   *)
THEOREM SpecRolloutClockSteady == Spec => RolloutClockSteady
<1> DEFINE Steady(r, s) ==
             /\ r.id = s.id
             /\ r.deployment.status = "deploying"
             /\ s.deployment.status = "deploying"
             /\ r.deployment.version = s.deployment.version
             => /\ s.deployment.since = r.deployment.since
                /\ s.deployment.elapsed >= r.deployment.elapsed
<1>1. ASSUME IInv, Next, Answers(answer), Answers(answer'), answer' # answer,
             NEW r \in ToSet(answer.rows), NEW s \in ToSet(answer'.rows)
      PROVE  Steady(r, s)
  <2> DEFINE i == r.deployment
             j == s.deployment
  <2>1. Respond
    <3>1. \A k \in Jobs : Register(k) => answer' = answer
      BY DEF Register, Change
    <3>2. RollOut \/ CollectDeployment \/ Stop \/ Purge => answer' = answer
      BY DEF RollOut, CollectDeployment, Stop, Purge, Change
    <3>3. Tick \/ CallJobs \/ CallDeployments \/ CallFails => answer' = answer
      BY DEF Tick, CallJobs, CallDeployments, CallFails
    <3>4. UnknownProfile => ~Answers(answer')
      BY DEF UnknownProfile, Answers
    <3>5. QED
      BY <1>1, <3>1, <3>2, <3>3, <3>4 DEF Next
  <2>2. PICK m \in DOMAIN answer.rows : r = answer.rows[m]
    BY DEF ToSet
  <2>3. PICK job \in DOMAIN stubs : s = Row(job, stubs[job])
    BY <1>1, <2>1, AnswerFacts DEF ToSet
  <2>4. Has(listed)
    BY <1>1, <2>1, AnswerFacts
  <2>5. SUFFICES ASSUME i.status = "deploying", j.status = "deploying",
                        i.version = j.version
                 PROVE  j.since = i.since /\ j.elapsed >= i.elapsed
    OBVIOUS
  <2>6. /\ BegunIn(listed, j.version, j.since)
        /\ j.elapsed = Seconds(j.since, now)
    BY <1>1, <2>3, <2>4, <2>5, RowFacts
  <2>7. Begun(i.version, i.since) /\ Begun(i.version, j.since)
    BY <1>1, <2>2, <2>4, <2>5, <2>6 DEF Begun, ShownIn
  <2>8. i.since = j.since
    BY <1>1, <2>7 DEF IInv, OneMoment
  <2>9. PICK t \in 1 .. now : i.elapsed = Seconds(i.since, t)
    BY <1>1, <2>2, <2>5 DEF IInv, Durations, Measured
  <2>10. i.since \in Nat
    BY <1>1, <2>2, <2>5 DEF IInv, Durations, Measured
  <2>11. Seconds(i.since, t) <= Seconds(i.since, now)
    <3>1. now \in Nat /\ t \in Nat /\ t <= now
      BY <1>1 DEF IInv, Counters
    <3>2. QED
      BY <2>10, <3>1 DEF Seconds
  <2>12. Seconds(i.since, t) \in Int /\ Seconds(i.since, now) \in Int
    BY <1>1, <2>10 DEF Seconds, IInv, Counters
  <2>13. QED
    BY <2>6, <2>8, <2>9, <2>11, <2>12
<1>2. IInv /\ [Next]_vars =>
        [Answers(answer) /\ Answers(answer') =>
           \A r \in ToSet(answer.rows), s \in ToSet(answer'.rows) : Steady(r, s)]_answer
  BY <1>1 DEF vars
<1>3. QED
  BY <1>2, InitInv, NextInv, PTL DEF Spec, RolloutClockSteady

=============================================================================
