-------------------------- MODULE UnhousedProofs --------------------------
(***************************************************************************)
(* Theorems about Unhoused: for every set of configuration files, every    *)
(* pace of the demo server's rollouts, every number of callers and every   *)
(* capacity of the cache; and, first, about the LRUCache it is built on,   *)
(* for every capacity, time to live and set of keys and values.            *)
(***************************************************************************)
EXTENDS Unhoused, LRUCacheHistory, FiniteSetTheorems, SequenceTheorems, TLAPS

-----------------------------------------------------------------------------
(* The cache. *)

(* The elements of a list without repetition. *)
NoRepeats(s) == \A i, j \in DOMAIN s : s[i] = s[j] => i = j

(* What Get and Set keep whatever their arguments are: the part of         *)
(* CacheIntact that does not speak of Key and Value.                       *)
Shape ==
  /\ order \in Seq(Elem) /\ Len(order) <= Capacity
  /\ items \in [DOMAIN items -> Elem]
  /\ heap = [e \in Elem |-> heap[e]]
  /\ MapMatchesList

-----------------------------------------------------------------------------
(* Lemmas on lists without repetition. *)

(* RemoveFirst moves what comes after the element it takes out.            *)
LEMMA RemoveFirstAt ==
  ASSUME NEW S, NEW s \in Seq(S), NoRepeats(s), NEW e \in ToSet(s)
  PROVE  \E i \in 1 .. Len(s) :
           /\ s[i] = e
           /\ RemoveFirst(s, e) \in Seq(S)
           /\ Len(RemoveFirst(s, e)) = Len(s) - 1
           /\ \A j \in 1 .. Len(s) - 1 :
                RemoveFirst(s, e)[j] = IF j < i THEN s[j] ELSE s[j + 1]
<1>1. PICK i \in 1 .. Len(s) : s[i] = e
  BY DEF ToSet
<1>2. SelectInSeq(s, LAMBDA v : v = e) = i
  <2>1. {j \in 1 .. Len(s) : s[j] = e} = {i}
    BY <1>1 DEF NoRepeats
  <2>2. Min({i}) = i
    BY DEF Min
  <2>3. QED
    BY <2>1, <2>2 DEF SelectInSeq
<1> DEFINE r == SubSeq(s, 1, i - 1) \o SubSeq(s, i + 1, Len(s))
<1>3. RemoveFirst(s, e) = r
  BY <1>1, <1>2 DEF RemoveFirst, RemoveAt
<1>4. /\ r \in Seq(S)
      /\ Len(r) = Len(s) - 1
      /\ \A j \in 1 .. Len(s) - 1 : r[j] = IF j < i THEN s[j] ELSE s[j + 1]
  <2> DEFINE before == SubSeq(s, 1, i - 1)
             after  == SubSeq(s, i + 1, Len(s))
  <2>1. /\ before \in Seq(S) /\ Len(before) = i - 1
        /\ \A j \in 1 .. i - 1 : before[j] = s[j]
    OBVIOUS
  <2>2. /\ after \in Seq(S) /\ Len(after) = Len(s) - i
        /\ \A j \in 1 .. Len(s) - i : after[j] = s[i + j]
    OBVIOUS
  <2> HIDE DEF before, after
  <2>3. /\ before \o after \in Seq(S)
        /\ Len(before \o after) = Len(s) - 1
        /\ \A j \in 1 .. Len(s) - 1 : (before \o after)[j] =
             IF j <= i - 1 THEN before[j] ELSE after[j - (i - 1)]
    <3>1. Len(before) + Len(after) = Len(s) - 1
      BY <2>1, <2>2
    <3>2. before \in Seq(S) /\ after \in Seq(S)
      BY <2>1, <2>2
    <3>3. /\ before \o after \in Seq(S)
          /\ Len(before \o after) = Len(before) + Len(after)
          /\ \A j \in 1 .. Len(before) + Len(after) : (before \o after)[j] =
               IF j <= Len(before) THEN before[j] ELSE after[j - Len(before)]
      BY <3>2
    <3>4. Len(before) = i - 1
      BY <2>1
    <3>5. QED
      BY <3>1, <3>3, <3>4
  <2>4. ASSUME NEW j \in 1 .. Len(s) - 1
        PROVE  (before \o after)[j] = IF j < i THEN s[j] ELSE s[j + 1]
    <3>1. CASE j < i
      BY <2>1, <2>3, <3>1
    <3>2. CASE ~(j < i)
      <4>1. j - (i - 1) \in 1 .. Len(s) - i /\ i + (j - (i - 1)) = j + 1
        BY <3>2
      <4>2. QED
        BY <2>2, <2>3, <3>2, <4>1
    <3>3. QED
      BY <3>1, <3>2
  <2>5. QED
    BY <2>3, <2>4 DEF before, after
<1>5. QED
  BY <1>1, <1>3, <1>4

(* RemoveFirst takes an element out of such a list, and nothing else.      *)
LEMMA RemoveFirstFacts ==
  ASSUME NEW S, NEW s \in Seq(S), NoRepeats(s), NEW e \in ToSet(s)
  PROVE  /\ RemoveFirst(s, e) \in Seq(S)
         /\ Len(RemoveFirst(s, e)) = Len(s) - 1
         /\ NoRepeats(RemoveFirst(s, e))
         /\ ToSet(RemoveFirst(s, e)) = ToSet(s) \ {e}
<1> DEFINE r == RemoveFirst(s, e)
<1>1. PICK i \in 1 .. Len(s) :
        /\ s[i] = e
        /\ r \in Seq(S) /\ Len(r) = Len(s) - 1
        /\ \A j \in 1 .. Len(s) - 1 : r[j] = IF j < i THEN s[j] ELSE s[j + 1]
  BY RemoveFirstAt
<1>3. RemoveFirst(s, e) = r
  OBVIOUS
<1>4. /\ r \in Seq(S)
      /\ Len(r) = Len(s) - 1
      /\ \A j \in 1 .. Len(s) - 1 : r[j] = IF j < i THEN s[j] ELSE s[j + 1]
  BY <1>1
<1> HIDE DEF r
<1>5. NoRepeats(r)
  <2> SUFFICES ASSUME NEW j \in 1 .. Len(s) - 1, NEW m \in 1 .. Len(s) - 1,
                      r[j] = r[m]
               PROVE  j = m
    BY <1>4 DEF NoRepeats
  <2>1. \A n \in 1 .. Len(s) - 1 :
           \/ n < i /\ r[n] = s[n]
           \/ n >= i /\ n + 1 \in 1 .. Len(s) /\ r[n] = s[n + 1]
    <3>1. \A n \in 1 .. Len(s) - 1 : n \in 1 .. Len(s) /\ n + 1 \in 1 .. Len(s)
      OBVIOUS
    <3>2. QED
      BY ONLY <1>4, <3>1, Len(s) \in Nat, i \in 1 .. Len(s)
  <2>2. QED
    BY <2>1 DEF NoRepeats
<1>6. ToSet(r) = ToSet(s) \ {e}
  <2>1. ASSUME NEW x \in ToSet(r) PROVE x \in ToSet(s) \ {e}
    <3>1. PICK j \in 1 .. Len(s) - 1 : x = r[j]
      BY <1>4 DEF ToSet
    <3>2. PICK m \in 1 .. Len(s) : m # i /\ x = s[m]
      BY <1>4, <3>1
    <3>3. QED
      BY <1>1, <3>2 DEF ToSet, NoRepeats
  <2>2. ASSUME NEW x \in ToSet(s) \ {e} PROVE x \in ToSet(r)
    <3>1. PICK j \in 1 .. Len(s) : x = s[j]
      BY DEF ToSet
    <3>2. j # i
      BY <1>1, <3>1
    <3>3. \E m \in 1 .. Len(s) - 1 : r[m] = x
      <4>1. CASE j < i
        BY <1>4, <3>1, <4>1
      <4>2. CASE j > i
        <5>1. j - 1 \in 1 .. Len(s) - 1 /\ ~(j - 1 < i) /\ (j - 1) + 1 = j
          BY <4>2
        <5>2. r[j - 1] = s[j]
          BY <1>4, <5>1
        <5>3. QED
          BY <3>1, <5>1, <5>2
      <4>3. QED
        BY <3>2, <4>1, <4>2
    <3>4. QED
      BY <1>4, <3>3 DEF ToSet
  <2>3. QED
    BY <2>1, <2>2
<1>7. QED
  BY <1>3, <1>4, <1>5, <1>6

(* Pushing an element to the front of a list. *)
LEMMA PushFacts ==
  ASSUME NEW S, NEW s \in Seq(S), NEW e \in S
  PROVE  /\ <<e>> \o s \in Seq(S)
         /\ Len(<<e>> \o s) = Len(s) + 1
         /\ ToSet(<<e>> \o s) = ToSet(s) \cup {e}
         /\ NoRepeats(s) /\ e \notin ToSet(s) => NoRepeats(<<e>> \o s)
<1> DEFINE p == <<e>> \o s
<1>1. /\ p \in Seq(S) /\ Len(p) = Len(s) + 1
      /\ p[1] = e
      /\ \A i \in 1 .. Len(s) : p[i + 1] = s[i]
  OBVIOUS
<1> HIDE DEF p
<1>2. \A i \in 1 .. Len(p) : i = 1 \/ (i - 1 \in 1 .. Len(s) /\ p[i] = s[i - 1])
  BY <1>1
<1>3. ToSet(p) = ToSet(s) \cup {e}
  <2>1. ASSUME NEW x \in ToSet(p) PROVE x \in ToSet(s) \cup {e}
    BY <1>1, <1>2 DEF ToSet
  <2>2. ASSUME NEW x \in ToSet(s) \cup {e} PROVE x \in ToSet(p)
    <3>1. CASE x = e
      BY <1>1, <3>1 DEF ToSet
    <3>2. CASE x \in ToSet(s)
      <4>1. PICK i \in 1 .. Len(s) : x = s[i]
        BY <3>2 DEF ToSet
      <4>2. i + 1 \in DOMAIN p /\ p[i + 1] = x
        BY <1>1, <4>1
      <4>3. QED
        BY <4>2 DEF ToSet
    <3>3. QED
      BY <3>1, <3>2
  <2>3. QED
    BY <2>1, <2>2
<1>4. NoRepeats(s) /\ e \notin ToSet(s) => NoRepeats(p)
  <2> SUFFICES ASSUME NoRepeats(s), e \notin ToSet(s),
                      NEW i \in 1 .. Len(p), NEW j \in 1 .. Len(p), p[i] = p[j]
               PROVE  i = j
    BY <1>1 DEF NoRepeats
  <2>1. \A m \in 1 .. Len(s) : s[m] # e
    BY DEF ToSet
  <2>2. p[1] = e /\ \A m \in 2 .. Len(p) : p[m] = s[m - 1] /\ p[m] # e
    BY <1>1, <2>1, SMTT(30)
  <2>3. i = 1 <=> j = 1
    BY <1>1, <2>2
  <2>4. CASE i # 1
    <3>1. i - 1 \in DOMAIN s /\ j - 1 \in DOMAIN s /\ s[i - 1] = s[j - 1]
      BY <1>1, <2>2, <2>3, <2>4
    <3>2. i - 1 = j - 1
      BY <3>1 DEF NoRepeats
    <3>3. QED
      BY <3>2
  <2>5. QED
    BY <2>3, <2>4
<1>5. QED
  BY <1>1, <1>3, <1>4 DEF p

(* Dropping the last element of a list without repetition. *)
LEMMA FrontFacts ==
  ASSUME NEW S, NEW s \in Seq(S), s # <<>>, NoRepeats(s)
  PROVE  /\ Front(s) \in Seq(S)
         /\ Len(Front(s)) = Len(s) - 1
         /\ NoRepeats(Front(s))
         /\ Last(s) \in ToSet(s)
         /\ ToSet(Front(s)) = ToSet(s) \ {Last(s)}
<1> DEFINE f == Front(s)
<1>1. Len(s) \in Nat \ {0}
  OBVIOUS
<1>2. /\ f \in Seq(S) /\ Len(f) = Len(s) - 1
      /\ \A i \in 1 .. Len(s) - 1 : f[i] = s[i]
  <2>1. PICK n \in 1 .. Len(s) : n = Len(s)
    BY <1>1
  <2> DEFINE g == SubSeq(s, 1, n - 1)
  <2>2. /\ g \in Seq(S) /\ Len(g) = n - 1
        /\ \A i \in 1 .. n - 1 : g[i] = s[i]
    OBVIOUS
  <2>3. QED
    BY <2>1, <2>2 DEF Front
<1> HIDE DEF f
<1>3. Last(s) = s[Len(s)] /\ Last(s) \in ToSet(s)
  BY <1>1 DEF Last, ToSet
<1>4. NoRepeats(f)
  BY <1>1, <1>2 DEF NoRepeats
<1>5. ToSet(f) = ToSet(s) \ {Last(s)}
  <2>1. \A i \in 1 .. Len(s) : i = Len(s) \/ i \in 1 .. Len(s) - 1
    BY <1>1
  <2>2. \A i \in 1 .. Len(s) - 1 : i \in 1 .. Len(s) /\ s[i] # s[Len(s)]
    BY <1>1 DEF NoRepeats
  <2>3. DOMAIN s = 1 .. Len(s) /\ DOMAIN f = 1 .. Len(s) - 1
    BY <1>1, <1>2
  <2>4. QED
    BY ONLY <1>2, <1>3, <2>1, <2>2, <2>3 DEF ToSet
<1>6. QED
  BY <1>2, <1>3, <1>4, <1>5 DEF f

(* There is a free list element for every new entry. *)
LEMMA NewElemIsFree ==
  ASSUME order \in Seq(Elem), Len(order) <= Capacity
  PROVE  NewElem \in Elem /\ NewElem \notin ToSet(order)
<1>1. Capacity \in Nat
  BY LRUCacheAssumption
<1>2. IsFiniteSet(1 .. Len(order)) /\ Cardinality(1 .. Len(order)) = Len(order)
  BY FS_Interval
<1>3. order \in Surjection(1 .. Len(order), ToSet(order))
  BY DEF Surjection, ToSet
<1>4. IsFiniteSet(ToSet(order)) /\ Cardinality(ToSet(order)) <= Len(order)
  BY <1>2, <1>3, FS_Surjection
<1>5. IsFiniteSet(Elem) /\ Cardinality(Elem) = Capacity + 1
  BY <1>1, FS_Interval DEF Elem
<1>6. ToSet(order) \subseteq Elem
  BY DEF ToSet
<1>7. ToSet(order) # Elem
  BY <1>1, <1>4, <1>5
<1>8. \E e \in Elem : e \notin ToSet(order)
  BY <1>6, <1>7
<1>9. QED
  BY <1>8 DEF NewElem

-----------------------------------------------------------------------------
(* Each operation keeps Shape. *)

(* In such a cache every cached key has a list element of its own, which   *)
(* holds the key.                                                          *)
LEMMA ShapeFacts ==
  ASSUME Shape
  PROVE  /\ NoRepeats(order)
         /\ ToSet(order) \subseteq Elem
         /\ \A k \in DOMAIN items :
              items[k] \in ToSet(order) /\ heap[items[k]].key = k
         /\ \A e \in ToSet(order) : heap[e].key \in DOMAIN items
                                    /\ items[heap[e].key] = e
         /\ \A a, b \in DOMAIN items : items[a] = items[b] => a = b
<1>1. NoRepeats(order) /\ ToSet(order) = {items[k] : k \in DOMAIN items}
  BY DEF Shape, MapMatchesList, NoRepeats
<1>2. \A k \in DOMAIN items : heap[items[k]].key = k
  BY DEF Shape, MapMatchesList
<1>3. ToSet(order) \subseteq Elem
  BY DEF Shape, ToSet
<1>4. QED
  BY <1>1, <1>2, <1>3

(* What has to be shown of a step, in terms of the sets it works on. *)
LEMMA ShapeNext ==
  ASSUME order' \in Seq(Elem), Len(order') <= Capacity, NoRepeats(order'),
         items' = [k \in DOMAIN items' |-> items'[k]],
         heap' = [e \in Elem |-> heap'[e]],
         \A k \in DOMAIN items' :
           items'[k] \in ToSet(order') /\ heap'[items'[k]].key = k,
         \A e \in ToSet(order') : \E k \in DOMAIN items' : items'[k] = e
  PROVE  Shape'
<1>1. ToSet(order') \subseteq Elem
  BY DEF ToSet
<1>2. items' \in [DOMAIN items' -> Elem]
  BY <1>1
<1>3. ToSet(order') = {items'[k] : k \in DOMAIN items'}
  OBVIOUS
<1>4. MapMatchesList'
  BY <1>3 DEF MapMatchesList, NoRepeats
<1>5. QED
  BY <1>2, <1>4 DEF Shape

(* Moving the element of a cached key to the front, and writing an entry   *)
(* of the same key in it or leaving it alone.                              *)
LEMMA MoveKeepsShape ==
  ASSUME Shape, NEW k \in DOMAIN items,
         order' = <<items[k]>> \o RemoveFirst(order, items[k]),
         items' = items,
         heap' = [e \in Elem |-> heap'[e]],
         \A e \in Elem : heap'[e].key = heap[e].key
  PROVE  Shape' /\ ToSet(order') = ToSet(order) /\ Len(order') = Len(order)
<1> DEFINE e == items[k]
           rest == RemoveFirst(order, e)
<1>1. order \in Seq(Elem) /\ Len(order) <= Capacity /\ Len(order) \in Nat
  BY DEF Shape
<1>2. e \in ToSet(order) /\ e \in Elem
  BY ShapeFacts
<1>3. /\ rest \in Seq(Elem) /\ Len(rest) = Len(order) - 1 /\ NoRepeats(rest)
      /\ ToSet(rest) = ToSet(order) \ {e}
  BY <1>1, <1>2, ShapeFacts, RemoveFirstFacts
<1> HIDE DEF rest
<1>4. /\ order' \in Seq(Elem) /\ Len(order') = Len(rest) + 1
      /\ ToSet(order') = ToSet(rest) \cup {e} /\ NoRepeats(order')
  <2>1. order' = <<e>> \o rest /\ e \notin ToSet(rest)
    BY <1>3 DEF rest
  <2>2. /\ <<e>> \o rest \in Seq(Elem) /\ Len(<<e>> \o rest) = Len(rest) + 1
        /\ ToSet(<<e>> \o rest) = ToSet(rest) \cup {e}
        /\ NoRepeats(<<e>> \o rest)
    BY <1>2, <1>3, <2>1, PushFacts
  <2>3. QED
    BY <2>1, <2>2
<1>5. ToSet(order') = ToSet(order) /\ Len(order') = Len(order)
  <2>1. ToSet(order') = ToSet(order)
    BY <1>2, <1>3, <1>4
  <2>2. QED
    BY <1>1, <1>3, <1>4, <2>1
<1>6. items' = [x \in DOMAIN items' |-> items'[x]]
  BY DEF Shape
<1>7. \A x \in DOMAIN items' : items'[x] \in ToSet(order') /\ heap'[items'[x]].key = x
  BY <1>5, ShapeFacts
<1>8. \A n \in ToSet(order') : \E x \in DOMAIN items' : items'[x] = n
  BY <1>5, ShapeFacts
<1>9. QED
  BY <1>1, <1>4, <1>5, <1>6, <1>7, <1>8, ShapeNext

(* A Get, whether it misses, expires or hits. *)
LEMMA GetKeepsShape ==
  ASSUME Shape, NEW k, Get(k)
  PROVE  Shape'
<1>1. CASE Miss(k)
  BY <1>1 DEF Miss, cacheVars, Shape, MapMatchesList
<1>2. CASE Expire(k)
  <2> DEFINE e == items[k]
  <2>1. /\ order' = RemoveFirst(order, e)
        /\ items' = Without(items, k)
        /\ heap' = [heap EXCEPT ![e] = NoEntry]
        /\ k \in DOMAIN items /\ e \in ToSet(order)
    BY <1>2, ShapeFacts DEF Expire
  <2>2. /\ order' \in Seq(Elem) /\ Len(order') <= Capacity /\ NoRepeats(order')
        /\ ToSet(order') = ToSet(order) \ {e}
    <3>1. order \in Seq(Elem) /\ Len(order) <= Capacity /\ Len(order) \in Nat
      BY DEF Shape
    <3>2. QED
      BY <2>1, <3>1, ShapeFacts, RemoveFirstFacts, LRUCacheAssumption
  <2>3. DOMAIN items' = DOMAIN items \ {k} /\ \A x \in DOMAIN items' : items'[x] = items[x]
    BY <2>1 DEF Without
  <2>4. items' = [x \in DOMAIN items' |-> items'[x]]
    BY <2>1 DEF Without
  <2>5. heap' = [x \in Elem |-> heap'[x]]
    BY <2>1 DEF Shape
  <2>6. \A x \in DOMAIN items' : items'[x] \in ToSet(order') /\ heap'[items'[x]].key = x
    <3> SUFFICES ASSUME NEW x \in DOMAIN items'
                 PROVE  items[x] \in ToSet(order') /\ heap'[items[x]].key = x
      BY <2>3
    <3>1. x \in DOMAIN items /\ items[x] # e
      BY <2>1, <2>3, ShapeFacts
    <3>2. items[x] \in ToSet(order) /\ heap[items[x]].key = x
      BY <3>1, ShapeFacts
    <3>3. heap'[items[x]] = heap[items[x]]
      BY <2>1, <3>1, <3>2, ShapeFacts DEF Shape
    <3>4. QED
      BY <2>2, <3>1, <3>2, <3>3
  <2>7. \A n \in ToSet(order') : \E x \in DOMAIN items' : items'[x] = n
    BY <2>1, <2>2, <2>3, ShapeFacts
  <2>8. QED
    BY <2>2, <2>4, <2>5, <2>6, <2>7, ShapeNext
<1>3. CASE Hit(k)
  <2> DEFINE e == items[k]
  <2>1. /\ order' = <<e>> \o RemoveFirst(order, e)
        /\ UNCHANGED <<items, heap>>
        /\ k \in DOMAIN items /\ e \in ToSet(order)
    BY <1>3, ShapeFacts DEF Hit, MovedToFront
  <2>2. heap' = [x \in Elem |-> heap'[x]] /\ \A x \in Elem : heap'[x].key = heap[x].key
    BY <2>1 DEF Shape
  <2>3. QED
    BY <2>1, <2>2, MoveKeepsShape
<1>4. QED
  BY <1>1, <1>2, <1>3 DEF Get

(* What an Insert stores, before anything is evicted. *)
Pushed == <<NewElem>> \o order
Stored(k, v) == [heap EXCEPT ![NewElem] = Written(k, v)]
Mapped(k) ==
  [x \in DOMAIN items \cup {k} |-> IF x = k THEN NewElem ELSE items[x]]

(* The list with the new element has no repetition; the map with the new   *)
(* key and the heap with the new entry match it.                           *)
LEMMA PushedFacts ==
  ASSUME Shape, NEW k, k \notin DOMAIN items, NEW v
  PROVE  /\ Pushed \in Seq(Elem) /\ Len(Pushed) = Len(order) + 1
         /\ NoRepeats(Pushed)
         /\ ToSet(Pushed) = ToSet(order) \cup {NewElem}
         /\ NewElem \in Elem /\ NewElem \notin ToSet(order)
         /\ Stored(k, v) = [e \in Elem |-> Stored(k, v)[e]]
         /\ \A x \in DOMAIN items \cup {k} :
              Mapped(k)[x] \in ToSet(Pushed) /\ Stored(k, v)[Mapped(k)[x]].key = x
         /\ \A e \in ToSet(Pushed) :
              /\ Stored(k, v)[e].key \in DOMAIN items \cup {k}
              /\ Mapped(k)[Stored(k, v)[e].key] = e
<1>1. order \in Seq(Elem) /\ Len(order) <= Capacity /\ Len(order) \in Nat
  BY DEF Shape
<1>2. NewElem \in Elem /\ NewElem \notin ToSet(order)
  BY <1>1, NewElemIsFree
<1> DEFINE new == NewElem
<1> HIDE DEF new
<1>3. /\ Pushed \in Seq(Elem) /\ Len(Pushed) = Len(order) + 1 /\ NoRepeats(Pushed)
      /\ ToSet(Pushed) = ToSet(order) \cup {new}
  <2>1. NoRepeats(order) /\ new \notin ToSet(order) /\ new \in Elem
    BY <1>2, ShapeFacts DEF new
  <2>2. Pushed = <<new>> \o order
    BY DEF Pushed, new
  <2>3. QED
    BY <1>1, <2>1, <2>2, PushFacts
<1>4. /\ Stored(k, v) = [e \in Elem |-> Stored(k, v)[e]]
      /\ Stored(k, v)[new].key = k
      /\ \A e \in ToSet(order) : Stored(k, v)[e] = heap[e]
  <2>1. heap = [e \in Elem |-> heap[e]] /\ ToSet(order) \subseteq Elem
    BY ShapeFacts DEF Shape
  <2>2. Stored(k, v) = [heap EXCEPT ![new] = Written(k, v)]
    BY DEF Stored, new
  <2>3. Written(k, v).key = k
    BY DEF Written
  <2>4. QED
    BY <1>2, <2>1, <2>2, <2>3 DEF new
<1>5. /\ Mapped(k)[k] = new
      /\ \A x \in DOMAIN items : Mapped(k)[x] = items[x]
  BY DEF Mapped, new
<1>6. ASSUME NEW x \in DOMAIN items \cup {k}
      PROVE  Mapped(k)[x] \in ToSet(Pushed) /\ Stored(k, v)[Mapped(k)[x]].key = x
  <2>1. CASE x = k
    BY <1>3, <1>4, <1>5, <2>1
  <2>2. CASE x \in DOMAIN items
    <3>1. items[x] \in ToSet(order) /\ heap[items[x]].key = x
      BY <2>2, ShapeFacts
    <3>2. QED
      BY <1>3, <1>4, <1>5, <2>2, <3>1
  <2>3. QED
    BY <2>1, <2>2
<1>7. ASSUME NEW e \in ToSet(Pushed)
      PROVE  /\ Stored(k, v)[e].key \in DOMAIN items \cup {k}
             /\ Mapped(k)[Stored(k, v)[e].key] = e
  BY <1>3, <1>4, <1>5, ShapeFacts
<1>8. QED
  BY <1>2, <1>3, <1>4, <1>6, <1>7 DEF new

(* A Set, whether it overwrites, inserts or inserts and evicts. *)
LEMMA SetKeepsShape ==
  ASSUME Shape, NEW k, NEW v, Set(k, v)
  PROVE  Shape'
<1>1. CASE Overwrite(k, v)
  <2>1. /\ k \in DOMAIN items
        /\ heap' = [heap EXCEPT ![items[k]] = Written(k, v)]
        /\ order' = <<items[k]>> \o RemoveFirst(order, items[k])
        /\ items' = items
    BY <1>1 DEF Overwrite, MovedToFront
  <2>2. Written(k, v).key = k /\ heap[items[k]].key = k
    BY <2>1, ShapeFacts DEF Written
  <2>3. heap' = [x \in Elem |-> heap'[x]] /\ \A x \in Elem : heap'[x].key = heap[x].key
    BY <2>1, <2>2 DEF Shape
  <2>4. QED
    BY <2>1, <2>3, MoveKeepsShape
<1>2. CASE Insert(k, v)
  <2> DEFINE stored == Stored(k, v)
             mapped == Mapped(k)
             keys   == DOMAIN items \cup {k}
  <2>1. /\ k \notin DOMAIN items
        /\ IF OverCapacity(Len(Pushed))
           THEN /\ order' = Front(Pushed)
                /\ items' = Without(mapped, stored[Last(Pushed)].key)
                /\ heap' = [stored EXCEPT ![Last(Pushed)] = NoEntry]
           ELSE order' = Pushed /\ items' = mapped /\ heap' = stored
    BY <1>2 DEF Insert, Pushed, Stored, Mapped
  <2>2. /\ Pushed \in Seq(Elem) /\ Len(Pushed) = Len(order) + 1
        /\ NoRepeats(Pushed)
        /\ stored = [e \in Elem |-> stored[e]]
        /\ \A x \in keys : mapped[x] \in ToSet(Pushed) /\ stored[mapped[x]].key = x
        /\ \A e \in ToSet(Pushed) :
              stored[e].key \in keys /\ mapped[stored[e].key] = e
    BY <2>1, PushedFacts
  <2>3. mapped = [x \in keys |-> mapped[x]]
    BY DEF Mapped
  <2>4. Len(order) \in Nat /\ Len(order) <= Capacity /\ Capacity \in Nat
    BY LRUCacheAssumption DEF Shape
  <2> HIDE DEF stored, mapped
  <2>5. CASE ~OverCapacity(Len(Pushed))
    <3>1. order' = Pushed /\ items' = mapped /\ heap' = stored
      BY <2>1, <2>5
    <3>2. Len(order') <= Capacity
      BY <2>2, <2>4, <2>5, <3>1 DEF OverCapacity
    <3>3. DOMAIN items' = keys /\ items' = [x \in DOMAIN items' |-> items'[x]]
      BY <2>3, <3>1
    <3>4. QED
      BY <2>2, <3>1, <3>2, <3>3, ShapeNext
  <2>6. CASE OverCapacity(Len(Pushed))
    <3> DEFINE oldest == Last(Pushed)
               gone   == stored[oldest].key
    <3>1. /\ order' = Front(Pushed)
          /\ items' = Without(mapped, gone)
          /\ heap' = [stored EXCEPT ![oldest] = NoEntry]
      BY <2>1, <2>6
    <3>2. /\ order' \in Seq(Elem) /\ Len(order') = Len(order)
          /\ NoRepeats(order') /\ oldest \in ToSet(Pushed)
          /\ ToSet(order') = ToSet(Pushed) \ {oldest}
      <4>1. Pushed # <<>>
        BY <2>2, <2>4
      <4>2. /\ Front(Pushed) \in Seq(Elem) /\ Len(Front(Pushed)) = Len(Pushed) - 1
            /\ NoRepeats(Front(Pushed)) /\ oldest \in ToSet(Pushed)
            /\ ToSet(Front(Pushed)) = ToSet(Pushed) \ {oldest}
        BY <2>2, <4>1, FrontFacts
      <4>3. Len(Pushed) - 1 = Len(order)
        BY <2>2, <2>4
      <4>4. QED
        BY <3>1, <4>2, <4>3
    <3> HIDE DEF oldest
    <3>3. DOMAIN items' = keys \ {gone} /\ \A x \in DOMAIN items' : items'[x] = mapped[x]
      BY <2>3, <3>1 DEF Without
    <3>4. items' = [x \in DOMAIN items' |-> items'[x]]
      BY <3>1 DEF Without
    <3>5. heap' = [e \in Elem |-> heap'[e]]
      BY <2>2, <3>1
    <3>6. gone \in keys /\ mapped[gone] = oldest
      BY <2>2, <3>2
    <3>7. \A x \in DOMAIN items' : items'[x] \in ToSet(order') /\ heap'[items'[x]].key = x
      <4> SUFFICES ASSUME NEW x \in DOMAIN items'
                   PROVE  mapped[x] \in ToSet(order') /\ heap'[mapped[x]].key = x
        BY <3>3
      <4>1. x \in keys /\ x # gone
        BY <3>3
      <4>2. mapped[x] \in ToSet(Pushed) /\ stored[mapped[x]].key = x
        BY <2>2, <4>1
      <4>3. mapped[x] # oldest
        BY <4>1, <4>2
      <4>4. heap'[mapped[x]] = stored[mapped[x]]
        <5>1. mapped[x] \in Elem
          BY <2>2, <4>2 DEF ToSet
        <5>2. QED
          BY <2>2, <3>1, <4>3, <5>1
      <4>5. QED
        BY <3>2, <4>2, <4>3, <4>4
    <3>8. \A n \in ToSet(order') : \E x \in DOMAIN items' : items'[x] = n
      <4> SUFFICES ASSUME NEW n \in ToSet(order')
                   PROVE  \E x \in DOMAIN items' : items'[x] = n
        OBVIOUS
      <4>1. n \in ToSet(Pushed) /\ n # oldest
        BY <3>2
      <4>2. stored[n].key \in keys /\ mapped[stored[n].key] = n
        BY <2>2, <4>1
      <4>3. stored[n].key # gone
        BY <3>6, <4>1, <4>2
      <4>4. QED
        BY <3>3, <4>2, <4>3
    <3>9. QED
      BY <2>4, <3>2, <3>4, <3>5, <3>7, <3>8, ShapeNext
  <2>7. QED
    BY <2>5, <2>6
<1>3. QED
  BY <1>1, <1>2 DEF Set

-----------------------------------------------------------------------------
(* What the operations do to the entries of the cached keys. *)

(* A Get changes no entry that stays, and answers with the one it finds.   *)
LEMMA GetWrites ==
  ASSUME Shape, NEW k, Get(k)
  PROVE  /\ \A x \in DOMAIN items' :
              x \in DOMAIN items /\ heap'[items'[x]] = heap[items[x]]
         /\ reply'.hit => /\ k \in DOMAIN items
                          /\ reply'.value = heap[items[k]].value
<1>1. CASE Miss(k)
  BY <1>1 DEF Miss, cacheVars
<1>2. CASE Expire(k)
  <2>1. /\ k \in DOMAIN items /\ items' = Without(items, k)
        /\ heap' = [heap EXCEPT ![items[k]] = NoEntry] /\ reply'.hit = FALSE
    BY <1>2 DEF Expire
  <2>2. QED
    BY <2>1, ShapeFacts DEF Without, Shape
<1>3. CASE Hit(k)
  BY <1>3 DEF Hit
<1>4. QED
  BY <1>1, <1>2, <1>3 DEF Get

(* After a Set the entry of its key is the one written; the entries of the *)
(* other keys that stay are as before.                                     *)
LEMMA SetWrites ==
  ASSUME Shape, NEW k, NEW v, Set(k, v)
  PROVE  \A x \in DOMAIN items' :
           /\ x \in DOMAIN items \cup {k}
           /\ heap'[items'[x]] = IF x = k THEN Written(k, v) ELSE heap[items[x]]
<1>1. CASE Overwrite(k, v)
  <2>1. k \in DOMAIN items /\ items' = items
        /\ heap' = [heap EXCEPT ![items[k]] = Written(k, v)]
    BY <1>1 DEF Overwrite
  <2>2. QED
    BY <2>1, ShapeFacts DEF Shape
<1>2. CASE Insert(k, v)
  <2>1. /\ k \notin DOMAIN items
        /\ IF OverCapacity(Len(Pushed))
           THEN /\ items' = Without(Mapped(k), Stored(k, v)[Last(Pushed)].key)
                /\ heap' = [Stored(k, v) EXCEPT ![Last(Pushed)] = NoEntry]
           ELSE items' = Mapped(k) /\ heap' = Stored(k, v)
    BY <1>2 DEF Insert, Pushed, Stored, Mapped
  <2>2. \A x \in DOMAIN items \cup {k} :
          Stored(k, v)[Mapped(k)[x]] = IF x = k THEN Written(k, v) ELSE heap[items[x]]
    <3>1. NewElem \in Elem /\ NewElem \notin ToSet(order)
      BY <2>1, PushedFacts
    <3>2. \A x \in DOMAIN items : items[x] \in Elem /\ items[x] # NewElem
      BY <3>1, ShapeFacts
    <3>3. Mapped(k)[k] = NewElem /\ \A x \in DOMAIN items : Mapped(k)[x] = items[x]
      BY <2>1 DEF Mapped
    <3>4. QED
      BY <2>1, <3>1, <3>2, <3>3 DEF Stored, Shape
  <2>3. DOMAIN Mapped(k) = DOMAIN items \cup {k}
    BY DEF Mapped
  <2>4. CASE ~OverCapacity(Len(Pushed))
    BY <2>1, <2>2, <2>3, <2>4
  <2>5. CASE OverCapacity(Len(Pushed))
    <3> DEFINE oldest == Last(Pushed)
               gone   == Stored(k, v)[oldest].key
    <3>1. items' = Without(Mapped(k), gone)
          /\ heap' = [Stored(k, v) EXCEPT ![oldest] = NoEntry]
      BY <2>1, <2>5
    <3>2. /\ Stored(k, v) = [e \in Elem |-> Stored(k, v)[e]]
          /\ ToSet(Pushed) \subseteq Elem
          /\ \A x \in DOMAIN items \cup {k} :
               Mapped(k)[x] \in ToSet(Pushed) /\ Stored(k, v)[Mapped(k)[x]].key = x
      <4>1. Pushed \in Seq(Elem)
        BY <2>1, PushedFacts
      <4>2. ToSet(Pushed) \subseteq Elem
        BY <4>1 DEF ToSet
      <4>3. QED
        BY <2>1, <4>2, PushedFacts
    <3>3. ASSUME NEW x \in DOMAIN items'
          PROVE  /\ x \in DOMAIN items \cup {k}
                 /\ heap'[items'[x]] =
                      IF x = k THEN Written(k, v) ELSE heap[items[x]]
      <4>1. x \in DOMAIN items \cup {k} /\ x # gone /\ items'[x] = Mapped(k)[x]
        BY <2>3, <3>1 DEF Without
      <4>2. Mapped(k)[x] \in Elem /\ Mapped(k)[x] # oldest
        BY <3>2, <4>1
      <4>3. heap'[Mapped(k)[x]] = Stored(k, v)[Mapped(k)[x]]
        BY <3>1, <3>2, <4>2
      <4>4. QED
        BY <2>2, <4>1, <4>3
    <3>4. QED
      BY <3>3
  <2>6. QED
    BY <2>4, <2>5
<1>3. QED
  BY <1>1, <1>2 DEF Set

-----------------------------------------------------------------------------
(* The cache stays intact. *)

IInv == TypeOK /\ Shape

LEMMA InitIntact == Init => IInv
<1> SUFFICES ASSUME Init PROVE IInv
  OBVIOUS
<1>1. order = <<>> /\ items = [k \in {} |-> 0] /\ heap = [e \in Elem |-> NoEntry]
      /\ now = 0 /\ reply = [hit |-> FALSE]
  BY DEF Init
<1>2. order \in Seq(Elem) /\ Len(order) = 0 /\ ToSet(order) = {} /\ DOMAIN order = {}
  BY <1>1 DEF ToSet
<1>3. DOMAIN items = {} /\ items \in [DOMAIN items -> Elem]
  BY <1>1
<1>4. MapMatchesList
  BY <1>2, <1>3 DEF MapMatchesList
<1>5. NoEntry \in Entry
  BY DEF NoEntry, Entry
<1>6. TypeOK
  BY <1>1, <1>2, <1>3, <1>5, LRUCacheAssumption DEF TypeOK
<1>7. Shape
  BY <1>1, <1>2, <1>3, <1>4, LRUCacheAssumption DEF Shape
<1>8. QED
  BY <1>6, <1>7 DEF IInv

(* The entries written are of the keys and values passed in. *)
LEMMA TypesKept ==
  ASSUME TypeOK, Shape, Shape', NEW k \in Key,
         Get(k) \/ \E v \in Value : Set(k, v)
  PROVE  TypeOK'
<1>1. now \in 0 .. MaxTime /\ now' = now
  BY DEF TypeOK, Get, Set, Miss, Expire, Hit, Overwrite, Insert
<1>2. order' \in Seq(Elem) /\ Len(order') <= Capacity
      /\ items' \in [DOMAIN items' -> Elem] /\ heap' = [e \in Elem |-> heap'[e]]
  BY DEF Shape
<1>3. DOMAIN items \subseteq Key /\ heap \in [Elem -> Entry] /\ reply.hit \in BOOLEAN
  BY DEF TypeOK
<1>4. reply'.hit \in BOOLEAN
  <2>1. CASE Get(k)
    <3>1. Miss(k) \/ Expire(k) => reply'.hit = FALSE
      BY DEF Miss, Expire
    <3>2. Hit(k) => reply'.hit = TRUE
      BY DEF Hit
    <3>3. QED
      BY <2>1, <3>1, <3>2 DEF Get
  <2>2. CASE \E v \in Value : Set(k, v)
    BY <1>3, <2>2 DEF Set, Overwrite, Insert
  <2>3. QED
    BY <2>1, <2>2
<1>5. NoEntry \in Entry /\ \A v \in Value : Written(k, v) \in Entry
  <2>1. now + TTL \in Int
    BY <1>1, LRUCacheAssumption
  <2>2. QED
    BY <2>1 DEF NoEntry, Entry, Written
<1>6. DOMAIN items' \subseteq Key
  <2>1. CASE Get(k)
    BY <1>3, <2>1 DEF Get, Miss, Expire, Hit, Without, cacheVars
  <2>2. ASSUME NEW v \in Value, Overwrite(k, v) PROVE DOMAIN items' \subseteq Key
    BY <1>3, <2>2 DEF Overwrite
  <2>3. ASSUME NEW v \in Value, Insert(k, v) PROVE DOMAIN items' \subseteq Key
    <3>1. \E x : items' = Mapped(k) \/ items' = Without(Mapped(k), x)
      BY <2>3 DEF Insert, Mapped
    <3>2. DOMAIN items' \subseteq DOMAIN items \cup {k}
      BY <3>1 DEF Mapped, Without
    <3>3. QED
      BY <1>3, <3>2
  <2>4. QED
    BY <2>1, <2>2, <2>3 DEF Set
<1>7. ASSUME NEW e \in Elem PROVE heap'[e] \in Entry
  BY <1>3, <1>5 DEF Get, Set, Miss, Expire, Hit, Overwrite, Insert, cacheVars
<1>8. heap' \in [Elem -> Entry]
  BY <1>2, <1>7
<1>9. QED
  BY <1>1, <1>2, <1>4, <1>6, <1>8 DEF TypeOK

LEMMA ShapeStays == UNCHANGED <<order, items, heap>> /\ Shape => Shape'
  BY DEF Shape, MapMatchesList

LEMMA NextIntact == IInv /\ [Next]_vars => IInv'
<1> SUFFICES ASSUME IInv, [Next]_vars PROVE IInv'
  OBVIOUS
<1> USE DEF IInv
<1>1. ASSUME NEW k \in Key, Get(k) PROVE IInv'
  <2>1. Shape'
    BY <1>1, GetKeepsShape
  <2>2. QED
    BY <1>1, <2>1, TypesKept
<1>2. ASSUME NEW k \in Key, NEW v \in Value, Set(k, v) PROVE IInv'
  <2>1. Shape'
    BY <1>2, SetKeepsShape
  <2>2. QED
    BY <1>2, <2>1, TypesKept
<1>3. CASE Tick
  <2>1. now' \in 0 .. MaxTime
    BY <1>3, LRUCacheAssumption DEF Tick, TypeOK
  <2>2. UNCHANGED <<order, items, heap, reply>>
    BY <1>3 DEF Tick, cacheVars
  <2>3. TypeOK'
    BY <2>1, <2>2 DEF TypeOK
  <2>4. Shape'
    BY <2>2, ShapeStays
  <2>5. QED
    BY <2>3, <2>4
<1>4. CASE UNCHANGED vars
  <2>1. UNCHANGED <<order, items, heap, reply, now>>
    BY <1>4 DEF vars, cacheVars
  <2>2. TypeOK'
    BY <2>1 DEF TypeOK
  <2>3. Shape'
    BY <2>1, ShapeStays
  <2>4. QED
    BY <2>2, <2>3
<1>5. QED
  BY <1>1, <1>2, <1>3, <1>4 DEF Next

(* After any sequence of Get and Set, at any time, the map and the list    *)
(* are the same entries, each once, and there are at most Capacity: what   *)
(* lru.go's Get, Set, removeElement and evictOldest have to leave behind.  *)
THEOREM SpecCacheIntact == Spec => []CacheIntact
<1>1. IInv => CacheIntact
  BY DEF IInv, Shape, CacheIntact
<1>2. QED
  BY InitIntact, NextIntact, <1>1, PTL DEF Spec

-----------------------------------------------------------------------------
(* The cache is a MemoTable. *)

(* The table a cache stands for. *)
Table ==
  [k \in DOMAIN items |->
     [value |-> heap[items[k]].value, at |-> heap[items[k]].expiresAt - TTL]]

(* There are as many cached keys as list elements, so the length of the    *)
(* list, which is what Set compares with the capacity, counts the keys.    *)
LEMMA KeysCounted ==
  Shape => IsFiniteSet(DOMAIN items) /\ Cardinality(DOMAIN items) = Len(order)
<1> SUFFICES ASSUME Shape
             PROVE  IsFiniteSet(DOMAIN items) /\ Cardinality(DOMAIN items) = Len(order)
  OBVIOUS
<1> DEFINE f == [i \in 1 .. Len(order) |-> heap[order[i]].key]
<1>1. Len(order) \in Nat /\ DOMAIN order = 1 .. Len(order)
  BY DEF Shape
<1>2. \A i \in 1 .. Len(order) : order[i] \in ToSet(order)
  BY <1>1 DEF ToSet
<1>3. f \in [1 .. Len(order) -> DOMAIN items]
  BY <1>2, ShapeFacts
<1>4. ASSUME NEW i \in 1 .. Len(order), NEW j \in 1 .. Len(order), f[i] = f[j]
      PROVE  i = j
  <2>1. order[i] = order[j]
    BY <1>2, <1>4, ShapeFacts
  <2>2. QED
    BY <1>1, <2>1, ShapeFacts DEF NoRepeats
<1>5. ASSUME NEW k \in DOMAIN items PROVE \E i \in 1 .. Len(order) : f[i] = k
  <2>1. PICK i \in 1 .. Len(order) : order[i] = items[k]
    BY <1>1, ShapeFacts DEF ToSet
  <2>2. QED
    BY <2>1, ShapeFacts
<1>6. f \in Bijection(1 .. Len(order), DOMAIN items)
  BY <1>3, <1>4, <1>5 DEF Bijection, Injection, Surjection, IsInjective
<1>7. IsFiniteSet(1 .. Len(order)) /\ Cardinality(1 .. Len(order)) = Len(order)
  <2>1. \A n \in Nat : IsFiniteSet(1 .. n) /\ Cardinality(1 .. n) = n
    BY FS_Interval
  <2>2. QED
    BY <1>1, <2>1
<1>8. QED
  BY <1>6, <1>7, FS_Bijection DEF ExistsBijection

-----------------------------------------------------------------------------
(* The order of eviction.                                                  *)

(* Which elements of a list are ahead of which, when one is pushed, ...    *)
LEMMA AheadPush ==
  ASSUME NEW S, NEW s \in Seq(S), NEW e, NEW x, NEW y
  PROVE  Ahead(<<e>> \o s, x, y)
           <=> (x = e /\ y \in ToSet(s)) \/ Ahead(s, x, y)
<1> DEFINE p == <<e>> \o s
<1>1. /\ Len(s) \in Nat /\ DOMAIN s = 1 .. Len(s)
      /\ DOMAIN p = 1 .. Len(s) + 1 /\ p[1] = e
      /\ \A i \in 1 .. Len(s) : p[i + 1] = s[i]
  OBVIOUS
<1> HIDE DEF p
<1>2. ASSUME Ahead(p, x, y)
      PROVE  (x = e /\ y \in ToSet(s)) \/ Ahead(s, x, y)
  <2>1. PICK i \in 1 .. Len(s) + 1, j \in 1 .. Len(s) + 1 :
          i < j /\ p[i] = x /\ p[j] = y
    BY <1>1, <1>2 DEF Ahead
  <2>2. j - 1 \in 1 .. Len(s) /\ y = s[j - 1]
    <3>1. j - 1 \in 1 .. Len(s) /\ (j - 1) + 1 = j
      BY <1>1, <2>1
    <3>2. QED
      BY <1>1, <2>1, <3>1
  <2>3. CASE i = 1
    BY <1>1, <2>1, <2>2, <2>3 DEF ToSet
  <2>4. CASE i # 1
    <3>1. i - 1 \in 1 .. Len(s) /\ (i - 1) + 1 = i /\ i - 1 < j - 1
      BY <1>1, <2>1, <2>4
    <3>2. x = s[i - 1]
      BY <1>1, <2>1, <3>1
    <3>3. QED
      BY <1>1, <2>2, <3>1, <3>2 DEF Ahead
  <2>5. QED
    BY <2>3, <2>4
<1>3. ASSUME x = e, y \in ToSet(s) PROVE Ahead(p, x, y)
  <2>1. PICK j \in 1 .. Len(s) : s[j] = y
    BY <1>1, <1>3 DEF ToSet
  <2>2. /\ 1 \in DOMAIN p /\ j + 1 \in DOMAIN p /\ 1 < j + 1
        /\ p[1] = x /\ p[j + 1] = y
    BY <1>1, <1>3, <2>1
  <2>3. QED
    BY <2>2 DEF Ahead
<1>4. ASSUME Ahead(s, x, y) PROVE Ahead(p, x, y)
  <2>1. PICK i \in 1 .. Len(s), j \in 1 .. Len(s) :
          i < j /\ s[i] = x /\ s[j] = y
    BY <1>1, <1>4 DEF Ahead
  <2>2. /\ i + 1 \in DOMAIN p /\ j + 1 \in DOMAIN p /\ i + 1 < j + 1
        /\ p[i + 1] = x /\ p[j + 1] = y
    BY <1>1, <2>1
  <2>3. QED
    BY <2>2 DEF Ahead
<1>5. Ahead(p, x, y) <=> (x = e /\ y \in ToSet(s)) \/ Ahead(s, x, y)
  BY <1>2, <1>3, <1>4
<1>6. QED
  BY <1>5 DEF p

(* ... when one is taken out, ... *)
LEMMA AheadRemove ==
  ASSUME NEW S, NEW s \in Seq(S), NoRepeats(s), NEW e \in ToSet(s), NEW x, NEW y
  PROVE  Ahead(RemoveFirst(s, e), x, y)
           <=> x # e /\ y # e /\ Ahead(s, x, y)
<1> DEFINE r == RemoveFirst(s, e)
<1>1. Len(s) \in Nat /\ DOMAIN s = 1 .. Len(s)
  OBVIOUS
<1>2. PICK n \in 1 .. Len(s) :
        /\ s[n] = e
        /\ r \in Seq(S) /\ Len(r) = Len(s) - 1
        /\ \A j \in 1 .. Len(s) - 1 : r[j] = IF j < n THEN s[j] ELSE s[j + 1]
  BY RemoveFirstAt
<1>3. DOMAIN r = 1 .. Len(s) - 1 /\ e \notin ToSet(r)
  BY <1>2, RemoveFirstFacts
<1> HIDE DEF r
<1> DEFINE old(j) == IF j < n THEN j ELSE j + 1
           new(j) == IF j < n THEN j ELSE j - 1
<1>4. /\ \A j \in 1 .. Len(s) - 1 : old(j) \in 1 .. Len(s) /\ r[j] = s[old(j)]
      /\ \A i, j \in 1 .. Len(s) - 1 : i < j => old(i) < old(j)
  BY <1>1, <1>2
<1>5. /\ \A j \in 1 .. Len(s) : j # n =>
            new(j) \in 1 .. Len(s) - 1 /\ r[new(j)] = s[j]
      /\ \A i, j \in 1 .. Len(s) : i # n /\ j # n /\ i < j => new(i) < new(j)
  <2>1. ASSUME NEW j \in 1 .. Len(s), j # n
        PROVE  new(j) \in 1 .. Len(s) - 1 /\ r[new(j)] = s[j]
    <3>1. CASE j < n
      BY <1>1, <1>2, <3>1
    <3>2. CASE j > n
      <4>1. j - 1 \in 1 .. Len(s) - 1 /\ ~(j - 1 < n) /\ (j - 1) + 1 = j
        BY <1>1, <3>2
      <4>2. QED
        BY <1>2, <3>2, <4>1
    <3>3. QED
      BY <1>1, <2>1, <3>1, <3>2
  <2>2. ASSUME NEW i \in 1 .. Len(s), NEW j \in 1 .. Len(s), i # n, j # n, i < j
        PROVE  new(i) < new(j)
    BY <1>1, <2>2
  <2>3. QED
    BY <2>1, <2>2
<1> HIDE DEF old, new
<1>6. ASSUME Ahead(r, x, y) PROVE x # e /\ y # e /\ Ahead(s, x, y)
  <2>1. PICK i \in 1 .. Len(s) - 1, j \in 1 .. Len(s) - 1 :
          i < j /\ r[i] = x /\ r[j] = y
    BY <1>3, <1>6 DEF Ahead
  <2>2. x \in ToSet(r) /\ y \in ToSet(r)
    BY <1>3, <2>1 DEF ToSet
  <2>3. Ahead(s, x, y)
    BY <1>1, <1>4, <2>1 DEF Ahead
  <2>4. QED
    BY <1>3, <2>2, <2>3
<1>7. ASSUME x # e, y # e, Ahead(s, x, y) PROVE Ahead(r, x, y)
  <2>1. PICK i \in 1 .. Len(s), j \in 1 .. Len(s) :
          i < j /\ s[i] = x /\ s[j] = y
    BY <1>1, <1>7 DEF Ahead
  <2>2. i # n /\ j # n
    BY <1>2, <1>7, <2>1
  <2>3. QED
    BY <1>3, <1>5, <2>1, <2>2 DEF Ahead
<1>8. Ahead(r, x, y) <=> x # e /\ y # e /\ Ahead(s, x, y)
  BY <1>6, <1>7
<1>9. QED
  BY <1>8 DEF r

(* ... and when the last one is dropped. *)
LEMMA AheadFront ==
  ASSUME NEW S, NEW s \in Seq(S), s # <<>>, NoRepeats(s), NEW x, NEW y
  PROVE  /\ Ahead(Front(s), x, y) <=> y # Last(s) /\ Ahead(s, x, y)
         /\ x \in ToSet(s) /\ x # Last(s) => Ahead(s, x, Last(s))
<1> DEFINE n == Len(s)
<1>1. n \in Nat \ {0} /\ DOMAIN s = 1 .. n /\ Last(s) = s[n]
  BY DEF Last
<1>2. /\ DOMAIN Front(s) = 1 .. n - 1
      /\ \A i \in 1 .. n - 1 : Front(s)[i] = s[i]
  <2>1. Front(s) = SubSeq(s, 1, n - 1)
    BY DEF Front
  <2>2. QED
    BY <1>1, <2>1
<1> HIDE DEF n
<1>3. ASSUME Ahead(Front(s), x, y) PROVE y # Last(s) /\ Ahead(s, x, y)
  <2>1. PICK i \in 1 .. n - 1, j \in 1 .. n - 1 :
          i < j /\ s[i] = x /\ s[j] = y
    BY <1>2, <1>3 DEF Ahead
  <2>2. i \in DOMAIN s /\ j \in DOMAIN s /\ n \in DOMAIN s /\ j # n
    BY <1>1, <2>1
  <2>3. y # Last(s)
    BY <1>1, <2>1, <2>2 DEF NoRepeats
  <2>4. QED
    BY <2>1, <2>2, <2>3 DEF Ahead
<1>4. ASSUME y # Last(s), Ahead(s, x, y) PROVE Ahead(Front(s), x, y)
  <2>1. PICK i \in 1 .. n, j \in 1 .. n : i < j /\ s[i] = x /\ s[j] = y
    BY <1>1, <1>4 DEF Ahead
  <2>2. j # n
    BY <1>1, <1>4, <2>1
  <2>3. i \in 1 .. n - 1 /\ j \in 1 .. n - 1
    BY <1>1, <2>1, <2>2
  <2>4. QED
    BY <1>2, <2>1, <2>3 DEF Ahead
<1>5. ASSUME x \in ToSet(s), x # Last(s) PROVE Ahead(s, x, Last(s))
  <2>1. PICK i \in 1 .. n : s[i] = x
    BY <1>1, <1>5 DEF ToSet
  <2>2. i # n
    BY <1>1, <1>5, <2>1
  <2>3. i < n /\ n \in 1 .. n
    BY <1>1, <2>2
  <2>4. QED
    BY <1>1, <2>1, <2>3 DEF Ahead
<1>6. QED
  BY <1>3, <1>4, <1>5

(* An element with so many others ahead of it comes after as many.         *)
LEMMA AheadCounts ==
  ASSUME NEW S, NEW s \in Seq(S), NoRepeats(s), NEW i \in DOMAIN s, NEW Y,
         \A y \in Y : Ahead(s, y, s[i])
  PROVE  IsFiniteSet(Y) /\ Cardinality(Y) < i
<1> DEFINE before == {s[j] : j \in 1 .. i - 1}
           f == [j \in 1 .. i - 1 |-> s[j]]
<1>1. Len(s) \in Nat /\ DOMAIN s = 1 .. Len(s) /\ i - 1 \in Nat
  OBVIOUS
<1>2. IsFiniteSet(1 .. i - 1) /\ Cardinality(1 .. i - 1) = i - 1
  <2>1. \A n \in Nat : IsFiniteSet(1 .. n) /\ Cardinality(1 .. n) = n
    BY FS_Interval
  <2>2. QED
    BY <1>1, <2>1
<1>3. f \in Surjection(1 .. i - 1, before)
  BY DEF Surjection
<1>4. IsFiniteSet(before) /\ Cardinality(before) <= i - 1
  BY <1>2, <1>3, FS_Surjection
<1>5. Y \subseteq before
  <2> SUFFICES ASSUME NEW y \in Y PROVE y \in before
    OBVIOUS
  <2>1. PICK m \in DOMAIN s, n \in DOMAIN s : m < n /\ s[m] = y /\ s[n] = s[i]
    BY DEF Ahead
  <2>2. n = i
    BY <2>1 DEF NoRepeats
  <2>3. m \in 1 .. i - 1
    BY <1>1, <2>1, <2>2
  <2>4. QED
    BY <2>1, <2>3
<1>6. /\ IsFiniteSet(Y) /\ Cardinality(Y) <= Cardinality(before)
      /\ Cardinality(Y) \in Nat /\ Cardinality(before) \in Nat
  BY <1>4, <1>5, FS_Subset, FS_CardinalityType
<1>7. QED
  BY <1>1, <1>4, <1>6

-----------------------------------------------------------------------------

(* A key that is used goes to the front of the history.                    *)
LEMMA ToFrontFacts ==
  ASSUME NEW S, NEW s \in Seq(S), NoRepeats(s), NEW e \in S
  PROVE  LET f == <<e>> \o RemoveFirst(s, e)
         IN  /\ f \in Seq(S) /\ NoRepeats(f)
             /\ ToSet(f) = ToSet(s) \cup {e}
             /\ \A x, y : Ahead(f, x, y)
                  <=> \/ x = e /\ y \in ToSet(s) \ {e}
                      \/ x # e /\ y # e /\ Ahead(s, x, y)
             /\ \A i \in DOMAIN f :
                  f[i] # e => \E j \in DOMAIN s : j <= i /\ s[j] = f[i]
<1> DEFINE r == RemoveFirst(s, e)
           f == <<e>> \o r
<1>1. Len(s) \in Nat /\ DOMAIN s = 1 .. Len(s)
  OBVIOUS
<1>2. /\ r \in Seq(S) /\ NoRepeats(r) /\ ToSet(r) = ToSet(s) \ {e}
      /\ \A x, y : Ahead(r, x, y) <=> x # e /\ y # e /\ Ahead(s, x, y)
      /\ \A i \in DOMAIN r : \E j \in DOMAIN s : j <= i + 1 /\ s[j] = r[i]
  <2>1. CASE e \in ToSet(s)
    <3>1. /\ r \in Seq(S) /\ NoRepeats(r) /\ ToSet(r) = ToSet(s) \ {e}
      BY <2>1, RemoveFirstFacts
    <3>2. \A x, y : Ahead(r, x, y) <=> x # e /\ y # e /\ Ahead(s, x, y)
      BY <2>1, AheadRemove
    <3>3. PICK n \in 1 .. Len(s) :
            /\ Len(r) = Len(s) - 1
            /\ \A j \in 1 .. Len(s) - 1 : r[j] = IF j < n THEN s[j] ELSE s[j + 1]
      BY <2>1, RemoveFirstAt
    <3> HIDE DEF r
    <3>4. ASSUME NEW i \in DOMAIN r
          PROVE  \E j \in DOMAIN s : j <= i + 1 /\ s[j] = r[i]
      <4>1. i \in 1 .. Len(s) - 1
        BY <3>1, <3>3
      <4>2. /\ i \in DOMAIN s /\ i + 1 \in DOMAIN s /\ i <= i + 1 /\ i + 1 <= i + 1
            /\ r[i] \in {s[i], s[i + 1]}
        BY <1>1, <3>3, <4>1
      <4>3. QED
        BY <4>2
    <3>5. QED
      BY <3>1, <3>2, <3>4
  <2>2. CASE e \notin ToSet(s)
    <3>1. r = s
      BY <1>1, <2>2 DEF RemoveFirst, ToSet
    <3>2. \A x, y : Ahead(s, x, y) => x \in ToSet(s) /\ y \in ToSet(s)
      BY DEF Ahead, ToSet
    <3> HIDE DEF r
    <3>3. \A i \in DOMAIN s : i <= i + 1
      BY <1>1
    <3>4. QED
      BY <2>2, <3>1, <3>2, <3>3
  <2>3. QED
    BY <2>1, <2>2
<1> HIDE DEF r
<1>3. e \notin ToSet(r)
  BY <1>2
<1>4. /\ f \in Seq(S) /\ NoRepeats(f) /\ ToSet(f) = ToSet(r) \cup {e}
  BY <1>2, <1>3, PushFacts
<1>5. \A x, y : Ahead(f, x, y) <=> (x = e /\ y \in ToSet(r)) \/ Ahead(r, x, y)
  BY <1>2, AheadPush
<1>6. ASSUME NEW i \in DOMAIN f, f[i] # e
      PROVE  \E j \in DOMAIN s : j <= i /\ s[j] = f[i]
  <2>1. /\ Len(r) \in Nat /\ DOMAIN r = 1 .. Len(r)
        /\ DOMAIN f = 1 .. Len(r) + 1 /\ f[1] = e
        /\ \A m \in 1 .. Len(r) : f[m + 1] = r[m]
    BY <1>2
  <2> HIDE DEF f
  <2>2. i - 1 \in DOMAIN r /\ (i - 1) + 1 = i
    BY <1>6, <2>1
  <2>3. f[i] = r[i - 1]
    BY <2>1, <2>2
  <2>4. PICK j \in DOMAIN s : j <= (i - 1) + 1 /\ s[j] = r[i - 1]
    BY <1>2, <2>2
  <2>5. QED
    BY <2>2, <2>3, <2>4
<1> HIDE DEF f
<1>7. /\ f \in Seq(S) /\ NoRepeats(f) /\ ToSet(f) = ToSet(s) \cup {e}
      /\ \A x, y : Ahead(f, x, y)
           <=> \/ x = e /\ y \in ToSet(s) \ {e}
               \/ x # e /\ y # e /\ Ahead(s, x, y)
  BY <1>2, <1>4, <1>5
<1>8. f = <<e>> \o RemoveFirst(s, e)
  BY DEF f, r
<1>9. QED
  BY <1>6, <1>7, <1>8

(* The inductive invariant: the history has every key that was Set, once,  *)
(* the times of the history are those of the entries, and                  *)
(* ExactlyMostRecent.                                                      *)
HistoryInv ==
  /\ used \in Seq(Key) /\ NoRepeats(used)
  /\ ToSet(used) = DOMAIN written
  /\ \A k \in DOMAIN written : written[k] \in Int
  /\ \A k \in DOMAIN items : heap[items[k]].expiresAt = written[k] + TTL
  /\ ExactlyMostRecent

LEMMA HistoryInit == HInit => HistoryInv
<1> SUFFICES ASSUME HInit PROVE HistoryInv
  OBVIOUS
<1>1. /\ used = <<>> /\ written = [k \in {} |-> 0]
      /\ items = [k \in {} |-> 0]
  BY DEF HInit, Init
<1>2. /\ used \in Seq(Key) /\ DOMAIN used = {} /\ ToSet(used) = {}
      /\ DOMAIN written = {} /\ DOMAIN items = {}
  BY <1>1 DEF ToSet
<1>3. QED
  BY <1>2 DEF HistoryInv, ExactlyMostRecent, NoRepeats

(* What the history says after k was used at some time.                    *)
LEMMA UseFacts ==
  ASSUME HistoryInv, NEW k \in Key, Use(k)
  PROVE  /\ used' \in Seq(Key) /\ NoRepeats(used')
         /\ ToSet(used') = ToSet(used) \cup {k}
         /\ \A x, y : Ahead(used', x, y)
              <=> \/ x = k /\ y \in ToSet(used) \ {k}
                  \/ x # k /\ y # k /\ Ahead(used, x, y)
         /\ \A i \in DOMAIN used' :
              used'[i] # k => \E j \in DOMAIN used : j <= i /\ used[j] = used'[i]
<1>1. used \in Seq(Key) /\ NoRepeats(used) /\ used' = <<k>> \o RemoveFirst(used, k)
  BY DEF HistoryInv, Use
<1>2. QED
  BY <1>1, ToFrontFacts

(* The fresh keys that were used last are cached, if the cache keeps what  *)
(* it had and k, which was used.                                           *)
LEMMA RecentStay ==
  ASSUME IInv, HistoryInv, NEW k \in Key, Use(k), now' = now,
         DOMAIN written' = DOMAIN written \cup {k},
         \A x \in DOMAIN written : x # k => written'[x] = written[x],
         NEW i \in DOMAIN used', i <= Capacity, used'[i] \in FreshKeys'
  PROVE  used'[i] \in DOMAIN items \cup {k}
<1>1. SUFFICES ASSUME used'[i] # k PROVE used'[i] \in DOMAIN items
  OBVIOUS
<1>2. PICK j \in DOMAIN used : j <= i /\ used[j] = used'[i]
  BY <1>1, UseFacts
<1>3. j \in Nat /\ i \in Nat /\ Capacity \in Nat
  BY UseFacts, LRUCacheAssumption DEF HistoryInv
<1>4. j <= Capacity
  BY <1>2, <1>3
<1>5. used[j] \in DOMAIN written /\ used[j] # k
  BY <1>1, <1>2 DEF HistoryInv, ToSet
<1>6. used[j] \in FreshKeys
  BY <1>2, <1>5 DEF FreshKeys
<1>7. QED
  BY <1>2, <1>4, <1>6 DEF HistoryInv, ExactlyMostRecent

-----------------------------------------------------------------------------
(* Each operation keeps the history.                                       *)

(* An entry that is moved to the front, in the list and in the history.    *)
LEMMA MoveAgrees ==
  ASSUME IInv, HistoryInv, NEW k \in Key, k \in DOMAIN items, Use(k),
         order' = <<items[k]>> \o RemoveFirst(order, items[k]),
         items' = items
  PROVE  /\ \A a, b \in DOMAIN items' :
              Ahead(order', items'[a], items'[b]) <=> Ahead(used', a, b)
         /\ DOMAIN items' \subseteq ToSet(used')
<1>1. /\ order \in Seq(Elem) /\ NoRepeats(order) /\ items[k] \in Elem
      /\ \A a \in DOMAIN items : items[a] \in ToSet(order)
      /\ \A a, b \in DOMAIN items : items[a] = items[b] => a = b
  BY ShapeFacts DEF IInv, Shape
<1>2. \A x, y : Ahead(order', x, y)
        <=> \/ x = items[k] /\ y \in ToSet(order) \ {items[k]}
            \/ x # items[k] /\ y # items[k] /\ Ahead(order, x, y)
  BY <1>1, ToFrontFacts
<1>3. \A x, y : Ahead(used', x, y)
        <=> \/ x = k /\ y \in ToSet(used) \ {k}
            \/ x # k /\ y # k /\ Ahead(used, x, y)
  BY UseFacts
<1>4. /\ \A a, b \in DOMAIN items :
           Ahead(order, items[a], items[b]) <=> Ahead(used, a, b)
      /\ DOMAIN items \subseteq ToSet(used)
  BY DEF HistoryInv, ExactlyMostRecent
<1>5. ASSUME NEW a \in DOMAIN items, NEW b \in DOMAIN items
      PROVE  Ahead(order', items[a], items[b]) <=> Ahead(used', a, b)
  <2>1. items[a] = items[k] <=> a = k
    BY <1>1
  <2>2. items[b] = items[k] <=> b = k
    BY <1>1
  <2>3. items[b] \in ToSet(order) /\ b \in ToSet(used)
    BY <1>1, <1>4
  <2>4. Ahead(order', items[a], items[b])
          <=> \/ a = k /\ b # k
              \/ a # k /\ b # k /\ Ahead(order, items[a], items[b])
    BY <1>2, <2>1, <2>2, <2>3
  <2>5. Ahead(used', a, b)
          <=> \/ a = k /\ b # k
              \/ a # k /\ b # k /\ Ahead(used, a, b)
    BY <1>3, <2>3
  <2>6. QED
    BY <1>4, <2>4, <2>5
<1>6. DOMAIN items \subseteq ToSet(used')
  BY <1>4, UseFacts
<1>7. QED
  BY <1>5, <1>6

LEMMA GetKeepsHistory ==
  ASSUME IInv, HistoryInv, NEW k \in Key, HGet(k)
  PROVE  HistoryInv'
<1>0. /\ Get(k) /\ written' = written
      /\ IF reply'.hit THEN Use(k) ELSE used' = used
  BY DEF HGet
<1>1. \A x \in DOMAIN items' :
        heap'[items'[x]].expiresAt = written'[x] + TTL
  <2>1. \A x \in DOMAIN items' :
          x \in DOMAIN items /\ heap'[items'[x]] = heap[items[x]]
    BY <1>0, GetWrites DEF IInv
  <2>2. QED
    BY <1>0, <2>1 DEF HistoryInv
<1>2. CASE Miss(k)
  <2>1. UNCHANGED <<order, items, heap, now, used, written>>
    BY <1>0, <1>2 DEF Miss, cacheVars
  <2>2. QED
    BY <2>1 DEF HistoryInv, ExactlyMostRecent, FreshKeys, Ahead
<1>3. CASE Expire(k)
  <2>1. /\ k \in DOMAIN items /\ Expired(items[k])
        /\ order' = RemoveFirst(order, items[k])
        /\ DOMAIN items' = DOMAIN items \ {k}
        /\ \A x \in DOMAIN items' : items'[x] = items[x]
        /\ UNCHANGED <<now, used, written>>
    BY <1>0, <1>3 DEF Expire, Without
  <2>2. k \notin FreshKeys
    <3>1. heap[items[k]].expiresAt = written[k] + TTL /\ k \in DOMAIN written
      BY <2>1 DEF HistoryInv, ExactlyMostRecent
    <3>2. now \in Int /\ TTL \in Int /\ written[k] \in Int
      BY <3>1, LRUCacheAssumption DEF IInv, TypeOK, HistoryInv
    <3>3. TTL > 0 /\ now > written[k] + TTL
      BY <2>1, <3>1 DEF Expired
    <3>4. QED
      BY <3>2, <3>3 DEF FreshKeys
  <2>3. ASSUME NEW a \in DOMAIN items', NEW b \in DOMAIN items'
        PROVE  Ahead(order', items'[a], items'[b]) <=> Ahead(used', a, b)
    <3>1. /\ items'[a] = items[a] /\ items'[b] = items[b]
          /\ a \in DOMAIN items /\ b \in DOMAIN items
          /\ items[a] # items[k] /\ items[b] # items[k]
      BY <2>1, ShapeFacts DEF IInv
    <3>2. /\ order \in Seq(Elem) /\ NoRepeats(order) /\ items[k] \in ToSet(order)
      BY <2>1, ShapeFacts DEF IInv, Shape
    <3>3. Ahead(order', items[a], items[b]) <=> Ahead(order, items[a], items[b])
      BY <2>1, <3>1, <3>2, AheadRemove
    <3>4. Ahead(order, items[a], items[b]) <=> Ahead(used, a, b)
      BY <3>1 DEF HistoryInv, ExactlyMostRecent
    <3>5. QED
      BY <2>1, <3>1, <3>3, <3>4
  <2>4. ASSUME NEW i \in DOMAIN used, i <= Capacity, used[i] \in FreshKeys
        PROVE  used[i] \in DOMAIN items'
    <3>1. used[i] \in DOMAIN items /\ used[i] # k
      BY <2>2, <2>4 DEF HistoryInv, ExactlyMostRecent
    <3>2. QED
      BY <2>1, <3>1
  <2>5. ExactlyMostRecent'
    <3>1. \A x : x \in FreshKeys' => x \in FreshKeys
      BY <2>1 DEF FreshKeys
    <3>2. DOMAIN items' \subseteq ToSet(used')
      BY <2>1 DEF HistoryInv, ExactlyMostRecent
    <3>3. \A i \in DOMAIN used' :
            i <= Capacity /\ used'[i] \in FreshKeys' => used'[i] \in DOMAIN items'
      BY <2>1, <2>4 DEF FreshKeys
    <3>4. QED
      BY <2>3, <3>2, <3>3 DEF ExactlyMostRecent
  <2>6. QED
    BY <1>1, <2>1, <2>5 DEF HistoryInv
<1>4. CASE Hit(k)
  <2>1. /\ k \in DOMAIN items /\ reply'.hit = TRUE
        /\ order' = <<items[k]>> \o RemoveFirst(order, items[k])
        /\ UNCHANGED <<items, heap, now>>
    BY <1>4 DEF Hit, MovedToFront
  <2>2. Use(k)
    BY <1>0, <2>1
  <2>3. k \in DOMAIN written
    BY <2>1 DEF HistoryInv, ExactlyMostRecent
  <2>4. ASSUME NEW i \in DOMAIN used', i <= Capacity, used'[i] \in FreshKeys'
        PROVE  used'[i] \in DOMAIN items'
    <3>1. used'[i] \in DOMAIN items \cup {k}
      BY <1>0, <2>1, <2>2, <2>3, <2>4, RecentStay
    <3>2. QED
      BY <2>1, <3>1
  <2>5. ExactlyMostRecent'
    BY <2>1, <2>2, <2>4, MoveAgrees DEF ExactlyMostRecent
  <2>6. /\ used' \in Seq(Key) /\ NoRepeats(used')
        /\ ToSet(used') = ToSet(used) \cup {k}
    BY <2>2, UseFacts
  <2>7. QED
    BY <1>0, <1>1, <2>3, <2>5, <2>6 DEF HistoryInv
<1>5. QED
  BY <1>0, <1>2, <1>3, <1>4 DEF Get

(* The list that an insertion makes, before it evicts, is in the order of  *)
(* the history.                                                            *)
LEMMA PushAgrees ==
  ASSUME IInv, HistoryInv, NEW k \in Key, k \notin DOMAIN items, Use(k)
  PROVE  \A a, b \in DOMAIN items \cup {k} :
           Ahead(Pushed, Mapped(k)[a], Mapped(k)[b]) <=> Ahead(used', a, b)
<1> DEFINE m == Mapped(k)
           new == NewElem
<1>1. /\ order \in Seq(Elem) /\ new \in Elem /\ new \notin ToSet(order)
      /\ \A a \in DOMAIN items : items[a] \in ToSet(order)
  BY PushedFacts, ShapeFacts DEF IInv, Shape
<1>2. m[k] = new /\ \A a \in DOMAIN items : m[a] = items[a]
  BY DEF Mapped
<1>3. \A x, y : Ahead(Pushed, x, y)
        <=> (x = new /\ y \in ToSet(order)) \/ Ahead(order, x, y)
  <2>1. Pushed = <<new>> \o order
    BY DEF Pushed
  <2> HIDE DEF new
  <2>2. QED
    BY <1>1, <2>1, AheadPush
<1>4. \A x, y : Ahead(order, x, y) => x \in ToSet(order) /\ y \in ToSet(order)
  BY DEF Ahead, ToSet
<1>5. \A x, y : Ahead(used', x, y)
        <=> \/ x = k /\ y \in ToSet(used) \ {k}
            \/ x # k /\ y # k /\ Ahead(used, x, y)
  BY UseFacts
<1>6. /\ \A a, b \in DOMAIN items :
           Ahead(order, items[a], items[b]) <=> Ahead(used, a, b)
      /\ DOMAIN items \subseteq ToSet(used)
  BY DEF HistoryInv, ExactlyMostRecent
<1> HIDE DEF m, new
<1>7. ASSUME NEW a \in DOMAIN items \cup {k}, NEW b \in DOMAIN items \cup {k}
      PROVE  Ahead(Pushed, m[a], m[b]) <=> Ahead(used', a, b)
  <2>1. CASE a = k /\ b = k
    <3>1. ~Ahead(used', k, k)
      BY <1>5
    <3>2. ~Ahead(Pushed, new, new)
      BY <1>1, <1>3, <1>4
    <3>3. QED
      BY <1>2, <2>1, <3>1, <3>2
  <2>2. CASE a = k /\ b # k
    <3>1. m[a] = new /\ m[b] \in ToSet(order) /\ b \in ToSet(used)
      BY <1>1, <1>2, <1>6, <2>2
    <3>2. Ahead(Pushed, m[a], m[b])
      BY <1>3, <3>1
    <3>3. Ahead(used', a, b)
      BY <1>5, <2>2, <3>1
    <3>4. QED
      BY <3>2, <3>3
  <2>3. CASE a # k /\ b = k
    <3>1. m[a] \in ToSet(order) /\ m[b] = new
      BY <1>1, <1>2, <2>3
    <3>2. ~Ahead(Pushed, m[a], m[b])
      BY <1>1, <1>3, <1>4, <3>1
    <3>3. ~Ahead(used', a, b)
      BY <1>5, <2>3
    <3>4. QED
      BY <3>2, <3>3
  <2>4. CASE a # k /\ b # k
    <3>1. /\ a \in DOMAIN items /\ b \in DOMAIN items
          /\ m[a] = items[a] /\ m[b] = items[b] /\ items[a] # new
      BY <1>1, <1>2, <2>4
    <3>2. Ahead(Pushed, m[a], m[b]) <=> Ahead(order, items[a], items[b])
      BY <1>3, <3>1
    <3>3. Ahead(used', a, b) <=> Ahead(used, a, b)
      BY <1>5, <2>4
    <3>4. QED
      BY <1>6, <3>1, <3>2, <3>3
  <2>5. QED
    BY <2>1, <2>2, <2>3, <2>4
<1>8. QED
  BY <1>7 DEF m

LEMMA SetKeepsHistory ==
  ASSUME IInv, HistoryInv, NEW k \in Key, NEW v \in Value, HSet(k, v)
  PROVE  HistoryInv'
<1>1. /\ Set(k, v) /\ Use(k)
      /\ DOMAIN written' = DOMAIN written \cup {k}
      /\ written'[k] = now
      /\ \A x \in DOMAIN written : x # k => written'[x] = written[x]
      /\ now' = now
  BY DEF HSet, Set, Overwrite, Insert
<1>2. /\ used' \in Seq(Key) /\ NoRepeats(used')
      /\ ToSet(used') = DOMAIN written'
      /\ \A x \in DOMAIN written' : written'[x] \in Int
  <2>1. now \in Int
    BY DEF IInv, TypeOK
  <2>2. QED
    BY <1>1, <2>1, UseFacts DEF HistoryInv
<1>3. \A x \in DOMAIN items' : heap'[items'[x]].expiresAt = written'[x] + TTL
  <2>1. \A x \in DOMAIN items' :
          /\ x \in DOMAIN items \cup {k}
          /\ heap'[items'[x]] = IF x = k THEN Written(k, v) ELSE heap[items[x]]
    BY <1>1, SetWrites DEF IInv
  <2>2. Written(k, v).expiresAt = now + TTL
    BY DEF Written
  <2>3. \A x \in DOMAIN items :
          x \in DOMAIN written /\ heap[items[x]].expiresAt = written[x] + TTL
    BY DEF HistoryInv, ExactlyMostRecent
  <2>4. QED
    BY <1>1, <2>1, <2>2, <2>3
<1>4. ASSUME NEW i \in DOMAIN used', i <= Capacity, used'[i] \in FreshKeys'
      PROVE  used'[i] \in DOMAIN items \cup {k}
  BY <1>1, <1>4, RecentStay
<1>5. CASE Overwrite(k, v)
  <2>1. /\ k \in DOMAIN items /\ items' = items
        /\ order' = <<items[k]>> \o RemoveFirst(order, items[k])
    BY <1>5 DEF Overwrite, MovedToFront
  <2>2. ExactlyMostRecent'
    BY <1>1, <1>4, <2>1, MoveAgrees DEF ExactlyMostRecent
  <2>3. QED
    BY <1>2, <1>3, <2>2 DEF HistoryInv
<1>6. CASE Insert(k, v)
  <2> DEFINE m == Mapped(k)
             keys == DOMAIN items \cup {k}
             stored == Stored(k, v)
             oldest == Last(Pushed)
             gone == stored[oldest].key
  <2>1. /\ k \notin DOMAIN items
        /\ IF OverCapacity(Len(Pushed))
           THEN order' = Front(Pushed) /\ items' = Without(m, gone)
           ELSE order' = Pushed /\ items' = m
    BY <1>6 DEF Insert, Pushed, Stored, Mapped
  <2>2. /\ Pushed \in Seq(Elem) /\ Len(Pushed) = Len(order) + 1
        /\ NoRepeats(Pushed)
        /\ \A x \in keys : m[x] \in ToSet(Pushed) /\ stored[m[x]].key = x
        /\ \A e \in ToSet(Pushed) : stored[e].key \in keys /\ m[stored[e].key] = e
    BY <2>1, PushedFacts DEF IInv
  <2>3. \A a, b \in keys : Ahead(Pushed, m[a], m[b]) <=> Ahead(used', a, b)
    BY <1>1, <2>1, PushAgrees
  <2>4. DOMAIN m = keys
    BY DEF Mapped
  <2>5. keys \subseteq ToSet(used')
    BY <1>1, UseFacts DEF HistoryInv, ExactlyMostRecent
  <2>6. Len(order) \in Nat /\ Capacity \in Nat
    BY LRUCacheAssumption DEF IInv, Shape
  <2> HIDE DEF m, stored
  <2>7. CASE ~OverCapacity(Len(Pushed))
    <3>1. order' = Pushed /\ items' = m
      BY <2>1, <2>7
    <3>2. ExactlyMostRecent'
      BY <1>4, <2>3, <2>4, <2>5, <3>1 DEF ExactlyMostRecent
    <3>3. QED
      BY <1>2, <1>3, <3>2 DEF HistoryInv
  <2>8. CASE OverCapacity(Len(Pushed))
    <3>1. /\ order' = Front(Pushed)
          /\ DOMAIN items' = keys \ {gone}
          /\ \A x \in DOMAIN items' : items'[x] = m[x]
      BY <2>1, <2>4, <2>8 DEF Without
    <3>2. Pushed # <<>> /\ oldest \in ToSet(Pushed)
      <4>1. Pushed # <<>>
        BY <2>2, <2>6
      <4>2. QED
        BY <2>2, <4>1, FrontFacts
    <3> HIDE DEF oldest
    <3>3. gone \in keys /\ m[gone] = oldest
      BY <2>2, <3>2
    <3>4. ASSUME NEW x \in keys \ {gone}
          PROVE  m[x] # oldest /\ m[x] \in ToSet(Pushed)
      BY <2>2, <3>3, <3>4
    <3>5. ASSUME NEW x \in keys \ {gone} PROVE Ahead(used', x, gone)
      <4>1. Ahead(Pushed, m[x], oldest)
        BY <2>2, <3>2, <3>4, AheadFront DEF oldest
      <4>2. QED
        BY <2>3, <3>3, <4>1
    <3>6. ASSUME NEW a \in DOMAIN items', NEW b \in DOMAIN items'
          PROVE  Ahead(order', items'[a], items'[b]) <=> Ahead(used', a, b)
      <4>1. /\ a \in keys /\ b \in keys \ {gone}
            /\ items'[a] = m[a] /\ items'[b] = m[b]
        BY <3>1
      <4>2. Ahead(Front(Pushed), m[a], m[b])
              <=> m[b] # oldest /\ Ahead(Pushed, m[a], m[b])
        BY <2>2, <3>2, AheadFront DEF oldest
      <4>3. QED
        BY <2>3, <3>1, <3>4, <4>1, <4>2
    <3>7. ASSUME NEW i \in DOMAIN used', used'[i] = gone PROVE i > Capacity
      <4>1. Cardinality(keys \ {gone}) < i
        BY <1>2, <3>5, <3>7, AheadCounts
      <4>2. /\ IsFiniteSet(DOMAIN items)
            /\ Cardinality(DOMAIN items) = Len(order)
        BY KeysCounted DEF IInv
      <4>3. IsFiniteSet(keys) /\ Cardinality(keys) = Len(order) + 1
        BY <2>1, <4>2, FS_AddElement
      <4>4. Cardinality(keys \ {gone}) = Len(order)
        <5>1. Cardinality(keys \ {gone}) = Cardinality(keys) - 1
          BY <3>3, <4>3, FS_RemoveElement
        <5>2. QED
          BY <2>6, <4>3, <5>1
      <4>5. Len(order) >= Capacity
        BY <2>2, <2>6, <2>8 DEF OverCapacity
      <4>6. i \in Nat
        BY <1>2
      <4>7. QED
        BY <2>6, <4>1, <4>4, <4>5, <4>6
    <3>8. ASSUME NEW i \in DOMAIN used', i <= Capacity, used'[i] \in FreshKeys'
          PROVE  used'[i] \in DOMAIN items'
      <4>1. i \in Nat
        BY <1>2
      <4>2. used'[i] # gone
        BY <2>6, <3>7, <3>8, <4>1
      <4>3. QED
        BY <1>4, <3>1, <3>8, <4>2
    <3>9. ExactlyMostRecent'
      BY <2>5, <3>1, <3>6, <3>8 DEF ExactlyMostRecent
    <3>10. QED
      BY <1>2, <1>3, <3>9 DEF HistoryInv
  <2>9. QED
    BY <2>7, <2>8
<1>7. QED
  BY <1>1, <1>5, <1>6 DEF Set

LEMMA HistoryNext ==
  IInv /\ HistoryInv /\ [HNext]_<<vars, historyVars>> => HistoryInv'
<1> SUFFICES ASSUME IInv, HistoryInv, [HNext]_<<vars, historyVars>>
             PROVE  HistoryInv'
  OBVIOUS
<1>1. ASSUME UNCHANGED <<order, items, heap, historyVars>>, now' \in Int, now' >= now
      PROVE  HistoryInv'
  <2>1. UNCHANGED <<order, items, heap, used, written>>
    BY <1>1 DEF historyVars
  <2>2. ASSUME NEW x, x \in FreshKeys' PROVE x \in FreshKeys
    <3>1. now \in Int /\ TTL \in Int
      BY LRUCacheAssumption DEF IInv, TypeOK
    <3>2. x \in DOMAIN written /\ written[x] \in Int
      BY <2>1, <2>2 DEF FreshKeys, HistoryInv
    <3>3. TTL <= 0 \/ now' <= written[x] + TTL
      BY <2>1, <2>2 DEF FreshKeys
    <3>4. TTL <= 0 \/ now <= written[x] + TTL
      BY <1>1, <3>1, <3>2, <3>3
    <3>5. QED
      BY <3>2, <3>4 DEF FreshKeys
  <2>3. \A i \in DOMAIN used' :
          i <= Capacity /\ used'[i] \in FreshKeys' => used'[i] \in DOMAIN items'
    BY <2>1, <2>2 DEF HistoryInv, ExactlyMostRecent
  <2>4. ExactlyMostRecent'
    BY <2>1, <2>3 DEF HistoryInv, ExactlyMostRecent, Ahead
  <2>5. QED
    BY <2>1, <2>4 DEF HistoryInv
<1>2. now \in Int
  BY DEF IInv, TypeOK
<1>3. CASE UNCHANGED <<vars, historyVars>>
  <2>1. UNCHANGED <<order, items, heap, historyVars>> /\ now' = now
    BY <1>3 DEF vars, cacheVars
  <2>2. QED
    BY <1>1, <1>2, <2>1
<1>4. CASE HTick
  <2>1. UNCHANGED <<order, items, heap, historyVars>> /\ now' = now + 1
    BY <1>4 DEF HTick, Tick, cacheVars
  <2>2. QED
    BY <1>1, <1>2, <2>1
<1>5. QED
  BY <1>3, <1>4, GetKeepsHistory, SetKeepsHistory DEF HNext

(* After any sequence of calls, at any time, the cache has evicted only    *)
(* what was used least recently, and only for want of room: for every      *)
(* capacity, time to live and set of keys.                                 *)
THEOREM SpecExactlyMostRecent == HSpec => []ExactlyMostRecent
<1>1. HInit => IInv
  BY InitIntact DEF HInit
<1>2. IInv /\ [HNext]_<<vars, historyVars>> => IInv'
  <2>1. HNext => Next
    BY DEF HNext, HGet, HSet, HTick, Next
  <2>2. UNCHANGED <<vars, historyVars>> => UNCHANGED vars
    OBVIOUS
  <2>3. QED
    BY <2>1, <2>2, NextIntact
<1>3. HistoryInv => ExactlyMostRecent
  BY DEF HistoryInv
<1>4. QED
  BY <1>1, <1>2, <1>3, HistoryInit, HistoryNext, PTL DEF HSpec

-----------------------------------------------------------------------------
(* MemoTable counts as LRUCache does. *)
LEMMA SameCardinality == \A S : Abstract!Cardinality(S) = Cardinality(S)
  BY DEF Cardinality, Abstract!Cardinality

LEMMA GetRefines ==
  ASSUME TypeOK, Shape, NEW k \in Key, Get(k)
  PROVE  Abstract!Found(k) \/ Abstract!NotFound(k)
<1>1. \A x \in DOMAIN items : heap[items[x]].expiresAt \in Int
  BY DEF TypeOK, Entry
<1>2. now \in Int
  BY DEF TypeOK
<1>3. ASSUME k \in DOMAIN items
      PROVE  Expired(items[k]) <=> ~(TTL <= 0 \/ now <= Table[k].at + TTL)
  <2>1. Table[k].at = heap[items[k]].expiresAt - TTL
    BY <1>3 DEF Table
  <2>2. QED
    BY <1>1, <1>2, <1>3, <2>1, LRUCacheAssumption DEF Expired
<1>4. DOMAIN Table = DOMAIN items
  BY DEF Table
<1>5. CASE Miss(k)
  <2>1. Table' = [x \in DOMAIN Table \ {k} |-> Table[x]]
    BY <1>5 DEF Miss, cacheVars, Table
  <2>2. QED
    BY <1>5, <2>1 DEF Miss, Table, Abstract!NotFound, Abstract!Forget
<1>6. CASE Expire(k)
  <2>1. /\ k \in DOMAIN items /\ items' = Without(items, k)
        /\ heap' = [heap EXCEPT ![items[k]] = NoEntry]
    BY <1>6 DEF Expire
  <2>2. DOMAIN items' = DOMAIN items \ {k}
    BY <2>1 DEF Without
  <2>3. \A x \in DOMAIN items' : heap'[items'[x]] = heap[items[x]]
    BY GetWrites
  <2>4. Table' = [x \in DOMAIN Table \ {k} |-> Table[x]]
    BY <2>2, <2>3 DEF Table
  <2>5. QED
    BY <1>3, <1>6, <2>1, <2>4
       DEF Expire, Table, Abstract!NotFound, Abstract!Forget, Abstract!Fresh
<1>7. CASE Hit(k)
  <2>1. Table' = Table
    BY <1>7 DEF Hit, Table
  <2>2. QED
    BY <1>3, <1>7, <2>1 DEF Hit, Table, Abstract!Found, Abstract!Fresh
<1>8. QED
  BY <1>5, <1>6, <1>7 DEF Get

LEMMA SetRefines ==
  ASSUME TypeOK, Shape, Shape', NEW k \in Key, NEW v \in Value, Set(k, v)
  PROVE  Abstract!Store(k, v)
<1> DEFINE kept(gone) == (DOMAIN Table \cup {k}) \ gone
           stored(gone) ==
             [x \in kept(gone) |-> IF x = k THEN [value |-> v, at |-> now]
                                            ELSE Table[x]]
<1>1. ASSUME NEW gone \in {{}} \cup {{x} : x \in DOMAIN Table \cup {k}},
             gone # {} => Cardinality(DOMAIN Table \cup {k}) > Capacity,
             Cardinality(kept(gone)) <= Capacity,
             Table' = stored(gone)
      PROVE  Abstract!Store(k, v)
  <2>1. UNCHANGED <<now, reply>>
    BY DEF Set, Overwrite, Insert
  <2>2. \E forgotten \in {{}} \cup {{x} : x \in DOMAIN Table \cup {k}} :
          /\ forgotten # {} => Cardinality(DOMAIN Table \cup {k}) > Capacity
          /\ Cardinality(kept(forgotten)) <= Capacity
          /\ Table' = stored(forgotten)
    BY <1>1
  <2>3. QED
    BY <2>1, <2>2, SameCardinality DEF Abstract!Store, Table
<1>2. DOMAIN Table = DOMAIN items
  BY DEF Table
<1>3. Len(order) \in Nat /\ Len(order) <= Capacity /\ Len(order') <= Capacity
      /\ Capacity \in Nat
  BY LRUCacheAssumption DEF Shape
<1>4. /\ IsFiniteSet(DOMAIN items) /\ Cardinality(DOMAIN items) = Len(order)
      /\ IsFiniteSet(DOMAIN items') /\ Cardinality(DOMAIN items') = Len(order')
  <2>1. (Shape => /\ IsFiniteSet(DOMAIN items)
                  /\ Cardinality(DOMAIN items) = Len(order))'
    BY KeysCounted, PTL
  <2>2. QED
    BY <2>1, KeysCounted
<1>5. Written(k, v).value = v /\ Written(k, v).expiresAt - TTL = now
  BY LRUCacheAssumption DEF Written, TypeOK
<1>6. ASSUME NEW gone, DOMAIN items' = kept(gone)
      PROVE  Table' = stored(gone)
  BY <1>2, <1>5, <1>6, SetWrites DEF Table
<1> HIDE DEF stored
<1>7. CASE Overwrite(k, v)
  <2>1. DOMAIN items' = kept({})
    BY <1>2, <1>7 DEF Overwrite
  <2>2. Cardinality(kept({})) <= Capacity
    BY <1>3, <1>4, <2>1
  <2>3. QED
    BY <1>1, <1>6, <2>1, <2>2
<1>8. CASE Insert(k, v)
  <2>1. /\ k \notin DOMAIN items
        /\ IF OverCapacity(Len(Pushed))
           THEN items' = Without(Mapped(k), Stored(k, v)[Last(Pushed)].key)
           ELSE items' = Mapped(k)
    BY <1>8 DEF Insert, Pushed, Stored, Mapped
  <2>2. Cardinality(DOMAIN items \cup {k}) = Len(Pushed)
    <3>1. Cardinality(DOMAIN items \cup {k}) = Len(order) + 1
      BY <1>4, <2>1, FS_AddElement
    <3>2. QED
      BY <2>1, <3>1, PushedFacts
  <2>3. DOMAIN Mapped(k) = DOMAIN items \cup {k}
    BY DEF Mapped
  <2>4. CASE ~OverCapacity(Len(Pushed))
    <3>1. DOMAIN items' = kept({})
      BY <1>2, <2>1, <2>3, <2>4
    <3>2. Cardinality(kept({})) <= Capacity
      BY <1>3, <1>4, <3>1
    <3>3. QED
      BY <1>1, <1>6, <3>1, <3>2
  <2>5. CASE OverCapacity(Len(Pushed))
    <3> DEFINE gone == Stored(k, v)[Last(Pushed)].key
    <3>1. gone \in DOMAIN items \cup {k}
      <4>1. Pushed # <<>> /\ Pushed \in Seq(Elem) /\ NoRepeats(Pushed)
        <5>1. Len(Pushed) = Len(order) + 1 /\ Pushed \in Seq(Elem) /\ NoRepeats(Pushed)
          BY <2>1, PushedFacts
        <5>2. QED
          BY <1>3, <5>1
      <4>2. Last(Pushed) \in ToSet(Pushed)
        BY <4>1, FrontFacts
      <4>3. QED
        BY <2>1, <4>2, PushedFacts
    <3>2. DOMAIN items' = kept({gone})
      BY <1>2, <2>1, <2>3, <2>5 DEF Without
    <3>3. Cardinality(kept({gone})) <= Capacity
      BY <1>3, <1>4, <3>2
    <3>4. Cardinality(DOMAIN Table \cup {k}) > Capacity
      BY <1>2, <2>2, <2>5 DEF OverCapacity
    <3>5. {gone} \in {{}} \cup {{x} : x \in DOMAIN Table \cup {k}}
      BY <1>2, <3>1
    <3>6. Table' = stored({gone})
      BY <1>6, <3>2
    <3> HIDE DEF gone
    <3>7. QED
      BY <1>1, <3>3, <3>4, <3>5, <3>6
  <2>6. QED
    BY <2>4, <2>5
<1>9. QED
  BY <1>7, <1>8 DEF Set

LEMMA InitRefines == Init => Abstract!Init
  BY DEF Init, Abstract!Init

LEMMA NextRefines ==
  IInv /\ IInv' /\ [Next]_vars => [Abstract!Next]_(Abstract!vars)
<1> SUFFICES ASSUME IInv, IInv', [Next]_vars
             PROVE  Abstract!Next \/ UNCHANGED Abstract!vars
  OBVIOUS
<1> USE DEF IInv
<1>1. ASSUME NEW k \in Key, Get(k) PROVE Abstract!Next
  BY <1>1, GetRefines DEF Abstract!Next
<1>2. ASSUME NEW k \in Key, NEW v \in Value, Set(k, v) PROVE Abstract!Next
  BY <1>2, SetRefines DEF Abstract!Next
<1>3. CASE Tick
  <2>1. now' > now
    BY <1>3 DEF Tick, TypeOK
  <2>2. UNCHANGED <<items, heap, reply>>
    BY <1>3 DEF Tick, cacheVars
  <2>3. QED
    BY <2>1, <2>2 DEF Abstract!Tick, Abstract!Next
<1>4. CASE UNCHANGED vars
  BY <1>4 DEF vars, cacheVars, Abstract!vars
<1>5. QED
  BY <1>1, <1>2, <1>3, <1>4 DEF Next

(* What the cache does, a MemoTable does: it never holds more than         *)
(* Capacity keys, answers only with the value last stored and only while   *)
(* it is fresh, and forgets a fresh value only to make room, one at a      *)
(* time.  lru.go does this with a list, a map and an eviction that looks   *)
(* the key up in the element it removes.                                   *)
THEOREM SpecRefinement == Spec => Refinement
  BY InitIntact, NextIntact, InitRefines, NextRefines, PTL
     DEF Spec, Refinement, Abstract!Spec

-----------------------------------------------------------------------------
(* The configuration. *)

(* Nothing changes the configuration once it is loaded: there is no reload *)
(* in the program, and no second file.                                     *)
ConfigIsTheFile ==
  /\ file \in Files
  /\ phase = "serving" =>
       config = ApplyDefaults(file) /\ Loads(file) /\ clients = Clients(config)

(* In a valid configuration the links lead to the profiles. *)
LEMMA LoadedResolves ==
  ASSUME NEW f \in Files, Loads(f), NEW i \in DOMAIN ApplyDefaults(f).profiles
  PROVE  LET conf == ApplyDefaults(f)
             link == ListProfiles(conf).profiles[i].slug
             p    == ProfileAt(conf, link)
         IN  /\ link # ""
             /\ p = conf.profiles[i]
             /\ Clients(conf)[p.name] = f.profiles[i].url
<1> DEFINE conf == ApplyDefaults(f)
           ps   == conf.profiles
           link == EffectiveSlug(ps[i])
<1>1. f.profiles \in Seq([name : STRING, slug : STRING,
                          url : STRING, template : STRING])
  BY UnhousedAssumption
<1>2. DOMAIN ps = 1 .. Len(f.profiles) /\ Len(f.profiles) \in Nat
  BY <1>1 DEF ApplyDefaults
<1>3. ASSUME NEW j \in DOMAIN ps
      PROVE  /\ ps[j].name = f.profiles[j].name
             /\ ps[j].url = f.profiles[j].url
             /\ ps[j].slug = EffectiveSlug(f.profiles[j])
  <2> DEFINE q == f.profiles[j]
  <2>1. q \in [name : STRING, slug : STRING, url : STRING, template : STRING]
    <3>1. j \in 1 .. Len(f.profiles)
      BY <1>2
    <3> DEFINE P == [name : STRING, slug : STRING, url : STRING, template : STRING]
    <3>2. f.profiles \in Seq(P)
      BY <1>1
    <3> HIDE DEF P
    <3>3. q \in P
      BY <3>1, <3>2
    <3>4. QED
      BY <3>3 DEF P
  <2>2. ps[j] = [q EXCEPT
                   !.template = IF @ = "" THEN DefaultNodeHostnameTemplate ELSE @,
                   !.slug = EffectiveSlug(q)]
    BY DEF ApplyDefaults
  <2> HIDE DEF q, ps
  <2>3. QED
    BY <2>1, <2>2 DEF q
<1>0. i \in DOMAIN ps
  OBVIOUS
<1> HIDE DEF conf
<1>4. ASSUME NEW j \in DOMAIN ps, NEW m \in DOMAIN ps, j # m
      PROVE  /\ ps[j].name # ps[m].name
             /\ EffectiveSlug(ps[j]) # EffectiveSlug(ps[m])
  <2>1. \A n \in DOMAIN ps : \A l \in 1 .. (n - 1) :
          /\ ps[l].name # ps[n].name
          /\ EffectiveSlug(ps[l]) # EffectiveSlug(ps[n])
    BY DEF Loads, Valid, conf
  <2>2. j \in 1 .. (m - 1) \/ m \in 1 .. (j - 1)
    BY <1>2, <1>4
  <2>3. QED
    BY <2>1, <2>2
<1>5. link # ""
  BY <1>3 DEF Loads, Valid, conf, EffectiveSlug
<1>6. ProfileAt(conf, link) = ps[i]
  <2>1. ProfilesAt(conf, link) = {i}
    BY <1>0, <1>4 DEF ProfilesAt
  <2>2. (CHOOSE j \in {i} : \A m \in {i} : j <= m) = i
    BY <1>2
  <2>3. QED
    BY <2>1, <2>2 DEF ProfileAt
<1>7. Clients(conf)[ps[i].name] = f.profiles[i].url
  <2>1. {j \in DOMAIN ps : ps[j].name = ps[i].name} = {i}
    BY <1>0, <1>4
  <2>2. Max({i}) = i
    BY <1>2 DEF Max
  <2>3. ps[i].name \in NamesOf(conf)
    BY <1>0 DEF NamesOf
  <2>4. QED
    BY <1>3, <2>1, <2>2, <2>3 DEF Clients
<1>8. ListProfiles(conf).profiles[i].slug = link
  BY <1>0 DEF ListProfiles
<1>9. QED
  BY <1>5, <1>6, <1>7, <1>8 DEF conf

LEMMA ConfigStays == ConfigIsTheFile /\ [UNext]_allVars => ConfigIsTheFile'
<1> SUFFICES ASSUME ConfigIsTheFile, [UNext]_allVars PROVE ConfigIsTheFile'
  OBVIOUS
<1> USE DEF ConfigIsTheFile
<1>1. CASE Serve
  BY <1>1 DEF Serve
<1>2. CASE Exit
  BY <1>2 DEF Exit
<1>3. ASSUME NEW c \in Caller, Request(c) PROVE ConfigIsTheFile'
  BY <1>3 DEF Request, ListAndAsk, Done, mainVars
<1>4. CASE TimePasses
  BY <1>4 DEF TimePasses, mainVars
<1>5. CASE RestartDemo
  BY <1>5 DEF RestartDemo, mainVars
<1>6. CASE UNCHANGED allVars
  BY <1>6 DEF allVars, mainVars
<1>7. QED
  BY <1>1, <1>2, <1>3, <1>4, <1>5, <1>6 DEF UNext

(* Whatever the file, as long as unhoused starts with it: every profile's  *)
(* link is an address of its own and leads to that profile and to the      *)
(* Nomad of its URL.                                                       *)
THEOREM SpecSlugsResolve == USpec => []SlugsResolve
<1>1. UInit => ConfigIsTheFile
  BY DEF UInit, ConfigIsTheFile
<1>2. ConfigIsTheFile => SlugsResolve
  <2> SUFFICES ASSUME ConfigIsTheFile, phase = "serving",
                      NEW i \in DOMAIN config.profiles
               PROVE  LET link == ListProfiles(config).profiles[i].slug
                          p    == ProfileAt(config, link)
                      IN  /\ link # ""
                          /\ p = config.profiles[i]
                          /\ clients[p.name] = file.profiles[i].url
    BY DEF SlugsResolve
  <2>1. /\ file \in Files /\ Loads(file) /\ config = ApplyDefaults(file)
        /\ clients = Clients(ApplyDefaults(file))
    BY DEF ConfigIsTheFile
  <2>2. QED
    BY <2>1, LoadedResolves
<1>3. QED
  BY <1>1, <1>2, ConfigStays, PTL DEF USpec

-----------------------------------------------------------------------------
(* The demo server's allocations. *)

(* The place of an allocation in its job, from its ID alone. *)
PlaceOf(id) ==
  CASE id[1] = "web-frontend"    -> 0 + id[4]
    [] id[1] = "api-gateway"     -> (IF id[3] = 5 THEN 8 ELSE 13) + id[4]
    [] id[1] = "cron-scheduler"  -> 6 + id[4]
    [] id[1] = "legacy-checkout" -> 7 + id[4]
    [] id[1] = "payments-api"    -> (IF id[2] = "api" THEN 0 ELSE 6) + id[3]

(* An allocation is on the node of its place, and so are its ports, which  *)
(* are its own.                                                            *)
OnItsNode(a) ==
  /\ a.node = NodeAt(a.place)
  /\ \A i \in DOMAIN a.ports :
       a.ports[i].of = a.id /\ a.ports[i].host = a.node

LEMMA AllocFacts ==
  ASSUME NEW id, NEW group, NEW version, NEW place, NEW client, NEW desired,
         NEW labels
  PROVE  LET a == Alloc(id, group, version, place, client, desired, labels)
         IN  OnItsNode(a) /\ a.id = id /\ a.place = place
  BY DEF Alloc, OnItsNode

LEMMA StableFacts ==
  ASSUME NEW job, NEW group, NEW version, NEW count, NEW offset \in Int,
         NEW client, NEW desired, NEW labels,
         NEW a \in StableAllocs(job, group, version, count, offset, client,
                                desired, labels)
  PROVE  /\ OnItsNode(a)
         /\ \E i \in Int : a.id = <<job, group, version, i>> /\ a.place = offset + i
<1>1. PICK i \in 0 .. (count - 1) :
        a = Alloc(<<job, group, version, i>>, group, version, offset + i,
                  client, desired, labels)
  BY DEF StableAllocs
<1>2. QED
  BY <1>1, AllocFacts

(* The replicas of groups: of none, and of one. *)
Replicas(groups) ==
  FoldLeft(LAMBDA sum, group : sum + group.replicas, 0, groups)

LEMMA FoldEmpty == Replicas(<<>>) = 0
<1> DEFINE Step(it) == [s \in SUBSET DOMAIN <<>> |-> IF s = {} THEN 0 ELSE it[s \ {Max(s)}] + <<>>[Max(s)].replicas]
<1>1. \E it : it = Step(it)
  <2> WITNESS [s \in SUBSET DOMAIN <<>> |-> 0]
  <2>1. QED
    OBVIOUS
<1> DEFINE c == CHOOSE it : it = Step(it)
<1>2. c = Step(c)
  BY <1>1
<1>3. c[{}] = 0
  <2>1. {} \in SUBSET DOMAIN <<>>
    OBVIOUS
  <2> HIDE DEF c
  <2>2. QED
    BY <1>2, <2>1
<1>4. c[DOMAIN <<>>] = 0
  <2>1. DOMAIN <<>> = {}
    OBVIOUS
  <2> HIDE DEF c
  <2>2. QED
    BY <1>3, <2>1
<1>5. Replicas(<<>>) = c[DOMAIN <<>>]
  BY DEF Replicas, FoldLeft, MapThenFoldSet
<1>6. QED
  BY <1>4, <1>5
LEMMA FoldOne ==
  ASSUME NEW g, g.replicas \in Int
  PROVE  Replicas(<<g>>) = g.replicas
<1> DEFINE Step(it) == [s \in SUBSET DOMAIN <<g>> |-> IF s = {} THEN 0 ELSE it[s \ {Max(s)}] + <<g>>[Max(s)].replicas]
           w == [s \in SUBSET DOMAIN <<g>> |-> IF s = {} THEN 0 ELSE g.replicas]
<1>0. DOMAIN <<g>> = {1} /\ <<g>>[1] = g /\ Max({1}) = 1
  BY DEF Max
<1>1. \E it : it = Step(it)
  <2>1. ASSUME NEW s \in SUBSET DOMAIN <<g>> PROVE w[s] = IF s = {} THEN 0 ELSE w[s \ {Max(s)}] + <<g>>[Max(s)].replicas
    <3>1. s = {} \/ s = {1}
      BY <1>0
    <3>2. CASE s = {}
      BY <3>2
    <3>3. CASE s = {1}
      <4>1. s \ {Max(s)} = {} /\ {} \in SUBSET DOMAIN <<g>> /\ <<g>>[Max(s)] = g
        BY <1>0, <3>3
      <4>2. w[{}] = 0 /\ w[s] = g.replicas
        BY <4>1, <3>3
      <4>3. w[s \ {Max(s)}] = 0
        BY ONLY <4>1, <4>2
      <4> HIDE DEF w
      <4>4. QED
        BY <3>3, <4>1, <4>2, <4>3
    <3>4. QED
      BY <3>1, <3>2, <3>3
  <2>2. w = Step(w)
    BY <2>1
  <2>3. QED
    BY <2>2
<1> DEFINE c == CHOOSE it : it = Step(it)
<1>2. c = Step(c)
  BY <1>1
<1>3. c[DOMAIN <<g>>] = g.replicas
  <2>1. {} \in SUBSET DOMAIN <<g>> /\ DOMAIN <<g>> \in SUBSET DOMAIN <<g>> /\ {1} # {} /\ {1} \ {1} = {}
    OBVIOUS
  <2> HIDE DEF c
  <2>2. c[{}] = 0
    BY <1>2, <2>1
  <2>3. c[{1}] = c[{1} \ {Max({1})}] + <<g>>[Max({1})].replicas
    BY <1>2, <2>1, <1>0
  <2>4. QED
    BY <2>2, <2>3, <2>1, <1>0
<1>5. Replicas(<<g>>) = c[DOMAIN <<g>>]
  BY DEF Replicas, FoldLeft, MapThenFoldSet
<1>6. QED
  BY <1>3, <1>5

(* How many nodes the groups of payments-api use before each. *)
LEMMA PaymentsOffsets ==
  NodeOffset(PaymentsApi, 1) = 0 /\ NodeOffset(PaymentsApi, 2) = 6
<1> DEFINE api == [name |-> "api", replicas |-> 6, labels |-> <<"http">>]
           gs  == PaymentsApi.groups
<1>1. SubSeq(gs, 1, 1 - 1) = <<>> /\ SubSeq(gs, 1, 2 - 1) = <<api>>
  <2>1. Len(gs) = 2 /\ gs[1] = api
    BY DEF PaymentsApi
  <2>2. gs \in Seq({gs[1], gs[2]})
    BY DEF PaymentsApi
  <2> DEFINE S == {gs[1], gs[2]}
  <2> HIDE DEF gs
  <2>3. /\ SubSeq(gs, 1, 1) \in Seq(S) /\ Len(SubSeq(gs, 1, 1)) = 1
        /\ SubSeq(gs, 1, 1)[1] = gs[1]
    BY <2>1, <2>2
  <2>4. SubSeq(gs, 1, 1) = <<gs[1]>>
    <3>1. \A u \in Seq(S) : Len(u) = 1 => u = <<u[1]>>
      OBVIOUS
    <3>2. QED
      BY ONLY <2>3, <3>1
  <2>5. SubSeq(gs, 1, 0) = <<>>
    BY <2>1, <2>2
  <2>6. QED
    BY <2>1, <2>4, <2>5
<1>2. api.replicas = 6
  OBVIOUS
<1> HIDE DEF api
<1>3. Replicas(<<api>>) = 6
  BY <1>2, FoldOne
<1>4. \A g : NodeOffset(PaymentsApi, g) = Replicas(SubSeq(gs, 1, g - 1))
  BY DEF NodeOffset, Replicas
<1> HIDE DEF gs
<1>5. QED
  BY <1>1, <1>3, <1>4, FoldEmpty

(* The rolled out job has two groups, and its slots three phases. *)
LEMMA PaymentsGroups ==
  /\ PaymentsApi.id = "payments-api"
  /\ DOMAIN PaymentsApi.groups = {1, 2}
  /\ PaymentsApi.groups[1].name = "api" /\ PaymentsApi.groups[1].replicas = 6
  /\ PaymentsApi.groups[2].name = "worker" /\ PaymentsApi.groups[2].replicas = 3
  BY DEF PaymentsApi

LEMMA ThreePhases ==
  ASSUME NEW group, NEW slot, NEW elapsed
  PROVE  PhaseAt(group, slot, elapsed) \in {"notStarted", "replacing", "replaced"}
  BY DEF PhaseAt, SlotPhase

LEMMA DeployFacts ==
  ASSUME NEW t, NEW a \in DeployAllocations(PaymentsApi, t)
  PROVE  /\ OnItsNode(a)
         /\ \E g \in {1, 2} : \E v : \E s \in Int :
              /\ a.id = <<"payments-api", PaymentsApi.groups[g].name, s, v>>
              /\ a.place = NodeOffset(PaymentsApi, g) + s
<1>1. PICK g \in {1, 2} : \E s \in Slots(PaymentsApi.groups[g]) :
        a \in SlotAllocations(PaymentsApi, PaymentsApi.groups[g],
                              NodeOffset(PaymentsApi, g), s, t)
  BY PaymentsGroups DEF DeployAllocations
<1> DEFINE group == PaymentsApi.groups[g]
<1>2. PICK s \in Slots(group) :
        a \in SlotAllocations(PaymentsApi, group, NodeOffset(PaymentsApi, g), s, t)
  BY <1>1
<1>3. \E v, client, desired :
        a = Alloc(<<"payments-api", group.name, s, v>>, group.name, v,
                  NodeOffset(PaymentsApi, g) + s, client, desired, group.labels)
  BY <1>2, ThreePhases, PaymentsGroups, SMTT(30) DEF SlotAllocations
<1>4. s \in Int
  BY PaymentsGroups DEF Slots
<1> HIDE DEF group
<1>5. PICK v, client, desired :
        a = Alloc(<<"payments-api", group.name, s, v>>, group.name, v,
                  NodeOffset(PaymentsApi, g) + s, client, desired, group.labels)
  BY <1>3
<1>6. /\ OnItsNode(a)
      /\ a.id = <<"payments-api", group.name, s, v>>
      /\ a.place = NodeOffset(PaymentsApi, g) + s
  BY <1>5, AllocFacts
<1>7. group.name = PaymentsApi.groups[g].name
  BY DEF group
<1>8. QED
  BY <1>4, <1>6, <1>7

LEMMA JobsAre ==
  ASSUME NEW t
  PROVE  ToSet(Jobs(t)) = {WebFrontend, ApiGateway, BatchWorker, CronScheduler,
                           LegacyCheckout, DeployingJob(PaymentsApi, t)}
<1>1. DOMAIN Jobs(t) = 1 .. 6
  BY DEF Jobs
<1>2. QED
  BY <1>1 DEF Jobs, ToSet

(* An allocation's ID says of which job it is and, except for the two of   *)
(* batch-worker that share one, where it is.                               *)
LEMMA AllocationsOwnTheirIDs ==
  ASSUME NEW t, NEW job \in ToSet(Jobs(t)), NEW a \in job.allocs
  PROVE  /\ OnItsNode(a)
         /\ a.id[1] = job.id
         /\ job.id # "batch-worker" => a.place = PlaceOf(a.id) /\ a.place \in Int
<1>1. CASE job = WebFrontend
  <2>1. job.id = "web-frontend"
        /\ a \in StableAllocs("web-frontend", "web", 3, 8, 0, "running", "run",
                              <<"http", "https">>)
    BY <1>1 DEF WebFrontend, StaticJob
  <2>2. OnItsNode(a)
    BY <2>1, StableFacts
  <2>3. PICK i \in Int : a.id[1] = "web-frontend" /\ a.id[4] = i /\ a.place = 0 + i
    BY <2>1, StableFacts
  <2>4. a.place = PlaceOf(a.id)
    BY <2>3 DEF PlaceOf
  <2>5. QED
    BY <2>1, <2>2, <2>3, <2>4
<1>2. CASE job = ApiGateway
  <2>1. job.id = "api-gateway"
        /\ \/ a \in StableAllocs("api-gateway", "api", 5, 5, 8, "running", "run", <<"http">>)
           \/ a \in StableAllocs("api-gateway", "api", 4, 1, 13, "running", "run", <<"http">>)
    BY <1>2 DEF ApiGateway, StaticJob
  <2>2. ASSUME NEW version, NEW offset \in Int, NEW count,
               a \in StableAllocs("api-gateway", "api", version, count, offset,
                                  "running", "run", <<"http">>)
        PROVE  /\ OnItsNode(a)
               /\ \E i \in Int : /\ a.id[1] = "api-gateway" /\ a.id[3] = version
                                 /\ a.id[4] = i /\ a.place = offset + i
    BY <2>2, StableFacts
  <2>3. OnItsNode(a)
    BY <2>1, <2>2
  <2>4. PICK i \in Int :
          /\ a.id[1] = "api-gateway" /\ a.id[4] = i
          /\ \/ a.id[3] = 5 /\ a.place = 8 + i
             \/ a.id[3] = 4 /\ a.place = 13 + i
    <3>1. CASE a \in StableAllocs("api-gateway", "api", 5, 5, 8, "running", "run", <<"http">>)
      BY <3>1, <2>2
    <3>2. CASE a \in StableAllocs("api-gateway", "api", 4, 1, 13, "running", "run", <<"http">>)
      BY <3>2, <2>2
    <3>3. QED
      BY <2>1, <3>1, <3>2
  <2>5. a.place = PlaceOf(a.id)
    BY <2>4 DEF PlaceOf
  <2>6. QED
    BY <2>1, <2>3, <2>4, <2>5
<1>3. CASE job = BatchWorker
  <2>1. job.id = "batch-worker"
        /\ \/ a \in StableAllocs("batch-worker", "worker", 7, 3, 2, "running", "run", <<>>)
           \/ a \in StableAllocs("batch-worker", "worker", 7, 1, 5, "failed", "stop", <<>>)
    BY <1>3 DEF BatchWorker, StaticJob
  <2>2. QED
    BY <2>1, StableFacts
<1>4. CASE job = CronScheduler
  <2>1. job.id = "cron-scheduler"
        /\ a \in StableAllocs("cron-scheduler", "cron", 1, 1, 6, "running", "run", <<>>)
    BY <1>4 DEF CronScheduler, StaticJob
  <2>2. OnItsNode(a)
    BY <2>1, StableFacts
  <2>3. PICK i \in Int : a.id[1] = "cron-scheduler" /\ a.id[4] = i /\ a.place = 6 + i
    BY <2>1, StableFacts
  <2>4. a.place = PlaceOf(a.id)
    BY <2>3 DEF PlaceOf
  <2>5. QED
    BY <2>1, <2>2, <2>3, <2>4
<1>5. CASE job = LegacyCheckout
  <2>1. job.id = "legacy-checkout"
        /\ a \in StableAllocs("legacy-checkout", "checkout", 11, 2, 7, "complete", "stop", <<>>)
    BY <1>5 DEF LegacyCheckout, StaticJob
  <2>2. OnItsNode(a)
    BY <2>1, StableFacts
  <2>3. PICK i \in Int :
          a.id = <<"legacy-checkout", "checkout", 11, i>> /\ a.place = 7 + i
    BY <2>1, StableFacts
  <2>4. a.place = PlaceOf(a.id)
    BY <2>3 DEF PlaceOf
  <2>5. QED
    BY <2>1, <2>2, <2>3, <2>4
<1>6. CASE job = DeployingJob(PaymentsApi, t)
  <2>1. job.id = "payments-api" /\ a \in DeployAllocations(PaymentsApi, t)
    BY <1>6, PaymentsGroups DEF DeployingJob
  <2>2. OnItsNode(a)
    BY <2>1, DeployFacts
  <2>3. PICK g \in {1, 2} : \E v : \E s \in Int :
          /\ a.id = <<"payments-api", PaymentsApi.groups[g].name, s, v>>
          /\ a.place = NodeOffset(PaymentsApi, g) + s
    BY <2>1, DeployFacts
  <2>4. PICK v, s :
          /\ s \in Int
          /\ a.id = <<"payments-api", PaymentsApi.groups[g].name, s, v>>
          /\ a.place = NodeOffset(PaymentsApi, g) + s
    BY <2>3
  <2>5. a.id[1] = "payments-api" /\ a.id[2] = PaymentsApi.groups[g].name /\ a.id[3] = s
    BY <2>4
  <2>6. a.place = PlaceOf(a.id) /\ a.place \in Int
    BY <2>4, <2>5, PaymentsGroups, PaymentsOffsets DEF PlaceOf
  <2>7. QED
    BY <2>1, <2>2, <2>5, <2>6
<1>7. QED
  BY <1>1, <1>2, <1>3, <1>4, <1>5, <1>6, JobsAre

(* A job that is asked for is one that the server has at any time.         *)
LEMMA WatchedJobs ==
  ASSUME NEW w \in Watched, NEW t
  PROVE  JobNamed(w[1], t) \in ToSet(Jobs(t)) /\ JobNamed(w[1], t).id = w[1]
<1>1. PICK job \in ToSet(Jobs(Epoch)) : job.id = w[1]
  BY UnhousedAssumption
<1>2. DeployingJob(PaymentsApi, Epoch).id = DeployingJob(PaymentsApi, t).id
  BY DEF DeployingJob
<1>3. \E other \in ToSet(Jobs(t)) : other.id = w[1]
  BY <1>1, <1>2, JobsAre
<1>4. QED
  BY <1>3 DEF JobNamed

-----------------------------------------------------------------------------
(* The callers and the cache. *)

CallerTypes ==
  /\ Shape
  /\ clock \in Nat /\ clock >= Epoch
  /\ pc \in [Caller -> {"idle", "asking", "fetching", "storing", "answered"}]
  /\ asked = [c \in Caller |-> asked[c]]
  /\ fetched = [c \in Caller |-> fetched[c]]
  /\ answer = [c \in Caller |-> answer[c]]
  /\ listed = [c \in Caller |-> listed[c]]
  /\ moved \in [Caller -> BOOLEAN]

(* The steps that are not a call's, or leave it all as it is.              *)
Elsewhere ==
  /\ UNCHANGED <<vars, portsVars, listed>>
  /\ \/ UNCHANGED <<clock, moved>>
     \/ TimePasses
     \/ RestartDemo

(* A step is one of a call's, or happens elsewhere. *)
LEMMA Steps ==
  ASSUME [UNext]_allVars
  PROVE  \/ Elsewhere
         \/ \E c \in Caller :
              \/ ListAndAsk(c)
              \/ /\ Lookup(c) \/ Served(c) \/ Store(c)
                 /\ UNCHANGED <<clock, listed, moved>>
              \/ /\ Done(c)
                 /\ listed' = [listed EXCEPT ![c] = None]
                 /\ moved' = [moved EXCEPT ![c] = FALSE]
                 /\ UNCHANGED clock
<1>1. CASE Serve \/ Exit \/ UNCHANGED allVars
  BY <1>1 DEF Serve, Exit, allVars, demoVars, Elsewhere
<1>2. CASE TimePasses \/ RestartDemo
  BY <1>2 DEF TimePasses, RestartDemo, Elsewhere
<1>3. ASSUME NEW c \in Caller, Request(c)
      PROVE  \/ ListAndAsk(c)
             \/ /\ Lookup(c) \/ Served(c) \/ Store(c)
                /\ UNCHANGED <<clock, listed, moved>>
             \/ /\ Done(c)
                /\ listed' = [listed EXCEPT ![c] = None]
                /\ moved' = [moved EXCEPT ![c] = FALSE]
                /\ UNCHANGED clock
  BY <1>3 DEF Request, demoVars
<1>4. QED
  BY <1>1, <1>2, <1>3 DEF UNext

(* The cache, between calls, keeps its shape: InitIntact and NextIntact.    *)
LEMMA SameShape == UNCHANGED vars /\ Shape => Shape'
  BY ShapeStays DEF vars, cacheVars

LEMMA CallerTypesInit == UInit => CallerTypes
<1> SUFFICES ASSUME UInit PROVE CallerTypes
  OBVIOUS
<1>1. Init
  BY DEF UInit, PInit
<1>2. Shape
  BY <1>1, InitIntact DEF IInv
<1>3. QED
  BY <1>2, NomadDemoAssumption DEF UInit, PInit, CallerTypes

LEMMA CallerTypesStay == CallerTypes /\ [UNext]_allVars => CallerTypes'
<1> SUFFICES ASSUME CallerTypes, [UNext]_allVars PROVE CallerTypes'
  OBVIOUS
<1> USE DEF CallerTypes
<1>1. CASE Elsewhere
  <2>1. Shape'
    BY <1>1, SameShape DEF Elsewhere
  <2>2. clock' \in Nat /\ clock' >= Epoch
    BY <1>1, UnhousedAssumption, NomadDemoAssumption
       DEF Elsewhere, TimePasses, RestartDemo
  <2>3. moved' \in [Caller -> BOOLEAN]
    BY <1>1, Zenon DEF Elsewhere, TimePasses, RestartDemo
  <2>4. QED
    BY <1>1, <2>1, <2>2, <2>3 DEF Elsewhere, portsVars
<1>2. ASSUME NEW c \in Caller, ListAndAsk(c) PROVE CallerTypes'
  <2>1. PICK id : Ask(c, id)
    BY <1>2 DEF ListAndAsk
  <2>2. Shape'
    BY <2>1, SameShape DEF Ask
  <2>3. /\ UNCHANGED clock
        /\ listed' = [x \in Caller |-> listed'[x]]
        /\ moved' \in [Caller -> BOOLEAN]
    BY <1>2 DEF ListAndAsk
  <2>4. QED
    BY <2>1, <2>2, <2>3 DEF Ask
<1>3. ASSUME NEW c \in Caller, Lookup(c), UNCHANGED <<clock, listed, moved>>
      PROVE  CallerTypes'
  <2>1. Shape'
    BY <1>3, GetKeepsShape DEF Lookup
  <2>2. QED
    BY <1>3, <2>1 DEF Lookup
<1>4. ASSUME NEW c \in Caller, Served(c), UNCHANGED <<clock, listed, moved>>
      PROVE  CallerTypes'
  <2>1. (\E info : Fetched(c, info)) \/ (\E error : FetchFailed(c, error))
    BY <1>4 DEF Served
  <2>2. Shape'
    BY <2>1, SameShape DEF Fetched, FetchFailed
  <2>3. QED
    BY <1>4, <2>1, <2>2 DEF Fetched, FetchFailed
<1>5. ASSUME NEW c \in Caller, Store(c), UNCHANGED <<clock, listed, moved>>
      PROVE  CallerTypes'
  <2>1. Shape'
    BY <1>5, SetKeepsShape DEF Store
  <2>2. QED
    BY <1>5, <2>1 DEF Store
<1>6. ASSUME NEW c \in Caller, Done(c), UNCHANGED clock,
             listed' = [listed EXCEPT ![c] = None],
             moved' = [moved EXCEPT ![c] = FALSE]
      PROVE  CallerTypes'
  <2>1. Shape'
    BY <1>6, SameShape DEF Done
  <2>2. QED
    BY <1>6, <2>1 DEF Done
<1>7. QED
  BY <1>1, <1>2, <1>3, <1>4, <1>5, <1>6, Steps

-----------------------------------------------------------------------------
(* The ports answered are the allocation's own. *)

(* These are the ports of the allocation with this ID.                     *)
OwnPorts(id, v) ==
  /\ v.nodeIP = NodeAt(PlaceOf(id))
  /\ \A i \in DOMAIN v.ports :
       v.ports[i].of = id /\ v.ports[i].host = NodeAt(PlaceOf(id))

(* The caller c knows the node of the allocation it has asked for.         *)
AsksForListed(c) ==
  /\ asked[c] = listed[c].id /\ asked[c][1] # "batch-worker"
  /\ listed[c].node = NodeAt(PlaceOf(asked[c]))

(* Wherever ports are kept, they are those of the allocation they are kept *)
(* for: in the cache, between a caller's fetch and its store, and in its   *)
(* answer.  The place of an allocation, and so its ports, follow from its  *)
(* ID, which is why neither time nor a restart can make an entry wrong.    *)
PortsKept ==
  /\ \A k \in DOMAIN items : OwnPorts(k, heap[items[k]].value)
  /\ \A c \in Caller :
       /\ pc[c] # "idle" => AsksForListed(c)
       /\ pc[c] = "storing" => OwnPorts(asked[c], fetched[c])
       /\ answer[c].status = "ok" =>
            pc[c] = "answered" /\ OwnPorts(asked[c], answer[c])

(* What the demo server finds under an ID has the ports of that ID.        *)
LEMMA FoundPorts ==
  ASSUME NEW id, id[1] # "batch-worker", NEW t, WithId(id, t) # {}
  PROVE  OwnPorts(id, PortsOf(AllocationInfo(WithId(id, t))))
<1> DEFINE found == WithId(id, t)
           first == CHOOSE a \in found : \A b \in found : a.place <= b.place
<1>1. \A a \in found : /\ OnItsNode(a) /\ a.id = id
                       /\ a.place = PlaceOf(id) /\ a.place \in Int
  <2> SUFFICES ASSUME NEW a \in found
               PROVE  /\ OnItsNode(a) /\ a.id = id
                      /\ a.place = PlaceOf(id) /\ a.place \in Int
    OBVIOUS
  <2>1. a.id = id /\ \E job \in ToSet(Jobs(t)) : a \in job.allocs
    BY DEF WithId, AllAllocations
  <2>2. QED
    BY <2>1, AllocationsOwnTheirIDs
<1>2. \E a \in found : \A b \in found : a.place <= b.place
  BY <1>1
<1>3. first \in found
  BY <1>2
<1>4. AllocationInfo(found) = [networks |-> <<first.node>>, ports |-> first.ports]
  BY DEF AllocationInfo
<1> HIDE DEF first
<1>5. PortsOf(AllocationInfo(found)) = [ports |-> first.ports, nodeIP |-> first.node]
  BY <1>4 DEF PortsOf, NodeIPFromAllocation
<1>6. first.id = id /\ first.node = NodeAt(PlaceOf(id)) /\ OnItsNode(first)
  BY <1>1, <1>3 DEF OnItsNode
<1>7. QED
  BY <1>5, <1>6 DEF OwnPorts, OnItsNode

LEMMA PortsStay ==
  ASSUME \A w \in Watched : w[1] # "batch-worker",
         CallerTypes, PortsKept, [UNext]_allVars
  PROVE  PortsKept'
<1> USE DEF CallerTypes
<1>1. CASE Elsewhere
  BY <1>1 DEF Elsewhere, vars, cacheVars, portsVars, PortsKept, AsksForListed
<1>2. ASSUME NEW c \in Caller, ListAndAsk(c) PROVE PortsKept'
  <2> DEFINE Asks(stub) ==
               /\ Ask(c, stub.id)
               /\ listed' = [listed EXCEPT ![c] =
                    [id |-> stub.id, node |-> stub.node]]
  <2>0. PICK w \in Watched : \E stub \in JobAllocations(w[1], clock) : Asks(stub)
    BY <1>2 DEF ListAndAsk
  <2>1. PICK stub \in JobAllocations(w[1], clock) : Asks(stub)
    BY <2>0
  <2>2. PICK a \in JobNamed(w[1], clock).allocs : stub = ListStub(a)
    BY DEF JobAllocations
  <2>3. OnItsNode(a) /\ a.id[1] # "batch-worker" /\ a.place = PlaceOf(a.id)
    BY WatchedJobs, AllocationsOwnTheirIDs
  <2>4. stub.id = a.id /\ stub.node = NodeAt(PlaceOf(a.id))
    BY <2>2, <2>3 DEF ListStub, OnItsNode
  <2>5. AsksForListed(c)'
    BY <2>1, <2>3, <2>4 DEF Ask, AsksForListed
  <2>6. UNCHANGED <<order, items, heap>>
    BY <2>1 DEF Ask, vars, cacheVars
  <2>7. ASSUME NEW d \in Caller, d # c
        PROVE  UNCHANGED <<pc[d], asked[d], fetched[d], answer[d], listed[d]>>
    BY <2>1, <2>7 DEF Ask
  <2>8. pc[c] = "idle" /\ pc'[c] = "asking" /\ UNCHANGED answer
    BY <2>1 DEF Ask
  <2>9. QED
    BY <2>5, <2>6, <2>7, <2>8 DEF PortsKept, AsksForListed
<1>3. ASSUME NEW c \in Caller, Lookup(c), UNCHANGED <<clock, listed, moved>>
      PROVE  PortsKept'
  <2>1. \A x \in DOMAIN items' :
           x \in DOMAIN items /\ heap'[items'[x]] = heap[items[x]]
    BY <1>3, GetWrites DEF Lookup
  <2>2. reply'.hit => /\ asked[c] \in DOMAIN items
                      /\ reply'.value = heap[items[asked[c]]].value
    BY <1>3, GetWrites DEF Lookup
  <2>3. CASE reply'.hit
    <3>1. OwnPorts(asked[c], reply'.value)
      BY <2>2, <2>3 DEF PortsKept
    <3>2. OwnPorts(asked[c], Ok(reply'.value))
      BY <3>1 DEF OwnPorts, Ok
    <3>3. /\ answer' = [answer EXCEPT ![c] = Ok(reply'.value)]
          /\ pc' = [pc EXCEPT ![c] = "answered"]
          /\ UNCHANGED <<asked, fetched, listed>> /\ pc[c] = "asking"
      BY <1>3, <2>3 DEF Lookup
    <3>4. QED
      BY <2>1, <3>2, <3>3 DEF PortsKept, AsksForListed
  <2>4. CASE ~reply'.hit
    <3>1. /\ pc' = [pc EXCEPT ![c] = "fetching"] /\ pc[c] = "asking"
          /\ UNCHANGED <<answer, asked, fetched, listed>>
      BY <1>3, <2>4 DEF Lookup
    <3>2. QED
      BY <2>1, <3>1 DEF PortsKept, AsksForListed
  <2>5. QED
    BY <2>3, <2>4
<1>4. ASSUME NEW c \in Caller, Served(c), UNCHANGED <<clock, listed, moved>>
      PROVE  PortsKept'
  <2>1. CASE \E error : FetchFailed(c, error) /\ error \in {NotFound, Failure}
    <3>1. PICK error \in {NotFound, Failure} : FetchFailed(c, error)
      BY <2>1
    <3>2. error.status # "ok"
      BY DEF NotFound, Failure
    <3>3. QED
      BY <1>4, <3>1, <3>2
         DEF FetchFailed, vars, cacheVars, PortsKept, AsksForListed
  <2>2. CASE /\ pc[c] = "fetching" /\ WithId(asked[c], clock) # {}
             /\ Fetched(c, AllocationInfo(WithId(asked[c], clock)))
    <3>1. OwnPorts(asked[c], PortsOf(AllocationInfo(WithId(asked[c], clock))))
      BY <2>2, FoundPorts DEF PortsKept, AsksForListed
    <3>2. /\ fetched' = [fetched EXCEPT ![c] =
                PortsOf(AllocationInfo(WithId(asked[c], clock)))]
          /\ pc' = [pc EXCEPT ![c] = "storing"] /\ pc[c] = "fetching"
          /\ UNCHANGED <<order, items, heap, asked, answer, listed>>
      BY <1>4, <2>2 DEF Fetched, vars, cacheVars
    <3>3. QED
      BY <3>1, <3>2 DEF PortsKept, AsksForListed
  <2>3. QED
    BY <1>4, <2>1, <2>2 DEF Served
<1>5. ASSUME NEW c \in Caller, Store(c), UNCHANGED <<clock, listed, moved>>
      PROVE  PortsKept'
  <2>1. OwnPorts(asked[c], fetched[c])
    BY <1>5 DEF Store, PortsKept
  <2>2. OwnPorts(asked[c], Ok(fetched[c]))
    BY <2>1 DEF OwnPorts, Ok
  <2>3. Written(asked[c], fetched[c]).value = fetched[c]
    BY DEF Written
  <2>4. \A x \in DOMAIN items' :
          /\ x \in DOMAIN items \cup {asked[c]}
          /\ heap'[items'[x]] = IF x = asked[c] THEN Written(asked[c], fetched[c])
                                                ELSE heap[items[x]]
    BY <1>5, SetWrites DEF Store
  <2>5. \A k \in DOMAIN items' : OwnPorts(k, heap'[items'[k]].value)
    BY <2>1, <2>3, <2>4 DEF PortsKept
  <2>6. /\ answer' = [answer EXCEPT ![c] = Ok(fetched[c])]
        /\ fetched' = [fetched EXCEPT ![c] = None]
        /\ pc' = [pc EXCEPT ![c] = "answered"] /\ pc[c] = "storing"
        /\ UNCHANGED <<asked, listed>>
    BY <1>5 DEF Store
  <2>7. QED
    BY <2>2, <2>5, <2>6 DEF PortsKept, AsksForListed
<1>6. ASSUME NEW c \in Caller, Done(c), UNCHANGED clock,
             listed' = [listed EXCEPT ![c] = None],
             moved' = [moved EXCEPT ![c] = FALSE]
      PROVE  PortsKept'
  <2>1. None.status # "ok"
    BY DEF None
  <2>2. /\ pc' = [pc EXCEPT ![c] = "idle"] /\ asked' = [asked EXCEPT ![c] = <<>>]
        /\ answer' = [answer EXCEPT ![c] = None]
        /\ UNCHANGED <<order, items, heap, fetched>>
    BY <1>6 DEF Done, vars, cacheVars
  <2>3. QED
    BY <1>6, <2>1, <2>2 DEF PortsKept, AsksForListed
<1>7. QED
  BY <1>1, <1>2, <1>3, <1>4, <1>5, <1>6, Steps

(* Every successful call for an allocation's ports returns those of the    *)
(* allocation and the node that the request listed, whatever the other     *)
(* callers, the cache's evictions, the rollouts and the restarts of the    *)
(* server do in between.  The exception is batch-worker, two of whose      *)
(* allocations share an ID.                                                *)
THEOREM SpecAnswersAreOwnPorts ==
  ASSUME \A w \in Watched : w[1] # "batch-worker"
  PROVE  USpec => []AnswersAreOwnPorts
<1>1. UInit => PortsKept
  BY DEF UInit, PInit, Init, PortsKept, None
<1>2. CallerTypes /\ PortsKept => AnswersAreOwnPorts
  <2> SUFFICES ASSUME PortsKept, NEW c \in Caller, answer[c].status = "ok"
               PROVE  /\ answer[c].nodeIP = listed[c].node
                      /\ \A i \in DOMAIN answer[c].ports :
                           /\ answer[c].ports[i].of = listed[c].id
                           /\ answer[c].ports[i].host = listed[c].node
    BY DEF AnswersAreOwnPorts, NodeIPIsOfTheNode
  <2>1. AsksForListed(c) /\ OwnPorts(asked[c], answer[c])
    BY DEF PortsKept
  <2>2. QED
    BY <2>1 DEF AsksForListed, OwnPorts
<1>3. CallerTypes /\ PortsKept /\ [UNext]_allVars => PortsKept'
  BY PortsStay
<1>4. QED
  BY <1>1, <1>2, <1>3, CallerTypesInit, CallerTypesStay, PTL DEF USpec

-----------------------------------------------------------------------------
(* What is listed is found. *)

(* Within a cycle the time that has elapsed of it only grows. *)
LEMMA ElapsedGrows ==
  ASSUME NEW t \in Nat, NEW u \in Nat, Epoch <= t, t <= u,
         Version(t) = Version(u)
  PROVE  LET before == CycleState(PaymentsApi, t)
             after  == CycleState(PaymentsApi, u)
         IN  /\ after.old = before.old /\ after.new = before.new
             /\ before.elapsed \in Int /\ after.elapsed \in Int
             /\ before.elapsed <= after.elapsed
<1> DEFINE Index(x) == (x - Epoch) \div CycleLength
           start    == Index(t) * CycleLength
<1>1. CycleLength \in Nat \ {0} /\ Epoch \in Nat
  BY NomadDemoAssumption DEF CycleLength
<1>2. PaymentsApi.base \in Int
  BY DEF PaymentsApi
<1>3. \A x \in Nat : Epoch <= x =>
        CycleState(PaymentsApi, x) =
          [old |-> PaymentsApi.base + Index(x),
           new |-> PaymentsApi.base + Index(x) + 1,
           elapsed |-> x - (Epoch + Index(x) * CycleLength)]
  BY <1>1 DEF CycleState
<1>4. \A x \in Nat : Index(x) \in Int
  BY <1>1
<1> HIDE DEF Index
<1>5. Index(t) = Index(u)
  <2>1. /\ Version(t) = PaymentsApi.base + Index(t) + 1
        /\ Version(u) = PaymentsApi.base + Index(u) + 1
    BY <1>1, <1>3 DEF Version
  <2>2. Index(t) \in Int /\ Index(u) \in Int
    BY <1>4
  <2>3. \A a, b, c \in Int : a + b + 1 = a + c + 1 => b = c
    OBVIOUS
  <2>4. QED
    BY <1>2, <2>1, <2>2, <2>3
<1>6. start \in Int
  BY <1>1, <1>4
<1> HIDE DEF start
<1>7. /\ CycleState(PaymentsApi, t).elapsed = t - (Epoch + start)
      /\ CycleState(PaymentsApi, u).elapsed = u - (Epoch + start)
  BY <1>1, <1>3, <1>5 DEF start
<1>8. QED
  BY <1>1, <1>3, <1>5, <1>6, <1>7

(* Within a cycle a slot's stage only goes forward. *)
LEMMA StageForward ==
  ASSUME NEW g \in {1, 2}, NEW slot \in Slots(PaymentsApi.groups[g]),
         NEW e \in Int, NEW f \in Int, e <= f
  PROVE  /\ PhaseAt(PaymentsApi.groups[g], slot, e) # "notStarted"
              => PhaseAt(PaymentsApi.groups[g], slot, f) # "notStarted"
         /\ PhaseAt(PaymentsApi.groups[g], slot, e) = "replaced"
              => PhaseAt(PaymentsApi.groups[g], slot, f) = "replaced"
<1> DEFINE group == PaymentsApi.groups[g]
           begin == slot * SlotDuration(group)
           pending == PendingPhase(group)
<1>1. slot \in Int /\ group.replicas \in Nat \ {0}
  BY PaymentsGroups DEF Slots
<1>2. SlotDuration(group) \in Int /\ pending \in Int
  BY <1>1, NomadDemoAssumption DEF SlotDuration, PendingPhase
<1>3. begin \in Int
  BY <1>1, <1>2
<1>4. \A x : PhaseAt(group, slot, x) = SlotPhase(x - begin, pending)
  BY DEF PhaseAt
<1> HIDE DEF begin, pending
<1>5. \A x \in Int :
        /\ PhaseAt(group, slot, x) # "notStarted" <=> x - begin >= 0
        /\ PhaseAt(group, slot, x) = "replaced" <=> x - begin >= 0 /\ x - begin >= pending
  BY <1>2, <1>3, <1>4 DEF SlotPhase
<1>6. QED
  BY <1>2, <1>3, <1>5

(* The IDs of a slot's allocations: the old one's, and the new one's once  *)
(* it has started.                                                         *)
LEMMA SlotIDs ==
  ASSUME NEW group, NEW offset, NEW slot, NEW t, NEW id
  PROVE  LET cycle == CycleState(PaymentsApi, t)
         IN  (\E a \in SlotAllocations(PaymentsApi, group, offset, slot, t) : a.id = id)
             <=> \/ id = <<PaymentsApi.id, group.name, slot, cycle.old>>
                 \/ /\ id = <<PaymentsApi.id, group.name, slot, cycle.new>>
                    /\ PhaseAt(group, slot, cycle.elapsed) # "notStarted"
<1> DEFINE cycle == CycleState(PaymentsApi, t)
           stage == PhaseAt(group, slot, cycle.elapsed)
           Of(v, client, desired) ==
             Alloc(<<PaymentsApi.id, group.name, slot, v>>, group.name, v,
                   offset + slot, client, desired, group.labels)
<1>1. \A v, client, desired :
        Of(v, client, desired).id = <<PaymentsApi.id, group.name, slot, v>>
  BY DEF Alloc
<1>2. SlotAllocations(PaymentsApi, group, offset, slot, t) =
        CASE stage = "notStarted" -> {Of(cycle.old, "running", "run")}
          [] stage = "replacing"  -> {Of(cycle.old, "running", "stop"),
                                      Of(cycle.new, "pending", "run")}
          [] stage = "replaced"   -> {Of(cycle.old, "complete", "stop"),
                                      Of(cycle.new, "running", "run")}
  BY DEF SlotAllocations
<1>3. stage \in {"notStarted", "replacing", "replaced"}
  BY ThreePhases
<1> HIDE DEF Of, stage, cycle
<1>4. CASE stage = "notStarted"
  <2>1. SlotAllocations(PaymentsApi, group, offset, slot, t)
          = {Of(cycle.old, "running", "run")}
    BY <1>2, <1>4
  <2>2. (\E a \in SlotAllocations(PaymentsApi, group, offset, slot, t) : a.id = id)
        <=> Of(cycle.old, "running", "run").id = id
    BY <2>1
  <2>3. QED
    BY <1>1, <1>4, <2>2 DEF stage, cycle
<1>5. CASE stage = "replacing"
  <2>1. SlotAllocations(PaymentsApi, group, offset, slot, t)
          = {Of(cycle.old, "running", "stop"), Of(cycle.new, "pending", "run")}
    BY <1>2, <1>5
  <2>2. (\E a \in SlotAllocations(PaymentsApi, group, offset, slot, t) : a.id = id)
        <=> \/ Of(cycle.old, "running", "stop").id = id
            \/ Of(cycle.new, "pending", "run").id = id
    BY <2>1
  <2>3. QED
    BY <1>1, <1>5, <2>2 DEF stage, cycle
<1>6. CASE stage = "replaced"
  <2>1. SlotAllocations(PaymentsApi, group, offset, slot, t) =
          {Of(cycle.old, "complete", "stop"), Of(cycle.new, "running", "run")}
    BY <1>2, <1>6
  <2>2. (\E a \in SlotAllocations(PaymentsApi, group, offset, slot, t) : a.id = id)
        <=> \/ id = <<PaymentsApi.id, group.name, slot, cycle.old>>
            \/ id = <<PaymentsApi.id, group.name, slot, cycle.new>>
    BY <1>1, <2>1
  <2>3. stage # "notStarted"
    BY <1>6
  <2>4. QED
    BY <2>2, <2>3 DEF stage, cycle
<1>7. QED
  BY <1>3, <1>4, <1>5, <1>6

(* Within a cycle what is found under an ID stays to be found. *)
LEMMA FoundStays ==
  ASSUME NEW t \in Nat, NEW u \in Nat, Epoch <= t, t <= u,
         Version(t) = Version(u), NEW id, WithId(id, t) # {}
  PROVE  WithId(id, u) # {}
<1>1. PICK job \in ToSet(Jobs(t)) : \E a \in job.allocs : a.id = id
  BY DEF WithId, AllAllocations
<1>2. PICK a \in job.allocs : a.id = id
  BY <1>1
<1>3. SUFFICES \E other \in ToSet(Jobs(u)) : \E b \in other.allocs : b.id = id
  BY DEF WithId, AllAllocations
<1>4. CASE job # DeployingJob(PaymentsApi, t)
  BY <1>2, <1>4, JobsAre
<1>5. CASE job = DeployingJob(PaymentsApi, t)
  <2>1. a \in DeployAllocations(PaymentsApi, t)
    BY <1>5 DEF DeployingJob
  <2>2. PICK g \in {1, 2} : \E s \in Slots(PaymentsApi.groups[g]) :
          a \in SlotAllocations(PaymentsApi, PaymentsApi.groups[g],
                                NodeOffset(PaymentsApi, g), s, t)
    BY <2>1, PaymentsGroups DEF DeployAllocations
  <2> DEFINE group  == PaymentsApi.groups[g]
             offset == NodeOffset(PaymentsApi, g)
             before == CycleState(PaymentsApi, t)
             after  == CycleState(PaymentsApi, u)
  <2>3. PICK s \in Slots(group) :
          a \in SlotAllocations(PaymentsApi, group, offset, s, t)
    BY <2>2
  <2>4. \/ id = <<PaymentsApi.id, group.name, s, before.old>>
        \/ /\ id = <<PaymentsApi.id, group.name, s, before.new>>
           /\ PhaseAt(group, s, before.elapsed) # "notStarted"
    BY <1>2, <2>3, SlotIDs
  <2>5. /\ after.old = before.old /\ after.new = before.new
        /\ before.elapsed \in Int /\ after.elapsed \in Int
        /\ before.elapsed <= after.elapsed
    BY ElapsedGrows
  <2>6. PhaseAt(group, s, before.elapsed) # "notStarted" =>
          PhaseAt(group, s, after.elapsed) # "notStarted"
    BY <2>5, StageForward
  <2>7. \E b \in SlotAllocations(PaymentsApi, group, offset, s, u) : b.id = id
    BY <2>4, <2>5, <2>6, SlotIDs
  <2>8. \E b \in DeployAllocations(PaymentsApi, u) : b.id = id
    BY <2>7, PaymentsGroups DEF DeployAllocations
  <2>9. DeployingJob(PaymentsApi, u).allocs = DeployAllocations(PaymentsApi, u)
    BY DEF DeployingJob
  <2>10. QED
    BY <2>8, <2>9, JobsAre
<1>6. QED
  BY <1>4, <1>5

(* Until a rollout or the server begins anew, a caller's allocation is     *)
(* still there.                                                            *)
Findable ==
  \A c \in Caller :
    /\ pc[c] \in {"asking", "fetching"} => moved[c] \/ WithId(asked[c], clock) # {}
    /\ answer[c] = NotFound => moved[c] /\ pc[c] = "answered"

LEMMA FindableStays ==
  CallerTypes /\ Findable /\ [UNext]_allVars => Findable'
<1> SUFFICES ASSUME CallerTypes, Findable, [UNext]_allVars PROVE Findable'
  OBVIOUS
<1> USE DEF CallerTypes
<1>1. CASE Elsewhere
  <2>1. UNCHANGED <<pc, asked, answer>>
    BY <1>1 DEF Elsewhere, portsVars
  <2>2. CASE UNCHANGED <<clock, moved>>
    BY <2>1, <2>2 DEF Findable
  <2>3. CASE TimePasses
    <3>1. clock' \in Nat /\ clock <= clock'
      BY <2>3, UnhousedAssumption, NomadDemoAssumption DEF TimePasses
    <3>2. \A c \in Caller : moved'[c] =
            (moved[c] \/ (pc[c] # "idle" /\ Version(clock') # Version(clock)))
      BY <2>3, Zenon DEF TimePasses
    <3>3. ASSUME NEW c \in Caller, pc[c] \in {"asking", "fetching"}, ~moved'[c]
          PROVE  WithId(asked[c], clock') # {}
      <4>1. ~moved[c] /\ Version(clock') = Version(clock)
        BY <3>2, <3>3
      <4>2. WithId(asked[c], clock) # {}
        BY <3>3, <4>1 DEF Findable
      <4>3. QED
        BY <3>1, <4>1, <4>2, FoundStays
    <3>4. ASSUME NEW c \in Caller, answer[c] = NotFound
          PROVE  moved'[c] /\ pc[c] = "answered"
      BY <3>2, <3>4 DEF Findable
    <3>5. QED
      BY <2>1, <3>3, <3>4 DEF Findable
  <2>4. CASE RestartDemo
    <3>1. \A c \in Caller : moved'[c] = (moved[c] \/ pc[c] # "idle")
      BY <2>4, Zenon DEF RestartDemo
    <3>2. QED
      BY <2>1, <3>1 DEF Findable
  <2>5. QED
    BY <1>1, <2>2, <2>3, <2>4 DEF Elsewhere
<1>2. ASSUME NEW c \in Caller, ListAndAsk(c) PROVE Findable'
  <2>1. PICK w \in Watched : \E stub \in JobAllocations(w[1], clock) : Ask(c, stub.id)
    BY <1>2 DEF ListAndAsk
  <2>2. PICK stub \in JobAllocations(w[1], clock) : Ask(c, stub.id)
    BY <2>1
  <2>3. WithId(stub.id, clock) # {}
    <3>1. PICK a \in JobNamed(w[1], clock).allocs : stub = ListStub(a)
      BY DEF JobAllocations
    <3>2. stub.id = a.id
      BY <3>1 DEF ListStub
    <3>3. QED
      BY <3>1, <3>2, WatchedJobs DEF WithId, AllAllocations
  <2>4. moved' = [moved EXCEPT ![c] = FALSE] /\ UNCHANGED clock
    BY <1>2 DEF ListAndAsk
  <2>5. /\ pc[c] = "idle" /\ pc' = [pc EXCEPT ![c] = "asking"]
        /\ asked' = [asked EXCEPT ![c] = stub.id] /\ UNCHANGED answer
    BY <2>2 DEF Ask
  <2>6. QED
    BY <2>3, <2>4, <2>5 DEF Findable
<1>3. ASSUME NEW c \in Caller, Lookup(c), UNCHANGED <<clock, listed, moved>>
      PROVE  Findable'
  <2>1. \A x : Ok(x) # NotFound
    BY DEF Ok, NotFound
  <2>2. QED
    BY <1>3, <2>1 DEF Lookup, Findable
<1>4. ASSUME NEW c \in Caller, Served(c), UNCHANGED <<clock, listed, moved>>
      PROVE  Findable'
  <2>1. Failure # NotFound
    BY DEF Failure, NotFound
  <2>2. CASE /\ pc[c] = "fetching" /\ WithId(asked[c], clock) = {}
             /\ FetchFailed(c, NotFound)
    BY <1>4, <2>2 DEF FetchFailed, Findable
  <2>3. CASE \E info : Fetched(c, info)
    BY <1>4, <2>3 DEF Fetched, Findable
  <2>4. CASE FetchFailed(c, Failure)
    BY <1>4, <2>1, <2>4 DEF FetchFailed, Findable
  <2>5. QED
    BY <1>4, <2>2, <2>3, <2>4 DEF Served
<1>5. ASSUME NEW c \in Caller, Store(c), UNCHANGED <<clock, listed, moved>>
      PROVE  Findable'
  <2>1. \A x : Ok(x) # NotFound
    BY DEF Ok, NotFound
  <2>2. QED
    BY <1>5, <2>1 DEF Store, Findable
<1>6. ASSUME NEW c \in Caller, Done(c), UNCHANGED clock,
             listed' = [listed EXCEPT ![c] = None],
             moved' = [moved EXCEPT ![c] = FALSE]
      PROVE  Findable'
  <2>1. None # NotFound
    BY DEF None, NotFound
  <2>2. QED
    BY <1>6, <2>1 DEF Done, Findable
<1>7. QED
  BY <1>1, <1>2, <1>3, <1>4, <1>5, <1>6, Steps

(* An allocation that a request has listed is found when its ports are     *)
(* asked for, unless another rollout or the server has begun in between:   *)
(* within a cycle an ID that the demo server lists does not go away, since *)
(* a slot that has started does not go back.                               *)
THEOREM SpecListedIsFound == USpec => []ListedIsFound
<1>1. UInit => Findable
  <2>1. None # NotFound
    BY DEF None, NotFound
  <2>2. QED
    BY <2>1 DEF UInit, PInit, Findable
<1>2. Findable => ListedIsFound
  BY DEF Findable, ListedIsFound
<1>3. QED
  BY <1>1, <1>2, FindableStays, CallerTypesInit, CallerTypesStay, PTL DEF USpec

-----------------------------------------------------------------------------
(* The rollout agrees with itself. *)

(* A quotient is what fits. *)
LEMMA DivFacts ==
  ASSUME NEW a \in Nat, NEW d \in Nat \ {0}
  PROVE  LET q == a \div d
         IN  q \in Nat /\ q * d <= a /\ a < (q + 1) * d
<1> DEFINE q == a \div d
<1>1. q \in Int
  OBVIOUS
<1>2. a % d \in 0 .. (d - 1)
  OBVIOUS
<1>3. a = d * q + (a % d)
  OBVIOUS
<1> HIDE DEF q
<1>4. q * d <= a
  BY <1>1, <1>2, <1>3
<1>5. a < (q + 1) * d
  BY <1>1, <1>2, <1>3
<1>6. q >= 0
  <2>1. q < 0 => (q + 1) * d <= 0
    BY <1>1
  <2>2. QED
    BY <1>1, <1>5, <2>1
<1>7. QED
  BY <1>1, <1>4, <1>5, <1>6 DEF q

(* A cycle begins when its version is submitted, and has elapsed since.    *)
LEMMA CycleFacts ==
  ASSUME NEW t \in Nat, Epoch <= t
  PROVE  LET cycle == CycleState(PaymentsApi, t)
         IN  /\ cycle.old \in Nat /\ cycle.new = cycle.old + 1
             /\ cycle.old >= PaymentsApi.base
             /\ cycle.elapsed \in 0 .. (CycleLength - 1)
             /\ Epoch <= t - cycle.elapsed
             /\ VersionSubmitTime(PaymentsApi, cycle.new) = t - cycle.elapsed
<1> DEFINE index == (t - Epoch) \div CycleLength
           start == index * CycleLength
           cycle == CycleState(PaymentsApi, t)
<1>1. CycleLength \in Nat \ {0} /\ Epoch \in Nat /\ t - Epoch \in Nat
  BY NomadDemoAssumption DEF CycleLength
<1>2. PaymentsApi.base = 12
  BY DEF PaymentsApi
<1>3. /\ cycle.old = PaymentsApi.base + index
      /\ cycle.new = PaymentsApi.base + index + 1
      /\ cycle.elapsed = t - (Epoch + start)
  BY <1>1 DEF CycleState
<1>4. index \in Nat /\ start <= t - Epoch /\ t - Epoch < (index + 1) * CycleLength
  BY <1>1, DivFacts
<1> HIDE DEF index, cycle
<1>5. start \in Nat /\ (index + 1) * CycleLength = start + CycleLength
  BY <1>1, <1>4
<1>6. cycle.elapsed \in 0 .. (CycleLength - 1)
  <2> HIDE DEF start
  <2>1. QED
    BY <1>1, <1>3, <1>4, <1>5
<1>9. t - cycle.elapsed = Epoch + start
  <2> HIDE DEF start
  <2>1. QED
    BY <1>1, <1>3, <1>5
<1>7. VersionSubmitTime(PaymentsApi, cycle.new) = Epoch + start
  <2>1. ~(cycle.new <= PaymentsApi.base)
    BY <1>2, <1>3, <1>4
  <2>2. cycle.new - PaymentsApi.base - 1 = index
    BY <1>2, <1>3, <1>4
  <2>3. QED
    BY <2>1, <2>2 DEF VersionSubmitTime
<1> HIDE DEF start
<1>8. QED
  BY <1>1, <1>2, <1>3, <1>4, <1>5, <1>6, <1>7, <1>9 DEF cycle

(* The two allocations of a slot, and the stage it is in. *)

StageAt(g, s, t) ==
  PhaseAt(PaymentsApi.groups[g], s, CycleState(PaymentsApi, t).elapsed)

OldOf(g, s, t) ==
  LET group == PaymentsApi.groups[g]
      v == CycleState(PaymentsApi, t).old
  IN  Alloc(<<PaymentsApi.id, group.name, s, v>>, group.name, v,
            NodeOffset(PaymentsApi, g) + s,
            IF StageAt(g, s, t) = "replaced" THEN "complete" ELSE "running",
            IF StageAt(g, s, t) = "notStarted" THEN "run" ELSE "stop",
            group.labels)

NewOf(g, s, t) ==
  LET group == PaymentsApi.groups[g]
      v == CycleState(PaymentsApi, t).new
  IN  Alloc(<<PaymentsApi.id, group.name, s, v>>, group.name, v,
            NodeOffset(PaymentsApi, g) + s,
            IF StageAt(g, s, t) = "replaced" THEN "running" ELSE "pending",
            "run", group.labels)

(* A slot has its old allocation, and its new one once it has started. *)
LEMMA SlotHas ==
  ASSUME NEW g, NEW s, NEW t
  PROVE  SlotAllocations(PaymentsApi, PaymentsApi.groups[g],
                         NodeOffset(PaymentsApi, g), s, t) =
           {OldOf(g, s, t)} \cup
             (IF StageAt(g, s, t) = "notStarted" THEN {} ELSE {NewOf(g, s, t)})
<1>1. StageAt(g, s, t) \in {"notStarted", "replacing", "replaced"}
  BY ThreePhases DEF StageAt
<1>2. CASE StageAt(g, s, t) = "notStarted"
  BY <1>2 DEF SlotAllocations, StageAt, OldOf
<1>3. CASE StageAt(g, s, t) = "replacing"
  BY <1>3 DEF SlotAllocations, StageAt, OldOf, NewOf
<1>4. CASE StageAt(g, s, t) = "replaced"
  BY <1>4 DEF SlotAllocations, StageAt, OldOf, NewOf
<1>5. QED
  BY <1>1, <1>2, <1>3, <1>4

(* What the state of the allocations says of the stage. *)
LEMMA OfFacts ==
  ASSUME NEW g, NEW s, NEW t
  PROVE  LET group == PaymentsApi.groups[g]
             cycle == CycleState(PaymentsApi, t)
             old == OldOf(g, s, t)
             new == NewOf(g, s, t)
         IN  /\ old.id = <<PaymentsApi.id, group.name, s, cycle.old>>
             /\ old.group = group.name /\ old.version = cycle.old
             /\ old.client = IF StageAt(g, s, t) = "replaced" THEN "complete" ELSE "running"
             /\ old.desired = IF StageAt(g, s, t) = "notStarted" THEN "run" ELSE "stop"
             /\ new.id = <<PaymentsApi.id, group.name, s, cycle.new>>
             /\ new.group = group.name /\ new.version = cycle.new
             /\ new.client = IF StageAt(g, s, t) = "replaced" THEN "running" ELSE "pending"
             /\ new.desired = "run"
BY DEF OldOf, NewOf, Alloc

(* The allocations of the rollout are those of its slots. *)
LEMMA DeployHas ==
  ASSUME NEW t, NEW a
  PROVE  a \in DeployAllocations(PaymentsApi, t)
           <=> \E g \in {1, 2} : \E s \in Slots(PaymentsApi.groups[g]) :
                 \/ a = OldOf(g, s, t)
                 \/ StageAt(g, s, t) # "notStarted" /\ a = NewOf(g, s, t)
<1>1. a \in DeployAllocations(PaymentsApi, t)
        <=> \E g \in {1, 2} : \E s \in Slots(PaymentsApi.groups[g]) :
              a \in SlotAllocations(PaymentsApi, PaymentsApi.groups[g],
                                    NodeOffset(PaymentsApi, g), s, t)
  BY PaymentsGroups DEF DeployAllocations
<1>2. \A g, s : a \in SlotAllocations(PaymentsApi, PaymentsApi.groups[g],
                                      NodeOffset(PaymentsApi, g), s, t)
        <=> \/ a = OldOf(g, s, t)
            \/ StageAt(g, s, t) # "notStarted" /\ a = NewOf(g, s, t)
  BY SlotHas
<1>3. QED
  BY <1>1, <1>2

(* The allocations of one group are those of its slots. *)
LEMMA GroupHas ==
  ASSUME NEW t, NEW g \in {1, 2}, NEW a
  PROVE  a \in DeployAllocations(PaymentsApi, t) /\ a.group = PaymentsApi.groups[g].name
           <=> \E s \in Slots(PaymentsApi.groups[g]) :
                 \/ a = OldOf(g, s, t)
                 \/ StageAt(g, s, t) # "notStarted" /\ a = NewOf(g, s, t)
<1>1. \A h \in {1, 2} : PaymentsApi.groups[h].name = PaymentsApi.groups[g].name => h = g
  BY PaymentsGroups
<1>2. \A h, s : /\ OldOf(h, s, t).group = PaymentsApi.groups[h].name
                /\ NewOf(h, s, t).group = PaymentsApi.groups[h].name
  BY OfFacts
<1>3. QED
  BY <1>1, <1>2, DeployHas

(* A group has a slot per replica. *)
LEMMA SlotsCounted ==
  ASSUME NEW g \in {1, 2}
  PROVE  /\ IsFiniteSet(Slots(PaymentsApi.groups[g]))
         /\ Cardinality(Slots(PaymentsApi.groups[g])) = PaymentsApi.groups[g].replicas
<1> DEFINE r == PaymentsApi.groups[g].replicas
<1>1. r \in {6, 3}
  BY PaymentsGroups
<1>2. Slots(PaymentsApi.groups[g]) = 0 .. (r - 1)
  BY DEF Slots
<1> HIDE DEF r
<1>3. 0 \in Int /\ r - 1 \in Int /\ ~(0 > r - 1) /\ (r - 1) - 0 + 1 = r
  BY <1>1
<1>4. IsFiniteSet(0 .. (r - 1)) /\ Cardinality(0 .. (r - 1)) = r
  BY <1>3, FS_Interval
<1>5. QED
  BY <1>2, <1>4 DEF r

NewIn(t, g, states) ==
  {a \in DeployAllocations(PaymentsApi, t) :
     /\ a.group = PaymentsApi.groups[g].name
     /\ a.version = CycleState(PaymentsApi, t).new
     /\ a.client \in states}

SlotsIn(t, g, stages) ==
  {s \in Slots(PaymentsApi.groups[g]) : StageAt(g, s, t) \in stages}

(* As many of a group's new allocations are in a state as slots are in the *)
(* stages that put them there.                                             *)
LEMMA NewCounted ==
  ASSUME NEW t \in Nat, Epoch <= t, NEW g \in {1, 2}, NEW states, NEW stages,
         \A s \in Slots(PaymentsApi.groups[g]) :
           StageAt(g, s, t) \in stages
             <=> StageAt(g, s, t) # "notStarted" /\ NewOf(g, s, t).client \in states
  PROVE  Cardinality(NewIn(t, g, states)) = Cardinality(SlotsIn(t, g, stages))
<1> DEFINE group == PaymentsApi.groups[g]
           slots == SlotsIn(t, g, stages)
           allocs == NewIn(t, g, states)
           f == [s \in slots |-> NewOf(g, s, t)]
<1>1. \A s : /\ OldOf(g, s, t).version # CycleState(PaymentsApi, t).new
             /\ NewOf(g, s, t).version = CycleState(PaymentsApi, t).new
             /\ NewOf(g, s, t).id[3] = s
  <2>1. CycleState(PaymentsApi, t).old # CycleState(PaymentsApi, t).new
    BY CycleFacts
  <2>2. \A s : /\ OldOf(g, s, t).version = CycleState(PaymentsApi, t).old
               /\ NewOf(g, s, t).version = CycleState(PaymentsApi, t).new
               /\ NewOf(g, s, t).id = <<PaymentsApi.id, group.name, s,
                                       CycleState(PaymentsApi, t).new>>
    BY OfFacts
  <2>3. QED
    BY <2>1, <2>2
<1>2. \A a : a \in allocs <=> \E s \in slots : a = NewOf(g, s, t)
  <2>1. ASSUME NEW a
        PROVE  a \in allocs <=> \E s \in slots : a = NewOf(g, s, t)
    <3>1. a \in DeployAllocations(PaymentsApi, t) /\ a.group = group.name
            <=> \E s \in Slots(group) :
                  \/ a = OldOf(g, s, t)
                  \/ StageAt(g, s, t) # "notStarted" /\ a = NewOf(g, s, t)
      BY ONLY g \in {1, 2}, GroupHas
    <3>2. ASSUME a \in allocs PROVE \E s \in slots : a = NewOf(g, s, t)
      <4>1. a.version = CycleState(PaymentsApi, t).new /\ a.client \in states
        BY <3>2 DEF NewIn
      <4>2. PICK s \in Slots(group) :
              StageAt(g, s, t) # "notStarted" /\ a = NewOf(g, s, t)
        BY <1>1, <3>1, <3>2, <4>1 DEF NewIn
      <4>3. s \in slots
        BY <4>1, <4>2 DEF SlotsIn
      <4>4. QED
        BY <4>2, <4>3
    <3>3. ASSUME NEW s \in slots, a = NewOf(g, s, t) PROVE a \in allocs
      <4>1. /\ StageAt(g, s, t) # "notStarted" /\ a.client \in states
            /\ s \in Slots(group)
        BY <3>3 DEF SlotsIn
      <4>2. a.version = CycleState(PaymentsApi, t).new
        BY <1>1, <3>3
      <4>3. QED
        BY <3>1, <3>3, <4>1, <4>2 DEF NewIn
    <3>4. QED
      BY <3>2, <3>3
  <2>2. QED
    BY <2>1
<1>3. IsFiniteSet(slots)
  <2>2. IsFiniteSet(Slots(group))
    BY SlotsCounted
  <2>3. slots \in SUBSET Slots(group)
    BY DEF SlotsIn
  <2>4. QED
    BY <2>2, <2>3, FS_Subset
<1> HIDE DEF slots, allocs
<1>4. f \in Bijection(slots, allocs)
  <2>1. f \in [slots -> allocs]
    BY <1>2
  <2>2. \A x, y \in slots : f[x] = f[y] => x = y
    BY <1>1
  <2>3. \A a \in allocs : \E s \in slots : f[s] = a
    BY <1>2
  <2> HIDE DEF f
  <2>4. QED
    BY <2>1, <2>2, <2>3 DEF Bijection, Injection, Surjection, IsInjective
<1>5. ExistsBijection(slots, allocs)
  BY <1>4 DEF ExistsBijection
<1>6. Cardinality(allocs) = Cardinality(slots)
  BY <1>3, <1>5, FS_Bijection
<1>7. QED
  BY <1>6 DEF allocs, slots

(* When the rollout is over, every slot has been replaced. *)
LEMMA RolledOut ==
  ASSUME NEW t \in Nat, Epoch <= t, Rollout <= CycleState(PaymentsApi, t).elapsed,
         NEW g \in {1, 2}, NEW s \in Slots(PaymentsApi.groups[g])
  PROVE  StageAt(g, s, t) = "replaced"
<1> DEFINE r == PaymentsApi.groups[g].replicas
           d == Rollout \div r
           e == CycleState(PaymentsApi, t).elapsed
           p == d \div 5
<1>1. r \in {6, 3} /\ s \in 0 .. (r - 1)
  BY PaymentsGroups DEF Slots
<1>2. Rollout \in Nat /\ e \in Nat
  BY NomadDemoAssumption, CycleFacts DEF CycleLength
<1> HIDE DEF r
<1>3. d \in Nat /\ r * d <= Rollout
  <2>1. r \in Nat \ {0}
    BY <1>1
  <2>2. d \in Nat /\ d * r <= Rollout
    BY <1>2, <2>1, DivFacts
  <2>3. \A x \in Nat : x * r = r * x
    BY <2>1
  <2>4. QED
    BY <2>2, <2>3
<1> HIDE DEF d
<1>4. p \in Nat /\ p <= d
  BY <1>3
<1> HIDE DEF p
<1>5. s * d + d <= r * d
  BY <1>1, <1>3
<1>6. s * d + p <= e /\ s * d \in Nat
  <2>1. s * d \in Nat /\ r * d \in Nat
    BY <1>1, <1>3
  <2>2. QED
    BY <1>2, <1>3, <1>4, <1>5, <2>1
<1>7. ~(e - s * d < 0) /\ ~(0 <= e - s * d /\ e - s * d < p)
  <2> DEFINE m == s * d
  <2>1. m \in Nat /\ m + p <= e
    BY <1>6
  <2> HIDE DEF m
  <2>2. ~(e - m < 0) /\ ~(0 <= e - m /\ e - m < p)
    BY <1>2, <1>4, <2>1
  <2>3. QED
    BY <2>2 DEF m
<1>8. StageAt(g, s, t) = SlotPhase(e - s * d, p)
  BY DEF StageAt, PhaseAt, SlotDuration, PendingPhase, r, d, p
<1>9. QED
  BY <1>7, <1>8 DEF SlotPhase

(* Of a slot's two allocations, which have IDs of their own, one runs.     *)
LEMMA OneRuns ==
  ASSUME NEW t \in Nat, Epoch <= t, NEW g \in {1, 2},
         NEW s \in Slots(PaymentsApi.groups[g])
  PROVE  Cardinality({a \in DeployAllocations(PaymentsApi, t) :
           /\ a.client = "running"
           /\ \E v \in {CycleState(PaymentsApi, t).old, CycleState(PaymentsApi, t).new} :
                a.id = <<PaymentsApi.id, PaymentsApi.groups[g].name, s, v>>}) = 1
<1> DEFINE cycle == CycleState(PaymentsApi, t)
           name  == PaymentsApi.groups[g].name
           Its(a) == \E v \in {cycle.old, cycle.new} : a.id = <<PaymentsApi.id, name, s, v>>
           runs  == IF StageAt(g, s, t) = "replaced" THEN NewOf(g, s, t) ELSE OldOf(g, s, t)
           found == {a \in DeployAllocations(PaymentsApi, t) :
                       a.client = "running" /\ Its(a)}
<1>1. \A a \in DeployAllocations(PaymentsApi, t) :
        Its(a) => \/ a = OldOf(g, s, t)
                  \/ StageAt(g, s, t) # "notStarted" /\ a = NewOf(g, s, t)
  <2>1. ASSUME NEW a \in DeployAllocations(PaymentsApi, t), Its(a)
        PROVE  \/ a = OldOf(g, s, t)
               \/ StageAt(g, s, t) # "notStarted" /\ a = NewOf(g, s, t)
    <3>1. PICK h \in {1, 2} : \E r \in Slots(PaymentsApi.groups[h]) :
            \/ a = OldOf(h, r, t)
            \/ StageAt(h, r, t) # "notStarted" /\ a = NewOf(h, r, t)
      BY <2>1, DeployHas
    <3>7. PICK r \in Slots(PaymentsApi.groups[h]) :
            \/ a = OldOf(h, r, t)
            \/ StageAt(h, r, t) # "notStarted" /\ a = NewOf(h, r, t)
      BY <3>1
    <3>2. \E v : a.id = <<PaymentsApi.id, PaymentsApi.groups[h].name, r, v>>
      BY <3>7, OfFacts
    <3>3. \E v : a.id = <<PaymentsApi.id, name, s, v>>
      BY <2>1
    <3>4. PaymentsApi.groups[h].name = name /\ r = s
      BY <3>2, <3>3
    <3>5. h = g
      BY <3>4, PaymentsGroups
    <3>6. QED
      BY <3>7, <3>4, <3>5
  <2>2. QED
    BY <2>1
<1>2. OldOf(g, s, t) \in DeployAllocations(PaymentsApi, t) /\ Its(OldOf(g, s, t))
  BY DeployHas, OfFacts
<1>3. StageAt(g, s, t) # "notStarted" =>
        NewOf(g, s, t) \in DeployAllocations(PaymentsApi, t)
  BY DeployHas
<1>4. Its(NewOf(g, s, t))
  BY OfFacts
<1>5. /\ OldOf(g, s, t).client = "running" <=> StageAt(g, s, t) # "replaced"
      /\ NewOf(g, s, t).client = "running" <=> StageAt(g, s, t) = "replaced"
  BY OfFacts
<1> HIDE DEF Its
<1>6. runs \in found
  BY <1>2, <1>3, <1>4, <1>5
<1>7. \A a \in found : a = runs
  BY <1>1, <1>5
<1> HIDE DEF runs
<1>8. found = {runs}
  BY <1>6, <1>7
<1> HIDE DEF found
<1>9. Cardinality(found) = 1
  BY <1>8, FS_Singleton
<1>10. QED
  BY <1>9 DEF found, Its

(* The counts of the deployment are those of the slots and therefore of    *)
(* their allocations.                                                      *)
LEMMA CountsDoMatch ==
  ASSUME NEW t \in Nat, Epoch <= t
  PROVE  CountsMatch(t)
<1> DEFINE cycle == CycleState(PaymentsApi, t)
           New(g, S) == Cardinality(NewIn(t, g, S))
           Staged(g, S) == Cardinality(SlotsIn(t, g, S))
           deployment == DeployDeployment(PaymentsApi, t)
<1> HIDE DEF New, Staged
<1>1. ASSUME NEW g \in {1, 2}
      PROVE  /\ deployment.groups[g].placed = New(g, {"pending", "running"})
             /\ deployment.groups[g].healthy = New(g, {"running"})
             /\ deployment.status = "successful" =>
                  deployment.groups[g].healthy = deployment.groups[g].desired
  <2>1. deployment.groups[g] = TaskGroupState(PaymentsApi.groups[g], cycle.elapsed)
    BY PaymentsGroups DEF DeployDeployment, Deployment
  <2>2. \A s : StageAt(g, s, t) \in {"notStarted", "replacing", "replaced"}
    BY ThreePhases DEF StageAt
  <2>3. deployment.groups[g].placed = Staged(g, {"replacing", "replaced"})
    <3>1. {s \in Slots(PaymentsApi.groups[g]) : PhaseAt(PaymentsApi.groups[g], s, cycle.elapsed) # "notStarted"}
            = SlotsIn(t, g, {"replacing", "replaced"})
      BY <2>2 DEF StageAt, SlotsIn
    <3>2. QED
      BY <2>1, <3>1 DEF Staged, TaskGroupState
  <2>4. deployment.groups[g].healthy = Staged(g, {"replaced"})
    <3>1. {s \in Slots(PaymentsApi.groups[g]) : PhaseAt(PaymentsApi.groups[g], s, cycle.elapsed) = "replaced"}
            = SlotsIn(t, g, {"replaced"})
      BY DEF StageAt, SlotsIn
    <3>2. QED
      BY <2>1, <3>1 DEF Staged, TaskGroupState
  <2>5. \A s : NewOf(g, s, t).client = IF StageAt(g, s, t) = "replaced" THEN "running" ELSE "pending"
    BY OfFacts
  <2>6. New(g, {"pending", "running"}) = Staged(g, {"replacing", "replaced"})
    <3>1. \A s \in Slots(PaymentsApi.groups[g]) :
            StageAt(g, s, t) \in {"replacing", "replaced"}
              <=> StageAt(g, s, t) # "notStarted"
                    /\ NewOf(g, s, t).client \in {"pending", "running"}
      BY <2>2, <2>5
    <3>2. QED
      BY <3>1, NewCounted DEF New, Staged
  <2>7. New(g, {"running"}) = Staged(g, {"replaced"})
    <3>1. \A s \in Slots(PaymentsApi.groups[g]) :
            StageAt(g, s, t) \in {"replaced"}
              <=> StageAt(g, s, t) # "notStarted" /\ NewOf(g, s, t).client \in {"running"}
      BY <2>2, <2>5
    <3>2. QED
      BY <3>1, NewCounted DEF New, Staged
  <2>8. ASSUME deployment.status = "successful"
        PROVE  Staged(g, {"replaced"}) = PaymentsApi.groups[g].replicas
    <3>1. ~(cycle.elapsed < Rollout)
      BY <2>8 DEF DeployDeployment, Deployment
    <3>2. Rollout <= cycle.elapsed
      BY <3>1, NomadDemoAssumption, CycleFacts DEF CycleLength
    <3>3. SlotsIn(t, g, {"replaced"}) = Slots(PaymentsApi.groups[g])
      BY <3>2, RolledOut DEF SlotsIn
    <3>4. QED
      BY <3>3, SlotsCounted DEF Staged
  <2>9. deployment.groups[g].desired = PaymentsApi.groups[g].replicas
    BY <2>1 DEF TaskGroupState
  <2>10. QED
    BY <2>3, <2>4, <2>6, <2>7, <2>8, <2>9
<1>2. DOMAIN PaymentsApi.groups = {1, 2}
  BY PaymentsGroups
<1>3. ASSUME NEW g \in {1, 2}
      PROVE  /\ deployment.groups[g].placed = New(g, {"pending", "running"})
             /\ deployment.groups[g].healthy = New(g, {"running"})
             /\ \A s \in Slots(PaymentsApi.groups[g]) :
                  Cardinality({a \in DeployAllocations(PaymentsApi, t) :
                    /\ a.client = "running"
                    /\ \E v \in {cycle.old, cycle.new} :
                         a.id = <<PaymentsApi.id, PaymentsApi.groups[g].name, s, v>>}) = 1
             /\ deployment.status = "successful" =>
                  deployment.groups[g].healthy = deployment.groups[g].desired
  <2>1. \A s \in Slots(PaymentsApi.groups[g]) :
          Cardinality({a \in DeployAllocations(PaymentsApi, t) :
            /\ a.client = "running"
            /\ \E v \in {cycle.old, cycle.new} :
                 a.id = <<PaymentsApi.id, PaymentsApi.groups[g].name, s, v>>}) = 1
    BY OneRuns
  <2>2. QED
    BY <1>1, <2>1
<1>4. QED
  BY <1>2, <1>3, Zenon DEF CountsMatch, New, NewIn

(* What VersionsMatch asks of one job, whose versions are of these numbers. *)
JobMatches(job, t, numbers, newest) ==
  /\ {v.version : v \in ToSet(job.versions)} = numbers
  /\ newest \in numbers /\ \A n \in numbers : newest >= n
  /\ numbers \subseteq Nat
  /\ \A a \in job.allocs : a.version \in numbers
  /\ \E v \in ToSet(job.versions) : v.version = newest /\ v.submit = job.submit
  /\ \A d \in ToSet(job.deployments) : d.created <= d.modified /\ d.modified <= t
  /\ job.submit <= t

(* A job that matches satisfies what VersionsMatch asks of it. *)
LEMMA MatchesAll ==
  ASSUME NEW job, NEW t, NEW numbers, NEW newest, JobMatches(job, t, numbers, newest)
  PROVE  LET versions == {v.version : v \in ToSet(job.versions)}
         IN  /\ \A a \in job.allocs : a.version \in versions
             /\ \E v \in ToSet(job.versions) :
                  v.version = Max(versions) /\ v.submit = job.submit
             /\ \A d \in ToSet(job.deployments) :
                  d.created <= d.modified /\ d.modified <= t
             /\ job.submit <= t
<1>1. /\ {v.version : v \in ToSet(job.versions)} = numbers
      /\ newest \in numbers /\ numbers \subseteq Nat
      /\ \A n \in numbers : newest >= n
  BY DEF JobMatches
<1>2. Max(numbers) = newest
  <2>1. Max(numbers) \in numbers /\ \A n \in numbers : Max(numbers) >= n
    BY <1>1 DEF Max
  <2> DEFINE m == Max(numbers)
  <2> HIDE DEF m
  <2>2. m \in Nat /\ newest \in Nat /\ m >= newest /\ newest >= m
    BY <1>1, <2>1 DEF m
  <2>3. m = newest
    BY <2>2
  <2>4. QED
    BY <2>3 DEF m
<1> DEFINE versions == {v.version : v \in ToSet(job.versions)}
<1>3. versions = numbers
  BY <1>1
<1> HIDE DEF versions
<1>4. QED
  BY <1>2, <1>3 DEF JobMatches, versions

(* The members of a short history. *)
LEMMA OneVersion ==
  ASSUME NEW n, NEW s
  PROVE  /\ ToSet(<<JobVersion(n, s)>>) = {JobVersion(n, s)}
         /\ JobVersion(n, s).version = n /\ JobVersion(n, s).submit = s
         /\ {v.version : v \in {JobVersion(n, s)}} = {n}
<1>1. DOMAIN <<JobVersion(n, s)>> = {1}
  OBVIOUS
<1>2. QED
  BY <1>1 DEF ToSet, JobVersion

(* The members of a history of two. *)
LEMMA TwoVersions ==
  ASSUME NEW n, NEW s, NEW m, NEW r
  PROVE  /\ ToSet(<<JobVersion(n, s), JobVersion(m, r)>>) = {JobVersion(n, s), JobVersion(m, r)}
         /\ {v.version : v \in {JobVersion(n, s), JobVersion(m, r)}} = {n, m}
<1>1. DOMAIN <<JobVersion(n, s), JobVersion(m, r)>> = {1, 2}
  OBVIOUS
<1>2. JobVersion(n, s).version = n /\ JobVersion(m, r).version = m
  BY DEF JobVersion
<1>3. QED
  BY <1>1, <1>2 DEF ToSet

(* The allocations of a job that stands still are of its version. *)
LEMMA StableVersion ==
  ASSUME NEW job, NEW group, NEW version, NEW count, NEW offset,
         NEW client, NEW desired, NEW labels,
         NEW a \in StableAllocs(job, group, version, count, offset, client,
                                desired, labels)
  PROVE  a.version = version
  BY DEF StableAllocs, Alloc

(* A job that stands still has been deployed once, or never. *)
LEMMA StaticMatches ==
  ASSUME NEW id, NEW stop, NEW status, NEW ago \in Nat, NEW versions, NEW allocs,
         NEW outcome, NEW numbers, NEW newest, NEW t \in Nat, Epoch <= t,
         {v.version : v \in ToSet(versions)} = numbers,
         newest \in numbers, \A n \in numbers : newest >= n, numbers \subseteq Nat,
         \A a \in allocs : a.version \in numbers,
         JobVersion(newest, Epoch - ago) \in ToSet(versions)
  PROVE  JobMatches(StaticJob(id, stop, status, Epoch - ago, versions, allocs, outcome),
                    t, numbers, newest)
<1> DEFINE submit == Epoch - ago
           job == StaticJob(id, stop, status, submit, versions, allocs, outcome)
           once == Deployment(id, outcome, 1, submit - (Hour \div 60), submit, <<>>)
<1>1. submit \in Int /\ submit <= t /\ Hour \div 60 \in Nat
  <2>1. Hour \in Nat /\ 60 \in Nat \ {0} /\ Epoch \in Nat
    BY NomadDemoAssumption
  <2>2. Hour \div 60 \in Nat
    BY <2>1, DivFacts
  <2>3. QED
    BY <2>1, <2>2
<1>2. /\ job.versions = versions /\ job.allocs = allocs /\ job.submit = submit
      /\ job.deployments = IF outcome = "" THEN <<>> ELSE <<once>>
  BY DEF StaticJob
<1> HIDE DEF job
<1>3. \A d \in ToSet(job.deployments) : d = once
  <2>1. DOMAIN <<once>> = {1} /\ <<once>>[1] = once
    OBVIOUS
  <2> HIDE DEF once
  <2>2. ToSet(<<once>>) = {once} /\ ToSet(<<>>) = {}
    BY <2>1 DEF ToSet
  <2>3. QED
    BY <1>2, <2>2
<1>4. once.created = submit - (Hour \div 60) /\ once.modified = submit
  BY DEF Deployment
<1> DEFINE span == Hour \div 60
<1> HIDE DEF once, span, submit
<1>5. once.created <= once.modified /\ once.modified <= t
  <2>1. span \in Nat /\ once.created = submit - span
    BY <1>1, <1>4 DEF span
  <2>2. QED
    BY <1>1, <1>4, <2>1
<1>6. \E v \in ToSet(job.versions) : v.version = newest /\ v.submit = job.submit
  <2>1. JobVersion(newest, submit) \in ToSet(job.versions)
    BY <1>2 DEF submit
  <2>2. JobVersion(newest, submit).version = newest /\ JobVersion(newest, submit).submit = submit
    BY OneVersion
  <2>3. QED
    BY <1>2, <2>1, <2>2
<1>7. JobMatches(job, t, numbers, newest)
  BY <1>1, <1>2, <1>3, <1>5, <1>6 DEF JobMatches
<1>8. QED
  BY <1>7 DEF job, submit

(* The same, of a job with a single version. *)
LEMMA StaticOne ==
  ASSUME NEW id, NEW stop, NEW status, NEW ago \in Nat, NEW allocs,
         NEW outcome, NEW n \in Nat, NEW t \in Nat, Epoch <= t,
         \A a \in allocs : a.version = n
  PROVE  JobMatches(StaticJob(id, stop, status, Epoch - ago,
                              <<JobVersion(n, Epoch - ago)>>, allocs, outcome),
                    t, {n}, n)
<1> DEFINE versions == <<JobVersion(n, Epoch - ago)>>
<1>1. /\ ToSet(versions) = {JobVersion(n, Epoch - ago)}
      /\ {v.version : v \in ToSet(versions)} = {n}
  BY OneVersion
<1>2. n \in {n} /\ (\A m \in {n} : n >= m) /\ {n} \subseteq Nat
  OBVIOUS
<1>3. \A a \in allocs : a.version \in {n}
  OBVIOUS
<1>4. JobVersion(n, Epoch - ago) \in ToSet(versions)
  BY <1>1
<1> HIDE DEF versions
<1>5. JobMatches(StaticJob(id, stop, status, Epoch - ago, versions, allocs, outcome),
                 t, {n}, n)
  BY <1>1, <1>2, <1>3, <1>4, StaticMatches
<1>6. QED
  BY <1>5 DEF versions

(* Every job of the demo server matches. *)
LEMMA VersionsDoMatch ==
  ASSUME NEW t \in Nat, Epoch <= t
  PROVE  VersionsMatch(t)
<1> USE NomadDemoAssumption
<1>1. JobMatches(WebFrontend, t, {3}, 3)
  <2>1. 72 * Hour \in Nat
    OBVIOUS
  <2> DEFINE allocs == StableAllocs("web-frontend", "web", 3, 8, 0, "running", "run",
                               <<"http", "https">>)
  <2>2. \A a \in allocs : a.version = 3
    BY StableVersion
  <2> HIDE DEF allocs
  <2>3. QED
    BY <2>1, <2>2, StaticOne DEF WebFrontend, allocs
<1>2. JobMatches(ApiGateway, t, {4, 5}, 5)
  <2>1. 6 * Hour \in Nat
    OBVIOUS
  <2> DEFINE allocs == StableAllocs("api-gateway", "api", 5, 5, 8, "running", "run", <<"http">>)
             \cup StableAllocs("api-gateway", "api", 4, 1, 13, "running", "run", <<"http">>)
             versions == <<JobVersion(4, Epoch - 9 * 24 * Hour),
                           JobVersion(5, Epoch - 6 * Hour)>>
  <2>2. \A a \in allocs : a.version \in {4, 5}
    BY StableVersion
  <2>3. /\ {v.version : v \in ToSet(versions)} = {4, 5}
        /\ JobVersion(5, Epoch - 6 * Hour) \in ToSet(versions)
    BY TwoVersions
  <2>4. 5 \in {4, 5} /\ (\A n \in {4, 5} : 5 >= n) /\ {4, 5} \subseteq Nat
    OBVIOUS
  <2>5. ApiGateway = StaticJob("api-gateway", FALSE, "running", Epoch - 6 * Hour,
                               versions, allocs, "successful")
    BY DEF ApiGateway
  <2> HIDE DEF allocs, versions
  <2>6. QED
    BY <2>1, <2>2, <2>3, <2>4, <2>5, StaticMatches
<1>3. JobMatches(BatchWorker, t, {7}, 7)
  <2>1. 30 * Hour \in Nat
    OBVIOUS
  <2> DEFINE allocs == StableAllocs("batch-worker", "worker", 7, 3, 2, "running", "run", <<>>)
             \cup StableAllocs("batch-worker", "worker", 7, 1, 5, "failed", "stop", <<>>)
  <2>2. \A a \in allocs : a.version = 7
    BY StableVersion
  <2> HIDE DEF allocs
  <2>3. QED
    BY <2>1, <2>2, StaticOne DEF BatchWorker, allocs
<1>4. JobMatches(CronScheduler, t, {1}, 1)
  <2> DEFINE allocs == StableAllocs("cron-scheduler", "cron", 1, 1, 6, "running", "run", <<>>)
             since == 200 * Hour
  <2>2. \A a \in allocs : a.version = 1
    BY StableVersion
  <2>3. CronScheduler = StaticJob("cron-scheduler", FALSE, "running", Epoch - since,
                  <<JobVersion(1, Epoch - since)>>, allocs, "")
    BY DEF CronScheduler
  <2>4. since \in Nat
    OBVIOUS
  <2> HIDE DEF allocs, since
  <2>5. JobMatches(StaticJob("cron-scheduler", FALSE, "running", Epoch - since,
                  <<JobVersion(1, Epoch - since)>>, allocs, ""), t, {1}, 1)
    BY <2>2, <2>4, StaticOne
  <2>6. QED
    BY <2>3, <2>5
<1>5. JobMatches(LegacyCheckout, t, {11}, 11)
  <2> DEFINE allocs == StableAllocs("legacy-checkout", "checkout", 11, 2, 7, "complete", "stop", <<>>)
             since == 400 * Hour
  <2>2. \A a \in allocs : a.version = 11
    BY StableVersion
  <2>3. LegacyCheckout = StaticJob("legacy-checkout", TRUE, "dead", Epoch - since,
                  <<JobVersion(11, Epoch - since)>>, allocs, "")
    BY DEF LegacyCheckout
  <2>4. since \in Nat
    OBVIOUS
  <2> HIDE DEF allocs, since
  <2>5. JobMatches(StaticJob("legacy-checkout", TRUE, "dead", Epoch - since,
                  <<JobVersion(11, Epoch - since)>>, allocs, ""), t, {11}, 11)
    BY <2>2, <2>4, StaticOne
  <2>6. QED
    BY <2>3, <2>5
<1>6. LET cycle == CycleState(PaymentsApi, t)
      IN  JobMatches(DeployingJob(PaymentsApi, t), t, {cycle.old, cycle.new}, cycle.new)
  <2> DEFINE cycle == CycleState(PaymentsApi, t)
             job == DeployingJob(PaymentsApi, t)
             start == VersionSubmitTime(PaymentsApi, cycle.new)
             only == DeployDeployment(PaymentsApi, t)
             before == VersionSubmitTime(PaymentsApi, cycle.old)
  <2>1. /\ cycle.old \in Nat /\ cycle.new = cycle.old + 1
        /\ cycle.elapsed \in Nat /\ start = t - cycle.elapsed
    BY CycleFacts DEF CycleLength
  <2>2. /\ job.submit = start /\ job.allocs = DeployAllocations(PaymentsApi, t)
        /\ job.versions = <<JobVersion(cycle.old, before), JobVersion(cycle.new, start)>>
        /\ job.deployments = <<only>>
    BY DEF DeployingJob
  <2>3. /\ only.created = start
        /\ only.modified = IF cycle.elapsed < Rollout THEN t ELSE start + Rollout
    BY DEF DeployDeployment, Deployment
  <2>4. \A a \in job.allocs : a.version \in {cycle.old, cycle.new}
    BY <2>2, DeployHas, OfFacts
  <2> HIDE DEF cycle, job, start, only, before
  <2>5. only.created <= only.modified /\ only.modified <= t
    BY <2>1, <2>3
  <2>6. ToSet(job.deployments) = {only}
    <3>1. DOMAIN <<only>> = {1} /\ <<only>>[1] = only
      OBVIOUS
    <3>2. QED
      BY <2>2, <3>1 DEF ToSet
  <2>7. /\ ToSet(job.versions) = {JobVersion(cycle.old, before), JobVersion(cycle.new, start)}
        /\ {v.version : v \in ToSet(job.versions)} = {cycle.old, cycle.new}
    BY <2>2, TwoVersions
  <2>8. JobVersion(cycle.new, start).version = cycle.new
        /\ JobVersion(cycle.new, start).submit = start
    BY OneVersion
  <2>9. JobMatches(job, t, {cycle.old, cycle.new}, cycle.new)
    BY <2>1, <2>2, <2>4, <2>5, <2>6, <2>7, <2>8 DEF JobMatches
  <2>10. QED
    BY <2>9 DEF cycle, job
<1>7. \A job \in ToSet(Jobs(t)) : \E numbers, newest : JobMatches(job, t, numbers, newest)
  BY <1>1, <1>2, <1>3, <1>4, <1>5, <1>6, JobsAre
<1>8. QED
  BY <1>7, MatchesAll DEF VersionsMatch

(* At every instant the demo server's allocations, deployment, versions    *)
(* and times agree, whatever its durations are.                            *)
THEOREM SpecRolloutConsistent == USpec => []RolloutConsistent
<1>1. CallerTypes => RolloutConsistent
  BY CountsDoMatch, VersionsDoMatch DEF CallerTypes, RolloutConsistent
<1>2. QED
  BY <1>1, CallerTypesInit, CallerTypesStay, PTL DEF USpec

-----------------------------------------------------------------------------
(* The rollout only goes forward. *)

(* The numbers of the stages of a life. *)
LEMMA StageIs ==
  ASSUME NEW a
  PROVE  /\ a.client = "pending" /\ a.desired = "run" => Stage(a) = 1
         /\ a.client = "running" /\ a.desired = "run" => Stage(a) = 2
         /\ a.client = "running" /\ a.desired = "stop" => Stage(a) = 3
         /\ a.client = "complete" /\ a.desired = "stop" => Stage(a) = 4
<1>1. /\ DOMAIN Stages = 1 .. 4
      /\ Stages[1] = <<"pending", "run">> /\ Stages[2] = <<"running", "run">>
      /\ Stages[3] = <<"running", "stop">> /\ Stages[4] = <<"complete", "stop">>
  BY DEF Stages
<1>2. \A i \in 1 .. 4 : i = 1 \/ i = 2 \/ i = 3 \/ i = 4
  OBVIOUS
<1>3. ASSUME NEW i \in 1 .. 4, Stages[i] = <<a.client, a.desired>>,
             \A j \in 1 .. 4 : Stages[j] = <<a.client, a.desired>> => j = i
      PROVE  Stage(a) = i
  BY <1>1, <1>3 DEF Stage
<1>4. ASSUME a.client = "pending", a.desired = "run" PROVE Stage(a) = 1
  BY <1>1, <1>2, <1>3, <1>4
<1>5. ASSUME a.client = "running", a.desired = "run" PROVE Stage(a) = 2
  BY <1>1, <1>2, <1>3, <1>5
<1>6. ASSUME a.client = "running", a.desired = "stop" PROVE Stage(a) = 3
  BY <1>1, <1>2, <1>3, <1>6
<1>7. ASSUME a.client = "complete", a.desired = "stop" PROVE Stage(a) = 4
  BY <1>1, <1>2, <1>3, <1>7
<1>8. QED
  BY <1>4, <1>5, <1>6, <1>7

(* A quotient grows with what is divided. *)
LEMMA DivMonotone ==
  ASSUME NEW a \in Nat, NEW b \in Nat, a <= b, NEW d \in Nat \ {0}
  PROVE  a \div d <= b \div d
<1> DEFINE p == a \div d
           q == b \div d
<1>1. /\ p \in Nat /\ p * d <= a
      /\ q \in Nat /\ b < (q + 1) * d
  BY DivFacts
<1> HIDE DEF p, q
<1>2. p * d < (q + 1) * d
  <2>1. p * d \in Int /\ (q + 1) * d \in Int
    BY <1>1
  <2>2. QED
    BY <1>1, <2>1
<1>3. p < q + 1
  <2>1. \A x, y \in Nat : x >= y => x * d >= y * d
    OBVIOUS
  <2>2. p * d \in Int /\ (q + 1) * d \in Int /\ q + 1 \in Nat
    BY <1>1
  <2>3. QED
    BY <1>1, <1>2, <2>1, <2>2
<1>4. QED
  BY <1>1, <1>3 DEF p, q

(* The version rolled out only grows. *)
LEMMA VersionGrows ==
  ASSUME NEW t \in Nat, NEW u \in Nat, Epoch <= t, t <= u
  PROVE  Version(t) <= Version(u)
<1>1. CycleLength \in Nat \ {0} /\ Epoch \in Nat
  BY NomadDemoAssumption DEF CycleLength
<1>2. \A x \in Nat : Epoch <= x =>
        Version(x) = 12 + ((x - Epoch) \div CycleLength) + 1
  BY <1>1 DEF Version, CycleState, PaymentsApi
<1> DEFINE before == (t - Epoch) \div CycleLength
           after  == (u - Epoch) \div CycleLength
<1>3. before <= after /\ before \in Int /\ after \in Int
  BY <1>1, DivMonotone
<1>4. Version(t) = 12 + before + 1 /\ Version(u) = 12 + after + 1
  BY <1>1, <1>2
<1> HIDE DEF before, after
<1>5. QED
  BY <1>3, <1>4

(* No allocation goes back, and the IDs that are new are of newer versions. *)
LEMMA LivesForward ==
  ASSUME NEW t \in Nat, NEW u \in Nat, Epoch <= t, t <= u
  PROVE  AllocationsForward(t, u)
<1> DEFINE before == CycleState(PaymentsApi, t)
           after == CycleState(PaymentsApi, u)
<1>1. /\ before.old \in Nat /\ before.new = before.old + 1
      /\ after.old \in Nat /\ after.new = after.old + 1
      /\ before.new <= after.new
  <2>1. Epoch <= u
    BY NomadDemoAssumption
  <2>2. before.old \in Nat /\ before.new = before.old + 1
    BY CycleFacts
  <2>3. after.old \in Nat /\ after.new = after.old + 1
    BY <2>1, CycleFacts
  <2>4. before.new <= after.new
    BY VersionGrows DEF Version
  <2>5. QED
    BY <2>2, <2>3, <2>4
<1>2. after.new = before.new =>
        before.elapsed \in Int /\ after.elapsed \in Int /\ before.elapsed <= after.elapsed
  BY ElapsedGrows DEF Version
<1> HIDE DEF before, after
<1>3. ASSUME NEW a \in DeployAllocations(PaymentsApi, u)
      PROVE  \/ \E b \in DeployAllocations(PaymentsApi, t) :
                  b.id = a.id /\ Stage(b) <= Stage(a)
             \/ /\ a.version > before.old
                /\ \A b \in DeployAllocations(PaymentsApi, t) : b.id # a.id
  <2>1. PICK g \in {1, 2} : \E s \in Slots(PaymentsApi.groups[g]) :
          \/ a = OldOf(g, s, u)
          \/ StageAt(g, s, u) # "notStarted" /\ a = NewOf(g, s, u)
    BY DeployHas
  <2>2. PICK s \in Slots(PaymentsApi.groups[g]) :
          \/ a = OldOf(g, s, u)
          \/ StageAt(g, s, u) # "notStarted" /\ a = NewOf(g, s, u)
    BY <2>1
  <2>3. \A x : StageAt(g, s, x) \in {"notStarted", "replacing", "replaced"}
    BY ThreePhases DEF StageAt
  <2>4. /\ OldOf(g, s, t) \in DeployAllocations(PaymentsApi, t)
        /\ StageAt(g, s, t) # "notStarted"
             => NewOf(g, s, t) \in DeployAllocations(PaymentsApi, t)
    BY DeployHas
  <2>5. \A x : /\ OldOf(g, s, x).client = IF StageAt(g, s, x) = "replaced" THEN "complete" ELSE "running"
               /\ OldOf(g, s, x).desired = IF StageAt(g, s, x) = "notStarted" THEN "run" ELSE "stop"
               /\ NewOf(g, s, x).client = IF StageAt(g, s, x) = "replaced" THEN "running" ELSE "pending"
               /\ NewOf(g, s, x).desired = "run"
    BY OfFacts
  <2>6. \A x : /\ Stage(OldOf(g, s, x)) = IF StageAt(g, s, x) = "notStarted" THEN 2
                                     ELSE IF StageAt(g, s, x) = "replaced" THEN 4 ELSE 3
               /\ Stage(NewOf(g, s, x)) = IF StageAt(g, s, x) = "replaced" THEN 2 ELSE 1
    BY <2>3, <2>5, StageIs
  <2>7. /\ OldOf(g, s, t).id = <<PaymentsApi.id, PaymentsApi.groups[g].name, s, before.old>>
        /\ NewOf(g, s, t).id = <<PaymentsApi.id, PaymentsApi.groups[g].name, s, before.new>>
        /\ OldOf(g, s, u).id = <<PaymentsApi.id, PaymentsApi.groups[g].name, s, after.old>>
        /\ NewOf(g, s, u).id = <<PaymentsApi.id, PaymentsApi.groups[g].name, s, after.new>>
        /\ OldOf(g, s, u).version = after.old /\ NewOf(g, s, u).version = after.new
    BY OfFacts DEF before, after
  <2>8. ASSUME NEW b \in DeployAllocations(PaymentsApi, t), b.id = a.id
        PROVE  \/ b = OldOf(g, s, t)
               \/ StageAt(g, s, t) # "notStarted" /\ b = NewOf(g, s, t)
    <3>1. PICK h \in {1, 2} : \E r \in Slots(PaymentsApi.groups[h]) :
            \/ b = OldOf(h, r, t)
            \/ StageAt(h, r, t) # "notStarted" /\ b = NewOf(h, r, t)
      BY DeployHas
    <3>2. PICK r \in Slots(PaymentsApi.groups[h]) :
            \/ b = OldOf(h, r, t)
            \/ StageAt(h, r, t) # "notStarted" /\ b = NewOf(h, r, t)
      BY <3>1
    <3>3. \E v : b.id = <<PaymentsApi.id, PaymentsApi.groups[h].name, r, v>>
      BY <3>2, OfFacts
    <3>4. \/ a.id = <<PaymentsApi.id, PaymentsApi.groups[g].name, s, after.old>>
          \/ a.id = <<PaymentsApi.id, PaymentsApi.groups[g].name, s, after.new>>
      BY <2>2, <2>7
    <3>5. PaymentsApi.groups[h].name = PaymentsApi.groups[g].name /\ r = s
      BY <2>8, <3>3, <3>4
    <3>6. h = g
      BY <3>5, PaymentsGroups
    <3>7. QED
      BY <3>2, <3>5, <3>6
  <2>9. CASE after.new = before.new
    <3>1. /\ StageAt(g, s, t) # "notStarted" => StageAt(g, s, u) # "notStarted"
          /\ StageAt(g, s, t) = "replaced" => StageAt(g, s, u) = "replaced"
      BY <1>2, <2>9, StageForward DEF StageAt, before, after
    <3>2. after.old = before.old /\ before.old # before.new
      BY <1>1, <2>9
    <3>3. CASE a = OldOf(g, s, u)
      <4>1. Stage(OldOf(g, s, t)) <= Stage(OldOf(g, s, u))
        BY <2>3, <2>6, <3>1
      <4>2. QED
        BY <2>4, <2>7, <3>2, <3>3, <4>1
    <3>4. CASE a = NewOf(g, s, u) /\ StageAt(g, s, t) # "notStarted"
      <4>1. Stage(NewOf(g, s, t)) <= Stage(NewOf(g, s, u))
        BY <2>3, <2>6, <3>1
      <4>2. QED
        BY <2>4, <2>7, <2>9, <3>4, <4>1
    <3>5. CASE a = NewOf(g, s, u) /\ StageAt(g, s, t) = "notStarted"
      <4>1. a.version > before.old
        BY <1>1, <2>7, <2>9, <3>5
      <4>2. a.id # OldOf(g, s, t).id
        BY <2>7, <2>9, <3>2, <3>5
      <4>3. QED
        BY <2>8, <3>5, <4>1, <4>2
    <3>6. QED
      BY <2>2, <3>3, <3>4, <3>5
  <2>10. CASE after.new # before.new
    <3>1. after.old >= before.new /\ after.new > before.new /\ before.new > before.old
      BY <1>1, <2>10
    <3>2. a.version > before.old
      BY <1>1, <2>2, <2>7, <3>1
    <3>3. CASE \E b \in DeployAllocations(PaymentsApi, t) : b.id = a.id
      <4>1. PICK b \in DeployAllocations(PaymentsApi, t) : b.id = a.id
        BY <3>3
      <4>2. b.id[4] \in {before.old, before.new} /\ a.id[4] \in {after.old, after.new}
        BY <2>2, <2>7, <2>8, <4>1
      <4>3. b = NewOf(g, s, t) /\ a = OldOf(g, s, u)
        <5>1. a.id[4] = before.new /\ a.id[4] = after.old
          BY <1>1, <3>1, <4>1, <4>2
        <5>2. OldOf(g, s, t).id[4] = before.old /\ NewOf(g, s, u).id[4] = after.new
          BY <2>7
        <5>3. QED
          BY <1>1, <2>2, <2>8, <3>1, <4>1, <5>1, <5>2
      <4>4. Stage(b) <= Stage(a)
        BY <2>3, <2>6, <4>3
      <4>5. QED
        BY <4>1, <4>4
    <3>4. QED
      BY <3>2, <3>3
  <2>11. QED
    BY <2>9, <2>10
<1>4. QED
  BY <1>3 DEF AllocationsForward, before

-----------------------------------------------------------------------------
(* What a fold of known length is. *)

(* One step of a fold over 1 .. n, from the right. *)
Iter(n, base, op, it) ==
  [s \in SUBSET (1 .. n) |->
     IF s = {} THEN base ELSE op[<<Max(s), it[s \ {Max(s)}]>>]]

(* The fold over 1 .. n is defined, and its results are of a type. *)
Folds(n, Val, base, op) ==
  \E it \in [SUBSET (1 .. n) -> Val] : it = Iter(n, base, op, it)

(* A greatest element is the maximum. *)
LEMMA MaxIs ==
  ASSUME NEW T, NEW m \in T, m \in Int, \A x \in T : x \in Int /\ x <= m
  PROVE  Max(T) = m
<1>1. \A x \in T : (\A y \in T : x >= y) <=> x = m
  OBVIOUS
<1>2. QED
  BY <1>1 DEF Max

(* A fold over n elements is defined over one more. *)
LEMMA IterStep ==
  ASSUME NEW n \in Nat, NEW Val, NEW base \in Val, NEW op, NEW m, m = n + 1,
         \A v \in Val : op[<<m, v>>] \in Val,
         Folds(n, Val, base, op)
  PROVE  Folds(m, Val, base, op)
<1>1. PICK it \in [SUBSET (1 .. n) -> Val] : it = Iter(n, base, op, it)
  BY DEF Folds
<1> DEFINE next == [s \in SUBSET (1 .. (n + 1)) |->
                      IF n + 1 \in s THEN op[<<n + 1, it[s \ {n + 1}]>>] ELSE it[s]]
<1>2. /\ n + 1 \notin 1 .. n
      /\ \A s \in SUBSET (1 .. (n + 1)) :
           /\ s \ {n + 1} \in SUBSET (1 .. n)
           /\ n + 1 \notin s => s \in SUBSET (1 .. n)
           /\ n + 1 \in s => Max(s) = n + 1
  <2>1. n + 1 \notin 1 .. n /\ 1 .. (n + 1) = (1 .. n) \cup {n + 1}
    OBVIOUS
  <2>2. ASSUME NEW s \in SUBSET (1 .. (n + 1)), n + 1 \in s
        PROVE  Max(s) = n + 1
    <3>1. \A x \in s : x \in Int /\ x <= n + 1
      OBVIOUS
    <3>2. QED
      BY <2>2, <3>1, MaxIs
  <2>3. QED
    BY <2>1, <2>2
<1>3. ASSUME NEW s \in SUBSET (1 .. (n + 1))
      PROVE  next[s] = Iter(n + 1, base, op, next)[s]
  <2>1. Iter(n + 1, base, op, next)[s] =
          IF s = {} THEN base ELSE op[<<Max(s), next[s \ {Max(s)}]>>]
    BY DEF Iter
  <2>2. CASE n + 1 \in s
    <3> DEFINE r == s \ {n + 1}
    <3>1. /\ s # {} /\ Max(s) = n + 1
          /\ r \in SUBSET (1 .. (n + 1)) /\ n + 1 \notin r
      BY <1>2, <2>2
    <3>2. next[r] = it[r] /\ next[s] = op[<<n + 1, it[r]>>]
      BY <2>2, <3>1
    <3> HIDE DEF next
    <3>3. QED
      BY <2>1, <3>1, <3>2
  <2>3. CASE n + 1 \notin s
    <3>1. s \in SUBSET (1 .. n) /\ next[s] = it[s]
      BY <1>2, <2>3
    <3>2. it[s] = IF s = {} THEN base ELSE op[<<Max(s), it[s \ {Max(s)}]>>]
      BY <1>1, <3>1 DEF Iter
    <3>3. CASE s = {}
      BY <2>1, <3>1, <3>2, <3>3
    <3>4. CASE s # {}
      <4> DEFINE r == s \ {Max(s)}
      <4>1. r \in SUBSET (1 .. (n + 1)) /\ n + 1 \notin r
        BY <2>3, <3>1
      <4>2. next[r] = it[r]
        BY <4>1
      <4> HIDE DEF next
      <4>3. QED
        BY <2>1, <3>1, <3>2, <3>4, <4>2
    <3>5. QED
      BY <3>3, <3>4
  <2>4. QED
    BY <2>2, <2>3
<1>4. next = Iter(n + 1, base, op, next)
  <2>1. DOMAIN next = DOMAIN Iter(n + 1, base, op, next)
    BY DEF Iter
  <2>2. QED
    BY <1>3, <2>1 DEF Iter
<1>5. next \in [SUBSET (1 .. (n + 1)) -> Val]
  <2>1. ASSUME NEW s \in SUBSET (1 .. (n + 1)) PROVE next[s] \in Val
    <3>1. n + 1 \in s => it[s \ {n + 1}] \in Val
      BY <1>2
    <3>2. n + 1 \notin s => it[s] \in Val
      BY <1>2
    <3>3. QED
      BY <3>1, <3>2
  <2>2. QED
    BY <2>1
<1> HIDE DEF next
<1>6. QED
  BY <1>4, <1>5 DEF Folds

(* The fold over nothing is defined. *)
LEMMA IterBegins ==
  ASSUME NEW Val, NEW base \in Val, NEW op
  PROVE  Folds(0, Val, base, op)
<1> DEFINE it == [s \in SUBSET (1 .. 0) |-> base]
<1>1. \A s \in SUBSET (1 .. 0) : s = {}
  <2>1. 1 .. 0 = {}
    OBVIOUS
  <2>2. QED
    BY <2>1
<1>2. it = Iter(0, base, op, it)
  BY <1>1 DEF Iter
<1>3. it \in [SUBSET (1 .. 0) -> Val]
  OBVIOUS
<1>4. QED
  BY <1>2, <1>3 DEF Folds

(* The sum over two task groups. *)
LEMMA TotalOfTwo ==
  ASSUME NEW groups, DOMAIN groups = {1, 2}, NEW field,
         groups[1][field] \in Nat, groups[2][field] \in Nat
  PROVE  D!Total(groups, field) = groups[1][field] + groups[2][field]
<1> DEFINE op == [x \in (1 .. 2) \X Nat |-> x[2] + groups[x[1]][field]]
           Sum(it) == [s \in SUBSET (1 .. 2) |->
                         IF s = {} THEN 0
                         ELSE it[s \ {D!Max(s)}] + groups[D!Max(s)][field]]
<1>1. \A v \in Nat : /\ op[<<1, v>>] \in Nat /\ op[<<1, v>>] = v + groups[1][field]
                     /\ op[<<2, v>>] \in Nat /\ op[<<2, v>>] = v + groups[2][field]
  OBVIOUS
<1>2. \A s \in SUBSET (1 .. 2) : \A v \in Nat :
        s # {} => op[<<Max(s), v>>] = v + groups[D!Max(s)][field]
  <2>1. ASSUME NEW s \in SUBSET (1 .. 2), s # {} PROVE Max(s) \in 1 .. 2
    <3>1. CASE 2 \in s
      <4>1. 2 \in Int /\ \A x \in s : x \in Int /\ x <= 2
        OBVIOUS
      <4>2. QED
        BY <3>1, <4>1, MaxIs
    <3>2. CASE 2 \notin s
      <4>2. \A x \in 1 .. 2 : x = 1 \/ x = 2
        OBVIOUS
      <4>4. \A x \in s : x = 1
        BY <3>2, <4>2
      <4>5. \A x \in s : x \in Int /\ x <= 1
        BY <4>4
      <4>6. s = {1}
        BY ONLY <2>1, <4>4
      <4>1. 1 \in Int /\ 1 \in s /\ \A x \in s : x \in Int /\ x <= 1
        BY <4>5, <4>6
      <4>3. QED
        BY <4>1, MaxIs
    <3>3. QED
      BY <3>1, <3>2
  <2>2. \A s : D!Max(s) = Max(s)
    BY DEF D!Max, Max
  <2>3. QED
    BY <2>1, <2>2
<1> HIDE DEF op
<1>3. PICK it \in [SUBSET (1 .. 2) -> Nat] : it = Iter(2, 0, op, it)
  <2>1. Folds(0, Nat, 0, op)
    BY IterBegins
  <2>2. Folds(1, Nat, 0, op)
    <3>1. 1 = 0 + 1 /\ 0 \in Nat
      OBVIOUS
    <3>2. \A v \in Nat : op[<<1, v>>] \in Nat
      BY <1>1
    <3>3. QED
      BY ONLY <2>1, <3>1, <3>2, IterStep
  <2>3. Folds(2, Nat, 0, op)
    <3>1. 2 = 1 + 1 /\ 0 \in Nat /\ 1 \in Nat
      OBVIOUS
    <3>2. \A v \in Nat : op[<<2, v>>] \in Nat
      BY <1>1
    <3>3. QED
      BY ONLY <2>2, <3>1, <3>2, IterStep
  <2>4. QED
    BY <2>3 DEF Folds
<1>4. it = Sum(it)
  <2>1. \A s \in SUBSET (1 .. 2) :
          it[s] = IF s = {} THEN 0 ELSE it[s \ {D!Max(s)}] + groups[D!Max(s)][field]
    <3>1. ASSUME NEW s \in SUBSET (1 .. 2), s # {}
          PROVE  it[s] = it[s \ {D!Max(s)}] + groups[D!Max(s)][field]
      <4>1. it[s] = op[<<Max(s), it[s \ {Max(s)}]>>]
        BY <1>3, <3>1 DEF Iter
      <4>2. it[s \ {Max(s)}] \in Nat
        OBVIOUS
      <4>3. D!Max(s) = Max(s)
        BY DEF D!Max, Max
      <4>4. QED
        BY <1>2, <3>1, <4>1, <4>2, <4>3
    <3>2. it[{}] = 0
      BY <1>3 DEF Iter
    <3>3. QED
      BY <3>1, <3>2
  <2>2. QED
    BY <2>1
<1> DEFINE c == CHOOSE r : r = Sum(r)
<1>5. c = Sum(c)
  BY <1>4
<1>6. D!Total(groups, field) = c[1 .. 2]
  <2>1. 1 .. 2 = {1, 2}
    OBVIOUS
  <2>2. QED
    BY <2>1 DEF D!Total, D!FoldLeft, D!MapThenFoldSet
<1>7. c[1 .. 2] = groups[1][field] + groups[2][field]
  <2>1. D!Max({1}) = 1 /\ D!Max({1, 2}) = 2
    <3>1. /\ 1 \in {1} /\ 1 \in Int /\ \A x \in {1} : x \in Int /\ x <= 1
          /\ 2 \in {1, 2} /\ 2 \in Int /\ \A x \in {1, 2} : x \in Int /\ x <= 2
      OBVIOUS
    <3>2. Max({1}) = 1 /\ Max({1, 2}) = 2
      BY <3>1, MaxIs
    <3>3. QED
      BY <3>2 DEF D!Max, Max
  <2>2. /\ 1 .. 2 = {1, 2} /\ {1, 2} \ {2} = {1} /\ {1} \ {1} = {} /\ {1} # {} /\ {1, 2} # {}
        /\ {} \in SUBSET (1 .. 2) /\ {1} \in SUBSET (1 .. 2) /\ {1, 2} \in SUBSET (1 .. 2)
    OBVIOUS
  <2> HIDE DEF c
  <2>3. \A s \in SUBSET (1 .. 2) :
          c[s] = IF s = {} THEN 0 ELSE c[s \ {D!Max(s)}] + groups[D!Max(s)][field]
    BY <1>5
  <2>4. c[{}] = 0
    BY <2>2, <2>3
  <2>5. c[{1}] = c[{}] + groups[1][field]
    BY <2>1, <2>2, <2>3
  <2>6. c[{1, 2}] = c[{1}] + groups[2][field]
    BY <2>1, <2>2, <2>3
  <2>7. QED
    BY <2>2, <2>4, <2>5, <2>6
<1>8. QED
  BY <1>6, <1>7

(* A sequence and one element more. *)
Extended(s, x) == s \o <<x>>

(* What is extended keeps its elements. *)
LEMMA ExtendedKeeps ==
  ASSUME NEW V, NEW s \in Seq(V), NEW x \in V, NEW i \in 1 .. Len(s)
  PROVE  Extended(s, x)[i] = s[i]
<1> DEFINE y == <<x>>
<1>1. y \in Seq(V) /\ Len(y) = 1
  OBVIOUS
<1> HIDE DEF y
<1>2. Len(s) \in Nat /\ i \in Int /\ i >= 1 /\ i <= Len(s)
  OBVIOUS
<1>3. i \in 1 .. (Len(s) + Len(y))
  BY <1>1, <1>2
<1>4. (s \o y)[i] = s[i]
  BY <1>1, <1>2, <1>3, ConcatProperties
<1>5. QED
  BY <1>4 DEF Extended, y

(* What is extended has one element more. *)
LEMMA ExtendedAdds ==
  ASSUME NEW V, NEW s \in Seq(V), NEW x \in V
  PROVE  LET r == Extended(s, x)
         IN  r \in Seq(V) /\ Len(r) = Len(s) + 1 /\ r[Len(s) + 1] = x
<1> DEFINE y == <<x>>
<1>1. y \in Seq(V) /\ Len(y) = 1 /\ y[1] = x
  OBVIOUS
<1> HIDE DEF y
<1>2. /\ s \o y \in Seq(V) /\ Len(s \o y) = Len(s) + Len(y)
      /\ \A i \in 1 .. (Len(s) + Len(y)) :
           (s \o y)[i] = IF i <= Len(s) THEN s[i] ELSE y[i - Len(s)]
  BY <1>1, ConcatProperties
<1>3. /\ Len(s) \in Nat /\ Len(s) + 1 \in 1 .. (Len(s) + 1)
      /\ (Len(s) + 1) - Len(s) = 1 /\ ~(Len(s) + 1 <= Len(s))
  OBVIOUS
<1>4. (s \o y)[Len(s) + 1] = x
  BY <1>1, <1>2, <1>3
<1>5. QED
  BY <1>1, <1>2, <1>4 DEF Extended, y

(* A second, a third and a fourth element. *)
LEMMA SecondAdded ==
  ASSUME NEW V, NEW s \in Seq(V), Len(s) = 1, NEW x \in V, NEW r, r = Extended(s, x)
  PROVE  r \in Seq(V) /\ Len(r) = 2 /\ r[1] = s[1] /\ r[2] = x
<1>1. r \in Seq(V) /\ Len(r) = Len(s) + 1 /\ r[Len(s) + 1] = x
  BY ExtendedAdds
<1>2. 1 \in 1 .. Len(s)
  OBVIOUS
<1>3. r[1] = s[1]
  BY <1>2, ExtendedKeeps
<1>4. QED
  BY <1>1, <1>3

LEMMA ThirdAdded ==
  ASSUME NEW V, NEW s \in Seq(V), Len(s) = 2, NEW x \in V, NEW r, r = Extended(s, x)
  PROVE  r \in Seq(V) /\ Len(r) = 3 /\ r[1] = s[1] /\ r[2] = s[2] /\ r[3] = x
<1>1. r \in Seq(V) /\ Len(r) = Len(s) + 1 /\ r[Len(s) + 1] = x
  BY ExtendedAdds
<1>2. 1 \in 1 .. Len(s) /\ 2 \in 1 .. Len(s)
  OBVIOUS
<1>3. r[1] = s[1] /\ r[2] = s[2]
  BY <1>2, ExtendedKeeps
<1>4. QED
  BY <1>1, <1>3

LEMMA FourthAdded ==
  ASSUME NEW V, NEW s \in Seq(V), Len(s) = 3, NEW x \in V, NEW r, r = Extended(s, x)
  PROVE  r \in Seq(V) /\ Len(r) = 4 /\ r[1] = s[1] /\ r[2] = s[2] /\ r[3] = s[3] /\ r[4] = x
<1>1. r \in Seq(V) /\ Len(r) = Len(s) + 1 /\ r[Len(s) + 1] = x
  BY ExtendedAdds
<1>2. 1 \in 1 .. Len(s) /\ 2 \in 1 .. Len(s) /\ 3 \in 1 .. Len(s)
  OBVIOUS
<1>3. r[1] = s[1] /\ r[2] = s[2] /\ r[3] = s[3]
  BY <1>2, ExtendedKeeps
<1>4. QED
  BY <1>1, <1>3

(* The demo server lists four deployments, of which only the last is of    *)
(* the job that is rolled out.                                             *)
LEMMA FourDeployments ==
  ASSUME NEW t
  PROVE  LET list == ListDeployments(t)
         IN  /\ DOMAIN list = 1 .. 4
             /\ list[4] = DeployDeployment(PaymentsApi, t)
             /\ \A i \in 1 .. 3 :
                  "job" \in DOMAIN list[i] /\ list[i].job # PaymentsApi.id
<1> DEFINE w == WebFrontend.deployments[1]
           a == ApiGateway.deployments[1]
           b == BatchWorker.deployments[1]
           p == DeployDeployment(PaymentsApi, t)
           Its(i) == Jobs(t)[i].deployments
           Val == Seq({w, a, b, p})
           op == [x \in ({Max(s) : s \in SUBSET (1 .. 6)} \cup 1 .. 6) \X Val |->
                    x[2] \o Its(x[1])]
           Cat(it) == [s \in SUBSET (1 .. 6) |->
                         IF s = {} THEN <<>> ELSE it[s \ {Max(s)}] \o Its(Max(s))]
<1>1. /\ Its(1) = <<w>> /\ Its(2) = <<a>> /\ Its(3) = <<b>>
      /\ Its(4) = <<>> /\ Its(5) = <<>> /\ Its(6) = <<p>>
      /\ w.job = "web-frontend" /\ a.job = "api-gateway" /\ b.job = "batch-worker"
      /\ "job" \in DOMAIN w /\ "job" \in DOMAIN a /\ "job" \in DOMAIN b
  <2>1. /\ Jobs(t)[1] = WebFrontend /\ Jobs(t)[2] = ApiGateway /\ Jobs(t)[3] = BatchWorker
        /\ Jobs(t)[4] = CronScheduler /\ Jobs(t)[5] = LegacyCheckout
        /\ Jobs(t)[6] = DeployingJob(PaymentsApi, t)
    BY DEF Jobs
  <2>2. WebFrontend.deployments = <<w>> /\ w.job = "web-frontend" /\ "job" \in DOMAIN w
    BY DEF WebFrontend, StaticJob, Deployment
  <2>3. ApiGateway.deployments = <<a>> /\ a.job = "api-gateway" /\ "job" \in DOMAIN a
    BY DEF ApiGateway, StaticJob, Deployment
  <2>4. BatchWorker.deployments = <<b>> /\ b.job = "batch-worker" /\ "job" \in DOMAIN b
    BY DEF BatchWorker, StaticJob, Deployment
  <2>5. CronScheduler.deployments = <<>>
    BY DEF CronScheduler, StaticJob
  <2>6. LegacyCheckout.deployments = <<>>
    BY DEF LegacyCheckout, StaticJob
  <2>7. DeployingJob(PaymentsApi, t).deployments = <<p>>
    BY DEF DeployingJob
  <2>8. QED
    BY <2>1, <2>2, <2>3, <2>4, <2>5, <2>6, <2>7
<1>2. DOMAIN Jobs(t) = 1 .. 6
  BY DEF Jobs
<1> HIDE DEF w, a, b, p
<1>3. \A i \in 1 .. 6 : Its(i) \in Val
  <2>1. <<w>> \in Val /\ <<a>> \in Val /\ <<b>> \in Val /\ <<p>> \in Val /\ <<>> \in Val
    OBVIOUS
  <2>2. \A i \in 1 .. 6 : i = 1 \/ i = 2 \/ i = 3 \/ i = 4 \/ i = 5 \/ i = 6
    OBVIOUS
  <2> HIDE DEF Val, Its
  <2>3. QED
    BY <1>1, <2>1, <2>2
<1> HIDE DEF Its
<1>4. \A i \in 1 .. 6 : \A v \in Val : op[<<i, v>>] \in Val
  <2>1. \A i \in 1 .. 6 : \A v \in Val : op[<<i, v>>] = v \o Its(i)
    <3> HIDE DEF Val
    <3>1. QED
      OBVIOUS
  <2>2. \A u, v \in Val : u \o v \in Val
    OBVIOUS
  <2> HIDE DEF Val, op
  <2>3. QED
    BY <1>3, <2>1, <2>2
<1>5. \A s \in SUBSET (1 .. 6) : \A v \in Val : op[<<Max(s), v>>] = v \o Its(Max(s))
  <2> HIDE DEF Val
  <2>1. QED
    OBVIOUS
<1>6. <<>> \in Val
  OBVIOUS
<1> HIDE DEF op, Val
<1>7. Folds(6, Val, <<>>, op)
  <2>1. \A n \in 0 .. 5 : \A m : Folds(n, Val, <<>>, op) /\ m = n + 1 => Folds(m, Val, <<>>, op)
    <3>1. ASSUME NEW n \in 0 .. 5, NEW m, Folds(n, Val, <<>>, op), m = n + 1
          PROVE  Folds(m, Val, <<>>, op)
      <4>1. n \in Nat /\ m \in 1 .. 6
        BY <3>1
      <4>2. \A v \in Val : op[<<m, v>>] \in Val
        BY <1>4, <4>1
      <4>3. QED
        BY ONLY <1>6, <3>1, <4>1, <4>2, IterStep
    <3>2. QED
      BY <3>1
  <2>2. Folds(0, Val, <<>>, op)
    BY <1>6, IterBegins
  <2>3. Folds(1, Val, <<>>, op) /\ Folds(2, Val, <<>>, op) /\ Folds(3, Val, <<>>, op)
    BY <2>1, <2>2
  <2>4. QED
    BY <2>1, <2>3
<1>8. PICK it \in [SUBSET (1 .. 6) -> Val] : it = Iter(6, <<>>, op, it)
  BY <1>7 DEF Folds
<1>9. it = Cat(it)
  <2>1. ASSUME NEW s \in SUBSET (1 .. 6)
        PROVE  it[s] = IF s = {} THEN <<>> ELSE it[s \ {Max(s)}] \o Its(Max(s))
    <3>1. it[s] = IF s = {} THEN <<>> ELSE op[<<Max(s), it[s \ {Max(s)}]>>]
      BY <1>8 DEF Iter
    <3>2. it[s \ {Max(s)}] \in Val
      OBVIOUS
    <3>3. op[<<Max(s), it[s \ {Max(s)}]>>] = it[s \ {Max(s)}] \o Its(Max(s))
      BY <1>5, <3>2
    <3>4. QED
      BY <3>1, <3>3
  <2>2. QED
    BY <2>1
<1> DEFINE c == CHOOSE r : r = Cat(r)
<1>10. c = Cat(c)
  BY <1>9
<1>11. ListDeployments(t) = c[1 .. 6]
  BY <1>2 DEF ListDeployments, FoldLeft, MapThenFoldSet, Its
<1>12. /\ c[{}] = <<>>
       /\ \A k \in 1 .. 6 : \A m : m = k - 1 => c[1 .. k] = c[1 .. m] \o Its(k)
  <2> HIDE DEF c
  <2>1. \A s \in SUBSET (1 .. 6) :
          c[s] = IF s = {} THEN <<>> ELSE c[s \ {Max(s)}] \o Its(Max(s))
    BY <1>10
  <2>2. ASSUME NEW k \in 1 .. 6, NEW m, m = k - 1
        PROVE  c[1 .. k] = c[1 .. m] \o Its(k)
    <3>1. k \in 1 .. k /\ k \in Int /\ \A x \in 1 .. k : x \in Int /\ x <= k
      OBVIOUS
    <3>2. Max(1 .. k) = k
      BY <3>1, MaxIs
    <3>3. (1 .. k) \ {k} = 1 .. m /\ 1 .. k \in SUBSET (1 .. 6) /\ 1 .. k # {}
      <4>1. (1 .. k) \ {k} = 1 .. m
        BY <2>2
      <4>2. 1 .. k \in SUBSET (1 .. 6)
        OBVIOUS
      <4>3. QED
        BY <3>1, <4>1, <4>2
    <3>4. QED
      BY <2>1, <3>2, <3>3
  <2>3. QED
    BY <2>1, <2>2
<1> DEFINE first(k) == c[1 .. k]
<1> HIDE DEF c
<1>13. /\ first(0) = <<>>
       /\ first(1) = <<w>> /\ first(2) = Extended(first(1), a)
       /\ first(3) = Extended(first(2), b) /\ first(4) = first(3) \o <<>>
       /\ first(5) = first(4) \o <<>> /\ first(6) = Extended(first(5), p)
  <2>1. first(0) = <<>>
    <3>1. 1 .. 0 = {}
      OBVIOUS
    <3>2. QED
      BY <1>12, <3>1
  <2>2. \A k \in 1 .. 6 : \A m : m = k - 1 => first(k) = first(m) \o Its(k)
    BY <1>12
  <2> HIDE DEF first
  <2>3. /\ 1 \in 1 .. 6 /\ 0 = 1 - 1 /\ 2 \in 1 .. 6 /\ 1 = 2 - 1
        /\ 3 \in 1 .. 6 /\ 2 = 3 - 1 /\ 4 \in 1 .. 6 /\ 3 = 4 - 1
        /\ 5 \in 1 .. 6 /\ 4 = 5 - 1 /\ 6 \in 1 .. 6 /\ 5 = 6 - 1
    OBVIOUS
  <2>4. /\ first(1) = first(0) \o Its(1) /\ first(2) = first(1) \o Its(2)
        /\ first(3) = first(2) \o Its(3)
    BY <2>2, <2>3
  <2>5. /\ first(4) = first(3) \o Its(4) /\ first(5) = first(4) \o Its(5)
        /\ first(6) = first(5) \o Its(6)
    BY <2>2, <2>3
  <2>6. first(1) = <<w>>
    <3> DEFINE y == <<w>>
    <3>1. y \in Seq({w})
      OBVIOUS
    <3> HIDE DEF y
    <3>2. <<>> \o y = y
      BY <3>1, ConcatEmptySeq
    <3>3. QED
      BY <1>1, <2>1, <2>4, <3>2 DEF y
  <2>7. QED
    BY <1>1, <2>1, <2>4, <2>5, <2>6 DEF Extended
<1> DEFINE f1 == first(1)
           f2 == first(2)
           f3 == first(3)
           f4 == Extended(f3, p)
<1>14. /\ f1 = <<w>> /\ f2 = Extended(f1, a) /\ f3 = Extended(f2, b)
       /\ f4 = Extended(f3, p)
  BY <1>13
<1> DEFINE V == {w, a, b, p}
<1>20. w \in V /\ a \in V /\ b \in V /\ p \in V
  OBVIOUS
<1>21. /\ first(5) = (f3 \o <<>>) \o <<>> /\ first(6) = Extended(first(5), p)
       /\ ListDeployments(t) = first(6)
  BY <1>11, <1>13
<1> HIDE DEF f1, f2, f3, f4, V, first
<1>22. /\ f3 \in Seq(V) /\ f4 \in Seq(V) /\ Len(f4) = 4
       /\ f4[1] = w /\ f4[2] = a /\ f4[3] = b /\ f4[4] = p
  <2>1. f1 \in Seq(V) /\ Len(f1) = 1 /\ f1[1] = w
    BY <1>14, <1>20
  <2>2. f2 \in Seq(V) /\ Len(f2) = 2 /\ f2[1] = f1[1] /\ f2[2] = a
    <3>1. a \in V /\ f2 = Extended(f1, a)
      BY <1>14, <1>20
    <3>2. QED
      BY ONLY <2>1, <3>1, SecondAdded
  <2>3. f3 \in Seq(V) /\ Len(f3) = 3 /\ f3[1] = f2[1] /\ f3[2] = f2[2] /\ f3[3] = b
    <3>1. b \in V /\ f3 = Extended(f2, b)
      BY <1>14, <1>20
    <3>2. QED
      BY ONLY <2>2, <3>1, ThirdAdded
  <2>4. /\ f4 \in Seq(V) /\ Len(f4) = 4
        /\ f4[1] = f3[1] /\ f4[2] = f3[2] /\ f4[3] = f3[3] /\ f4[4] = p
    <3>1. p \in V /\ f4 = Extended(f3, p)
      BY <1>14, <1>20
    <3>2. QED
      BY ONLY <2>3, <3>1, FourthAdded
  <2>5. QED
    BY ONLY <2>1, <2>2, <2>3, <2>4
<1>23. ListDeployments(t) = f4
  <2>1. \A s \in Seq(V) : s \o <<>> = s
    OBVIOUS
  <2>2. first(5) = f3
    BY <1>21, <1>22, <2>1
  <2>3. QED
    BY <1>14, <1>21, <2>2
<1>15. \A i \in 1 .. 3 : i = 1 \/ i = 2 \/ i = 3
  OBVIOUS
<1>16. PaymentsApi.id = "payments-api"
  BY PaymentsGroups
<1> DEFINE list == ListDeployments(t)
<1>17. list[1] = w /\ list[2] = a /\ list[3] = b /\ list[4] = p /\ DOMAIN list = 1 .. 4
  BY <1>22, <1>23
<1> HIDE DEF list
<1>18. \A i \in 1 .. 3 : "job" \in DOMAIN list[i] /\ list[i].job # PaymentsApi.id
  BY <1>1, <1>15, <1>16, <1>17
<1>19. QED
  BY <1>17, <1>18 DEF list, p

(* The list with its times in the units of the page, half seconds. *)
InHalfSeconds(list) ==
  [i \in DOMAIN list |->
     [list[i] EXCEPT !.created = 20 * @, !.modified = 20 * @]]

Badged(t) ==
  [DeployDeployment(PaymentsApi, t) EXCEPT !.created = 20 * @, !.modified = 20 * @]

(* The deployment of the rollout, as the page reads it. *)
LEMMA BadgedFacts ==
  ASSUME NEW t \in Nat, Epoch <= t
  PROVE  LET cycle == CycleState(PaymentsApi, t)
             start == t - cycle.elapsed
             b     == Badged(t)
         IN  /\ b.job = PaymentsApi.id /\ b.index = cycle.new
             /\ b.status = IF cycle.elapsed < Rollout THEN "running" ELSE "successful"
             /\ b.created = 20 * start
             /\ b.modified = 20 * (IF cycle.elapsed < Rollout THEN t ELSE start + Rollout)
             /\ b.groups = DeployDeployment(PaymentsApi, t).groups
<1> DEFINE cycle == CycleState(PaymentsApi, t)
           d == DeployDeployment(PaymentsApi, t)
           start == VersionSubmitTime(PaymentsApi, cycle.new)
<1>1. start = t - cycle.elapsed
  BY CycleFacts
<1> HIDE DEF start
<1>2. d = [job |-> PaymentsApi.id, index |-> cycle.new,
           status |-> IF cycle.elapsed < Rollout THEN "running" ELSE "successful",
           version |-> 0, created |-> start,
           modified |-> IF cycle.elapsed < Rollout THEN t ELSE start + Rollout,
           groups |-> d.groups]
  BY DEF DeployDeployment, Deployment, start
<1> DEFINE groups == d.groups
<1> HIDE DEF d, cycle, groups
<1>3. Badged(t) = [d EXCEPT !.created = 20 * @, !.modified = 20 * @]
  BY DEF Badged, d
<1>4. /\ Badged(t).job = PaymentsApi.id /\ Badged(t).index = cycle.new
      /\ Badged(t).status = IF cycle.elapsed < Rollout THEN "running" ELSE "successful"
      /\ Badged(t).created = 20 * start
      /\ Badged(t).modified = 20 * (IF cycle.elapsed < Rollout THEN t ELSE start + Rollout)
      /\ Badged(t).groups = d.groups
  BY <1>2, <1>3
<1>5. QED
  BY <1>1, <1>4 DEF cycle, d

(* The page shows the last of the deployments listed, the rollout's.       *)
LEMMA ShownIs ==
  ASSUME NEW t \in Nat, Epoch <= t
  PROVE  Shown(t) = D!Info(Badged(t), 20 * t)
<1> DEFINE list == ListDeployments(t)
           id == PaymentsApi.id
           scaled == InHalfSeconds(list)
<1>1. /\ DOMAIN list = 1 .. 4 /\ list[4] = DeployDeployment(PaymentsApi, t)
      /\ \A i \in 1 .. 3 : "job" \in DOMAIN list[i] /\ list[i].job # id
  BY FourDeployments
<1> HIDE DEF list
<1>2. DOMAIN scaled = 1 .. 4 /\ scaled[4] = Badged(t)
  <2>1. scaled[4] = [list[4] EXCEPT !.created = 20 * @, !.modified = 20 * @]
    <3>1. 4 \in DOMAIN list
      BY <1>1
    <3>2. QED
      BY ONLY <3>1 DEF InHalfSeconds
  <2>2. DOMAIN scaled = 1 .. 4
    BY <1>1 DEF InHalfSeconds
  <2>3. QED
    BY <1>1, <2>1, <2>2 DEF Badged
<1>3. ASSUME NEW i \in 1 .. 3 PROVE scaled[i].job # id
  <2>1. scaled[i] = [list[i] EXCEPT !.created = 20 * @, !.modified = 20 * @]
    BY <1>1 DEF InHalfSeconds
  <2>2. scaled[i].job = list[i].job
    BY <1>1, <2>1
  <2>3. QED
    BY <1>1, <2>2
<1>4. Shown(t) = D!LatestInfo(scaled, id, 20 * t)
  BY DEF Shown, InHalfSeconds, list
<1> HIDE DEF scaled, id
<1>5. scaled[4].job = id /\ scaled[4].index \in Int
  BY <1>2, BadgedFacts, CycleFacts DEF id
<1>6. D!Positions(scaled, id) = {4}
  <2>1. \A n \in 1 .. 4 : n \in 1 .. 3 \/ n = 4
    OBVIOUS
  <2>2. \A n \in DOMAIN scaled : scaled[n].job = id <=> n = 4
    BY <1>2, <1>3, <1>5, <2>1
  <2>3. QED
    BY <1>2, <2>2 DEF D!Positions
<1>7. id \in {d.job : d \in D!ToSet(scaled)}
  BY <1>2, <1>5 DEF D!ToSet
<1>8. D!Min({4}) = 4
  BY DEF D!Min
<1>9. {n \in {4} : \A m \in {4} : scaled[m].index <= scaled[n].index} = {4}
  BY <1>5
<1>10. D!Latest(scaled)[id] = scaled[4]
  BY <1>6, <1>7, <1>8, <1>9 DEF D!Latest
<1>11. id \in DOMAIN D!Latest(scaled)
  BY <1>7 DEF D!Latest
<1>12. D!LatestInfo(scaled, id, 20 * t) = D!Info(D!Latest(scaled)[id], 20 * t)
  BY <1>11 DEF D!LatestInfo
<1>13. QED
  BY <1>2, <1>4, <1>10, <1>12

(* How many of the slots of both groups are replaced, in percent. *)
Replaced(g, t) == Cardinality(SlotsIn(t, g, {"replaced"}))
Percent(t) == ((Replaced(1, t) + Replaced(2, t)) * 100) \div 9

(* The badge is a function of the slots and the time. *)
LEMMA BadgeIs ==
  ASSUME NEW t \in Nat, Epoch <= t
  PROVE  LET cycle == CycleState(PaymentsApi, t)
             going == cycle.elapsed < Rollout
             start == t - cycle.elapsed
             since == IF going THEN start ELSE start + Rollout
         IN  /\ Shown(t).status = IF going THEN "deploying" ELSE "deployed"
             /\ Shown(t).elapsed = (20 * t - 20 * since) \div 2
             /\ going => Shown(t).progress = D!Min({100, Percent(t)})
<1> DEFINE cycle == CycleState(PaymentsApi, t)
           going == cycle.elapsed < Rollout
           start == t - cycle.elapsed
           since == IF going THEN start ELSE start + Rollout
           b == Badged(t)
<1>1. /\ Rollout \in Nat /\ cycle.elapsed \in Nat /\ start \in Nat /\ start # 0
      /\ Epoch <= start
  BY NomadDemoAssumption, CycleFacts DEF CycleLength
<1>2. /\ b.status = IF going THEN "running" ELSE "successful"
      /\ b.created = 20 * start
      /\ b.modified = 20 * (IF going THEN t ELSE start + Rollout)
      /\ b.groups = DeployDeployment(PaymentsApi, t).groups
  BY BadgedFacts
<1>3. since \in Nat /\ since # 0 /\ since <= t
  BY <1>1
<1>4. D!Label(b.status) = IF going THEN "deploying" ELSE "deployed"
  BY <1>2 DEF D!Label
<1>5. D!MeasuredFrom(b) = 20 * since
  <2> HIDE DEF cycle, start
  <2>1. CASE going
    BY <1>2, <1>4, <2>1 DEF D!MeasuredFrom
  <2>2. CASE ~going
    <3>1. b.modified = 20 * (start + Rollout) /\ 20 * (start + Rollout) # 0
      BY <1>1, <1>2, <2>2
    <3>2. QED
      BY <1>4, <2>2, <3>1 DEF D!MeasuredFrom
  <2>3. QED
    BY <2>1, <2>2
<1>6. 20 * since # 0 /\ ~(20 * t < 20 * since)
  BY <1>3
<1>7. going => D!Progress(b.groups) = D!Min({100, Percent(t)})
  <2> DEFINE groups == b.groups
  <2>1. /\ DOMAIN groups = {1, 2}
        /\ groups[1] = TaskGroupState(PaymentsApi.groups[1], cycle.elapsed)
        /\ groups[2] = TaskGroupState(PaymentsApi.groups[2], cycle.elapsed)
    BY <1>2, PaymentsGroups DEF DeployDeployment, Deployment
  <2>2. ASSUME NEW g \in {1, 2}
        PROVE  TaskGroupState(PaymentsApi.groups[g], cycle.elapsed).healthy = Replaced(g, t)
    <3>1. {s \in Slots(PaymentsApi.groups[g]) : PhaseAt(PaymentsApi.groups[g], s, cycle.elapsed) = "replaced"}
            = SlotsIn(t, g, {"replaced"})
      BY DEF StageAt, SlotsIn
    <3>2. QED
      BY <3>1 DEF Replaced, TaskGroupState
  <2>3. Replaced(1, t) \in Nat /\ Replaced(2, t) \in Nat
    BY SlotsCounted, FS_Subset, FS_CardinalityType DEF Replaced, SlotsIn
  <2>4. /\ groups[1].healthy = Replaced(1, t) /\ groups[2].healthy = Replaced(2, t)
        /\ groups[1].desired = 6 /\ groups[2].desired = 3
    BY <2>1, <2>2, PaymentsGroups DEF TaskGroupState
  <2> HIDE DEF groups
  <2>5. D!Total(groups, "healthy") = Replaced(1, t) + Replaced(2, t)
    BY <2>1, <2>3, <2>4, TotalOfTwo
  <2>6. D!Total(groups, "desired") = 9
    BY <2>1, <2>4, TotalOfTwo
  <2>7. D!Progress(groups) = D!Min({100, Percent(t)})
    <3>1. D!Progress(groups) =
            IF D!Total(groups, "desired") <= 0 THEN "none"
            ELSE D!Min({100, (D!Total(groups, "healthy") * 100) \div D!Total(groups, "desired")})
      BY DEF D!Progress
    <3>2. D!Progress(groups) =
            IF 9 <= 0 THEN "none"
            ELSE D!Min({100, ((Replaced(1, t) + Replaced(2, t)) * 100) \div 9})
      BY <2>5, <2>6, <3>1, Zenon
    <3>3. QED
      BY <3>2 DEF Percent
  <2>8. QED
    BY <2>7 DEF groups
<1>8. Shown(t) = D!Info(b, 20 * t)
  BY ShownIs
<1> HIDE DEF b, since
<1>9. /\ D!Info(b, 20 * t).status = D!Label(b.status)
      /\ D!Info(b, 20 * t).elapsed = D!Seconds(20 * since, 20 * t)
      /\ D!Label(b.status) = "deploying" => D!Info(b, 20 * t).progress = D!Progress(b.groups)
  BY <1>5, <1>6 DEF D!Info
<1>10. D!Seconds(20 * since, 20 * t) = (20 * t - 20 * since) \div 2
  BY <1>6 DEF D!Seconds
<1>11. QED
  BY <1>4, <1>7, <1>8, <1>9, <1>10 DEF since

(* Clamping keeps the order. *)
LEMMA MinHundredForward ==
  ASSUME NEW p \in Nat, NEW q \in Nat, p <= q
  PROVE  D!Min({100, p}) <= D!Min({100, q})
<1>1. \A x \in Nat : D!Min({100, x}) = IF x < 100 THEN x ELSE 100
  <2>1. ASSUME NEW x \in Nat
        PROVE  D!Min({100, x}) = IF x < 100 THEN x ELSE 100
    <3> DEFINE m == IF x < 100 THEN x ELSE 100
    <3>1. \A y \in {100, x} : (\A z \in {100, x} : y <= z) <=> y = m
      OBVIOUS
    <3>2. m \in {100, x}
      OBVIOUS
    <3> HIDE DEF m
    <3>3. D!Min({100, x}) = m
      BY <3>1, <3>2 DEF D!Min
    <3>4. QED
      BY <3>3 DEF m
  <2>2. QED
    BY <2>1
<1>2. QED
  BY <1>1

(* Of one rollout, the badge only goes forward. *)
LEMMA BadgesForward ==
  ASSUME NEW t \in Nat, NEW u \in Nat, Epoch <= t, t <= u
  PROVE  BadgeForward(t, u)
<1> DEFINE before == CycleState(PaymentsApi, t)
           after  == CycleState(PaymentsApi, u)
           start  == t - before.elapsed
           old == Shown(t)
           new == Shown(u)
           Since(e) == IF e < Rollout THEN start ELSE start + Rollout
<1>1. Epoch <= u /\ Epoch \in Nat /\ Rollout \in Nat
  BY NomadDemoAssumption
<1>2. Version(t) <= Version(u)
  BY VersionGrows
<1>3. SUFFICES ASSUME Version(t) = Version(u)
               PROVE  /\ old.status = "deployed" => new.status = "deployed"
                      /\ old.status = new.status => old.elapsed <= new.elapsed
                      /\ new.status = "deploying" => old.progress <= new.progress
  <2>1. Version(t) \in Int /\ Version(u) \in Int
    BY <1>1, CycleFacts DEF Version
  <2>2. QED
    BY <1>2, <2>1 DEF BadgeForward
<1>4. /\ before.new = after.new
      /\ before.elapsed \in Int /\ after.elapsed \in Int
      /\ before.elapsed <= after.elapsed
  BY <1>3, ElapsedGrows
<1>5. start = u - after.elapsed
  <2>1. VersionSubmitTime(PaymentsApi, before.new) = t - before.elapsed
    BY CycleFacts
  <2>2. VersionSubmitTime(PaymentsApi, after.new) = u - after.elapsed
    BY <1>1, CycleFacts
  <2>3. QED
    BY <1>4, <2>1, <2>2
<1>6. /\ old.status = IF before.elapsed < Rollout THEN "deploying" ELSE "deployed"
      /\ old.elapsed = (20 * t - 20 * Since(before.elapsed)) \div 2
      /\ before.elapsed < Rollout => old.progress = D!Min({100, Percent(t)})
  BY BadgeIs
<1>7. /\ new.status = IF after.elapsed < Rollout THEN "deploying" ELSE "deployed"
      /\ new.elapsed = (20 * u - 20 * Since(after.elapsed)) \div 2
      /\ after.elapsed < Rollout => new.progress = D!Min({100, Percent(u)})
  BY <1>1, <1>5, BadgeIs
<1>8. Percent(t) \in Nat /\ Percent(u) \in Nat /\ Percent(t) <= Percent(u)
  <2>1. ASSUME NEW g \in {1, 2}
        PROVE  Replaced(g, t) \in Nat /\ Replaced(g, u) \in Nat /\ Replaced(g, t) <= Replaced(g, u)
    <3>1. SlotsIn(t, g, {"replaced"}) \subseteq SlotsIn(u, g, {"replaced"})
      BY <1>4, StageForward DEF SlotsIn, StageAt
    <3>2. /\ IsFiniteSet(SlotsIn(t, g, {"replaced"}))
          /\ IsFiniteSet(SlotsIn(u, g, {"replaced"}))
      BY SlotsCounted, FS_Subset DEF SlotsIn
    <3>3. QED
      BY <3>1, <3>2, FS_Subset, FS_CardinalityType DEF Replaced
  <2> DEFINE a == (Replaced(1, t) + Replaced(2, t)) * 100
             b == (Replaced(1, u) + Replaced(2, u)) * 100
  <2>2. a \in Nat /\ b \in Nat /\ a <= b
    BY <2>1
  <2>3. Percent(t) = a \div 9 /\ Percent(u) = b \div 9
    BY DEF Percent
  <2> HIDE DEF a, b
  <2>4. 9 \in Nat \ {0}
    OBVIOUS
  <2>5. a \div 9 <= b \div 9 /\ a \div 9 \in Nat /\ b \div 9 \in Nat
    BY <2>2, <2>4, DivMonotone, DivFacts
  <2>6. QED
    BY <2>3, <2>5
<1>9. start \in Nat /\ before.elapsed \in Nat /\ after.elapsed \in Nat
  <2>1. before.elapsed \in Nat /\ Epoch <= start
    BY <1>1, CycleFacts DEF CycleLength
  <2>2. QED
    BY <1>1, <1>4, <2>1
<1>10. t = start + before.elapsed /\ u = start + after.elapsed
  BY <1>4, <1>5
<1> DEFINE e == before.elapsed
           f == after.elapsed
<1> HIDE DEF before, after, start, old, new
<1>11. ASSUME old.status = new.status PROVE old.elapsed <= new.elapsed
  <2>1. e < Rollout <=> f < Rollout
    BY <1>6, <1>7, <1>11
  <2>2. Since(e) = Since(f)
    BY <2>1
  <2> DEFINE since == Since(e)
  <2>3. since \in Nat /\ since <= t
    BY <1>1, <1>9, <1>10
  <2> HIDE DEF since
  <2>4. /\ 20 * t - 20 * since \in Nat /\ 20 * u - 20 * since \in Nat
        /\ 20 * t - 20 * since <= 20 * u - 20 * since
    BY <2>3
  <2>5. (20 * t - 20 * since) \div 2 <= (20 * u - 20 * since) \div 2
    BY <2>4, DivMonotone
  <2>6. QED
    BY <1>6, <1>7, <2>2, <2>5 DEF since
<1>12. old.status = "deployed" => new.status = "deployed"
  BY <1>1, <1>4, <1>6, <1>7
<1>13. ASSUME new.status = "deploying" PROVE old.progress <= new.progress
  <2>1. e < Rollout /\ f < Rollout
    BY <1>1, <1>4, <1>7, <1>13
  <2>2. D!Min({100, Percent(t)}) <= D!Min({100, Percent(u)})
    BY <1>8, MinHundredForward
  <2>3. QED
    BY <1>6, <1>7, <2>1, <2>2
<1>14. QED
  BY <1>11, <1>12, <1>13

(* While the server is up, an allocation's life and the badge of a rollout *)
(* only go forward, whatever time passes between two looks at them.        *)
THEOREM SpecRolloutForward == USpec => RolloutForward
<1>1. CallerTypes /\ CallerTypes' =>
        (clock' > clock => AllocationsForward(clock, clock') /\ BadgeForward(clock, clock'))
  <2>1. SUFFICES ASSUME CallerTypes, CallerTypes', clock' > clock
                 PROVE  AllocationsForward(clock, clock') /\ BadgeForward(clock, clock')
    OBVIOUS
  <2>2. clock \in Nat /\ clock' \in Nat /\ Epoch <= clock /\ clock <= clock'
    BY <2>1, NomadDemoAssumption DEF CallerTypes
  <2>3. QED
    BY <2>2, LivesForward, BadgesForward
<1>2. QED
  BY <1>1, CallerTypesInit, CallerTypesStay, PTL DEF USpec, RolloutForward
=============================================================================
