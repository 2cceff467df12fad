----------------------------- MODULE LRUCache -----------------------------
(***************************************************************************)
(* internal/nomadclient/lru.go: the mutex-protected LRU cache with an      *)
(* optional TTL in which the Nomad client keeps the ports of allocations.  *)
(*                                                                         *)
(* Get and Set hold the mutex from their first to their last statement, so *)
(* each is one action.  The linked list is the sequence of its elements,   *)
(* front first; the elements are pointers that items shares with order,    *)
(* and heap is what they point to.                                         *)
(***************************************************************************)
EXTENDS Integers, FiniteSets, SequencesExt

CONSTANTS
  Key, Value,
  Capacity, TTL,     \* the arguments of newLRUCache
  MaxTime            \* bound on the clock

ASSUME LRUCacheAssumption ==
  Capacity \in Nat /\ TTL \in Int /\ MaxTime \in Nat

Elem == 1 .. (Capacity + 1)    \* enough list elements: one is always free

NoEntry == [key |-> "none", value |-> "none", expiresAt |-> 0]

VARIABLES
  order,    \* c.order: the list elements, most recently used first
  items,    \* c.items: the element of each cached key
  heap,     \* the entry each list element holds
  now,      \* what c.now() returns
  reply     \* what the last Get returned

cacheVars == <<order, items, heap>>
vars == <<cacheVars, now, reply>>

Init ==
  /\ order = <<>>
  /\ items = [k \in {} |-> 0]
  /\ heap = [e \in Elem |-> NoEntry]
  /\ now = 0
  /\ reply = [hit |-> FALSE]

-----------------------------------------------------------------------------
(* container/list: MoveToFront, PushFront and Remove. *)

MovedToFront(e) == <<e>> \o RemoveFirst(order, e)

NewElem == CHOOSE e \in Elem : e \notin ToSet(order)

Without(f, k) == [x \in DOMAIN f \ {k} |-> f[x]]

-----------------------------------------------------------------------------
(* Mutant: an entry is already expired at expiresAt. *)
ExpiredEarly(e) == TTL > 0 /\ now >= heap[e].expiresAt

(* time.After is strict: at expiresAt itself the entry is still returned. *)
Expired(e) == TTL > 0 /\ now > heap[e].expiresAt

Miss(k) ==
  /\ k \notin DOMAIN items
  /\ reply' = [hit |-> FALSE]
  /\ UNCHANGED <<cacheVars, now>>

Expire(k) ==
  /\ k \in DOMAIN items
  /\ Expired(items[k])
  /\ order' = RemoveFirst(order, items[k])
  /\ items' = Without(items, k)
  /\ heap' = [heap EXCEPT ![items[k]] = NoEntry]
  /\ reply' = [hit |-> FALSE]
  /\ UNCHANGED now

Hit(k) ==
  /\ k \in DOMAIN items
  /\ ~Expired(items[k])
  /\ order' = MovedToFront(items[k])
  /\ reply' = [hit |-> TRUE, key |-> k, value |-> heap[items[k]].value]
  /\ UNCHANGED <<items, heap, now>>

Get(k) == Miss(k) \/ Expire(k) \/ Hit(k)

-----------------------------------------------------------------------------
Written(k, v) == [key |-> k, value |-> v, expiresAt |-> now + TTL]

(* Mutant: writing a cached key again does not count as a use. *)
OverwriteInPlace(k, v) ==
  /\ k \in DOMAIN items
  /\ heap' = [heap EXCEPT ![items[k]] = Written(k, v)]
  /\ UNCHANGED <<order, items, now, reply>>

Overwrite(k, v) ==
  /\ k \in DOMAIN items
  /\ heap' = [heap EXCEPT ![items[k]] = Written(k, v)]
  /\ order' = MovedToFront(items[k])
  /\ UNCHANGED <<items, now, reply>>

OverCapacity(n) == n > Capacity

(* Mutant: eviction leaves the key of the evicted entry in items. *)
InsertEvictingListOnly(k, v) ==
  /\ k \notin DOMAIN items
  /\ LET new    == NewElem
         pushed == <<new>> \o order
         stored == [heap EXCEPT ![new] = Written(k, v)]
         mapped == [x \in DOMAIN items \cup {k} |->
                      IF x = k THEN new ELSE items[x]]
     IN  IF OverCapacity(Len(pushed))
         THEN /\ order' = Front(pushed)
              /\ items' = mapped
              /\ heap' = [stored EXCEPT ![Last(pushed)] = NoEntry]
         ELSE /\ order' = pushed
              /\ items' = mapped
              /\ heap' = stored
  /\ UNCHANGED <<now, reply>>

Insert(k, v) ==
  /\ k \notin DOMAIN items
  /\ LET new    == NewElem
         pushed == <<new>> \o order
         stored == [heap EXCEPT ![new] = Written(k, v)]
         mapped == [x \in DOMAIN items \cup {k} |->
                      IF x = k THEN new ELSE items[x]]
         oldest == Last(pushed)
     IN  IF OverCapacity(Len(pushed))
         THEN /\ order' = Front(pushed)
              /\ items' = Without(mapped, stored[oldest].key)
              /\ heap' = [stored EXCEPT ![oldest] = NoEntry]
         ELSE /\ order' = pushed
              /\ items' = mapped
              /\ heap' = stored
  /\ UNCHANGED <<now, reply>>

Set(k, v) == Overwrite(k, v) \/ Insert(k, v)

-----------------------------------------------------------------------------
(* The clock passes between calls. *)
Tick ==
  /\ now < MaxTime
  /\ now' = now + 1
  /\ UNCHANGED <<cacheVars, reply>>

Next ==
  \/ \E k \in Key : Get(k)
  \/ \E k \in Key, v \in Value : Set(k, v)
  \/ Tick

Spec == Init /\ [][Next]_vars

-----------------------------------------------------------------------------
Entry ==
  [key : Key \cup {"none"}, value : Value \cup {"none"}, expiresAt : Int]

(* Every variable keeps its type, and between calls the list holds at most *)
(* Capacity elements.                                                      *)
TypeOK ==
  /\ order \in Seq(Elem) /\ Len(order) <= Capacity
  /\ DOMAIN items \subseteq Key /\ items \in [DOMAIN items -> Elem]
  /\ heap \in [Elem -> Entry]
  /\ now \in 0 .. MaxTime
  /\ reply.hit \in BOOLEAN

(* The map and the list are two views of the same entries: each key's      *)
(* element is in the list once and holds that key, and every element of    *)
(* the list is the element of a key.  A key left in one of them only is a  *)
(* leak, or a deleted entry that still answers.                            *)
MapMatchesList ==
  /\ \A i, j \in DOMAIN order : order[i] = order[j] => i = j
  /\ ToSet(order) = {items[k] : k \in DOMAIN items}
  /\ \A k \in DOMAIN items : heap[items[k]].key = k

(* Both, after any sequence of calls. *)
CacheIntact == TypeOK /\ MapMatchesList

(* What the cache does, a MemoTable does. *)
Abstract == INSTANCE MemoTable WITH
  table <- [k \in DOMAIN items |->
              [value |-> heap[items[k]].value,
               at |-> heap[items[k]].expiresAt - TTL]]

Refinement == Abstract!Spec
=============================================================================
