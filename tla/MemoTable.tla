----------------------------- MODULE MemoTable -----------------------------
(***************************************************************************)
(* What nomadclient's lruCache promises: a table that never holds more     *)
(* than Capacity keys, returns only the last value stored for a key and    *)
(* only while that value is fresh, and forgets a fresh value only to make  *)
(* room, one key at a time.  Which key it forgets is not said here: see    *)
(* LRUCacheHistory.                                                        *)
(***************************************************************************)
EXTENDS Integers, FiniteSets

CONSTANTS
  Key, Value,
  Capacity,     \* how many keys the table may hold
  TTL           \* how long a value is fresh; never stale if TTL <= 0

VARIABLES
  table,   \* the stored [value, at] of the keys the table holds
  now,     \* the clock
  reply    \* the answer to the last Lookup

vars == <<table, now, reply>>

Fresh(k) == TTL <= 0 \/ now <= table[k].at + TTL

Init ==
  /\ table = [k \in {} |-> 0]
  /\ now = 0
  /\ reply = [hit |-> FALSE]

Forget(S) == table' = [k \in DOMAIN table \ S |-> table[k]]

Found(k) ==
  /\ k \in DOMAIN table /\ Fresh(k)
  /\ reply' = [hit |-> TRUE, key |-> k, value |-> table[k].value]
  /\ UNCHANGED <<table, now>>

NotFound(k) ==
  /\ k \in DOMAIN table => ~Fresh(k)
  /\ reply' = [hit |-> FALSE]
  /\ Forget({k})
  /\ UNCHANGED now

Store(k, v) ==
  /\ \E forgotten \in {{}} \cup {{x} : x \in DOMAIN table \cup {k}} :
       LET kept == (DOMAIN table \cup {k}) \ forgotten
       IN  /\ forgotten # {} => Cardinality(DOMAIN table \cup {k}) > Capacity
           /\ Cardinality(kept) <= Capacity
           /\ table' = [x \in kept |->
                          IF x = k THEN [value |-> v, at |-> now]
                                   ELSE table[x]]
  /\ UNCHANGED <<now, reply>>

Tick ==
  /\ now' > now
  /\ UNCHANGED <<table, reply>>

Next ==
  \/ \E k \in Key : Found(k) \/ NotFound(k)
  \/ \E k \in Key, v \in Value : Store(k, v)
  \/ Tick

Spec == Init /\ [][Next]_vars
=============================================================================
