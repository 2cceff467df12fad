-------------------------- MODULE LRUCacheHistory --------------------------
(***************************************************************************)
(* LRUCache with the history its eviction order is about: the keys in the  *)
(* order of their last use, and when each was last Set.  The history       *)
(* is computed from the calls and their answers alone, never from the      *)
(* linked list.                                                            *)
(***************************************************************************)
EXTENDS LRUCache

VARIABLES
  used,       \* the keys Set or found by Get, last used first
  written     \* when each key was last Set

historyVars == <<used, written>>

HInit == Init /\ used = <<>> /\ written = [k \in {} |-> 0]

Use(k) == used' = <<k>> \o RemoveFirst(used, k)

HGet(k) ==
  /\ Get(k)
  /\ IF reply'.hit THEN Use(k) ELSE used' = used
  /\ UNCHANGED written

HSet(k, v) ==
  /\ Set(k, v)
  /\ Use(k)
  /\ written' = [x \in DOMAIN written \cup {k} |->
                   IF x = k THEN now ELSE written[x]]

HTick == Tick /\ UNCHANGED historyVars

HNext ==
  \/ \E k \in Key : HGet(k)
  \/ \E k \in Key, v \in Value : HSet(k, v)
  \/ HTick

HSpec == HInit /\ [][HNext]_<<vars, historyVars>>

-----------------------------------------------------------------------------
FreshKeys == {k \in DOMAIN written : TTL <= 0 \/ now <= written[k] + TTL}

Ahead(s, x, y) == \E i, j \in DOMAIN s : i < j /\ s[i] = x /\ s[j] = y

(* The list has the cached keys in the order of their last use, and a      *)
(* fresh entry is only missing when Capacity other keys have been used     *)
(* since its own last use: "evicted least-recently-used first once the     *)
(* cache is over capacity", and never before.                              *)
ExactlyMostRecent ==
  /\ \A k, l \in DOMAIN items :
       Ahead(order, items[k], items[l]) <=> Ahead(used, k, l)
  /\ DOMAIN items \subseteq ToSet(used)
  /\ \A i \in DOMAIN used :
       i <= Capacity /\ used[i] \in FreshKeys => used[i] \in DOMAIN items
=============================================================================
