----------------------------- MODULE MCUnhoused -----------------------------
(***************************************************************************)
(* Model checking of Unhoused: every configuration of up to two profiles,  *)
(* one of which may have the other's name for its slug; and the demo's     *)
(* real rollout, with two callers that look at two of its replicas, which  *)
(* is what it takes to fetch one allocation twice at once and to evict the *)
(* ports of one for another's.                                             *)
(***************************************************************************)
EXTENDS Unhoused, TLC

MCSymmetry == Permutations(Caller)

(* Which list element holds an entry is of no consequence, nor is what the *)
(* last Get returned once its caller has it.                               *)
MCView ==
  <<[i \in DOMAIN order |-> heap[order[i]]], DOMAIN items, portsVars,
    mainVars, demoVars>>

Profile == [name : {"", "a", "b"}, slug : {"", "a", "b"},
            url : {"", "%", "u", "v"}, template : {"", "{node}", "node"}]

MCPolled ==
  [refresh |-> 0, profiles |-> <<[name |-> "demo", slug |-> "",
     url |-> "127.0.0.1:4646", template |-> "{node}"]>>]

MCFiles ==
  {MCPolled}
    \cup {[refresh |-> 0, profiles |-> <<>>]}
    \cup {[refresh |-> 0, profiles |-> <<p>>] : p \in Profile}
    \cup {[refresh |-> 3, profiles |-> <<p, q>>] : p, q \in Profile}

MCFilesPolled == {MCPolled}

MCWatched == {<<"payments-api", "api", 0>>, <<"payments-api", "worker", 6>>}
MCWatchedStatic == {<<"batch-worker", "worker", 2>>, <<"batch-worker", "worker", 5>>}

(* An instant at which a slot, the rollout or the cycle begins or ends, of *)
(* each kind, up to where the two replicas are replaced for the second     *)
(* time.                                                                   *)
MCInstants == {0, 1, 2, 5, 6, 10, 12, 22, 26, 30, 36, 37, 38}
=============================================================================
