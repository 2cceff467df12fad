-------------------------- MODULE AllocationPorts --------------------------
(***************************************************************************)
(* internal/nomadclient/client.go: concurrent calls of GetAllocationPorts  *)
(* through one client's LRUCache.  The cache's mutex covers Get and Set    *)
(* only, so any number of calls may miss, ask Nomad and store the same     *)
(* allocation, and other calls may evict it in between.                    *)
(*                                                                         *)
(* What Nomad answers is a parameter of Fetched and FetchFailed.  An       *)
(* allocation's info is [networks, ports]: the IPs of its networks and its *)
(* port mappings [of, label, host]; one without resources has neither.     *)
(* Client.New makes the cache with TTL 0, so its clock plays no part.      *)
(***************************************************************************)
EXTENDS LRUCache

CONSTANT Caller      \* the goroutines that call GetAllocationPorts

VARIABLES
  pc,        \* where each caller is
  asked,     \* the allocation it asks for
  fetched,   \* what AllocationInfo returned to it, until that is stored
  answer     \* what its call returned

portsVars == <<pc, asked, fetched, answer>>

None == [status |-> "none"]
NotFound == [status |-> "404"]
Failure == [status |-> "502"]
Ok(found) == [status |-> "ok", ports |-> found.ports, nodeIP |-> found.nodeIP]

PInit ==
  /\ Init
  /\ pc = [c \in Caller |-> "idle"]
  /\ asked = [c \in Caller |-> <<>>]
  /\ fetched = [c \in Caller |-> None]
  /\ answer = [c \in Caller |-> None]

-----------------------------------------------------------------------------
NodeIPFromAllocation(info) ==
  CASE info.networks # <<>> -> Head(info.networks)
    [] info.networks = <<>> /\ info.ports # <<>> -> Head(info.ports).host
    [] OTHER -> ""

(* The AllocationPorts of an allocation. *)
PortsOf(info) ==
  [ports |-> info.ports, nodeIP |-> NodeIPFromAllocation(info)]

(* A caller that knows an allocation's ID is about to ask for its ports.   *)
Ask(c, a) ==
  /\ pc[c] = "idle"
  /\ asked' = [asked EXCEPT ![c] = a]
  /\ pc' = [pc EXCEPT ![c] = "asking"]
  /\ UNCHANGED <<vars, fetched, answer>>

Lookup(c) ==
  /\ pc[c] = "asking"
  /\ Get(asked[c])
  /\ IF reply'.hit
     THEN /\ answer' = [answer EXCEPT ![c] = Ok(reply'.value)]
          /\ pc' = [pc EXCEPT ![c] = "answered"]
     ELSE /\ pc' = [pc EXCEPT ![c] = "fetching"]
          /\ UNCHANGED answer
  /\ UNCHANGED <<asked, fetched>>

(* AllocationInfo returned an allocation. *)
Fetched(c, info) ==
  /\ pc[c] = "fetching"
  /\ fetched' = [fetched EXCEPT ![c] = PortsOf(info)]
  /\ pc' = [pc EXCEPT ![c] = "storing"]
  /\ UNCHANGED <<vars, asked, answer>>

(* AllocationInfo returned an error: nothing is cached. *)
FetchFailed(c, error) ==
  /\ pc[c] = "fetching"
  /\ answer' = [answer EXCEPT ![c] = error]
  /\ pc' = [pc EXCEPT ![c] = "answered"]
  /\ UNCHANGED <<vars, asked, fetched>>

(* Mutant: the call stores what another caller fetched last. *)
StoreShared(c) ==
  /\ pc[c] = "storing"
  /\ \E d \in Caller :
       /\ pc[d] = "storing"
       /\ Set(asked[c], fetched[d])
       /\ answer' = [answer EXCEPT ![c] = Ok(fetched[d])]
  /\ fetched' = [fetched EXCEPT ![c] = None]
  /\ pc' = [pc EXCEPT ![c] = "answered"]
  /\ UNCHANGED asked

Store(c) ==
  /\ pc[c] = "storing"
  /\ Set(asked[c], fetched[c])
  /\ answer' = [answer EXCEPT ![c] = Ok(fetched[c])]
  /\ fetched' = [fetched EXCEPT ![c] = None]
  /\ pc' = [pc EXCEPT ![c] = "answered"]
  /\ UNCHANGED asked

(* The caller has used the answer. *)
Done(c) ==
  /\ pc[c] = "answered"
  /\ pc' = [pc EXCEPT ![c] = "idle"]
  /\ asked' = [asked EXCEPT ![c] = <<>>]
  /\ answer' = [answer EXCEPT ![c] = None]
  /\ UNCHANGED <<vars, fetched>>
=============================================================================
