------------------------------ MODULE FanOut ------------------------------
(***************************************************************************)
(* internal/syncutil/fanout.go: FanOut, the bounded goroutine pool the     *)
(* job-status handler uses to fetch the ports of a page of allocations.    *)
(*                                                                         *)
(* One caller makes at most N calls to Run and then one to Wait.  Each     *)
(* call to Run starts a worker goroutine; the collector goroutine that     *)
(* NewFanOut started appends to errs what the workers send on errCh.  The  *)
(* limiter channel carries empty structs, so it is the number of tokens it *)
(* holds.  Every step is one channel operation, or one access to errs.     *)
(***************************************************************************)
EXTENDS Naturals, Sequences, FiniteSets

CONSTANTS
  N,               \* bound on the number of calls to Run
  MaxConcurrent    \* the argument of NewFanOut

ASSUME FanOutAssumption == N \in Nat /\ MaxConcurrent \in Nat

Tasks == 1 .. N

(* NewFanOut turns 0 into 1; this is the capacity of both channels. *)
Cap == IF MaxConcurrent = 0 THEN 1 ELSE MaxConcurrent

VARIABLES
  caller,       \* where the caller is
  calls,        \* how many calls to Run it makes before it calls Wait
  called,       \* how many calls to Run have been made
  acquired,     \* the loop variable of Wait: tokens it has put in limiter
  limiter,      \* tokens in the limiter channel
  worker,       \* where the goroutine of each call to Run is
  err,          \* what each callback returned
  errCh,        \* the contents of the errCh channel
  closed,       \* whether errCh has been closed
  collector,    \* where the collector goroutine is
  received,     \* the error it holds between a receive and the append
  errs          \* p.errs

callerVars == <<caller, calls, called, acquired>>
workerVars == <<worker, err>>
collectorVars == <<collector, received, errs>>
vars == <<callerVars, limiter, workerVars, errCh, closed, collectorVars>>

-----------------------------------------------------------------------------
Holding == {t \in Tasks : worker[t] \in {"running", "sending", "releasing"}}

Running == {t \in Tasks : worker[t] = "running"}

Failed == {t \in Tasks : err[t] = "error"}

Init ==
  /\ caller = "calling"
  /\ calls \in 0 .. N
  /\ called = 0
  /\ acquired = 0
  /\ limiter = 0
  /\ worker = [t \in Tasks |-> "idle"]
  /\ err = [t \in Tasks |-> "none"]
  /\ errCh = <<>>
  /\ closed = FALSE
  /\ collector = "receiving"
  /\ received = 0
  /\ errs = <<>>

-----------------------------------------------------------------------------
(* The caller: Run, then Wait. *)

(* Mutant: the limiter lets one worker too many in. *)
RunOverLimit(t) ==
  /\ caller = "calling"
  /\ called < calls /\ t = called + 1
  /\ limiter <= Cap
  /\ called' = t
  /\ limiter' = limiter + 1
  /\ worker' = [worker EXCEPT ![t] = "running"]
  /\ UNCHANGED <<caller, calls, acquired, err, errCh, closed, collectorVars>>

Run(t) ==
  /\ caller = "calling"
  /\ called < calls /\ t = called + 1
  /\ limiter < Cap
  /\ called' = t
  /\ limiter' = limiter + 1
  /\ worker' = [worker EXCEPT ![t] = "running"]
  /\ UNCHANGED <<caller, calls, acquired, err, errCh, closed, collectorVars>>

StartWait ==
  /\ caller = "calling" /\ called = calls
  /\ caller' = "acquiring"
  /\ UNCHANGED <<calls, called, acquired, limiter, workerVars, errCh, closed,
                 collectorVars>>

Acquire ==
  /\ caller = "acquiring"
  /\ acquired < Cap
  /\ limiter < Cap
  /\ acquired' = acquired + 1
  /\ limiter' = limiter + 1
  /\ UNCHANGED <<caller, calls, called, workerVars, errCh, closed,
                 collectorVars>>

(* Mutant: Wait stops filling the limiter one token early. *)
CloseEarly ==
  /\ caller = "acquiring"
  /\ acquired = Cap - 1
  /\ closed' = TRUE
  /\ caller' = "joining"
  /\ UNCHANGED <<calls, called, acquired, limiter, workerVars, errCh,
                 collectorVars>>

Close ==
  /\ caller = "acquiring"
  /\ acquired = Cap
  /\ closed' = TRUE
  /\ caller' = "joining"
  /\ UNCHANGED <<calls, called, acquired, limiter, workerVars, errCh,
                 collectorVars>>

(* Mutant: Wait does not wait for the collector. *)
JoinAtOnce ==
  /\ caller = "joining"
  /\ caller' = "returned"
  /\ UNCHANGED <<calls, called, acquired, limiter, workerVars, errCh, closed,
                 collectorVars>>

Join ==
  /\ caller = "joining"
  /\ collector = "done"
  /\ caller' = "returned"
  /\ UNCHANGED <<calls, called, acquired, limiter, workerVars, errCh, closed,
                 collectorVars>>

Caller == (\E t \in Tasks : Run(t)) \/ StartWait \/ Acquire \/ Close \/ Join

-----------------------------------------------------------------------------
(* A worker goroutine. *)

Finish(t) ==
  /\ worker[t] = "running"
  /\ \/ /\ err' = [err EXCEPT ![t] = "nil"]
        /\ worker' = [worker EXCEPT ![t] = "releasing"]
     \/ /\ err' = [err EXCEPT ![t] = "error"]
        /\ worker' = [worker EXCEPT ![t] = "sending"]
  /\ UNCHANGED <<callerVars, limiter, errCh, closed, collectorVars>>

(* Mutant: an error that finds errCh full is dropped. *)
SendOrDrop(t) ==
  /\ worker[t] = "sending"
  /\ errCh' = IF Len(errCh) < Cap THEN Append(errCh, t) ELSE errCh
  /\ worker' = [worker EXCEPT ![t] = "releasing"]
  /\ UNCHANGED <<callerVars, limiter, err, closed, collectorVars>>

(* A send on a closed channel panics: NoSendOnClosed says it cannot happen. *)
Send(t) ==
  /\ worker[t] = "sending"
  /\ Len(errCh) < Cap
  /\ errCh' = Append(errCh, t)
  /\ worker' = [worker EXCEPT ![t] = "releasing"]
  /\ UNCHANGED <<callerVars, limiter, err, closed, collectorVars>>

Release(t) ==
  /\ worker[t] = "releasing"
  /\ limiter > 0
  /\ limiter' = limiter - 1
  /\ worker' = [worker EXCEPT ![t] = "done"]
  /\ UNCHANGED <<callerVars, err, errCh, closed, collectorVars>>

Worker(t) == Finish(t) \/ Send(t) \/ Release(t)

-----------------------------------------------------------------------------
(* The collector goroutine: for err := range p.errCh. *)

(* Mutant: the collector is only started by Wait. *)
ReceiveOnceClosed ==
  /\ closed
  /\ collector = "receiving"
  /\ errCh # <<>>
  /\ received' = Head(errCh)
  /\ errCh' = Tail(errCh)
  /\ collector' = "appending"
  /\ UNCHANGED <<callerVars, limiter, workerVars, closed, errs>>

Receive ==
  /\ collector = "receiving"
  /\ errCh # <<>>
  /\ received' = Head(errCh)
  /\ errCh' = Tail(errCh)
  /\ collector' = "appending"
  /\ UNCHANGED <<callerVars, limiter, workerVars, closed, errs>>

AppendErr ==
  /\ collector = "appending"
  /\ errs' = Append(errs, received)
  /\ received' = 0
  /\ collector' = "receiving"
  /\ UNCHANGED <<callerVars, limiter, workerVars, errCh, closed>>

(* Mutant: the collector stops at the close without draining errCh. *)
StopUndrained ==
  /\ collector = "receiving"
  /\ closed
  /\ collector' = "done"
  /\ UNCHANGED <<callerVars, limiter, workerVars, errCh, closed, received,
                 errs>>

Stop ==
  /\ collector = "receiving"
  /\ closed
  /\ errCh = <<>>
  /\ collector' = "done"
  /\ UNCHANGED <<callerVars, limiter, workerVars, errCh, closed, received,
                 errs>>

Collector == Receive \/ AppendErr \/ Stop

-----------------------------------------------------------------------------
Next == Caller \/ (\E t \in Tasks : Worker(t)) \/ Collector

Spec == Init /\ [][Next]_vars

(* Go schedules every goroutine that can run, and callbacks return; a      *)
(* channel operation that stays possible is eventually done.               *)
Fairness ==
  /\ WF_vars(Caller)
  /\ \A t \in Tasks : WF_vars(Worker(t))
  /\ WF_vars(Collector)

FairSpec == Spec /\ Fairness

-----------------------------------------------------------------------------
(* Every variable keeps its type, and neither channel exceeds its capacity. *)
TypeOK ==
  /\ caller \in {"calling", "acquiring", "joining", "returned"}
  /\ calls \in 0 .. N /\ called \in 0 .. calls
  /\ acquired \in 0 .. Cap
  /\ limiter \in 0 .. Cap
  /\ worker \in [Tasks -> {"idle", "running", "sending", "releasing", "done"}]
  /\ err \in [Tasks -> {"none", "nil", "error"}]
  /\ errCh \in Seq(Tasks) /\ Len(errCh) \in 0 .. Cap
  /\ closed \in BOOLEAN
  /\ collector \in {"receiving", "appending", "done"}
  /\ received \in (IF collector = "appending" THEN Tasks ELSE {0})
  /\ errs \in Seq(Tasks)

(* "up to a max of maxConcurrent concurrent requests": never more than Cap *)
(* callbacks run, also when the caller passed 0.                           *)
ConcurrencyBound == Cardinality(Running) <= Cap

(* Wait closes errCh although workers send on it: by then no worker may be *)
(* sending, or about to (a send on a closed channel panics the process).   *)
NoSendOnClosed == closed => \A t \in Tasks : worker[t] \in {"idle", "done"}

(* When Wait returns, every goroutine of the pool has ended: the caller    *)
(* reads what the callbacks wrote, and errs, without a lock.               *)
NothingOutlivesWait ==
  caller = "returned" =>
    /\ collector = "done"
    /\ \A t \in 1 .. called : worker[t] = "done" /\ err[t] # "none"

(* The errors on their way from the workers to the caller, oldest first:   *)
(* appended to errs, in the collector's hands, waiting in errCh.           *)
InHand == IF collector = "appending" THEN <<received>> ELSE <<>>

Pipeline == errs \o InHand \o errCh

NoRepetition(seq) == \A i, j \in DOMAIN seq : seq[i] = seq[j] => i = j

(* At every moment each error a worker has sent is in exactly one of those *)
(* three places, exactly once: none is lost or duplicated on the way.      *)
ErrorsInTransit ==
  /\ NoRepetition(Pipeline)
  /\ {Pipeline[i] : i \in DOMAIN Pipeline}
       = {t \in Failed : worker[t] # "sending"}

(* When Wait returns, errs has the error of every callback that failed,    *)
(* each exactly once, and nothing else.                                    *)
ErrorsExactlyOnce ==
  caller = "returned" =>
    /\ NoRepetition(errs)
    /\ {errs[i] : i \in DOMAIN errs} = Failed

(* The inductive invariant behind these: the limiter counts the workers    *)
(* that are not done and the tokens Wait has taken; each goroutine is      *)
(* where the others' state says it can be.                                 *)
TokensCounted == limiter = Cardinality(Holding) + acquired

CallerInStep ==
  /\ caller = "calling" => acquired = 0
  /\ closed <=> caller \in {"joining", "returned"}
  /\ closed => acquired = Cap
  /\ caller = "returned" => collector = "done"

WorkersInStep ==
  \A t \in Tasks :
    /\ worker[t] = "idle" <=> t > called
    /\ worker[t] \in {"idle", "running"} <=> err[t] = "none"
    /\ worker[t] = "sending" => err[t] = "error"

CollectorInStep == collector = "done" => closed /\ errCh = <<>>

IInv ==
  /\ TypeOK
  /\ TokensCounted
  /\ CallerInStep
  /\ WorkersInStep
  /\ CollectorInStep
  /\ ErrorsInTransit

(* Wait returns: neither the limiter, nor a full errCh, nor the collector  *)
(* can leave the pool waiting for itself.                                  *)
Termination == <>(caller = "returned")

(* FanOut is the bounded parallel loop of ParallelFor. *)
Abstract == INSTANCE ParallelFor WITH
  Limit <- Cap,
  running <- Running,
  outcome <- err,
  returned <- (caller = "returned"),
  errors <- IF caller = "returned" THEN errs ELSE <<>>

(* The pool does nothing the bounded parallel loop does not allow. *)
Refinement == Abstract!Spec
=============================================================================
