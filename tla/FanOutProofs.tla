--------------------------- MODULE FanOutProofs ---------------------------
(***************************************************************************)
(* Theorems about FanOut, for every number of calls to Run and every       *)
(* argument of NewFanOut.                                                  *)
(***************************************************************************)
EXTENDS FanOut, FiniteSetTheorems, TLAPS

(* The capacity of the channels is positive: NewFanOut turns 0 into 1.     *)
LEMMA CapPositive == Cap \in Nat /\ Cap >= 1
BY FanOutAssumption DEF Cap

-----------------------------------------------------------------------------
(* Every variable keeps its type, and no channel exceeds its capacity.     *)
LEMMA InitTypeOK == Init => TypeOK
<1> SUFFICES ASSUME Init PROVE TypeOK
  OBVIOUS
<1>1. calls \in 0 .. N /\ called \in 0 .. calls
  BY FanOutAssumption DEF Init
<1>2. /\ errCh \in Seq(Tasks) /\ Len(errCh) \in 0 .. Cap
      /\ errs \in Seq(Tasks)
  BY CapPositive DEF Init
<1>3. /\ worker \in [Tasks -> {"idle", "running", "sending", "releasing",
                              "done"}]
      /\ err \in [Tasks -> {"none", "nil", "error"}]
  BY DEF Init
<1>4. QED
  BY <1>1, <1>2, <1>3, CapPositive DEF Init, TypeOK

(* No step gives a variable a value of another type.                       *)
LEMMA NextTypeOK == TypeOK /\ [Next]_vars => TypeOK'
<1> SUFFICES ASSUME TypeOK, [Next]_vars PROVE TypeOK'
  OBVIOUS
<1> USE CapPositive, FanOutAssumption DEF TypeOK
<1>1. ASSUME NEW t \in Tasks, Run(t) PROVE TypeOK'
  BY <1>1 DEF Run, collectorVars
<1>2. CASE StartWait
  BY <1>2 DEF StartWait, workerVars, collectorVars
<1>3. CASE Acquire
  BY <1>3 DEF Acquire, workerVars, collectorVars
<1>4. CASE Close
  BY <1>4 DEF Close, workerVars, collectorVars
<1>5. CASE Join
  BY <1>5 DEF Join, workerVars, collectorVars
<1>6. ASSUME NEW t \in Tasks, Finish(t) PROVE TypeOK'
  BY <1>6 DEF Finish, callerVars, collectorVars
<1>7. ASSUME NEW t \in Tasks, Send(t) PROVE TypeOK'
  BY <1>7 DEF Send, callerVars, collectorVars
<1>8. ASSUME NEW t \in Tasks, Release(t) PROVE TypeOK'
  BY <1>8 DEF Release, callerVars, collectorVars
<1>9. CASE Receive
  BY <1>9 DEF Receive, callerVars, workerVars
<1>10. CASE AppendErr
  BY <1>10 DEF AppendErr, callerVars, workerVars
<1>11. CASE Stop
  BY <1>11 DEF Stop, callerVars, workerVars
<1>12. CASE UNCHANGED vars
  BY <1>12 DEF vars, callerVars, workerVars, collectorVars
<1>13. QED
  BY <1>1, <1>2, <1>3, <1>4, <1>5, <1>6, <1>7, <1>8, <1>9, <1>10, <1>11, <1>12
  DEF Next, Caller, Worker, Collector

(* In every reachable state the channels are within their capacity.        *)
THEOREM TypeCorrect == Spec => []TypeOK
BY InitTypeOK, NextTypeOK, PTL DEF Spec

-----------------------------------------------------------------------------
(* Sequence facts: what the channel operations do to the Pipeline.         *)

(* Taking the oldest error off errCh leaves the pipeline as it is.         *)
LEMMA MoveFromChannel ==
  ASSUME NEW S, NEW s \in Seq(S), NEW t \in Seq(S), t # <<>>
  PROVE  (s \o <<>>) \o t = (s \o <<Head(t)>>) \o Tail(t)
OBVIOUS

(* So does appending the error in hand to errs.                            *)
LEMMA MoveToErrs ==
  ASSUME NEW S, NEW s \in Seq(S), NEW t \in Seq(S), NEW e \in S
  PROVE  (s \o <<e>>) \o t = (Append(s, e) \o <<>>) \o t
OBVIOUS

(* Sending on errCh appends to the pipeline.                               *)
LEMMA SendExtends ==
  ASSUME NEW S, NEW s \in Seq(S), NEW t \in Seq(S), NEW e \in S
  PROVE  s \o Append(t, e) = Append(s \o t, e)
OBVIOUS

(* Appending a new element repeats nothing and adds just that element.     *)
LEMMA AppendNew ==
  ASSUME NEW S, NEW s \in Seq(S), NEW e \in S,
         NoRepetition(s), e \notin {s[i] : i \in DOMAIN s}
  PROVE  /\ NoRepetition(Append(s, e))
         /\ {Append(s, e)[i] : i \in DOMAIN Append(s, e)}
              = {s[i] : i \in DOMAIN s} \cup {e}
BY DEF NoRepetition

(* The pipeline is a sequence of tasks.                                    *)
LEMMA PipelineType ==
  ASSUME TypeOK
  PROVE  Pipeline \in Seq(Tasks) /\ errs \o InHand \in Seq(Tasks)
BY DEF TypeOK, Pipeline, InHand

-----------------------------------------------------------------------------
(* The workers that hold a token.                                          *)

(* They are finitely many: a task is one of the N calls to Run.            *)
LEMMA HoldingFinite ==
  /\ IsFiniteSet(Tasks)
  /\ IsFiniteSet(Holding) /\ Cardinality(Holding) \in Nat
<1>1. IsFiniteSet(Tasks)
  BY FS_Interval, FanOutAssumption DEF Tasks
<1>2. Holding \in SUBSET Tasks
  BY DEF Holding
<1>3. QED
  BY <1>1, <1>2, FS_Subset, FS_CardinalityType

(* Once Wait has taken every token, no worker holds one.                   *)
LEMMA NoneHolding ==
  ASSUME TypeOK, TokensCounted, acquired = Cap
  PROVE  Holding = {}
<1>1. Cardinality(Holding) = 0
  BY HoldingFinite, CapPositive DEF TypeOK, TokensCounted
<1>2. QED
  BY <1>1, HoldingFinite, FS_EmptySet

(* Run and Acquire put one token in, Release takes one out.                *)
LEMMA TokensInductive ==
  TypeOK /\ TokensCounted /\ WorkersInStep /\ [Next]_vars => TokensCounted'
<1> SUFFICES ASSUME TypeOK, TokensCounted, WorkersInStep, [Next]_vars
             PROVE  TokensCounted'
  OBVIOUS
<1> USE DEF TokensCounted
<1>1. ASSUME NEW t \in Tasks, Run(t) PROVE TokensCounted'
  <2>1. t \notin Holding /\ Holding' = Holding \cup {t}
    BY <1>1, FanOutAssumption
    DEF Run, Holding, WorkersInStep, TypeOK, Tasks
  <2>2. Cardinality(Holding') = Cardinality(Holding) + 1
    BY <2>1, HoldingFinite, FS_AddElement
  <2>3. QED
    BY <1>1, <2>2, HoldingFinite, CapPositive DEF Run, TypeOK
<1>2. ASSUME NEW t \in Tasks, Release(t) PROVE TokensCounted'
  <2>1. t \in Holding /\ Holding' = Holding \ {t}
    BY <1>2 DEF Release, Holding, TypeOK
  <2>2. Cardinality(Holding') = Cardinality(Holding) - 1
    BY <2>1, HoldingFinite, FS_RemoveElement
  <2>3. QED
    BY <1>2, <2>2, HoldingFinite, CapPositive
    DEF Release, TypeOK, callerVars
<1>3. ASSUME NEW t \in Tasks, Finish(t) PROVE TokensCounted'
  <2>1. Holding' = Holding
    BY <1>3 DEF Finish, Holding, TypeOK
  <2>2. QED
    BY <1>3, <2>1 DEF Finish, callerVars
<1>4. ASSUME NEW t \in Tasks, Send(t) PROVE TokensCounted'
  <2>1. Holding' = Holding
    BY <1>4 DEF Send, Holding, TypeOK
  <2>2. QED
    BY <1>4, <2>1 DEF Send, callerVars
<1>5. CASE Acquire
  <2>1. Holding' = Holding
    BY <1>5 DEF Acquire, Holding, workerVars
  <2>2. QED
    BY <1>5, <2>1, HoldingFinite, CapPositive DEF Acquire, TypeOK
<1>6. CASE StartWait \/ Close \/ Join
  BY <1>6 DEF StartWait, Close, Join, Holding, workerVars
<1>7. CASE Collector
  BY <1>7 DEF Collector, Receive, AppendErr, Stop, Holding, workerVars,
              callerVars
<1>8. CASE UNCHANGED vars
  BY <1>8 DEF vars, Holding, workerVars, callerVars
<1>9. QED
  BY <1>1, <1>2, <1>3, <1>4, <1>5, <1>6, <1>7, <1>8 DEF Next, Caller, Worker

-----------------------------------------------------------------------------
(* Where each goroutine can be, given where the others are.                *)

(* The caller closes errCh with all tokens, returns after the collector.   *)
LEMMA CallerInductive ==
  TypeOK /\ CallerInStep /\ [Next]_vars => CallerInStep'
<1> SUFFICES ASSUME TypeOK, CallerInStep, [Next]_vars PROVE CallerInStep'
  OBVIOUS
<1> USE DEF TypeOK, CallerInStep
<1>1. CASE Caller
  BY <1>1 DEF Caller, Run, StartWait, Acquire, Close, Join, collectorVars
<1>2. ASSUME NEW t \in Tasks, Worker(t) PROVE CallerInStep'
  BY <1>2 DEF Worker, Finish, Send, Release, callerVars, collectorVars
<1>3. CASE Collector
  BY <1>3 DEF Collector, Receive, AppendErr, Stop, callerVars
<1>4. CASE UNCHANGED vars
  BY <1>4 DEF vars, callerVars, collectorVars
<1>5. QED
  BY <1>1, <1>2, <1>3, <1>4 DEF Next

(* A worker is idle until its Run, and has an outcome after its callback.  *)
LEMMA WorkersInductive ==
  TypeOK /\ WorkersInStep /\ [Next]_vars => WorkersInStep'
<1> SUFFICES ASSUME TypeOK, WorkersInStep, [Next]_vars PROVE WorkersInStep'
  OBVIOUS
<1> USE FanOutAssumption DEF TypeOK, WorkersInStep
<1>1. ASSUME NEW t \in Tasks, Run(t) PROVE WorkersInStep'
  BY <1>1 DEF Run, Tasks
<1>2. ASSUME NEW t \in Tasks, Finish(t) PROVE WorkersInStep'
  BY <1>2 DEF Finish, callerVars, Tasks
<1>3. ASSUME NEW t \in Tasks, Send(t) PROVE WorkersInStep'
  BY <1>3 DEF Send, callerVars, Tasks
<1>4. ASSUME NEW t \in Tasks, Release(t) PROVE WorkersInStep'
  BY <1>4 DEF Release, callerVars, Tasks
<1>5. CASE StartWait \/ Acquire \/ Close \/ Join
  BY <1>5 DEF StartWait, Acquire, Close, Join, workerVars
<1>6. CASE Collector
  BY <1>6 DEF Collector, Receive, AppendErr, Stop, callerVars, workerVars
<1>7. CASE UNCHANGED vars
  BY <1>7 DEF vars, callerVars, workerVars
<1>8. QED
  BY <1>1, <1>2, <1>3, <1>4, <1>5, <1>6, <1>7 DEF Next, Caller, Worker

(* A send on the closed channel is impossible: Close waited for every      *)
(* token, and a sending worker still holds one.                            *)
LEMMA ClosedMeansDone ==
  ASSUME IInv PROVE NoSendOnClosed
<1> SUFFICES ASSUME closed, NEW t \in Tasks
             PROVE  worker[t] \in {"idle", "done"}
  BY DEF NoSendOnClosed
<1>1. Holding = {}
  BY NoneHolding DEF IInv, CallerInStep
<1>2. QED
  BY <1>1 DEF Holding, IInv, TypeOK

(* The collector ends only once errCh is closed and drained.               *)
LEMMA CollectorInductive ==
  IInv /\ [Next]_vars => CollectorInStep'
<1> SUFFICES ASSUME IInv, [Next]_vars PROVE CollectorInStep'
  OBVIOUS
<1> USE DEF IInv, TypeOK, CollectorInStep
<1>1. CASE Caller
  BY <1>1 DEF Caller, Run, StartWait, Acquire, Close, Join, collectorVars
<1>2. ASSUME NEW t \in Tasks, Finish(t) \/ Release(t) PROVE CollectorInStep'
  BY <1>2 DEF Finish, Release, callerVars, collectorVars
<1>3. ASSUME NEW t \in Tasks, Send(t) PROVE CollectorInStep'
  <2>1. ~closed
    BY <1>3, ClosedMeansDone DEF Send, NoSendOnClosed
  <2>2. QED
    BY <1>3, <2>1 DEF Send, callerVars, collectorVars
<1>4. CASE Collector
  BY <1>4 DEF Collector, Receive, AppendErr, Stop, callerVars
<1>5. CASE UNCHANGED vars
  BY <1>5 DEF vars, callerVars, collectorVars
<1>6. QED
  BY <1>1, <1>2, <1>3, <1>4, <1>5 DEF Next, Worker

-----------------------------------------------------------------------------
(* No step loses or repeats an error.                                      *)

Sent == {t \in Failed : worker[t] # "sending"}

(* A worker's send adds its own error; every other step keeps them all.    *)
LEMMA ErrorsInductive ==
  TypeOK /\ WorkersInStep /\ ErrorsInTransit /\ [Next]_vars
    => ErrorsInTransit'
<1> SUFFICES ASSUME TypeOK, WorkersInStep, ErrorsInTransit, [Next]_vars
             PROVE  ErrorsInTransit'
  OBVIOUS
<1>1. ASSUME Pipeline' = Pipeline, Sent' = Sent PROVE ErrorsInTransit'
  BY <1>1 DEF ErrorsInTransit, Sent, NoRepetition
<1>2. ASSUME NEW t \in Tasks, Run(t) PROVE ErrorsInTransit'
  <2>1. Pipeline' = Pipeline
    BY <1>2 DEF Run, Pipeline, InHand, collectorVars
  <2>2. Sent' = Sent
    BY <1>2, FanOutAssumption
    DEF Run, Sent, Failed, WorkersInStep, TypeOK, Tasks
  <2>3. QED
    BY <1>1, <2>1, <2>2
<1>3. ASSUME NEW t \in Tasks, Finish(t) PROVE ErrorsInTransit'
  <2>1. Pipeline' = Pipeline
    BY <1>3 DEF Finish, Pipeline, InHand, collectorVars
  <2>2. Sent' = Sent
    BY <1>3 DEF Finish, Sent, Failed, WorkersInStep, TypeOK
  <2>3. QED
    BY <1>1, <2>1, <2>2
<1>4. ASSUME NEW t \in Tasks, Send(t) PROVE ErrorsInTransit'
  <2>1. Sent' = Sent \cup {t} /\ t \notin Sent
    BY <1>4 DEF Send, Sent, Failed, WorkersInStep, TypeOK
  <2>2. Pipeline' = Append(Pipeline, t)
    <3>1. Pipeline' = (errs \o InHand) \o Append(errCh, t)
      BY <1>4 DEF Send, Pipeline, InHand, collectorVars
    <3>2. QED
      BY <3>1, PipelineType, SendExtends, SMTT(30) DEF Pipeline, TypeOK
  <2>3. NoRepetition(Pipeline) /\ {Pipeline[i] : i \in DOMAIN Pipeline} = Sent
    BY DEF ErrorsInTransit, Sent
  <2>4. /\ NoRepetition(Append(Pipeline, t))
        /\ {Append(Pipeline, t)[i] : i \in DOMAIN Append(Pipeline, t)}
             = Sent \cup {t}
    <3>1. t \notin {Pipeline[i] : i \in DOMAIN Pipeline}
      BY <2>1, <2>3
    <3>2. /\ NoRepetition(Append(Pipeline, t))
          /\ {Append(Pipeline, t)[i] : i \in DOMAIN Append(Pipeline, t)}
               = {Pipeline[i] : i \in DOMAIN Pipeline} \cup {t}
      <4>1. Pipeline \in Seq(Tasks)
        BY PipelineType
      <4>2. QED
        BY <2>3, <3>1, <4>1, AppendNew DEF NoRepetition
    <3>3. QED
      BY <2>3, <3>2
  <2>5. QED
    BY <2>1, <2>2, <2>4 DEF ErrorsInTransit, Sent, NoRepetition
<1>5. ASSUME NEW t \in Tasks, Release(t) PROVE ErrorsInTransit'
  <2>1. Pipeline' = Pipeline
    BY <1>5 DEF Release, Pipeline, InHand, collectorVars
  <2>2. Sent' = Sent
    BY <1>5 DEF Release, Sent, Failed, TypeOK
  <2>3. QED
    BY <1>1, <2>1, <2>2
<1>6. CASE StartWait \/ Acquire \/ Close \/ Join
  <2>1. Pipeline' = Pipeline
    BY <1>6
    DEF StartWait, Acquire, Close, Join, Pipeline, InHand, collectorVars
  <2>2. Sent' = Sent
    BY <1>6 DEF StartWait, Acquire, Close, Join, Sent, Failed, workerVars
  <2>3. QED
    BY <1>1, <2>1, <2>2
<1>7. CASE Collector
  <2>1. Sent' = Sent
    BY <1>7 DEF Collector, Receive, AppendErr, Stop, Sent, Failed, workerVars
  <2>2. CASE Receive
    BY <1>1, <2>1, <2>2, MoveFromChannel
    DEF Receive, Pipeline, InHand, TypeOK
  <2>3. CASE AppendErr
    BY <1>1, <2>1, <2>3, MoveToErrs DEF AppendErr, Pipeline, InHand, TypeOK
  <2>4. CASE Stop
    BY <1>1, <2>1, <2>4 DEF Stop, Pipeline, InHand
  <2>5. QED
    BY <1>7, <2>2, <2>3, <2>4 DEF Collector
<1>8. CASE UNCHANGED vars
  BY <1>1, <1>8
  DEF vars, callerVars, workerVars, collectorVars, Pipeline, InHand, Sent,
      Failed
<1>9. QED
  BY <1>2, <1>3, <1>4, <1>5, <1>6, <1>7, <1>8 DEF Next, Caller, Worker

-----------------------------------------------------------------------------
(* The invariant, and what it implies.                                     *)

(* The invariant holds initially.                                          *)
LEMMA InitIInv == Init => IInv
<1> SUFFICES ASSUME Init PROVE IInv
  OBVIOUS
<1>1. TypeOK
  BY InitTypeOK
<1>2. TokensCounted
  <2>1. Holding = {}
    BY DEF Init, Holding
  <2>2. QED
    BY <2>1, FS_EmptySet DEF Init, TokensCounted
<1>3. CallerInStep /\ WorkersInStep /\ CollectorInStep
  BY FanOutAssumption
  DEF Init, CallerInStep, WorkersInStep, CollectorInStep, Tasks
<1>4. ErrorsInTransit
  <2>1. Pipeline = <<>>
    BY DEF Init, Pipeline, InHand
  <2>2. Failed = {}
    BY DEF Init, Failed
  <2>3. QED
    BY <2>1, <2>2 DEF ErrorsInTransit, NoRepetition
<1>5. QED
  BY <1>1, <1>2, <1>3, <1>4 DEF IInv

(* No step breaks the invariant: one lemma for each of its parts.          *)
LEMMA NextIInv == IInv /\ [Next]_vars => IInv'
BY NextTypeOK, TokensInductive, CallerInductive, WorkersInductive,
   CollectorInductive, ErrorsInductive DEF IInv

(* The inductive invariant holds in every reachable state.                 *)
THEOREM Invariance == Spec => []IInv
BY InitIInv, NextIInv, PTL DEF Spec

(* Never more than Cap callbacks run at once, whatever MaxConcurrent is.   *)
THEOREM BoundedConcurrency == Spec => []ConcurrencyBound
<1>1. IInv => ConcurrencyBound
  <2> SUFFICES ASSUME IInv PROVE ConcurrencyBound
    OBVIOUS
  <2>1. Running \in SUBSET Holding
    BY DEF Running, Holding
  <2>2. Cardinality(Running) <= Cardinality(Holding)
        /\ IsFiniteSet(Running)
    BY <2>1, HoldingFinite, FS_Subset
  <2>3. Cardinality(Holding) <= Cap
    BY HoldingFinite, CapPositive DEF IInv, TypeOK, TokensCounted
  <2>4. QED
    BY <2>2, <2>3, HoldingFinite, CapPositive, FS_CardinalityType
    DEF ConcurrencyBound
<1>2. QED
  BY <1>1, Invariance, PTL

(* No worker can still send when Wait closes the error channel.            *)
THEOREM SafeClose == Spec => []NoSendOnClosed
BY ClosedMeansDone, Invariance, PTL

(* Every goroutine of the pool has ended when Wait returns.                *)
THEOREM NoGoroutineLeft == Spec => []NothingOutlivesWait
<1>1. IInv => NothingOutlivesWait
  <2> SUFFICES ASSUME IInv, caller = "returned"
               PROVE  /\ collector = "done"
                      /\ \A t \in 1 .. called :
                           worker[t] = "done" /\ err[t] # "none"
    BY DEF NothingOutlivesWait
  <2>1. NoSendOnClosed /\ closed /\ collector = "done"
    BY ClosedMeansDone DEF IInv, CallerInStep
  <2>2. ASSUME NEW t \in 1 .. called
        PROVE  worker[t] = "done" /\ err[t] # "none"
    <3>1. t \in Tasks /\ ~(t > called)
      BY FanOutAssumption DEF IInv, TypeOK, Tasks
    <3>2. QED
      BY <2>1, <3>1 DEF NoSendOnClosed, IInv, WorkersInStep
  <2>3. QED
    BY <2>1, <2>2
<1>2. QED
  BY <1>1, Invariance, PTL

(* No error is lost or repeated between a worker and errs.                 *)
THEOREM ErrorsConserved == Spec => []ErrorsInTransit
BY Invariance, PTL DEF IInv

(* Wait returns the error of every failed callback, each exactly once.     *)
LEMMA ReturnedErrors ==
  ASSUME IInv, caller = "returned"
  PROVE  NoRepetition(errs) /\ {errs[i] : i \in DOMAIN errs} = Failed
<1>1. NoSendOnClosed /\ closed /\ collector = "done" /\ errCh = <<>>
  BY ClosedMeansDone DEF IInv, CallerInStep, CollectorInStep
<1>2. Pipeline = errs
  BY <1>1 DEF Pipeline, InHand, IInv, TypeOK
<1>3. Failed = {t \in Failed : worker[t] # "sending"}
  BY <1>1 DEF NoSendOnClosed, Failed
<1>4. QED
  BY <1>2, <1>3 DEF IInv, ErrorsInTransit

(* Wait returns every error, once, in every reachable state.               *)
THEOREM AllErrorsReturned == Spec => []ErrorsExactlyOnce
<1>1. IInv => ErrorsExactlyOnce
  BY ReturnedErrors DEF ErrorsExactlyOnce
<1>2. QED
  BY <1>1, Invariance, PTL

-----------------------------------------------------------------------------
(* FanOut implements ParallelFor.                                          *)

(* The instance has its own name for the one operator Cardinality.         *)
LEMMA SameCardinality ==
  ASSUME NEW S PROVE Abstract!Cardinality(S) = Cardinality(S)
BY DEF Abstract!Cardinality, Cardinality

(* A sequence without repetition of a finite set's elements is one of the  *)
(* orderings of that set.                                                  *)
LEMMA Ordering ==
  ASSUME NEW S, NEW s \in Seq(S), NoRepetition(s),
         {s[i] : i \in DOMAIN s} = S
  PROVE  s \in Abstract!SetToSeqs(S)
<1>1. s \in Surjection(1 .. Len(s), S) /\ s \in Injection(1 .. Len(s), S)
  BY DEF NoRepetition, Surjection, Injection, IsInjective
<1>2. IsFiniteSet(1 .. Len(s)) /\ Cardinality(1 .. Len(s)) = Len(s)
  <2>1. Len(s) \in Nat /\ 1 \in Int /\ Len(s) \in Int
    OBVIOUS
  <2>2. QED
    BY <2>1, FS_Interval, SMTT(20)
<1>3. Cardinality(S) = Len(s)
  BY <1>1, <1>2, FS_Surjection
<1>4. QED
  BY <1>3, SameCardinality DEF NoRepetition, Abstract!SetToSeqs

(* A new pool is a loop in which nothing has begun.                        *)
LEMMA InitRefines == Init => Abstract!Init
BY DEF Init, Abstract!Init, Running

(* Only a call to Run, a callback that returns and the return of Wait are  *)
(* visible in ParallelFor; every other step leaves it as it is.            *)
LEMMA NextRefines ==
  IInv /\ [Next]_vars => [Abstract!Next]_Abstract!vars
<1> SUFFICES ASSUME IInv, [Next]_vars
             PROVE  Abstract!Next \/ UNCHANGED Abstract!vars
  OBVIOUS
<1> TypeOK
  BY DEF IInv
<1>1. ASSUME NEW t \in Tasks, Run(t) PROVE Abstract!Begin(t)
  <2>1. worker[t] = "idle" /\ err[t] = "none"
    BY <1>1, FanOutAssumption
    DEF Run, IInv, WorkersInStep, TypeOK, Tasks
  <2>2. t \notin Running /\ Running' = Running \cup {t}
    BY <1>1, <2>1 DEF Run, Running, TypeOK
  <2>3. Cardinality(Running) < Cap
    <3>1. Running \in SUBSET Holding
      BY DEF Running, Holding
    <3>2. Cardinality(Running) <= Cardinality(Holding)
          /\ Cardinality(Running) \in Nat
      BY <3>1, HoldingFinite, FS_Subset, FS_CardinalityType
    <3>3. Cardinality(Holding) < Cap
      BY <1>1, HoldingFinite, CapPositive
      DEF Run, IInv, TypeOK, TokensCounted, CallerInStep
    <3>4. QED
      BY <3>2, <3>3, HoldingFinite, CapPositive
  <2>4. QED
    BY <1>1, <2>1, <2>2, <2>3, SameCardinality
    DEF Run, Abstract!Begin, collectorVars
<1>2. ASSUME NEW t \in Tasks, Finish(t)
      PROVE  \E o \in {"nil", "error"} : Abstract!End(t, o)
  <2>1. t \in Running /\ Running' = Running \ {t}
    BY <1>2 DEF Finish, Running, TypeOK
  <2>2. QED
    BY <1>2, <2>1 DEF Finish, Abstract!End, callerVars, collectorVars
<1>3. ASSUME Join PROVE Abstract!Return
  <2>1. IInv'
    BY NextIInv
  <2>2. Running = {} /\ Running' = {}
    BY <1>3, ClosedMeansDone
    DEF Join, Running, NoSendOnClosed, IInv, CallerInStep, workerVars
  <2>3. errs' \in Abstract!SetToSeqs(Abstract!Failed)
    <3>1. NoSendOnClosed /\ closed /\ collector = "done" /\ errCh = <<>>
      BY <1>3, ClosedMeansDone
      DEF Join, IInv, CallerInStep, CollectorInStep
    <3>2. Pipeline = errs
      BY <3>1 DEF Pipeline, InHand, TypeOK
    <3>3. Failed = {t \in Failed : worker[t] # "sending"}
      BY <3>1 DEF NoSendOnClosed, Failed
    <3>4. NoRepetition(errs) /\ {errs[i] : i \in DOMAIN errs} = Failed
      BY <3>2, <3>3 DEF IInv, ErrorsInTransit
    <3>5. errs \in Seq(Failed)
      BY <3>4 DEF TypeOK
    <3>6. errs \in Abstract!SetToSeqs(Failed)
      BY <3>4, <3>5, Ordering DEF NoRepetition
    <3>7. QED
      BY <1>3, <3>6 DEF Join, Failed, Abstract!Failed, collectorVars
  <2>4. QED
    BY <1>3, <2>2, <2>3 DEF Join, Abstract!Return, workerVars, collectorVars
<1>4. CASE StartWait \/ Acquire \/ Close
  BY <1>4
  DEF StartWait, Acquire, Close, Running, workerVars, collectorVars,
      Abstract!vars, IInv, CallerInStep
<1>5. ASSUME NEW t \in Tasks, Send(t) \/ Release(t)
      PROVE  UNCHANGED Abstract!vars
  <2>1. Running' = Running
    BY <1>5 DEF Send, Release, Running, TypeOK
  <2>2. QED
    BY <1>5, <2>1
    DEF Send, Release, callerVars, collectorVars, Abstract!vars
<1>6. CASE Collector
  BY <1>6
  DEF Collector, Receive, AppendErr, Stop, Running, callerVars, workerVars,
      Abstract!vars, IInv, CallerInStep
<1>7. CASE UNCHANGED vars
  BY <1>7
  DEF vars, Running, callerVars, workerVars, collectorVars, Abstract!vars
<1>8. QED
  BY <1>1, <1>2, <1>3, <1>4, <1>5, <1>6, <1>7
  DEF Next, Caller, Worker, Abstract!Next

(* Whatever a caller can see of a FanOut, it could see of the bounded      *)
(* parallel loop.                                                          *)
THEOREM Implementation == Spec => Refinement
BY InitRefines, NextRefines, Invariance, PTL
DEF Spec, Refinement, Abstract!Spec
=============================================================================
