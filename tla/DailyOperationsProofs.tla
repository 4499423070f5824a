----------------------- MODULE DailyOperationsProofs -----------------------
(***************************************************************************)
(* The orchestrator is a client of the store: whatever stage it is at, it  *)
(* publishes well-formed events and changes the leases in no other way, so *)
(* what DailyLeasesProofs shows of every client holds of it.               *)
(***************************************************************************)
EXTENDS DailyOperations, DailyLeasesProofs, FiniteSetTheorems

Looping == {"select", "start", "active", "run", "reconciled", "complete", "fail",
            "block", "failOp", "completeOp"}
Attempting == {"start", "active", "run", "reconciled", "complete", "fail"}

\* Where a process stands determines which of its locals are meaningful.
PhaseInv ==
    /\ TypeOK
    /\ \A w \in Worker :
        /\ pc[w] \in Looping => cur[w] \in Stage
        /\ pc[w] \in Attempting => tries[w] \in Attempt
        /\ pc[w] = "fail" => failure[w] \in {"retryable", "final"}
        /\ pc[w] = "block" => blocking[w] \in Stage

-----------------------------------------------------------------------------
(* The events the orchestrator publishes.                                  *)

\* Operation events and stage events are events of the store.
LEMMA OperationEvents ==
    ASSUME NEW kind \in {"operation_claimed", "operation_completed", "operation_failed"}
    PROVE  OpEvent(kind) \in Event
BY DEF OpEvent, Event, Terminal

\* So are the blocked events of _block_downstream.
LEMMA BlockedEvents ==
    ASSUME NEW s \in Stage
    PROVE  Blocked(s) \in Event
BY DEF Blocked, Event

\* And the events of the attempt a process is at.
LEMMA StageEvents ==
    ASSUME NEW w \in Worker, cur[w] \in Stage, tries[w] \in Attempt
    PROVE  /\ StageEvent(w, "stage_started", "") \in Event
           /\ StageEvent(w, "stage_completed", "") \in Event
           /\ \A b \in {"active", "renewed", "reconciled"} :
                StageEvent(w, "stage_heartbeat", b) \in Event
           /\ \A f \in {"retryable", "final"} : StageEvent(w, "stage_failed", f) \in Event
BY OperationAssumption DEF StageEvent, Event

\* A call of append() is a step of the store.
LEMMA CallIsStoreStep ==
    ASSUME NEW w \in Worker, NEW e \in Event,
           Returns(w, e) \/ PublishRejected(w, e)
    PROVE  LeaseNext
BY DEF Returns, LeaseNext

\* Every step of the orchestrator is a step of the store or leaves it alone.
LEMMA StepSimulates ==
    ASSUME PhaseInv, [Next]_vars
    PROVE  [LeaseNext]_leaseVars
<1> USE DEF Call
<1>1. CASE UNCHANGED leaseVars
  BY <1>1
<1>2. CASE Clock
  BY <1>2 DEF Clock, LeaseNext
<1>3. ASSUME NEW w \in Worker, Poll(w) \/ PollRefused(w) \/ PollDenied(w) \/ Release(w)
               \/ Crash(w)
      PROVE  LeaseNext \/ UNCHANGED leaseVars
  BY <1>3 DEF Poll, PollRefused, PollDenied, Release, Crash, LeaseNext
<1>4. ASSUME NEW w \in Worker, Announce(w) \/ FailOperation(w) \/ CompleteOperation(w)
      PROVE  LeaseNext
  BY <1>4, OperationEvents, CallIsStoreStep DEF Announce, FailOperation, CompleteOperation
<1>5. ASSUME NEW w \in Worker, BlockStage(w)
      PROVE  LeaseNext
  BY <1>5, BlockedEvents, CallIsStoreStep DEF BlockStage, PhaseInv
<1>6. ASSUME NEW w \in Worker,
             StartStage(w) \/ BeatActive(w) \/ RenewLeases(w) \/ BeatReconciled(w)
               \/ CompleteStage(w) \/ FailStage(w)
      PROVE  LeaseNext
  <2>1. pc[w] \in Attempting /\ pc[w] \in Looping
    BY <1>6 DEF StartStage, BeatActive, RenewLeases, BeatReconciled, CompleteStage, FailStage,
                Attempting, Looping
  <2>2. cur[w] \in Stage /\ tries[w] \in Attempt
    BY <2>1 DEF PhaseInv
  <2>3. CASE StartStage(w)
    BY <2>2, <2>3, StageEvents, CallIsStoreStep DEF StartStage
  <2>4. CASE BeatActive(w)
    BY <2>2, <2>4, StageEvents, CallIsStoreStep DEF BeatActive
  <2>5. CASE RenewLeases(w)
    BY <2>2, <2>5, StageEvents, CallIsStoreStep DEF RenewLeases
  <2>6. CASE BeatReconciled(w)
    BY <2>2, <2>6, StageEvents, CallIsStoreStep DEF BeatReconciled
  <2>7. CASE CompleteStage(w)
    BY <2>2, <2>7, StageEvents, CallIsStoreStep DEF CompleteStage
  <2>8. CASE FailStage(w)
    BY <2>2, <2>8, StageEvents, CallIsStoreStep DEF FailStage, PhaseInv
  <2> QED BY <1>6, <2>3, <2>4, <2>5, <2>6, <2>7, <2>8
<1>7. ASSUME NEW w \in Worker,
             SeekClaimed(w) \/ CheckResult(w) \/ SkipCompleted(w) \/ SelectAttempt(w)
               \/ Exhausted(w) \/ DelegateReturns(w) \/ DelegateFails(w) \/ Abort(w)
      PROVE  UNCHANGED leaseVars
  BY <1>7 DEF SeekClaimed, CheckResult, SkipCompleted, SelectAttempt, Exhausted,
              DelegateReturns, DelegateFails, LeaveRunner, Abort
<1> QED BY <1>1, <1>2, <1>3, <1>4, <1>5, <1>6, <1>7 DEF Next, Progress, Sleep, vars

-----------------------------------------------------------------------------
(* Types and phases.                                                       *)

\* The attempts recorded for a stage are counted by a natural number.
LEMMA AttemptsCount ==
    ASSUME LeaseTypeOK, NEW s \in Stage
    PROVE  Attempts(s) \in Nat
<1>1. IsFiniteSet(DOMAIN log)
  <2>1. DOMAIN log = 1 .. Len(log) /\ Len(log) \in Int
    BY DEF LeaseTypeOK
  <2> QED BY <2>1, FS_Interval
<1>2. IsFiniteSet({i \in DOMAIN log : log[i].kind = "stage_started" /\ log[i].stage = s})
  BY <1>1, FS_Subset
<1> QED BY <1>2, FS_CardinalityType DEF Attempts

\* The part of PhaseInv about the locals of the processes.
Locals ==
    /\ pc \in [Worker -> PC] /\ cur \in [Worker -> 0 .. NStages]
    /\ tries \in [Worker -> 0 .. MaxAttempts]
    /\ failure \in [Worker -> {"none", "retryable", "final", "exhausted"}]
    /\ blocking \in [Worker -> 0 .. NStages + 1]
    /\ beats \in [Worker -> {"off", "on", "lost"}]
    /\ beatDue \in [Worker -> Nat]
    /\ \A w \in Worker :
        /\ pc[w] \in Looping => cur[w] \in Stage
        /\ pc[w] \in Attempting => tries[w] \in Attempt
        /\ pc[w] = "fail" => failure[w] \in {"retryable", "final"}
        /\ pc[w] = "block" => blocking[w] \in Stage

\* Every step of the orchestrator keeps the types and phases of the locals.
LEMMA LocalsStep ==
    ASSUME PhaseInv, [Next]_vars
    PROVE  Locals'
<1>0. Locals
  BY DEF PhaseInv, TypeOK, Locals
<1>1. /\ NStages \in Nat \ {0} /\ MaxAttempts \in Nat \ {0}
      /\ now \in Nat /\ BeatInterval \in Nat
      /\ \A s \in Stage : Attempts(s) \in Nat
  BY LeaseAssumption, OperationAssumption, AttemptsCount DEF PhaseInv, TypeOK, LeaseTypeOK
<1> USE <1>0, <1>1 DEF Locals, PC, Looping, Attempting, Goto, Call, Stage, Attempt
<1>2. CASE UNCHANGED runVars
  BY <1>2 DEF runVars
<1>3. ASSUME NEW w \in Worker, Poll(w) \/ PollRefused(w) \/ SeekClaimed(w) \/ Announce(w)
      PROVE  Locals'
  BY <1>3 DEF Poll, PollRefused, SeekClaimed, Announce
<1>4. ASSUME NEW w \in Worker, CheckResult(w)
      PROVE  Locals'
  BY <1>4 DEF CheckResult
<1>5. ASSUME NEW w \in Worker, SkipCompleted(w)
      PROVE  Locals'
  BY <1>5 DEF SkipCompleted, AfterStage, NextStage
<1>6. ASSUME NEW w \in Worker, SelectAttempt(w)
      PROVE  Locals'
  BY <1>6 DEF SelectAttempt
<1>7. ASSUME NEW w \in Worker, Exhausted(w)
      PROVE  Locals'
  BY <1>7 DEF Exhausted, BlockFrom
<1>8. ASSUME NEW w \in Worker, StartStage(w) \/ BeatReconciled(w)
      PROVE  Locals'
  BY <1>8 DEF StartStage, BeatReconciled
<1>9. ASSUME NEW w \in Worker, BeatActive(w)
      PROVE  Locals'
  BY <1>9 DEF BeatActive
<1>10. ASSUME NEW w \in Worker, RenewLeases(w)
       PROVE  Locals'
  BY <1>10 DEF RenewLeases
<1>11. ASSUME NEW w \in Worker, DelegateReturns(w)
       PROVE  Locals'
  BY <1>11 DEF DelegateReturns, LeaveRunner
<1>12. ASSUME NEW w \in Worker, DelegateFails(w)
       PROVE  Locals'
  BY <1>12 DEF DelegateFails, LeaveRunner
<1>13. ASSUME NEW w \in Worker, CompleteStage(w)
       PROVE  Locals'
  <2>1. CASE pc' = [pc EXCEPT ![w] = "release"] /\ cur' = cur
    BY <2>1, <1>13 DEF CompleteStage
  <2>2. CASE /\ pc' = [pc EXCEPT ![w] = AfterStage(w)]
             /\ cur' = [cur EXCEPT ![w] = NextStage(w)]
    <3>1. AfterStage(w) \in {"completeOp", "select"} /\ NextStage(w) \in Stage
      <4>1. pc[w] = "complete"
        BY <1>13 DEF CompleteStage
      <4>2. cur[w] \in 1 .. NStages
        BY <4>1
      <4> QED BY <4>2 DEF AfterStage, NextStage
    <3>2. UNCHANGED <<tries, failure, blocking, beats, beatDue>>
      BY <1>13 DEF CompleteStage
    <3> HIDE DEF Stage
    <3>3. Stage \subseteq 0 .. NStages
      BY DEF Stage
    <3> QED BY <2>2, <3>1, <3>2, <3>3
  <2> QED BY <2>1, <2>2, <1>13 DEF CompleteStage
<1>14. ASSUME NEW w \in Worker, FailStage(w)
       PROVE  Locals'
  BY <1>14 DEF FailStage, BlockFrom, WillRetry
<1>15. ASSUME NEW w \in Worker, BlockStage(w)
       PROVE  Locals'
  BY <1>15 DEF BlockStage, BlockFrom
<1>16. ASSUME NEW w \in Worker, FailOperation(w) \/ CompleteOperation(w)
       PROVE  Locals'
  BY <1>16 DEF FailOperation, CompleteOperation
<1>17. ASSUME NEW w \in Worker, Release(w) \/ Crash(w) \/ Abort(w)
       PROVE  Locals'
  BY <1>17 DEF Release, Crash, Abort, ForgetRun
<1> QED
  BY <1>2, <1>3, <1>4, <1>5, <1>6, <1>7, <1>8, <1>9, <1>10, <1>11, <1>12, <1>13, <1>14,
     <1>15, <1>16, <1>17 DEF Next, Progress, PollDenied, Sleep, Clock, vars

\* Types and phases are kept by every step.
LEMMA PhaseStep ==
    ASSUME PhaseInv, [Next]_vars
    PROVE  PhaseInv'
<1>1. LeaseTypeOK'
  BY StepSimulates, TypeStep DEF PhaseInv, TypeOK
<1>2. Locals'
  BY LocalsStep
<1>3. faults' \in 0 .. MaxFaults
  <2>1. faults' = faults \/ (faults < MaxFaults /\ faults' = faults + 1)
    BY DEF Next, Progress, Sleep, vars, Clock, Poll, PollRefused, PollDenied, SeekClaimed, Announce, CheckResult,
           SkipCompleted, SelectAttempt, Exhausted, StartStage, BeatActive, RenewLeases,
           DelegateReturns, DelegateFails, LeaveRunner, BeatReconciled, CompleteStage, FailStage,
           BlockStage, FailOperation, CompleteOperation, Release, Abort, Crash
  <2> QED BY <2>1, OperationAssumption DEF PhaseInv, TypeOK
<1> QED BY <1>1, <1>2, <1>3 DEF PhaseInv, TypeOK, Locals

-----------------------------------------------------------------------------
\* A process that publishes for a stage has that stage and attempt in hand.
THEOREM PhasesCorrect == Spec => []PhaseInv
<1>1. Init => PhaseInv
  <2> SUFFICES ASSUME Init PROVE PhaseInv
    OBVIOUS
  <2>1. LeaseTypeOK
    BY LeaseAssumption, NoLeaseType DEF Init, LeaseInit, LeaseTypeOK, NoGrants
  <2> QED BY <2>1, LeaseAssumption, OperationAssumption
          DEF Init, PhaseInv, TypeOK, PC, Looping, Attempting
<1>2. PhaseInv /\ [Next]_vars => PhaseInv'
  BY PhaseStep
<1> QED BY <1>1, <1>2, PTL DEF Spec

\* Every variable of the orchestrator and of the store keeps its type.
THEOREM TypesCorrect == Spec => []TypeOK
BY PhasesCorrect, PTL DEF PhaseInv

\* The orchestrator, its faults included, is a client of the store.
THEOREM OrchestratorIsClient == Spec => ImplementsLeases
<1>1. Init => LeaseInit
  BY DEF Init
<1>2. PhaseInv /\ [Next]_vars => [LeaseNext]_leaseVars
  BY StepSimulates
<1> QED BY <1>1, <1>2, PhasesCorrect, PTL DEF Spec, LeaseSpec, ImplementsLeases

\* Hence a worker that was replaced publishes nothing into the operation.
THEOREM ReplacedWorkerIsSilent == Spec => [](FencedHistory /\ FencedStages)
BY OrchestratorIsClient, StaleWorkerNeverPublishes, StaleStageNeverPublishes, PTL
DEF ImplementsLeases
=============================================================================
