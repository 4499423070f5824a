-------------------------- MODULE DailyOperations --------------------------
(***************************************************************************)
(* The canonical daily operation: processes that run                       *)
(* CanonicalDailyOperationsOrchestrator.run (operations/daily_orchestration*)
(* .py) under LeasedCanonicalDailyOperationsOrchestrator and               *)
(* FencedStageRunner (operations/daily_leases.py) over the store of        *)
(* DailyLeases, polled by run_daily_operations.py.                         *)
(*                                                                         *)
(* Every read of the event table and every append is a step of its own, so *)
(* a process decides on what it read and publishes later, when the lease   *)
(* may have moved.  The heartbeat thread of a running stage is a separate  *)
(* actor.  A process may die at any step, or leave through an exception    *)
(* that still runs release_all().                                          *)
(***************************************************************************)
EXTENDS DailyLeases, FiniteSets

CONSTANTS
    BeatInterval,  \* heartbeat_interval_seconds, in clock ticks
    StableNames,   \* a restarted process keeps its worker identity (FALSE: the
                   \* default identity, hostname:pid, which no restart reuses)
    MaxFaults      \* bound: crashes, aborted runs and refused keys

ASSUME OperationAssumption ==
    /\ {"active", "renewed", "reconciled"} \subseteq Beat
    /\ BeatInterval \in Nat \ {0}
    /\ StableNames \in BOOLEAN
    /\ MaxFaults \in Nat

VARIABLES
    pc,        \* worker -> where its run() stands
    cur,       \* worker -> stage the loop is at, 0 outside the loop
    tries,     \* worker -> attempts, the local counter of the retry loop
    failure,   \* worker -> why the stage failed
    blocking,  \* worker -> next downstream stage to mark blocked
    beats,     \* worker -> heartbeat thread of the running stage
    beatDue,   \* worker -> instant its next renewal is due
    faults     \* crashes, aborts and refused keys so far

runVars == <<pc, cur, tries, failure, blocking, beats, beatDue>>
vars == <<leaseVars, runVars, faults>>

PC == {"idle", "claimed", "announce", "check", "select", "start", "active", "run",
       "reconciled", "complete", "fail", "block", "failOp", "completeOp", "release",
       "gone"}

TypeOK ==
    /\ LeaseTypeOK
    /\ pc \in [Worker -> PC]
    /\ cur \in [Worker -> 0 .. NStages]
    /\ tries \in [Worker -> 0 .. MaxAttempts]
    /\ failure \in [Worker -> {"none", "retryable", "final", "exhausted"}]
    /\ blocking \in [Worker -> 0 .. NStages + 1]
    /\ beats \in [Worker -> {"off", "on", "lost"}]
    /\ beatDue \in [Worker -> Nat]
    /\ faults \in 0 .. MaxFaults

Init ==
    /\ LeaseInit
    /\ pc = [w \in Worker |-> "idle"]
    /\ cur = [w \in Worker |-> 0]
    /\ tries = [w \in Worker |-> 0]
    /\ failure = [w \in Worker |-> "none"]
    /\ blocking = [w \in Worker |-> 0]
    /\ beats = [w \in Worker |-> "off"]
    /\ beatDue = [w \in Worker |-> 0]
    /\ faults = 0

-----------------------------------------------------------------------------
(* What a process reads from the event table.                              *)

Exists(kinds) == \E i \in DOMAIN log : log[i].kind \in kinds
Completed(s) == \E i \in DOMAIN log : log[i].kind = "stage_completed" /\ log[i].stage = s
Attempts(s) ==
    Cardinality({i \in DOMAIN log : log[i].kind = "stage_started" /\ log[i].stage = s})

OpEvent(kind) == [kind |-> kind, stage |-> 0, attempt |-> 0, note |-> ""]
Blocked(s) == [kind |-> "stage_blocked", stage |-> s, attempt |-> 0, note |-> ""]
StageEvent(w, kind, note) ==
    [kind |-> kind, stage |-> cur[w], attempt |-> tries[w], note |-> note]

-----------------------------------------------------------------------------
Goto(w, there) == pc' = [pc EXCEPT ![w] = there]

\* A call of append(): it returns, or it raises a lease error that leaves run()
\* through release_all().
Returns(w, e) == Publish(w, e) \/ PublishAgain(w, e)

Call(w, e, Returned) ==
    \/ Returns(w, e) /\ Returned
    \/ /\ PublishRejected(w, e)
       /\ Goto(w, "release")
       /\ UNCHANGED <<cur, tries, failure, blocking, beats, beatDue>>

\* run() is entered at every poll, whether or not the day is already done.
Poll(w) ==
    /\ pc[w] = "idle"
    /\ \E k \in Key : Claim(w, k)
    /\ Goto(w, "claimed")
    /\ UNCHANGED <<cur, tries, failure, blocking, beats, beatDue, faults>>

\* The idempotency key of a changed deployment is refused; counted as a fault.
PollRefused(w) ==
    /\ pc[w] = "idle"
    /\ faults < MaxFaults
    /\ faults' = faults + 1
    /\ \E k \in Key : ClaimConflict(w, k)
    /\ Goto(w, "release")
    /\ UNCHANGED <<cur, tries, failure, blocking, beats, beatDue>>

\* lease_not_acquired: the run ends at once and the loop sleeps.
PollDenied(w) ==
    /\ pc[w] = "idle"
    /\ ClaimDenied(w)
    /\ UNCHANGED <<runVars, faults>>

\* The loop waits for the next poll.
Sleep(w) == pc[w] = "idle" /\ UNCHANGED vars

SeekClaimed(w) ==
    /\ pc[w] = "claimed"
    /\ Goto(w, IF Exists({"operation_claimed"}) THEN "check" ELSE "announce")
    /\ UNCHANGED <<leaseVars, cur, tries, failure, blocking, beats, beatDue, faults>>

Announce(w) ==
    /\ pc[w] = "announce"
    /\ Call(w, OpEvent("operation_claimed"),
            Goto(w, "check") /\ UNCHANGED <<cur, tries, failure, blocking, beats, beatDue>>)
    /\ UNCHANGED faults

\* Mutant: the outcome recorded by an earlier run is not looked at.
CheckResultForgets(w) ==
    /\ pc[w] = "check"
    /\ Goto(w, "select") /\ cur' = [cur EXCEPT ![w] = 1]
    /\ UNCHANGED <<leaseVars, tries, failure, blocking, beats, beatDue, faults>>

\* A finished operation is reported, not repeated.
CheckResult(w) ==
    /\ pc[w] = "check"
    /\ IF Exists(Terminal)
       THEN Goto(w, "release") /\ UNCHANGED cur
       ELSE Goto(w, "select") /\ cur' = [cur EXCEPT ![w] = 1]
    /\ UNCHANGED <<leaseVars, tries, failure, blocking, beats, beatDue, faults>>

-----------------------------------------------------------------------------
(* The stage loop.                                                         *)

AfterStage(w) == IF cur[w] = NStages THEN "completeOp" ELSE "select"
\* Mutant: the stage counter runs past the last stage.
NextStageUncapped(w) == cur[w] + 1
NextStage(w) == IF cur[w] = NStages THEN cur[w] ELSE cur[w] + 1
\* Mutant: the last stage is taken for the one behind it.
BlockFromOffByOne(s) == IF s >= NStages THEN "failOp" ELSE "block"
BlockFrom(s) == IF s > NStages THEN "failOp" ELSE "block"

SkipCompleted(w) ==
    /\ pc[w] = "select"
    /\ Completed(cur[w])
    /\ Goto(w, AfterStage(w))
    /\ cur' = [cur EXCEPT ![w] = NextStage(w)]
    /\ UNCHANGED <<leaseVars, tries, failure, blocking, beats, beatDue, faults>>

SelectAttempt(w) ==
    /\ pc[w] = "select"
    /\ ~Completed(cur[w])
    /\ Attempts(cur[w]) < MaxAttempts
    /\ tries' = [tries EXCEPT ![w] = Attempts(cur[w]) + 1]
    /\ Goto(w, "start")
    /\ UNCHANGED <<leaseVars, cur, failure, blocking, beats, beatDue, faults>>

Exhausted(w) ==
    /\ pc[w] = "select"
    /\ ~Completed(cur[w])
    /\ Attempts(cur[w]) >= MaxAttempts
    /\ failure' = [failure EXCEPT ![w] = "exhausted"]
    /\ blocking' = [blocking EXCEPT ![w] = cur[w] + 1]
    /\ Goto(w, BlockFrom(cur[w] + 1))
    /\ UNCHANGED <<leaseVars, cur, tries, beats, beatDue, faults>>

StartStage(w) ==
    /\ pc[w] = "start"
    /\ Call(w, StageEvent(w, "stage_started", ""),
            Goto(w, "active") /\ UNCHANGED <<cur, tries, failure, blocking, beats, beatDue>>)
    /\ UNCHANGED faults

\* "stage attempt is active"; then FencedStageRunner.run starts its thread.
BeatActive(w) ==
    /\ pc[w] = "active"
    /\ Call(w, StageEvent(w, "stage_heartbeat", "active"),
            /\ Goto(w, "run")
            /\ beats' = [beats EXCEPT ![w] = "on"]
            /\ beatDue' = [beatDue EXCEPT ![w] = now + BeatInterval]
            /\ UNCHANGED <<cur, tries, failure, blocking>>)
    /\ UNCHANGED faults

\* The heartbeat thread wakes.  Its first exception is kept and ends it.  The
\* assertion that follows a renewal is part of the step: if the lease goes
\* away between the two, the assertion at the end of the stage finds it too,
\* and neither failure can be published.
RenewLeases(w) ==
    /\ pc[w] = "run"
    /\ beats[w] = "on"
    /\ now >= beatDue[w]
    /\ LET e == StageEvent(w, "stage_heartbeat", "renewed") IN
        \/ /\ Returns(w, e)
           /\ beatDue' = [beatDue EXCEPT ![w] = now + BeatInterval]
           /\ UNCHANGED beats
        \/ /\ PublishRejected(w, e)
           /\ beats' = [beats EXCEPT ![w] = "lost"]
           /\ UNCHANGED beatDue
    /\ UNCHANGED <<pc, cur, tries, failure, blocking, faults>>

LeaveRunner(w) ==
    /\ beats' = [beats EXCEPT ![w] = "off"]
    /\ beatDue' = [beatDue EXCEPT ![w] = 0]
    /\ UNCHANGED <<leaseVars, cur, tries, blocking, faults>>

\* The delegate returns a reconciled result.  A recorded lease failure turns
\* it into a retryable INTERRUPTED error; a failed final assertion is an
\* exception of no known type, which is not retryable.
DelegateReturns(w) ==
    /\ pc[w] = "run"
    /\ IF beats[w] = "lost" \/ ~FenceHolds(w, cur[w])
       THEN /\ failure' = [failure EXCEPT ![w] = IF beats[w] = "lost" THEN "retryable" ELSE "final"]
            /\ Goto(w, "fail")
       ELSE Goto(w, "reconciled") /\ UNCHANGED failure
    /\ LeaveRunner(w)

\* The delegate raises, or its result is refused: only a StageExecutionError
\* that says so is retryable.
DelegateFails(w) ==
    /\ pc[w] = "run"
    /\ \E f \in {"retryable", "final"} : failure' = [failure EXCEPT ![w] = f]
    /\ Goto(w, "fail")
    /\ LeaveRunner(w)

BeatReconciled(w) ==
    /\ pc[w] = "reconciled"
    /\ Call(w, StageEvent(w, "stage_heartbeat", "reconciled"),
            Goto(w, "complete") /\ UNCHANGED <<cur, tries, failure, blocking, beats, beatDue>>)
    /\ UNCHANGED faults

CompleteStage(w) ==
    /\ pc[w] = "complete"
    /\ Call(w, StageEvent(w, "stage_completed", ""),
            /\ Goto(w, AfterStage(w))
            /\ cur' = [cur EXCEPT ![w] = NextStage(w)]
            /\ UNCHANGED <<tries, failure, blocking, beats, beatDue>>)
    /\ UNCHANGED faults

\* Mutant: one attempt more than the policy allows.
WillRetryOnceMore(w) == failure[w] = "retryable" /\ tries[w] <= MaxAttempts
WillRetry(w) == failure[w] = "retryable" /\ tries[w] < MaxAttempts

FailStage(w) ==
    /\ pc[w] = "fail"
    /\ Call(w, StageEvent(w, "stage_failed", failure[w]),
            /\ IF WillRetry(w)
               THEN /\ Goto(w, "start")
                    /\ tries' = [tries EXCEPT ![w] = @ + 1]
                    /\ failure' = [failure EXCEPT ![w] = "none"]
                    /\ UNCHANGED blocking
               ELSE /\ Goto(w, BlockFrom(cur[w] + 1))
                    /\ blocking' = [blocking EXCEPT ![w] = cur[w] + 1]
                    /\ UNCHANGED <<tries, failure>>
            /\ UNCHANGED <<cur, beats, beatDue>>)
    /\ UNCHANGED faults

\* _block_downstream: one event per later stage, in order.
BlockStage(w) ==
    /\ pc[w] = "block"
    /\ Call(w, Blocked(blocking[w]),
            /\ blocking' = [blocking EXCEPT ![w] = @ + 1]
            /\ Goto(w, BlockFrom(blocking[w] + 1))
            /\ UNCHANGED <<cur, tries, failure, beats, beatDue>>)
    /\ UNCHANGED faults

FailOperation(w) ==
    /\ pc[w] = "failOp"
    /\ Call(w, OpEvent("operation_failed"),
            Goto(w, "release") /\ UNCHANGED <<cur, tries, failure, blocking, beats, beatDue>>)
    /\ UNCHANGED faults

CompleteOperation(w) ==
    /\ pc[w] = "completeOp"
    /\ Call(w, OpEvent("operation_completed"),
            Goto(w, "release") /\ UNCHANGED <<cur, tries, failure, blocking, beats, beatDue>>)
    /\ UNCHANGED faults

-----------------------------------------------------------------------------
(* Leaving run().                                                          *)

ForgetRun(w) ==
    /\ cur' = [cur EXCEPT ![w] = 0]
    /\ tries' = [tries EXCEPT ![w] = 0]
    /\ failure' = [failure EXCEPT ![w] = "none"]
    /\ blocking' = [blocking EXCEPT ![w] = 0]
    /\ beats' = [beats EXCEPT ![w] = "off"]
    /\ beatDue' = [beatDue EXCEPT ![w] = 0]

Release(w) ==
    /\ pc[w] = "release"
    /\ ReleaseAll(w)
    /\ Goto(w, "idle")
    /\ ForgetRun(w)
    /\ UNCHANGED faults

\* Any other exception outside the stage runner, such as SQLite's "database
\* is locked": the finally clause still releases.
Abort(w) ==
    /\ pc[w] \notin {"idle", "run", "release", "gone"}
    /\ faults < MaxFaults
    /\ faults' = faults + 1
    /\ Goto(w, "release")
    /\ UNCHANGED <<leaseVars, cur, tries, failure, blocking, beats, beatDue>>

Crash(w) ==
    /\ pc[w] \notin {"idle", "gone"}
    /\ faults < MaxFaults
    /\ faults' = faults + 1
    /\ LoseMemory(w)
    /\ Goto(w, IF StableNames THEN "idle" ELSE "gone")
    /\ ForgetRun(w)

Clock == Tick /\ UNCHANGED <<runVars, faults>>

Progress(w) ==
    \/ Poll(w) \/ PollDenied(w) \/ SeekClaimed(w) \/ Announce(w) \/ CheckResult(w)
    \/ SkipCompleted(w) \/ SelectAttempt(w) \/ Exhausted(w)
    \/ StartStage(w) \/ BeatActive(w) \/ DelegateReturns(w) \/ DelegateFails(w)
    \/ BeatReconciled(w) \/ CompleteStage(w) \/ FailStage(w)
    \/ BlockStage(w) \/ FailOperation(w) \/ CompleteOperation(w)
    \/ Release(w)

Next ==
    \/ Clock
    \/ \E w \in Worker : Progress(w) \/ Sleep(w) \/ RenewLeases(w)
                       \/ PollRefused(w) \/ Abort(w) \/ Crash(w)

Spec == Init /\ [][Next]_vars
-----------------------------------------------------------------------------
(* Properties.                                                             *)

\* Every completion or failure closes the attempt that was started last for
\* its stage, and by the worker and under the tokens that started it: a
\* worker that lost its lease in the middle of a stage publishes no result.
ClosedByStarter ==
    \A i \in DOMAIN log : log[i].kind \in Closing =>
        \E j \in 1 .. i - 1 :
            /\ log[j].kind = "stage_started"
            /\ \A f \in {"stage", "attempt", "worker", "opToken", "stToken"} :
                  log[j][f] = log[i][f]
            /\ \A m \in j + 1 .. i - 1 :
                  log[m].kind \in {"stage_started"} \cup Closing => log[m].stage # log[i].stage

\* A finished operation stays finished: later polls, and workers that read
\* the table before it ended, add no event.
NothingAfterTerminal ==
    \A i \in DOMAIN log : log[i].kind \in Terminal => i = Len(log)

\* A live stage lease is covered by a live operation lease of the same
\* worker, so that whoever may claim the operation may start its stages.  (A
\* process restarted under its old name takes the operation back at once but
\* not the stage grants of its former life, and may end the operation lease
\* before the stage lease it no longer knows of.)
StageInsideOperation ==
    ~StableNames => \A s \in Stage : Active(stLease[s]) =>
        /\ opLease.owner = stLease[s].owner
        /\ stLease[s].expires <= opLease.expires

\* A failed operation has one stage that was attempted and did not complete:
\* every stage before it completed and every stage behind it is marked blocked.
FailureAccountsForStages ==
    Exists({"operation_failed"}) =>
        \E f \in Stage :
            /\ ~Completed(f) /\ Attempts(f) > 0
            /\ \A s \in 1 .. f - 1 : Completed(s)
            /\ \A s \in f + 1 .. NStages :
                  \E i \in DOMAIN log : log[i].kind = "stage_blocked" /\ log[i].stage = s

\* A worker that still owns both leases has not been told it lost them: the
\* periodic renewals of one attempt succeed for as long as the lease is its
\* own.  ("Renew leases while a stage runs")
RenewalKeepsOwner ==
    \A w \in Worker : (pc[w] = "run" /\ FenceHolds(w, cur[w])) => beats[w] # "lost"

\* A worker that took over and owns the operation can mark a downstream stage
\* blocked.  ("recovery resumes or blocks predictably")
RecoveryCanBlock ==
    \A w \in Worker : (pc[w] = "block" /\ OperationFence(w)) =>
        ~Rejected(w, Blocked(blocking[w]))

-----------------------------------------------------------------------------
(* The event table implements the sequential operation.                    *)

AttemptState(s) ==
    LET n == Attempts(s)
        Closed(kind) == \E i \in DOMAIN log :
            log[i].stage = s /\ log[i].attempt = n /\ log[i].kind = kind
    IN  IF n = 0 THEN "none"
        ELSE IF Closed("stage_completed") THEN "done"
        ELSE IF Closed("stage_failed") THEN "failed" ELSE "open"

Outcome ==
    IF Exists({"operation_completed"}) THEN "completed"
    ELSE IF Exists({"operation_failed"}) THEN "failed" ELSE "running"

Sequential == INSTANCE SequentialOperation WITH
    tries <- [s \in Stage |-> Attempts(s)],
    attempt <- [s \in Stage |-> AttemptState(s)],
    outcome <- Outcome

\* However many workers, crashes and takeovers, the recorded operation is one
\* that a single worker could have run from start to end.
ImplementsSequential == Sequential!Spec

\* Every step is a step of the lease store under arbitrary clients.
ImplementsLeases == LeaseSpec
=============================================================================
