----------------------------- MODULE CycleClaims -----------------------------
(***************************************************************************)
(* The scheduled_cycles table of the alert store (delivery/store.py): one  *)
(* row per cycle key, claimed with a lease and retried after a delay.      *)
(* Time is relative: a row holds what is left of its lease and of its      *)
(* retry delay, and Aged lets one unit of time pass.  The counters that    *)
(* decide nothing (attempts, error, updated_at) are left out.              *)
(***************************************************************************)
EXTENDS Integers

CONSTANTS
    Lease,       \* cycle_lease: how long a claim excludes other workers
    RetryDelay   \* cycle_retry_delay: how long a failed cycle waits

\* begin_cycle and fail_cycle refuse a lease or a delay that is not positive.
ASSUME CycleTimes == Lease \in Nat \ {0} /\ RetryDelay \in Nat \ {0}

CycleRow == [status : {"none", "RUNNING", "COMPLETED", "FAILED"},
             lease : 0..Lease, wait : 0..RetryDelay]

NoCycle == [status |-> "none", lease |-> 0, wait |-> 0]

Down(n) == IF n = 0 THEN 0 ELSE n - 1

\* Mutants of AttemptDue: the lease of a running claim is not looked at; a
\* completed cycle is claimed again; a running claim never runs out.
AttemptDueAnyLease(row) == row.status # "COMPLETED" /\ row.wait = 0
AttemptDueAgain(row) == (row.status = "RUNNING" => row.lease = 0) /\ row.wait = 0
AttemptDueNotRunning(row) == row.status \notin {"COMPLETED", "RUNNING"} /\ row.wait = 0

\* cycle_attempt_due, and the test begin_cycle makes inside its transaction.
AttemptDue(row) ==
    /\ row.status # "COMPLETED"
    /\ row.status = "RUNNING" => row.lease = 0
    /\ row.wait = 0

\* begin_cycle: the claim forgets the previous attempt.
Begun == [status |-> "RUNNING", lease |-> Lease, wait |-> 0]

\* complete_cycle: an update by key alone.
Completed == [status |-> "COMPLETED", lease |-> 0, wait |-> 0]

\* fail_cycle: an update by key alone, whatever the status of the row.
Failed == [status |-> "FAILED", lease |-> 0, wait |-> RetryDelay]

\* Mutant of Aged: the time that is left runs below zero.
AgedPast(row) == [row EXCEPT !.lease = @ - 1, !.wait = @ - 1]

Aged(row) == [row EXCEPT !.lease = Down(@), !.wait = Down(@)]
=============================================================================
