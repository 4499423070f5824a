------------------------- MODULE MCDailyOperations -------------------------
(* Small instances of the daily operation.                                 *)
EXTENDS DailyOperations, TLC

WorkerSymmetry == Permutations(Worker)

-----------------------------------------------------------------------------
(* Liveness.  A process is prompt: it publishes before its leases expire,  *)
(* that is, the clock passes the expiry of a lease only when its holder has*)
(* died.  Faults come early enough for the lease to expire within MaxTime. *)

Prompt == \A w \in Worker : opGrant[w] # 0 => now + 1 < opLease.expires
FaultInTime == now + LeaseDuration <= MaxTime

PromptNext ==
    \/ Prompt /\ Clock
    \/ \E w \in Worker :
        \/ Progress(w) \/ Sleep(w) \/ RenewLeases(w)
        \/ FaultInTime /\ (Abort(w) \/ Crash(w))

PromptSpec ==
    /\ Init /\ [][PromptNext]_vars
    /\ WF_vars(Prompt /\ Clock)
    /\ \A w \in Worker : WF_vars(Progress(w))

\* A process that has taken over meets a stage-blocked event its predecessor
\* left behind: the fault fell between that event and the terminal one.
BlockedByPredecessor ==
    \E i \in DOMAIN log : log[i].kind = "stage_blocked" /\ log[i].opToken < opLease.token

\* The operation ends although a process died or left in the middle of it: a
\* surviving process takes over once the lease expires and runs it to a
\* terminal event, also along its failing path, unless it finds a stage-blocked
\* event of its predecessor in its way (RecoveryCanBlock shows what that does).
OperationEnds == <>(Exists(Terminal) \/ BlockedByPredecessor)
=============================================================================
