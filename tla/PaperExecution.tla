--------------------------- MODULE PaperExecution ---------------------------
(***************************************************************************)
(* The paper executor: attempt_paper_execution (paper_execution_runtime.py)*)
(* with the approved bridge (run_approved_paper_execution.py), the command *)
(* it runs (run_multi_asset_paper_execution.py) and the executor behind it *)
(* (portfolio/multi_asset_execution.py), over five stores that share no    *)
(* transaction: approvals, leases, status files, execution events and the  *)
(* canonical portfolio.  Each store operation is one step.                 *)
(*                                                                         *)
(* Callers are arbitrary: any process attempts any construction whenever   *)
(* it likes, through attempt_paper_execution or, without a lease, through  *)
(* the command line.                                                      *)
(***************************************************************************)
EXTENDS PaperLeases, SequencesExt

CONSTANTS
    Order,          \* trades of a construction
    Nav,            \* net asset values, in the units of the trade weight
    InitialNav,     \* of the first snapshot
    Mode,           \* PaperExecutionMode: "automatic" or "manual"
    ApprovalTTL,    \* _authorization_ttl(), in clock ticks
    RetryDelay,     \* _retry_seconds(), in clock ticks
    CommandLine,    \* whether somebody also uses the command line
    MaxAttempts,    \* bound: attempts of one construction
    MaxMarks,       \* bound: mark-to-market snapshots
    MaxHuman,       \* bound: human approvals and stops
    MaxFaults       \* bound: crashes and database errors

ASSUME PaperAssumption ==
    /\ Nav \subseteq Nat \ {0}
    /\ InitialNav \in Nav
    /\ Mode \in {"automatic", "manual"}
    /\ ApprovalTTL \in Nat \ {0}
    /\ RetryDelay \in Nat
    /\ CommandLine \in BOOLEAN
    /\ MaxAttempts \in Nat /\ MaxMarks \in Nat /\ MaxHuman \in Nat /\ MaxFaults \in Nat

VARIABLES
    portfolio,  \* canonical_portfolio_events: snapshots, oldest first
    started,    \* "started" events: construction, attempt, beginning snapshot
    batches,    \* construction -> "recorded" events, oldest first
    approvals,  \* construction -> paper_decision_approval_events, oldest first
    status,     \* construction -> its status file
    run,        \* worker -> the locals of its attempt
    marks,      \* mark-to-market snapshots taken so far
    humans,     \* human approvals and stops so far
    faults      \* crashes and database errors so far

stores == <<portfolio, started, batches, approvals, status>>
bounds == <<marks, humans, faults>>
vars == <<leaseVars, stores, run, bounds>>

Nothing == [o \in Order |-> 0]

NoOutcome == [fresh |-> FALSE, got |-> Nothing, nav |-> 0]

Idle == [pc |-> "idle", c |-> 0, stamp |-> 0, leased |-> FALSE, base |-> 0,
         prev |-> 0, outcome |-> NoOutcome, exit |-> "none"]

Init ==
    /\ LeaseInit
    /\ portfolio = <<[id |-> <<>>, filled |-> [c \in Construction |-> Nothing],
                      nav |-> InitialNav, at |-> 0]>>
    /\ started = {}
    /\ batches = [c \in Construction |-> <<>>]
    /\ approvals = [c \in Construction |-> <<>>]
    /\ status = [c \in Construction |-> [state |-> "none", at |-> 0]]
    /\ run = [w \in Worker |-> Idle]
    /\ marks = 0 /\ humans = 0 /\ faults = 0

-----------------------------------------------------------------------------
(* Helpers.                                                                *)

At(w, here) == run[w].pc = here
Goto(w, there) == run' = [run EXCEPT ![w].pc = there]
Leave(w) == run' = [run EXCEPT ![w] = Idle]

\* The runner is left, and its locals with it; without a lease that is all.
Keep(w, there, result) == [Idle EXCEPT !.pc = there, !.c = run[w].c, !.stamp = run[w].stamp,
                                       !.leased = run[w].leased, !.exit = result]
Exit(w, result) ==
    run' = [run EXCEPT ![w] = IF run[w].leased THEN Keep(w, "publish", result) ELSE Idle]

\* latest(): the state of the last approval event, "none" before the first.
LatestState(c) == IF approvals[c] = <<>> THEN "none" ELSE Last(approvals[c]).state

\* Mutant of ActiveAt: the expiry of an approval is ignored.
ActiveForEver(c, at) == LatestState(c) = "approved" /\ Last(approvals[c]).at <= at

\* latest().active_at(at).
ActiveAt(c, at) ==
    /\ LatestState(c) = "approved"
    /\ Last(approvals[c]).at <= at
    /\ at < Last(approvals[c]).expires

\* append(): an event with the same identifier has the same content here.
AppendApproval(c, state, by, at) ==
    LET e == [state |-> state, by |-> by, at |-> at, expires |-> at + ApprovalTTL]
    IN  approvals' = IF e \in ToSet(approvals[c]) THEN approvals
                     ELSE [approvals EXCEPT ![c] = Append(@, e)]

-----------------------------------------------------------------------------
(* attempt_paper_execution up to the lease.                                *)

Begin(w, c) ==
    /\ At(w, "idle")
    /\ issued < MaxGrants
    /\ run' = [run EXCEPT ![w] = [Idle EXCEPT !.pc = "authorize", !.c = c, !.stamp = now]]
    /\ UNCHANGED <<leaseVars, stores, bounds>>

\* run_approved_paper_execution from the command line takes no lease.
BeginCommand(w, c) ==
    /\ CommandLine
    /\ At(w, "idle")
    /\ run' = [run EXCEPT ![w] = [Idle EXCEPT !.pc = "require", !.c = c, !.stamp = now]]
    /\ UNCHANGED <<leaseVars, stores, bounds>>

\* _automatic_authorization: what the policy does about the latest event.
AfterLatest(c, stamp) ==
    IF LatestState(c) \in {"executed", "stopped"} THEN "idle"
    ELSE IF ActiveAt(c, stamp) THEN "check" ELSE "approve"

Authorize(w) ==
    /\ At(w, "authorize")
    /\ LET there == IF Mode = "automatic" THEN AfterLatest(run[w].c, run[w].stamp)
                    ELSE IF ActiveAt(run[w].c, run[w].stamp) THEN "check" ELSE "idle"
       IN  IF there = "idle" THEN Leave(w) ELSE Goto(w, there)
    /\ UNCHANGED <<leaseVars, stores, bounds>>

\* The approval is a second transaction.
Approve(w) ==
    /\ At(w, "approve")
    /\ AppendApproval(run[w].c, "approved", "policy", run[w].stamp)
    /\ Goto(w, "check")
    /\ UNCHANGED <<leaseVars, portfolio, started, batches, status, bounds>>

Cooling(c, stamp) == status[c].state # "none" /\ stamp - status[c].at < RetryDelay

CheckStatus(w) ==
    /\ At(w, "check")
    /\ IF status[run[w].c].state = "completed" \/ Cooling(run[w].c, run[w].stamp)
       THEN Leave(w) ELSE Goto(w, "lease")
    /\ UNCHANGED <<leaseVars, stores, bounds>>

AcquireLease(w) ==
    /\ At(w, "lease")
    /\ IF Held(run[w].c)
       THEN Leave(w) /\ UNCHANGED leaseVars
       ELSE /\ Acquire(w, run[w].c)
            /\ run' = [run EXCEPT ![w].pc = "require", ![w].leased = TRUE]
    /\ UNCHANGED <<stores, bounds>>

-----------------------------------------------------------------------------
(* The runner: approved bridge and executor.                               *)

\* require_user_approved_paper_decision, once more.
Require(w) ==
    /\ At(w, "require")
    /\ IF ActiveAt(run[w].c, run[w].stamp) THEN Goto(w, "read") ELSE Exit(w, "blocked")
    /\ UNCHANGED <<leaseVars, stores, bounds>>

\* "construction and portfolio timestamps cannot follow execution time"
FutureKnown(w) == Last(portfolio).at > run[w].stamp

\* portfolio_store.latest(), kept to the end of the attempt.
ReadPortfolio(w) ==
    /\ At(w, "read")
    /\ IF FutureKnown(w)
       THEN Exit(w, "blocked")
       ELSE run' = [run EXCEPT ![w].pc = "batch", ![w].base = Len(portfolio)]
    /\ UNCHANGED <<leaseVars, stores, bounds>>

Base(w) == portfolio[run[w].base]
Prev(w) == batches[run[w].c][run[w].prev]

\* Mutant: attempts are numbered from zero.
AttemptFromZero(w) == IF run[w].prev = 0 THEN 0 ELSE Prev(w).attempt + 1

Attempt(w) == IF run[w].prev = 0 THEN 1 ELSE Prev(w).attempt + 1

\* Mutant: a retry resumes from any portfolio.
ResumesAnywhere(w, n) == TRUE

\* "retry must resume from the exact prior ending portfolio snapshot"
Resumes(w, n) == batches[run[w].c][n].ending = Base(w).id

\* latest_batch(): a finished batch is returned as it is.
ReadBatch(w) ==
    /\ At(w, "batch")
    /\ LET n == Len(batches[run[w].c])
       IN  IF n > 0 /\ batches[run[w].c][n].status = "completed"
           THEN run' = [run EXCEPT ![w] = Keep(w, "conclude", "none")]
           ELSE IF n > 0 /\ ~Resumes(w, n) THEN Exit(w, "blocked")
           ELSE run' = [run EXCEPT ![w].pc = "start", ![w].prev = n]
    /\ UNCHANGED <<leaseVars, stores, bounds>>

StartEvent(w) == [c |-> run[w].c, attempt |-> Attempt(w), base |-> Base(w).id]

\* Mutant: the payload of an existing event is not compared.
StartConflictsNever(w) == FALSE

\* "execution event identifier already exists with different content"
StartConflicts(w) ==
    \E e \in started : e.c = run[w].c /\ e.attempt = Attempt(w) /\ e.base # Base(w).id

StartAttempt(w) ==
    /\ At(w, "start")
    /\ Attempt(w) <= MaxAttempts
    /\ IF StartConflicts(w)
       THEN Exit(w, "blocked") /\ UNCHANGED started
       ELSE started' = started \cup {StartEvent(w)} /\ Goto(w, "fill")
    /\ UNCHANGED <<leaseVars, portfolio, batches, approvals, status, bounds>>

-----------------------------------------------------------------------------
(* Fills.  A trade asks for its weight times the net asset value of the    *)
(* snapshot the attempt began with; the weight is 1 here.                  *)

Already(w, o) == IF run[w].prev = 0 THEN 0 ELSE Prev(w).filled[o]
DoneBefore(w) == IF run[w].prev = 0 THEN {} ELSE Prev(w).done

\* Mutant: a retry asks for the whole request again.
RemainingIgnoresFills(w, o) == IF o \in DoneBefore(w) THEN 0 ELSE Base(w).nav

Remaining(w, o) ==
    IF o \in DoneBefore(w) \/ Already(w, o) >= Base(w).nav
    THEN 0 ELSE Base(w).nav - Already(w, o)

Filled(w) == [o \in Order |-> Already(w, o) + run[w].outcome.got[o]]
Done(w) == DoneBefore(w) \cup {o \in Order : Remaining(w, o) = run[w].outcome.got[o]}

\* Liquidity, cash, ownership and lot sizes permit any part of what remains.
Fillable(w, got) == \A o \in Order : got[o] <= Remaining(w, o)

\* Sessions and quotes decide how much of each trade is filled, and what the
\* ending snapshot is worth.  Without a fill there is none.
Fill(w) ==
    /\ At(w, "fill")
    /\ \E n \in Nav : \E got \in [Order -> 0 .. Base(w).nav] :
        /\ Fillable(w, got)
        /\ LET fresh == \E o \in Order : got[o] > 0
           IN  /\ fresh \/ n = Base(w).nav
               /\ run' = [run EXCEPT ![w].pc = IF fresh THEN "append" ELSE "record",
                                     ![w].outcome = [fresh |-> fresh, got |-> got, nav |-> n]]
    /\ UNCHANGED <<leaseVars, stores, bounds>>

\* A safety limit, the eligibility of an instrument, a provider or the
\* reconciliation stops the attempt; the "failed" event that the last of them
\* appends is read by nobody.
RunnerFails(w) ==
    /\ run[w].pc \in {"read", "fill"}
    /\ Exit(w, "blocked")
    /\ UNCHANGED <<leaseVars, stores, bounds>>

EndingId(w) == IF run[w].outcome.fresh THEN Append(Base(w).id, Attempt(w)) ELSE Base(w).id

Ending(w) ==
    [id |-> EndingId(w),
     filled |-> [Base(w).filled EXCEPT ![run[w].c] =
                    [o \in Order |-> @[o] + run[w].outcome.got[o]]],
     nav |-> run[w].outcome.nav,
     at |-> run[w].stamp]

SnapshotConflicts(s) == \E k \in DOMAIN portfolio : portfolio[k].id = s.id /\ portfolio[k] # s

AppendSnapshot(s) ==
    portfolio' = IF s \in ToSet(portfolio) THEN portfolio ELSE Append(portfolio, s)

\* portfolio_store.append(): it looks at the identifier, not at the tail.
AppendEnding(w) ==
    /\ At(w, "append")
    /\ IF SnapshotConflicts(Ending(w))
       THEN Exit(w, "blocked") /\ UNCHANGED portfolio
       ELSE AppendSnapshot(Ending(w)) /\ Goto(w, "record")
    /\ UNCHANGED <<leaseVars, started, batches, approvals, status, bounds>>

BatchStatus(w) ==
    IF Done(w) = Order THEN "completed"
    ELSE IF \E o \in Order : Filled(w)[o] > 0 THEN "partial" ELSE "held"

Batch(w) == [attempt |-> Attempt(w), base |-> Base(w).id, ending |-> EndingId(w),
             status |-> BatchStatus(w), filled |-> Filled(w), done |-> Done(w),
             at |-> run[w].stamp]

RecordConflicts(w) ==
    \E b \in ToSet(batches[run[w].c]) : b.attempt = Attempt(w) /\ b # Batch(w)

\* Mutant: the command is run without --require-complete.
SucceedsAlways(w) == TRUE

\* The exit code of the command: --require-complete is always forwarded.
Succeeds(w) == BatchStatus(w) = "completed"

\* _record(), after the snapshot is published.
Record(w) ==
    /\ At(w, "record")
    /\ IF RecordConflicts(w)
       THEN Exit(w, "blocked") /\ UNCHANGED batches
       ELSE /\ batches' = IF Batch(w) \in ToSet(batches[run[w].c]) THEN batches
                          ELSE [batches EXCEPT ![run[w].c] = Append(@, Batch(w))]
            /\ IF Succeeds(w)
               THEN run' = [run EXCEPT ![w] = Keep(w, "conclude", "none")]
               ELSE Exit(w, "held")
    /\ UNCHANGED <<leaseVars, portfolio, started, approvals, status, bounds>>

\* conclude(EXECUTED), whatever the latest event has become meanwhile.
Conclude(w) ==
    /\ At(w, "conclude")
    /\ AppendApproval(run[w].c, "executed", "executor", run[w].stamp)
    /\ Exit(w, "completed")
    /\ UNCHANGED <<leaseVars, portfolio, started, batches, status, bounds>>

-----------------------------------------------------------------------------
(* Back in attempt_paper_execution: the status file and the lease.         *)

Publish(w) ==
    /\ At(w, "publish")
    /\ \/ AssertOwned(w, run[w].c) /\ Goto(w, "write")
       \/ NotOwned(w, run[w].c) /\ Goto(w, "release") /\ UNCHANGED leaseVars
    /\ UNCHANGED <<stores, bounds>>

WriteStatus(w) ==
    /\ At(w, "write")
    /\ status' = [status EXCEPT ![run[w].c] = [state |-> run[w].exit, at |-> run[w].stamp]]
    /\ Goto(w, "release")
    /\ UNCHANGED <<leaseVars, portfolio, started, batches, approvals, bounds>>

Release(w) ==
    /\ At(w, "release")
    /\ ReleaseLease(w, run[w].c)
    /\ Leave(w)
    /\ UNCHANGED <<stores, bounds>>

Renew(w) == run[w].leased /\ RenewThread(w, run[w].c) /\ UNCHANGED <<stores, run, bounds>>

-----------------------------------------------------------------------------
(* Faults, people and the marks of the context publication.                *)

\* sqlite3.Error is caught nowhere: the lease is released and the process ends.
DatabaseError(w) ==
    /\ run[w].pc \in {"authorize", "approve", "require", "read", "batch", "start",
                      "append", "record", "conclude", "publish"}
    /\ faults < MaxFaults
    /\ faults' = faults + 1
    /\ run' = [run EXCEPT ![w] = IF run[w].leased THEN Keep(w, "release", "none") ELSE Idle]
    /\ UNCHANGED <<leaseVars, stores, marks, humans>>

Crash(w) ==
    /\ ~At(w, "idle")
    /\ faults < MaxFaults
    /\ faults' = faults + 1
    /\ LoseGrant(w)
    /\ Leave(w)
    /\ UNCHANGED <<stores, marks, humans>>

\* store.approve() and store.conclude() by a portfolio manager.
Human(c, state) ==
    /\ humans < MaxHuman
    /\ humans' = humans + 1
    /\ AppendApproval(c, state, "human", now)
    /\ UNCHANGED <<leaseVars, portfolio, started, batches, status, run, marks, faults>>

\* The context publication reads the latest snapshot, collects evidence, and
\* appends the same holdings at new prices.
BeginMark(w) ==
    /\ At(w, "idle")
    /\ marks < MaxMarks
    /\ marks' = marks + 1
    /\ run' = [run EXCEPT ![w] = [Idle EXCEPT !.pc = "mark", !.stamp = now,
                                              !.base = Len(portfolio), !.prev = marks + 1]]
    /\ UNCHANGED <<leaseVars, stores, humans, faults>>

\* The same holdings at new prices.
Marked(w, n) == [Base(w) EXCEPT !.id = <<0, run[w].prev>>, !.nav = n, !.at = run[w].stamp]

AppendMark(w) ==
    /\ At(w, "mark")
    /\ \E n \in Nav : AppendSnapshot(Marked(w, n))
    /\ Leave(w)
    /\ UNCHANGED <<leaseVars, started, batches, approvals, status, bounds>>

Clock == Tick /\ UNCHANGED <<stores, run, bounds>>

Step(w) ==
    \/ Authorize(w) \/ Approve(w) \/ CheckStatus(w) \/ AcquireLease(w)
    \/ Require(w) \/ ReadPortfolio(w) \/ ReadBatch(w) \/ StartAttempt(w)
    \/ Fill(w) \/ RunnerFails(w) \/ AppendEnding(w) \/ Record(w) \/ Conclude(w)
    \/ Publish(w) \/ WriteStatus(w) \/ Release(w)

Next ==
    \/ Clock
    \/ \E w \in Worker :
        \/ Step(w) \/ Renew(w) \/ DatabaseError(w) \/ Crash(w)
        \/ BeginMark(w) \/ AppendMark(w)
        \/ \E c \in Construction : Begin(w, c) \/ BeginCommand(w, c)
    \/ \E c \in Construction : Human(c, "approved") \/ Human(c, "stopped")

Spec == Init /\ [][Next]_vars

-----------------------------------------------------------------------------
(* Properties.                                                             *)

Control == {"idle", "authorize", "approve", "check", "lease", "require", "read",
            "batch", "start", "fill", "append", "record", "conclude", "publish",
            "write", "release", "mark"}
Exits == {"none", "completed", "held", "blocked"}
Amounts == [Order -> Nat]

Snapshot == [id : Seq(Nat), filled : [Construction -> Amounts], nav : Nav, at : Nat]
BatchRecord == [attempt : Nat \ {0}, base : Seq(Nat), ending : Seq(Nat),
                status : {"completed", "partial", "held"}, filled : Amounts,
                done : SUBSET Order, at : Nat]
Approval == [state : {"approved", "stopped", "executed"},
             by : {"policy", "human", "executor"}, at : Nat, expires : Nat]
Outcome == [fresh : BOOLEAN, got : Amounts, nav : Nat]

\* Every store, and what every worker remembers of them, has its type; a
\* worker remembers only snapshots and batches that exist.
PaperTypeOK ==
    /\ LeaseTypeOK
    /\ portfolio \in Seq(Snapshot) /\ portfolio # <<>>
    /\ \A e \in started : e.c \in Construction /\ e.attempt \in 1 .. MaxAttempts
    /\ batches \in [Construction -> Seq(BatchRecord)]
    /\ approvals \in [Construction -> Seq(Approval)]
    /\ status \in [Construction -> [state : Exits, at : Nat]]
    /\ \A w \in Worker :
          /\ run[w].pc \in Control /\ run[w].exit \in Exits
          /\ run[w].c \in Construction \cup {0}
          /\ run[w].base \in 0 .. Len(portfolio)
          /\ run[w].outcome \in Outcome
          /\ run[w].prev # 0 /\ ~At(w, "mark") => run[w].prev \in DOMAIN batches[run[w].c]
    /\ marks \in 0 .. MaxMarks /\ humans \in 0 .. MaxHuman /\ faults \in 0 .. MaxFaults

\* A worker whose grant has not run out is the only one with the lease of its
\* construction: takeover waits for expiry, whatever the other worker, its
\* renewing thread and a crash have done to the row.
LiveGrantOwnsRow ==
    \A w \in Worker : run[w].leased /\ grant[w].expires > now => OwnRow(w, run[w].c)

\* No order is ever filled beyond the largest request the portfolio has
\* justified, although approvals, leases, events and snapshots are written in
\* separate transactions, workers overlap, and attempts crash and are retried.
OrdersFilledOnce ==
    \A k \in DOMAIN portfolio, c \in Construction, o \in Order :
        \E j \in DOMAIN portfolio : portfolio[k].filled[c][o] <= portfolio[j].nav

\* Every recorded attempt rests on a published snapshot that contains exactly
\* the fills it reports: the snapshot is appended before the event.
BatchesArePublished ==
    \A c \in Construction : \A b \in ToSet(batches[c]) :
        \E s \in ToSet(portfolio) : s.id = b.ending /\ s.filled[c] = b.filled

\* Recorded attempts form a chain: numbered without gaps, each beginning with
\* the snapshot the previous one ended with, and none after a finished one.
AttemptsChain ==
    \A c \in Construction : \A n \in DOMAIN batches[c] :
        /\ batches[c][n].attempt = n
        /\ n > 1 => /\ batches[c][n].base = batches[c][n - 1].ending
                    /\ batches[c][n - 1].status # "completed"

\* Nothing is reported before it is true: a status file says "completed" only
\* after the execution was concluded, and that only after its last recorded
\* attempt filled every order.
ReportsFollowExecution ==
    \A c \in Construction :
        LET executed == \E e \in ToSet(approvals[c]) : e.state = "executed"
        IN  /\ status[c].state = "completed" => executed
            /\ executed => batches[c] # <<>> /\ Last(batches[c]).done = Order

\* Every recorded attempt rests on an approval of its instant that no stop of
\* an earlier instant had ended, although the approval is read
\* before the attempt and never again.
AttemptsAreApproved ==
    \A c \in Construction : \A b \in ToSet(batches[c]) :
        \E n \in DOMAIN approvals[c] :
            /\ approvals[c][n].state = "approved"
            /\ approvals[c][n].at <= b.at /\ b.at < approvals[c][n].expires
            /\ \A k \in n + 1 .. Len(approvals[c]) :
                  approvals[c][k].state = "stopped" => approvals[c][k].at >= b.at

\* The promise of a single attempt at a time, as PaperLedger states it.
Ledger == INSTANCE PaperLedger WITH
    Construction <- Construction, Order <- Order, Request <- InitialNav,
    filled <- Last(portfolio).filled,
    recorded <- [c \in Construction |->
                    IF batches[c] = <<>> THEN Nothing ELSE Last(batches[c]).filled],
    executed <- {c \in Construction : \E e \in ToSet(approvals[c]) : e.state = "executed"}

\* One process, whatever crashes and database errors interrupt it and however
\* it alternates between constructions and marks, keeps the ledger: a fill is
\* made only on top of the recorded ones, and an execution is concluded when
\* everything it asks for is filled and recorded.
ImplementsLedger == Ledger!Spec

\* The canonical portfolio never forgets a fill.
\* ("crash, overlap, or retry cannot produce an unauthorized/duplicate state
\* change; only reconciled cycles advance canonical state")
NoFillDropped ==
    [][\A c \in Construction, o \in Order :
          Last(portfolio').filled[c][o] >= Last(portfolio).filled[c][o]]_vars

\* The autonomous policy never approves what a human has stopped.
\* ("without overriding a human stop")
StopIsFinal ==
    [][\A c \in Construction :
          LatestState(c) = "stopped" /\ approvals'[c] # approvals[c]
              => Last(approvals'[c]).by # "policy"]_vars

\* Attempts through the command line are repeated for ever, run to their end,
\* and neither a safety limit nor a provider stops them every time.
FairSpec ==
    /\ Spec
    /\ \A w \in Worker :
          /\ WF_vars(Step(w))
          /\ WF_vars(\E c \in Construction : BeginCommand(w, c))
          /\ SF_vars(ReadPortfolio(w)) /\ SF_vars(Fill(w))

\* A published fill gets its completion record.
\* ("Every attempt has a distinct immutable start and completion record.")
FillsAreRecorded ==
    \A c \in Construction :
        (Last(portfolio).filled[c] # Nothing)
            ~> (\E b \in ToSet(batches[c]) : b.filled = Last(portfolio).filled[c])
=============================================================================
