# Verification of the Capital Intelligence Platform

TLA+ models of the parts of this repository that coordinate processes through
durable stores, TLC runs over small instances, and TLAPS proofs for every value
of the constants. Paths below are relative to `src/`.

The platform is a set of Python processes over SQLite files: scheduled and
polling operators, delegates started as subprocesses, an API that reads, and
people at a command line. Almost all of its numerical work (regimes,
opportunities, construction, scoring) is sequential and stateless. What is hard
to test is what happens *between* the stores: leases that run out while their
owner is at work, transactions on several files that a crash separates, values
read in one transaction and used in another, and events whose identifiers decide
whether a retry is recognised, accepted or refused. The models are about that.

## 1. Inventory

### Components that coordinate (the subject of this project)

| Component | State | Operations | Interacts with |
|---|---|---|---|
| Daily operation leases `operations/daily_leases.py` | operation lease row, one stage lease row per stage, claim row, append-only event table (one SQLite file); grants in the memory of each process | `claim`, `append` (fence, renew, publish in one transaction), `assert_fencing_context`, `release_all` | called by the orchestrator and by the heartbeat thread |
| Daily orchestrator `operations/daily_orchestration.py`, `run_daily_operations.py` | nothing durable of its own; locals of `run` (stage, attempt, error) | poll, claim, stage loop, retries, `_block_downstream`, terminal event, release | event table; delegates of the stages |
| Stage bindings `operations/stage_bindings.py` | evidence files of the delegates | run an approved binding as a subprocess with a timeout | called by `FencedStageRunner` |
| Paper execution leases `operations/paper_execution_leases.py` | one row per construction being executed | `acquire`, `renew`, `release` (deletes the row) | the runtime and its renewing thread |
| Paper runtime and approved bridge `paper_execution_runtime.py`, `run_approved_paper_execution.py` | status file per construction | `attempt_paper_execution`: authorise, cool-down, lease, runner, report | approvals, leases, executor, status file |
| Paper approvals `governance/paper_decision_approval.py` | append-only approval events | `approve`, `conclude`, `latest`, `active_at` | policy, people, bridge |
| Multi-asset executor `portfolio/multi_asset_execution.py` (as `UniversalCapabilityPaperExecutionOrchestrator`, `portfolio/universal_capability_execution.py`) | execution events: started, recorded | `execute`: previous batch, attempt number, remaining request, fills, ending snapshot, record | canonical portfolio |
| Canonical portfolio `portfolio/state.py` | append-only snapshots | `append`, `latest` | executor, context publication, cash flows |
| Context publication `production_context_publication_governed.py` | contexts; marks the portfolio to market | read snapshot, collect evidence, append the same holdings at new prices | canonical portfolio |
| Autonomous operator `run_autonomous_paper_operator.py`, `delivery/canonical_scheduler.py` | none of its own: cycle rows, the context journal, the status file | one pass: scan, scheduled cycle, event cycle, hand-over of the construction | cycle rows, reassessment, context, paper runtime |
| Material reassessment `operations/cio_material_reassessment.py`, `investor_material_reassessment.py` | two state files: prices, record count, claims; pending and acknowledged records | scan, acknowledge, release of a failed trigger | called by the operator before and after its event cycle |
| Delivery `delivery/store.py`, `service.py`, `dispatch.py` | cycle rows, alerts, delivery attempts | begin, complete or fail a cycle; enqueue; pending; record an attempt; acknowledge | scheduler, planner of alerts, inbox |
| Retry executor `portfolio/multi_asset_execution_retry.py` | as the executor, plus a certified publication | keeps the original request, compares the tail | not used by the production command |
| Certification scheduler `operations/persistent_certification_scheduler.py`, `dag_native_comprehensive_supervision.py`, `progress_aware_release_certification.py`, `retryable_certification_node_requeue.py` | a file per node, the manifest `latest.json`, the journal `runtime-latest.json`; provider leases in memory | load, launch, poll, time out, block, publish, requeue | a process and a lane per node |
| Reaper `operations/comprehensive_descendant_reaper.py` and stage-isolated pipeline `run_stage_isolated_evidence_pipeline.py` | stage journal, file lock on the stage's owner | start a stage, end it when the epoch is stale, reap what is left of it, start it again | certification supervisor and its processes |

### Other components

Evidence collection and providers, security master and universes, construction
and optimisation, intelligence engines, evaluation and forecasts, historical
replay, launch governance, backup and recovery, incidents and service levels,
process supervision, identity/API/console. Each is listed in `PROJECT.json`
with the reason it is left out: input and output, pure numerical functions over
floating point, or append-only catalogues with one writer.

### Hard behaviours, and what makes each component correct

* **Leases** (daily and paper): a lease may expire while its owner works;
  correct when no active lease changes hands, when a replaced worker can publish
  nothing, and when a late release or renewal does not touch the successor's row.
* **Daily orchestrator**: crashes between any two events, takeover by a worker
  that knows only the event table, results that arrive after the lease is gone;
  correct when the recorded history is one that a single worker could have
  produced, when a finished day stays finished, and when a survivor finishes it.
* **Paper execution**: five stores without a common transaction and overlapping
  callers; correct when no order is filled twice, when records rest on published
  snapshots and reports on records, when every attempt rests on an approval, and
  when the portfolio never forgets a fill.
* **Delivery**: the cycle row is claimed with a lease but ended by key alone, and
  alert, attempt and message are separate steps of several dispatchers; correct
  when claims exclude one another while they last, when a completed cycle has
  announced what it planned, when *sent* means delivered, when messages repeat
  only under two dispatchers, and when nothing stays pending.
* **Operator**: files written by a scan are settled after a cycle that may fail,
  block or die, while records arrive, prices move and slots begin; correct when
  nothing on file is acknowledged unreviewed, when nothing that failed is silently
  dropped, when completed cycles are handed over, and when everything material
  that stays on file is reviewed in the end.
* **Certification**: processes that answer late, hang, or die, budgets that are
  returned on several paths, a supervisor that dies and is started again;
  correct when qualified work is kept, when budgets hold, when a node is given up
  only for a dependency, and when the run ends.

The hazards behind these sentences, each at its line and with the properties
that cover it, are listed in `PROJECT.json`.

## 2. Modules

```
SequentialOperation      DailyLeases           PaperLeases   PaperLedger
        ^ (refinement)        ^                      ^            ^ (refinement)
        +-- DailyOperations --+                      +- PaperExecution
                  ^                                         ^
     MCDailyOperations                               MCPaperExecution
     DailyLeasesProofs, DailyOperationsProofs,       PaperExecutionProofs,
     DailyHistoryProofs                              PaperStoresProofs

              CycleClaims                             Certification
               ^       ^                                    ^
         Delivery     CioOperator                    MCCertification
            ^              ^                         CertificationProofs
     MCDelivery       MCCioOperator
     DeliveryProofs   CioOperatorProofs
```

### `DailyLeases` - the lease store

One SQLite file (`opLease`, `stLease`, `claimKey`, `log`) and, per worker, the
grants it keeps in memory (`opGrant`, `stGrant`). A `BEGIN IMMEDIATE`
transaction is one step, because SQLite admits one writer; a transaction that
raises rolls the file back but not the memory of the process. The actions:
`Claim`, `ClaimDenied`, `ClaimConflict` (the three outcomes of `claim`),
`Publish`, `PublishAgain`, `PublishRejected` (of `append`: inserted, recognised
as identical, or raised), `ReleaseAll`, `LoseMemory` (a crash) and `Tick`.
`PublishAgain` renews the leases but does not release anything, since the early
return of `append` commits before the releases. `ClaimConflict` leaves a grant in
memory for a row that was rolled back, and `PublishRejected` the same for a
stage grant; the code does both.

The workers of this module publish *any* event at any time: what is proved here
does not rest on the orchestrator's good behaviour. The runs check it under the
orchestrator, where the interesting orders happen.

### `DailyOperations` - the orchestrator

`pc[w]` follows `CanonicalDailyOperationsOrchestrator.run`: claim, look for the
claim event, look for a terminal event, then for each stage look whether it is
completed, count its attempts, start it, beat, run it, beat, complete or fail it,
retry, block later stages, end the operation, release. Each read of the event
table and each `append` is a step, so that a worker decides on what it read and
publishes later. `cur`, `tries`, `failure`, `blocking` are the locals of `run`;
`beats` and `beatDue` belong to the heartbeat thread that `FencedStageRunner`
starts, which is an actor of its own (`RenewLeases`). `DelegateReturns` and
`DelegateFails` are the delegate's outcomes together with the runner's final
assertion. `Abort` is an exception outside the runner and `PollRefused` one of the claim,
both caught by the `finally` that releases; `Crash` loses the process. With `StableNames` a restarted process
has the name it had before (a configured `worker_id`), otherwise it is a new one.

### `SequentialOperation` - what the day promises

Stages attempted in order, each attempt closed at most once, never more
attempts than the policy allows, one outcome. `DailyOperations` maps onto it by
what the event table says of each stage (`AttemptState`, `Outcome`).

### `PaperLeases` - the lease on a construction

Rows exist only while held; owners draw a fresh identifier at each acquisition
(`issued`), tokens restart when the row is deleted. `RenewThread` is a round of
the renewing thread, `AssertOwned` the renewal a caller asks for. Renewal is
possible at the very instant of expiry (`>=`), acquisition from that instant
(`> now` is false): the two meet there and both are modelled.

### `PaperExecution` - one attempt over five stores

`run[w]` holds the locals of `attempt_paper_execution`, of the bridge and of
`execute`; each access to a store is one step: `Authorize`, `Approve`,
`CheckStatus`, `AcquireLease`, `Require`, `ReadPortfolio`, `ReadBatch`,
`StartAttempt`, `Fill` / `RunnerFails`, `AppendEnding`, `Record`, `Conclude`,
`Publish`, `WriteStatus`, `Release`. Callers are arbitrary: any worker may begin
an attempt on any construction at any time through `attempt_paper_execution`
(`Begin`) or through the command line without a lease (`BeginCommand`). Next to
them run the renewing thread (`Renew`), people (`Human`), the context
publication (`BeginMark`, `AppendMark`), database errors, which no handler turns
into a status, and crashes.

### `PaperLedger` - what a client may count on

Fills are made only on top of what was recorded, and an execution is concluded
when everything it asks for is filled and recorded.

### `CycleClaims` - the row of a cycle

`scheduled_cycles` of `delivery/store.py`: when an attempt is due, and what a
row becomes when it is begun, completed, failed, or gets older. Used by the two
modules below.

### `Delivery` - cycles, alerts and attempts

`pc[w]` follows a worker of the scheduler: `RunDue` (claim), `RunExecutor` /
`RunFails`, per planned alert `LookUp` and `Insert` (a read and an insert in two
transactions), `CompleteCycle` (the update and its commit) and `Reload` (the row
read again, still inside the `try`: if it raises, the failure is recorded over
the completion, `reverted`), `FailCycle` (like the completion an update by key
alone), then the dispatcher: `ReadPending`, `Send`, `ReadAttempt`,
`RecordAttempt`. `SlotPasses` may happen at any time: the clock then picks the
key of a later slot or of another day, and `RunDue` never claims this row again
(`passed`), whatever its status. A user
acknowledges in two steps (`ReadForAcknowledgement`, `Acknowledge`). `Crash`
loses the locals of a worker between any two of these, so that a message may
have left without a record. The histories (`overtaken`, `crowded`, `repeated`,
...) are written by the steps they are about and read by no guard.

### `CioOperator` - the pass of the paper operator

`Start`, `ScanMarkets` (open or closed), `ScanRecords`, then for the scheduled
and for the event cycle `PlanScheduled` / `PlanEvent`, `PrepareContext` or
`ContextBlocked`, `Begin`, `RunCycle`, `Complete` or `Fail`; after an event
cycle `AcknowledgePrices` and `AcknowledgeRecords`, or `Release`; at the end
`Attempt`, which hands the construction to paper execution if it is the expected
one. Around it prices move, slots begin, time passes, and records come on file
and leave it: `Collect` lets the file be any set, because
`merge_public_event_records` keeps what is at most thirty hours old, the newest
2000 of it. Identifiers that are pending stay pending when their record is gone,
and are acknowledged with the others; the history `lapsed` names those that left
the file in that way.
`Crash` ends the pass between any two writes; the scan has then already saved
its claims.

### `Certification` - the graph of nodes

The supervisor is `pc` and the locals of `_dag_native_run`: it loads what
qualified (`Load`), launches what is ready within the leases (`Launch`,
`WriteJournal` - one step each, because a death or a failed write between them
matters), polls every running node (`PollReady`, `PollResult`, `PollEnd`,
`PollEmpty`, `CheckAlive`, `TimesOut`), settles a node with an outcome (`Settle`:
lease, node file, journal), gives blocked nodes up (`EndRound`), and publishes
the manifest (`Finish`). `Requeue` runs the graph again. A node is a process
(`child`) that becomes ready, runs its lane, sends a result and exits, or dies;
the empty pipe and the liveness check are two steps, so that a result may arrive
between them. `Raise` and `JournalFails` are exceptions with their `finally`,
`Crash` the death of the supervisor or its termination at a stale epoch, after
which `Reap` and `Restart` stand for the coordinator. `orphan` and `stray` are
lanes that go on without a supervisor.

### Abstractions

* Daily: events keep kind, stage, attempt and a note; the digest in a heartbeat
  identifier is the note. The twelve stages are `1 .. NStages`. The delegate is
  its outcome. The heartbeat thread ends with its stage (the code joins it with
  a timeout). Integrity checks of the hash chain are left out.
* Paper: a trade has weight 1, so that its request is the net asset value of
  the snapshot; amounts are small naturals; prices, costs, currencies and the
  accounting identities of a snapshot are left out. Snapshot identifiers are the
  path of attempts that the code appends to the identifier of the beginning
  snapshot (marks draw a fresh number); they do not name the construction, so two
  constructions that start from one snapshot meet in one identifier. The approval states *declined* and *revoked*, which the code
  treats alike here, are `"stopped"`; batches with status `FAILED` or `HELD` are
  `"held"`; an empty construction (`NO_ACTION`), the `failed` event nobody reads
  back, and the eligibility evidence in the started event, which depends on the
  construction alone, are left out. The command line's instant is the current
  one.
* Delivery: one cycle row and one account, so one alert per channel, and the
  in-app alert is an instant message; the topics and channels a plan asks for are
  any set of alerts; a cycle that plans nothing else plans a suppression row. The
  planner's preferences and the message itself are left out.
* Operator: one process, as it is deployed. Time is relative: what is left of
  cool-downs, scan interval and slot guard. A material record is a name, a price
  a level; prices differ by more than the threshold or not at all. The record
  count is one flag, and its opportunity carries the count in its key, so that no
  claim suppresses it. The alerts of a cycle are those of `Delivery`.
* Certification: time-outs are choices of the supervisor at a node that did not
  answer, instead of clocks: startup, progress and absolute budgets do the same
  thing. One deadline (`late`) and one freshness limit (`stale`) pass at some
  time; a retry hint may always lie past the deadline, so `Requeue` may always
  give up. The order of deadline, priority and identifier is the constant
  `Rank`. Progress messages are left out. Node file and journal of a settled node
  are written in one step: between the two a death leaves a journal with a
  process that has already ended, which the reaper skips by its identity. The
  lane is started by the node's process in its group
  (`start_new_session=False`).
* Clocks of the daily and paper modules count whole ticks and are shared: the
  processes of one host.

## 3. Runs

| Run | Instance | What it shows |
|---|---|---|
| `daily_operations` | 2 workers whose names a restart may reuse, 2 stages, 2 attempts, lease of 2 ticks, 2 acquisitions, 1 crash, abort or refused key | results are closed by who started them, nothing follows the end, failures are accounted for, no lease is stolen and no stale worker publishes, history is sequential |
| `daily_live` | names never reused, 2 stages, 1 attempt, lease of 2 ticks, 3 acquisitions, 1 fault, fairness | stage leases nest in the operation lease, so that a survivor can take over, and it ends the day |
| `paper_execution` | 2 processes with lease and command line, 1 construction, 1 order, net asset values 2 and 3, lease and approval of 1 tick, 2 attempts, 1 fault | order filled once, batches published and chained, a live grant owns its row, reports after facts |
| `paper_recovery` | 1 process, 2 constructions, 1 mark, 1 human decision, 1 fault, 3 acquisitions | attempts rest on approvals no stop had ended; the ledger is kept whatever the process dies between |
| `delivery` | 2 workers, 1 channel and the suppression row, claim of 2 units, 2 attempts per alert, 1 fault | claims exclude, completions and alerts agree, *sent* is delivered, attempts are counted, repeats need two dispatchers; no alert stays pending, and the cycle completes unless its slot passes first |
| `operator` | 1 record, 2 prices, all delays of 1 unit, 2 slots, 1 fault | what is acknowledged was reviewed or had left the file, failed reviews come back, the construction of a completed cycle is handed over; records that stay on file, moves and the latest slot are reviewed in the end |
| `certification` | 3 nodes over 2 providers of capacity 1, one of them needs another, 2 workers, 1 fault | qualified work is kept, budgets hold, nodes are given up only for a dependency, certified means qualified, the run ends |
| `daily_renewal`, `daily_recovery`, `paper_overlap`, `paper_completion`, `paper_stop` | the smallest instance with the case | the disagreements of section 6 |

**Why the bounds are enough.** Two workers are what takeover needs: one that
lost its lease and one that has it; a third would be another successor. Two
acquisitions give one takeover and three give a takeover of a takeover. Leases
of two ticks leave an instant strictly inside the lease, leases of one tick
put renewal and expiry side by side. Two stages have a last stage and one that
blocks another; two attempts have a retry and an exhaustion. One order of two
units can be filled in two attempts, the first partial. `MaxEvents` never binds.
Where several parameters are at their smallest in a run, another run raises them:
`daily_live` trades an attempt for a longer clock and a third acquisition,
`paper_recovery` a worker for a second construction, a mark and a human. In
`delivery` a claim of two units leaves an instant inside it, and two attempts
are one that fails and one that exhausts. In `operator` two slots are one that
begins while the other is prepared; one record is enough because records do not
interact, and it may arrive at any step. In `certification` one node competes
with each of the others for a provider, one waits for another, and three nodes on
two workers leave one waiting for a worker as well. `MaxFaults` is 1 in every passing run:
one fault may fall at any step, and the repetitions that follow are the
recovery that is checked; with two faults the runs do not fit the time they are
given. Workers are
interchangeable, so symmetry is used in the safety runs; it is not used with
liveness.

**Deadlock.** The daily runs check it: polling never ends, and `Sleep` is the
loop's wait. The paper runs say `CHECK_DEADLOCK FALSE`, since the callers of an
attempt are bounded (`MaxGrants`, `MaxAttempts`, `MaxTime`) and stop there;
`certification` says so because the run of a graph ends. `delivery` and
`operator` check it.

**Fairness.** `daily_live` uses `PromptSpec`: every worker's next step is weakly
fair (a process that is not dead goes on), and so is the clock. The clock passes the expiry of a
lease only when its holder has died: the heartbeat interval must be less than
half the lease (`FencedStageRunner`), and this run is about stages that end
before the lease runs out, since the second renewal of a longer one is refused
(`daily_renewal`). Without that assumption two workers may steal the day from
one another for ever. A fault
falls early enough for the lease to run out within `MaxTime`; this is a bound
of the run, not an assumption about the code. `OperationEnds` excepts only the
runs in which a process that took over meets a stage-blocked event its
predecessor left behind (`BlockedByPredecessor`), which is the finding
`daily_recovery`; a survivor that itself blocks the later stages has to end the
day, also after a fault before that.
`paper_completion` uses `FairSpec`: steps are weakly fair, somebody repeats the
attempt through the command line for ever, and the portfolio read and the fill
succeed infinitely often if they are possible infinitely often. The record is
refused all the same.
`Delivery`: every worker's next step is weakly fair (it polls for ever, and the
supervisor starts it again) and so is time; nothing is assumed of the
dispatcher's answers or of the executor, whose failures are bounded by
`MaxFaults`, nor of `SlotPasses`, so that `CycleCompletes` speaks of the
behaviours in which the slot stays the latest one. `CioOperator`: the loop, time and the beginning of a slot that is
near are weakly fair (the last slot of the instance then stays the latest), and a scan meets an open market infinitely often if it is
possible infinitely often: markets open every day. `Certification`: the
supervisor with its restarts, and time, are weakly fair; `TimesOut` is strongly
fair because a node that neither answers nor ends is looked at again and again
until one of its budgets has run out. Nothing is assumed of the nodes.

Every property of a passing run has a mutant, a plausible slip in one mapped
definition with which the property fails under the same configuration: the
definitions named in the comments *Mutant*.

## 4. Proofs

TLAPS checks the theorems below for every number of workers, stages, attempts,
events, channels, records and nodes, and for every lease duration and clock; the
only assumptions are the named ones in the modules (`LeaseAssumption`,
`OperationAssumption`, `PaperLeaseAssumption`, `PaperAssumption`, `CycleTimes`,
`DeliveryConstants`, `OperatorConstants`, `CertificationConstants`): counts are
natural numbers, a lease lasts at least a tick, names are distinct from the
markers of absence. `BackoffGrows` in `Delivery` is arithmetic: the retry delays
do not exceed the last one. It follows from the definition of `Delay`, but the
provers know no exponents; TLC evaluates it on every run of the module.

* **`DailyLeasesProofs`** - `TypeCorrect`, `HistoryOrdered`,
  `StaleWorkerNeverPublishes`, `StaleStageNeverPublishes`, `LeasesNeverStolen`.
  `FencedHistory` is not inductive: it says nothing of the rows the next event
  is compared with. The strengthening `HistoryInv` adds that everything published
  lies below the current lease rows (`HistoryBelowLease`) and that an event
  published under a stage lease names a stage. Then an append carries the highest
  token so far, and a higher token comes only with an acquisition.
* **`DailyOperationsProofs`** - `PhasesCorrect` (a process that publishes for a
  stage has a stage and an attempt in hand), `TypesCorrect`, and the refinement
  `OrchestratorIsClient`: every step of the orchestrators, of their heartbeat
  threads and of their faults is a step of `DailyLeases` or leaves it alone.
  Hence `ReplacedWorkerIsSilent`: the histories of the real operation are
  fenced, by the theorems about arbitrary clients.
* **`DailyHistoryProofs`** - `TableCorrect`, `ResultsCloseTheirAttempt`,
  `EndIsLast`, `FailureIsComplete`, `StagesStayInside`, and the refinement
  `TableIsSequential`: for any number of workers, stages, attempts and
  takeovers, the recorded operation is one that a single worker could have run.
  None of them is inductive, because a worker decides on what it has read and
  publishes several steps later. The invariant (`TableInv`) says why that is
  harmless: only a worker whose grant is the one of the operation lease row
  (`Current`) passes the fence of an append, grants of earlier epochs lie below
  the row (`GrantsBelow`), and the locals of a current worker agree with the
  table (`InSync`, by place: the event it would close is the last one of its
  stage, the stages before it are completed, those it has blocked are blocked).
  An append of one worker makes no other current worker's locals stale, because
  there is no other; a claim makes its worker current, and the worker reads the
  table after it. `StagesStayInside` needs to know who answers for a live stage
  lease (`HeldBy`): a worker that is at that stage, on its way out, or gone.
* **`PaperExecutionProofs`** - `LeaseExclusive` and `OneLiveOwner`. That a live
  grant owns the row is not inductive: it needs that owner identifiers in rows
  and grants have been issued, that two workers never hold the same one, and that
  a grant and the row it owns agree on the expiry (`LeaseInv`).
* **`PaperStoresProofs`** - `PaperTypes`, `NoOrderOverfilled`,
  `RecordsArePublished`, `AttemptsAreChained`, `ReportsAreTrue`,
  `RecordsAreApproved`: every invariant of the paper stores, for any number of
  processes and constructions, with leases or without. The lease plays no part in
  the argument; it could not, since the command line takes none. The
  invariant (`PaperInv`) rests on two ideas. The stores only grow (`Grows`), so
  that what a worker has read stays true while others write (`Local`,
  `OthersStay`): its base snapshot and previous batch exist, its started event
  is there, its approval stands against every later stop. And identifiers refuse
  what has become stale: one number of attempt cannot begin with two snapshots
  (`OneBase`), one identifier cannot name two snapshots (`UniqueIds`, with
  `Marks` for the snapshots of the context publication), one number cannot have
  two records; a worker with old locals is refused or writes what is there
  already. `FirstFills` ties a fill to the first attempt's snapshot without one,
  so that a retry which finds no record finds no fill either, or is refused at
  its started event (the disagreement `FillsAreRecorded`). From these, the
  amounts of an attempt's base are those of its previous record (`InStep`), which
  gives the bound on fills.
  `OneProcessDropsNoFill` and `OneProcessKeepsLedger` suppose at most one process
  (`OneProcess`), and the second a constant net asset value (`OnePrice`), because
  the ledger has one request. Prices, marks, crashes, database errors,
  several constructions and calls without a lease are unrestricted otherwise. The
  first says of the disagreement `NoFillDropped` that it takes an overlap; the
  second is the refinement that `paper_recovery` checks. One process is always at
  the tail of the portfolio (`Follows`), and an identifier continues one that
  lies before it (`Rooted`), so its ending is new.

* **`DeliveryProofs`** - `TypesOfDelivery`, `ClaimsAreExclusive`,
  `CompletionsAreSingle`, `CompletedRunsAnnounce`, `SentMeansDelivered`,
  `CountersAreCovered`, `RepeatsTakeTwoDispatchers`: every invariant of the run.
  Each needs to know what a worker holds in its locals (`InHand`): that an alert
  it has looked up is queued or about to be (`LookedUpIsQueued`), that a success
  it is about to record has left (`SuccessInHand`), that the counter it read is
  covered by attempts (`CountInHand`), that two workers in the dispatcher with
  one alert have been counted (`OneDispatcher`), and that a completed row stays
  completed (`CompletedStays`). Two of them are conditional, as the code is:
  claims exclude until a worker ends a cycle that another one had claimed
  (`overtaken`), and completions are single until then or until a failure is
  recorded over a completion whose reload raised (`reverted`).
  `RepeatsTakeTwoDispatchers` is about repeats after a *recorded* success: a
  dispatcher that raises after its message has left sends it again alone.
* **`CioOperatorProofs`** - `TypesOfOperator`, `AcknowledgedMeansReviewed`,
  `SlotsAreDecidedInside`, `FailedReviewsRetried`, `CompletedIsHandedOver`. The
  strengthenings say what the pass has in hand (`PendingInHand`: what is about to
  be acknowledged was read by the cycle that completed, or has left the file; `DecidedInSlot`: the slot being run had begun at its decision time;
  `ReleasedIsFree`: what a failed trigger released is not claimed).
* **`CertificationProofs`** - `TypesOfCertification`, `CertifiedMeansQualified`,
  `QualifiedWorkIsKept`, `BudgetsAreKept`, `GivenUpOnlyByFailure`. The invariant (`CertificationInv`)
  says that a node is pending, running or settled, that what qualified is neither
  pending nor running and has no process, and that results and manifest call
  qualified only what the files do; for the budgets (`BudgetInv`) leases out and
  leases free make up the capacity exactly, until a failed journal returns one
  too early, and exceed it from then on. `BudgetsAreKept` therefore bounds the
  node processes by the number of workers always, and by the capacities until
  that happens (`torn`); lanes that outlive their node (`stray`) call their
  provider outside any lease and are not counted. A round that launches nothing with
  nothing running (`GivenUpInv`) therefore has every lease free, so that a node
  it gives up waits for a dependency. This uses that a node has a provider group
  (`CertificationConstants`), as all of them have: `_provider_groups`
  (`operations/persistent_certification_scheduler.py:626`) never returns an empty
  set.

Every invariant, action property and refinement that a passing run checks is
thereby a theorem. Only model-checked is liveness (`OperationEnds`,
`PendingIsSettled`, `CycleCompletes`, `RecordsAreReviewed`, `MovesAreReviewed`,
`LatestSlotCompletes`, `RunEnds`): it rests on fairness, which is outside the
prover. `FillsAreRecorded`, `RenewalKeepsOwner`, `RecoveryCanBlock` and
`StopIsFinal` are false of the code and stay with the runs that refute them; of
`NoFillDropped`, also refuted, the case of one process is proved. What is
not proved of the ledger is a price that changes: its request would be another
one for every attempt.

## 5. Not modelled

The components marked `not_modelled` in `PROJECT.json`, and inside the modelled
or partly modelled ones: the subprocess of a stage and what it writes elsewhere; the hash chains;
exceptions of the claim-row insertion when the idempotency key changes in the
middle of a day; a heartbeat thread that outlives its join; lot sizes and
tolerances that leave an order a remainder nobody can fill; the planner of
alerts and its preferences; several operators at once (`Delivery` has several
workers on a cycle row, but not the scan files); the further scan layers of the
production reassessment engine, reactive monitoring and global leadership
(`operations/reactive_investor_material_reassessment.py`,
`operations/global_opportunity_reassessment.py`), whose keys go through the claims,
triggers and releases that `CioOperator` models; the limit of 4000 on
acknowledged record identifiers (`operations/investor_material_reassessment.py`); the reports, the launch date and
the after-close review of the operator; what a construction that was held or
whose pass died waits for (nobody calls again, and the repository promises
nothing); how the nodes of the certification graph are built - today without
dependencies, which the scheduler supports and the model exercises -, progress
messages, and the stage journal and file lock of the coordinator; a read error of
a node's file that passes, which makes `_load_success`
(`operations/persistent_certification_scheduler.py:293`) repeat a node that had
qualified; sessions that a component opens for itself
(`operations/supervised_component_execution.py:69`), out of reach of the signal
to the group of a node. The retry executor
(`portfolio/multi_asset_execution_retry.py`) is exported by the package, and the
production command does not construct it: it runs
`UniversalCapabilityPaperExecutionOrchestrator`, whose base is the executor
modelled here.

## 6. Disagreements found

Each has a run that TLC ends with a counterexample.

1. `RenewalKeepsOwner` - the renewing thread publishes the same heartbeat twice.
   Its identifier digests stage, attempt and detail, and the stored payload has
   other lease times, so the second renewal is refused as conflicting and the
   stage is failed as interrupted while its worker owns both leases
   (`operations/daily_leases.py:912`).
2. `RecoveryCanBlock` - after a crash between a stage-blocked event and the
   terminal event, the replacement's own stage-blocked event is refused for the
   same reason, and every further poll leaves with an error
   (`operations/daily_orchestration.py:926`).
3. `NoFillDropped` - the ending snapshot is appended without comparing the tail
   of the portfolio; a process that stalled past its lease buries its
   successor's fill (`portfolio/multi_asset_execution.py:1219`).
4. `FillsAreRecorded` - after a crash between the snapshot and the record, every
   later attempt is refused at its started event
   (`portfolio/multi_asset_execution.py:1220`).
5. `StopIsFinal` - the policy approves in another transaction than the one in
   which it saw no stop (`paper_execution_runtime.py:406`).

The following are visible in the models, or found with TLC on the way, and have
no run of their own:

* The successor of a worker that died after a non-retryable failure starts the
  stage again: it counts attempts and does not read how they failed
  (`operations/daily_orchestration.py:976`), where
  `docs/CANONICAL_DAILY_OPERATIONS.md:126` says "Only explicitly retryable
  failures may consume another attempt".
* A worker that outlives its claim ends its successor's cycle, by an update by
  key alone (`delivery/store.py:316`); a failure recorded over a completion lets
  the cycle be completed a second time, where
  `docs/CANONICAL_PRODUCTION_SCHEDULER.md:61` says "Exact replay cannot create a
  second completed daily cycle". `ClaimIsExclusive` and `CompletedOnceInTurn`
  hold up to that point (`overtaken`).
* One worker alone gets there as well: `complete_cycle` commits and then reads the
  row over another connection (`delivery/store.py:331`), inside the `try` of
  `_run_cycle` (`delivery/canonical_scheduler.py:211`). If that read raises,
  `fail_cycle` overwrites the completed row and the cycle runs again after the
  retry delay, against the same sentence; `CompletedOnceInTurn` excepts it
  (`reverted`).
* A cycle that failed or was abandoned is claimed again only while its slot is the
  latest due one of the day (`delivery/canonical_scheduler.py:122`); nothing
  returns to it later. `CycleCompletes` says so.
* A material record that leaves the file (after thirty hours, or when 2000 newer
  ones push it out, `public_live_record_history.py:94`) while its reviews keep
  failing stays pending and is acknowledged with the next completed review
  (`operations/investor_material_reassessment.py:291`) without having been on
  file for any; one that leaves before a scan is never found. `lapsed` in
  `AcknowledgedWasReviewed` and the words "stays on file" of `RecordsAreReviewed`
  are these two cases.
* The scan advances the stored record count before the review, so that a failed
  one does not bring its opportunity back: the next scan finds no growth
  (`operations/cio_material_reassessment.py:540`). `FailedReviewsAreRetried`
  excepts the count, and no run shows the loss. Yet
  `docs/MULTI_CYCLE_CIO_OPERATION.md:65` says "A failed event review releases its
  trigger fingerprint so it can be retried rather than silently deduplicated".
* The journal names a node before its group is known and, with one worker, is
  not written again until the node ends; after a death of the supervisor the
  reaper signals the process alone and its lane goes on into the next attempt
  (`JournaledAreReaped` in `Certification`,
  `operations/comprehensive_descendant_reaper.py:189`), where
  `run_stage_isolated_evidence_pipeline.py:765` says "so no later attempt can
  overlap them". A death between launch and journal leaves the process as well.
* A journal that fails after a launch returns the lease of a node that goes on
  running; the second return, at its end, raises and ends the run
  (`operations/dag_native_comprehensive_supervision.py:511`).
* A retry recomputes its request from the current net asset value
  (`portfolio/multi_asset_execution.py:1015`), where
  `docs/MULTI_ASSET_PAPER_EXECUTION.md:89` says "from the original request".
* A lease acquired after a release carries token 1 again
  (`operations/paper_execution_leases.py:154`), where `CODEX_BACKLOG.md:116` asks
  for "monotonic fencing tokens". Exclusion does not depend on it.

## 7. Plan

Modules, in this order:

1. A variant of `PaperExecution` for the retry executor with its original
   request and certified publication, and the two legs of a relative-value pair
   through their staging store.
2. The stage-isolated pipeline: coordinators, the owner lease that dies with its
   process, the stage journal, supersession and reconciliation, composed with
   `Certification` in place of its `Crash`, `Reap` and `Restart`.
3. The delegate of a stage as a process that goes on after its worker is
   replaced, composed with `DailyOperations`.
4. `CioOperator` with `PaperExecution` in place of its `Attempt`, and with a
   second worker on its cycle rows.

Theorems: the policy and a human stop that does not fall between its two
transactions (what remains of `StopIsFinal`); a ledger whose request follows the
net asset value of the attempt; the identifiers of alerts under a changing plan;
and the invariants of each new module with it. A new run takes the place of one
whose question a theorem or a larger run has answered.
