------------------------------ MODULE Delivery ------------------------------
(***************************************************************************)
(* Workers of the canonical scheduler (delivery/canonical_scheduler.py)    *)
(* share one alert store: they claim a cycle, run it, queue the alerts of  *)
(* its events for one account, complete or fail the cycle, and dispatch    *)
(* the alerts that are pending.  Each SQL statement outside an explicit    *)
(* transaction is a step of its own.                                       *)
(***************************************************************************)
EXTENDS CycleClaims, FiniteSets

CONSTANTS
    Worker,       \* processes that run the scheduler, restarts included
    NoWorker,
    Channel,      \* the channels of the account's preference
    NoRow,        \* stands for "no alert at hand"
    MaxAttempts,  \* maximum_attempts of the delivery service
    BaseDelay,    \* base_retry_delay of the delivery service
    MaxFaults     \* bound: crashes, failed runs and lost statements

ASSUME DeliveryConstants ==
    /\ NoWorker \notin Worker
    /\ "suppressed" \notin Channel
    /\ NoRow \notin Channel \cup {"suppressed"}
    /\ MaxAttempts \in Nat \ {0} /\ BaseDelay \in Nat \ {0} /\ MaxFaults \in Nat

\* One row per dedupe key: user|event|channel, or user|event|suppressed.
Alert == Channel \cup {"suppressed"}

\* The backoff doubles with every failed attempt; after the last one none follows.
Delay(attempts) == BaseDelay * 2^(attempts - 1)
MaxDelay == Delay(IF MaxAttempts > 1 THEN MaxAttempts - 1 ELSE 1)

\* Arithmetic for the proofs, which know nothing of exponents.
ASSUME BackoffGrows ==
    /\ MaxDelay \in Nat /\ BaseDelay <= MaxDelay
    /\ \A n \in 1 .. MaxAttempts - 1 : Delay(n) \in 0..MaxDelay

VARIABLES
    cycle,        \* the row of the cycle key in scheduled_cycles
    passed,       \* a later slot has begun or the day is over: run_due looks
                  \* at another key from then on
    alert,        \* alert_deliveries: status, attempts, time until due
    tries,        \* delivery_attempts: number of rows (capped), any success
    left,         \* alerts of which a message has left the dispatcher, or
                  \* which the authenticated inbox shows
    acking,       \* the alert a user's acknowledgement has read as SENT
    pc, plan, todo, batch, cur, held, ok, age,   \* the locals of a worker
    claim,        \* history: what is left of the lease a worker was given
    holder,       \* history: the worker of the latest claim
    overtaken,    \* history: a worker ended a cycle after another claimed it
    reverted,     \* history: a failure was recorded over a completion
    completions,  \* history: how often the cycle was completed, capped at 2
    announced,    \* history: the alerts completed runs had planned
    crowded,      \* history: alerts two dispatchers held at one time
    repeated,     \* history: alerts sent or reopened after a recorded success
    faults

store == <<cycle, passed, alert, tries, left, acking>>
local == <<pc, plan, todo, batch, cur, held, ok, age>>
history == <<claim, holder, overtaken, reverted, completions, announced, crowded,
             repeated, faults>>
vars == <<store, local, history>>

NoAlert == [status |-> "none", attempts |-> 0, wait |-> 0]
Settled == {"SENT", "ACKNOWLEDGED"}

Init ==
    /\ cycle = NoCycle /\ passed = FALSE
    /\ alert = [c \in Alert |-> NoAlert]
    /\ tries = [c \in Alert |-> [rows |-> 0, ok |-> FALSE]]
    /\ left = {} /\ acking = NoRow
    /\ pc = [w \in Worker |-> "idle"]
    /\ plan = [w \in Worker |-> {}]
    /\ todo = [w \in Worker |-> {}]
    /\ batch = [w \in Worker |-> {}]
    /\ cur = [w \in Worker |-> NoRow]
    /\ held = [w \in Worker |-> 0]
    /\ ok = [w \in Worker |-> FALSE]
    /\ age = [w \in Worker |-> 0]
    /\ claim = [w \in Worker |-> 0]
    /\ holder = NoWorker /\ overtaken = FALSE /\ reverted = FALSE
    /\ completions = 0 /\ announced = {}
    /\ crowded = {} /\ repeated = {} /\ faults = 0

Goto(w, label) == pc' = [pc EXCEPT ![w] = label]

-----------------------------------------------------------------------------
(* The scheduled cycle: run_due and _run_cycle.                            *)

\* The clock picks the latest due slot of the day: the row of an earlier one is
\* not looked at again, whatever its status.
SlotPasses ==
    /\ ~passed /\ passed' = TRUE
    /\ UNCHANGED <<cycle, alert, tries, left, acking, local, history>>

RunDue(w) ==
    /\ pc[w] = "idle"
    /\ \/ /\ ~passed /\ AttemptDue(cycle)
          /\ cycle' = Begun
          /\ claim' = [claim EXCEPT ![w] = Lease]
          /\ holder' = w
          /\ Goto(w, "run")
       \/ /\ passed \/ ~AttemptDue(cycle)
          /\ Goto(w, "dispatch")
          /\ UNCHANGED <<cycle, claim, holder>>
    /\ UNCHANGED <<passed, alert, tries, left, acking, plan, todo, batch, cur, held, ok, age,
                   overtaken, reverted, completions, announced, crowded, repeated, faults>>

\* The executor returns; the planner reads the preference and names the rows:
\* the enabled channels, or the suppression when none is.
RunExecutor(w) ==
    /\ pc[w] = "run"
    /\ \E chosen \in SUBSET Channel :
        LET rows == IF chosen = {} THEN {"suppressed"} ELSE chosen
        IN /\ plan' = [plan EXCEPT ![w] = rows]
           /\ todo' = [todo EXCEPT ![w] = rows]
    /\ Goto(w, "queue")
    /\ UNCHANGED <<store, batch, cur, held, ok, age, history>>

\* Any exception of the executor, of the queue or of complete_cycle, also of
\* the reload that follows its commit: all of them are recorded as a failure.
RunFails(w) ==
    /\ pc[w] \in {"run", "queue", "insert", "reload"}
    /\ faults < MaxFaults /\ faults' = faults + 1
    /\ cur' = [cur EXCEPT ![w] = NoRow]
    /\ Goto(w, IF pc[w] = "reload" THEN "undo" ELSE "failing")
    /\ UNCHANGED <<store, plan, todo, batch, held, ok, age, claim, holder,
                   overtaken, reverted, completions, announced, crowded, repeated>>

\* enqueue and record_suppression: SELECT by dedupe key.
LookUp(w, c) ==
    /\ pc[w] = "queue" /\ c \in todo[w]
    /\ todo' = [todo EXCEPT ![w] = @ \ {c}]
    /\ IF alert[c].status # "none"
       THEN UNCHANGED <<pc, cur>>
       ELSE Goto(w, "insert") /\ cur' = [cur EXCEPT ![w] = c]
    /\ UNCHANGED <<store, plan, batch, held, ok, age, history>>

\* enqueue and record_suppression: INSERT.  The unique dedupe key refuses the
\* row another worker inserted in the meantime, and the cycle fails.
Insert(w) ==
    /\ pc[w] = "insert"
    /\ LET c == cur[w]
       IN IF alert[c].status # "none"
          THEN Goto(w, "failing") /\ UNCHANGED alert
          ELSE /\ Goto(w, "queue")
               /\ \/ /\ c = "suppressed"
                     /\ alert' = [alert EXCEPT ![c].status = "SUPPRESSED"]
                  \/ /\ c # "suppressed"
                     /\ \E delay \in {0, BaseDelay} :
                        alert' = [alert EXCEPT ![c] =
                            [status |-> "PENDING", attempts |-> 0, wait |-> delay]]
    /\ cur' = [cur EXCEPT ![w] = NoRow]
    /\ UNCHANGED <<cycle, passed, tries, left, acking, plan, todo, batch, held, ok, age,
                   history>>

Ends(w) == overtaken' = (overtaken \/ holder # w) /\ claim' = [claim EXCEPT ![w] = 0]

\* Mutant of CompleteCycle: the alerts that are still to be queued are forgotten.
CompleteCycleEarly(w) ==
    /\ pc[w] = "queue"
    /\ cycle' = Completed
    /\ Ends(w)
    /\ completions' = IF completions < 2 THEN completions + 1 ELSE 2
    /\ announced' = announced \cup plan[w]
    /\ plan' = [plan EXCEPT ![w] = {}]
    /\ todo' = [todo EXCEPT ![w] = {}]
    /\ Goto(w, "reload")
    /\ UNCHANGED <<passed, alert, tries, left, acking, batch, cur, held, ok, age,
                   holder, reverted, crowded, repeated, faults>>

\* complete_cycle: the UPDATE and its commit.
CompleteCycle(w) ==
    /\ pc[w] = "queue" /\ todo[w] = {}
    /\ cycle' = Completed
    /\ Ends(w)
    /\ completions' = IF completions < 2 THEN completions + 1 ELSE 2
    /\ announced' = announced \cup plan[w]
    /\ plan' = [plan EXCEPT ![w] = {}]
    /\ Goto(w, "reload")
    /\ UNCHANGED <<passed, alert, tries, left, acking, todo, batch, cur, held, ok, age,
                   holder, reverted, crowded, repeated, faults>>

\* complete_cycle: the row is read again over another connection.
Reload(w) ==
    /\ pc[w] = "reload"
    /\ Goto(w, "dispatch")
    /\ UNCHANGED <<store, plan, todo, batch, cur, held, ok, age, history>>

\* fail_cycle asks neither who claimed the cycle nor whether it is completed.
FailCycle(w) ==
    /\ pc[w] \in {"failing", "undo"}
    /\ cycle' = Failed
    /\ Ends(w)
    /\ reverted' = (reverted \/ cycle.status = "COMPLETED")
    /\ plan' = [plan EXCEPT ![w] = {}]
    /\ todo' = [todo EXCEPT ![w] = {}]
    /\ Goto(w, "dispatch")
    /\ UNCHANGED <<passed, alert, tries, left, acking, batch, cur, held, ok, age,
                   holder, completions, announced, crowded, repeated, faults>>

-----------------------------------------------------------------------------
(* dispatch_pending: one read of the pending alerts, then for each of them *)
(* a message and a record of the attempt.                                  *)

\* Mutant of Due: what was sent is still due.
DueEvenIfSent == {c \in Alert : alert[c].status \in {"PENDING", "SENT"} /\ alert[c].wait = 0}

Due == {c \in Alert : alert[c].status = "PENDING" /\ alert[c].wait = 0}

ReadPending(w) ==
    /\ pc[w] = "dispatch"
    /\ batch' = [batch EXCEPT ![w] = Due]
    /\ crowded' = crowded \cup {c \in Due : \E v \in Worker \ {w} : c \in batch[v]}
    /\ Goto(w, IF Due = {} THEN "idle" ELSE "send")
    /\ UNCHANGED <<store, plan, todo, cur, held, ok, age, claim, holder, overtaken,
                   reverted, completions, announced, repeated, faults>>

\* The dispatcher may raise, before or after the message has left.  An in-app
\* alert needs no dispatcher: it behaves as a message that leaves at once.
Send(w, c) ==
    /\ pc[w] = "send" /\ c \in batch[w]
    /\ cur' = [cur EXCEPT ![w] = c]
    /\ \E sent, good \in BOOLEAN :
        /\ good => sent
        /\ ok' = [ok EXCEPT ![w] = good]
        /\ left' = IF sent THEN left \cup {c} ELSE left
        /\ repeated' = IF sent /\ tries[c].ok THEN repeated \cup {c} ELSE repeated
    /\ Goto(w, "read")
    /\ UNCHANGED <<cycle, passed, alert, tries, acking, plan, todo, batch, held, age,
                   claim, holder, overtaken, reverted, completions, announced, crowded,
                   faults>>

NextAlert(w) ==
    /\ batch' = [batch EXCEPT ![w] = @ \ {cur[w]}]
    /\ cur' = [cur EXCEPT ![w] = NoRow]
    /\ held' = [held EXCEPT ![w] = 0]
    /\ ok' = [ok EXCEPT ![w] = FALSE]
    /\ IF batch[w] \subseteq {cur[w]}
       THEN Goto(w, "idle") /\ age' = [age EXCEPT ![w] = 0]
       ELSE Goto(w, "send") /\ UNCHANGED age

\* record_attempt: SELECT; an alert that is not pending keeps its row.
ReadAttempt(w) ==
    /\ pc[w] = "read"
    /\ \/ /\ alert[cur[w]].status # "PENDING"
          /\ NextAlert(w)
       \/ /\ alert[cur[w]].status = "PENDING"
          /\ held' = [held EXCEPT ![w] = alert[cur[w]].attempts]
          /\ Goto(w, "write")
          /\ UNCHANGED <<batch, cur, ok, age>>
    /\ UNCHANGED <<store, plan, todo, history>>

\* Mutants of Attempted: one attempt too many; one too few; every attempt a
\* success; an attempt that fails is not counted.
AttemptedBeyond(attempts, good, elapsed) ==
    CASE good -> [status |-> "SENT", attempts |-> attempts, wait |-> 0]
      [] ~good /\ attempts > MaxAttempts ->
             [status |-> "FAILED", attempts |-> attempts, wait |-> 0]
      [] OTHER -> [status |-> "PENDING", attempts |-> attempts, wait |-> BaseDelay]
AttemptedEarly(attempts, good, elapsed) ==
    CASE good -> [status |-> "SENT", attempts |-> attempts, wait |-> 0]
      [] ~good /\ attempts >= MaxAttempts - 1 ->
             [status |-> "FAILED", attempts |-> attempts, wait |-> 0]
      [] OTHER -> [status |-> "PENDING", attempts |-> attempts, wait |-> BaseDelay]
AttemptedIsSent(attempts, good, elapsed) ==
    [status |-> "SENT", attempts |-> attempts, wait |-> 0]
AttemptedUncounted(attempts, good, elapsed) ==
    IF good THEN [status |-> "SENT", attempts |-> attempts, wait |-> 0]
            ELSE [status |-> "PENDING", attempts |-> attempts - 1, wait |-> BaseDelay]

\* The row after one more attempt, counted from the attempts read before.  The
\* backoff runs from the time the batch was read.
Attempted(attempts, good, elapsed) ==
    LET delay == Delay(attempts)
    IN CASE good -> [status |-> "SENT", attempts |-> attempts, wait |-> 0]
         [] ~good /\ attempts >= MaxAttempts ->
                [status |-> "FAILED", attempts |-> attempts, wait |-> 0]
         [] OTHER ->
                [status |-> "PENDING", attempts |-> attempts,
                 wait |-> IF delay > elapsed THEN delay - elapsed ELSE 0]

\* record_attempt: INSERT of the attempt and UPDATE of the alert by its key.
RecordAttempt(w) ==
    /\ pc[w] = "write"
    /\ LET c == cur[w]
           next == Attempted(held[w] + 1, ok[w], age[w])
       IN /\ alert' = [alert EXCEPT ![c] = next]
          /\ tries' = [tries EXCEPT ![c] =
                [rows |-> IF @.rows < MaxAttempts THEN @.rows + 1 ELSE @.rows,
                 ok |-> @.ok \/ ok[w]]]
          /\ repeated' =
                IF alert[c].status \in Settled /\ next.status # alert[c].status
                THEN repeated \cup {c} ELSE repeated
    /\ NextAlert(w)
    /\ UNCHANGED <<cycle, passed, left, acking, plan, todo, claim, holder, overtaken,
                   reverted, completions, announced, crowded, faults>>

-----------------------------------------------------------------------------
(* The account, time and faults.                                           *)

ReadForAcknowledgement(c) ==
    /\ acking = NoRow /\ alert[c].status = "SENT"
    /\ acking' = c
    /\ UNCHANGED <<cycle, passed, alert, tries, left, local, history>>

Acknowledge ==
    /\ acking # NoRow
    /\ alert' = [alert EXCEPT ![acking].status = "ACKNOWLEDGED"]
    /\ acking' = NoRow
    /\ UNCHANGED <<cycle, passed, tries, left, local, history>>

Tick ==
    /\ cycle' = Aged(cycle)
    /\ alert' = [c \in Alert |-> [alert[c] EXCEPT !.wait = Down(@)]]
    /\ claim' = [w \in Worker |-> Down(claim[w])]
    /\ age' = [w \in Worker |->
        IF pc[w] \in {"send", "read", "write"} /\ age[w] < MaxDelay THEN age[w] + 1 ELSE age[w]]
    /\ UNCHANGED <<passed, tries, left, acking, pc, plan, todo, batch, cur, held, ok, holder,
                   overtaken, reverted, completions, announced, crowded, repeated, faults>>

\* A process dies, or a statement of the store raises outside the cycle: what
\* it had in memory is gone and the supervisor starts it again.
Crash(w) ==
    /\ pc[w] # "idle"
    /\ faults < MaxFaults /\ faults' = faults + 1
    /\ Goto(w, "idle")
    /\ plan' = [plan EXCEPT ![w] = {}]
    /\ todo' = [todo EXCEPT ![w] = {}]
    /\ batch' = [batch EXCEPT ![w] = {}]
    /\ cur' = [cur EXCEPT ![w] = NoRow]
    /\ held' = [held EXCEPT ![w] = 0]
    /\ ok' = [ok EXCEPT ![w] = FALSE]
    /\ age' = [age EXCEPT ![w] = 0]
    /\ claim' = [claim EXCEPT ![w] = 0]
    /\ UNCHANGED <<store, holder, overtaken, reverted, completions, announced, crowded,
                   repeated>>

Progress(w) ==
    \/ RunDue(w) \/ RunExecutor(w) \/ Insert(w)
    \/ CompleteCycle(w) \/ Reload(w) \/ FailCycle(w)
    \/ ReadPending(w) \/ ReadAttempt(w) \/ RecordAttempt(w)
    \/ \E c \in Alert : LookUp(w, c) \/ Send(w, c)

Next ==
    \/ \E w \in Worker : Progress(w) \/ RunFails(w) \/ Crash(w)
    \/ \E c \in Channel : ReadForAcknowledgement(c)
    \/ Acknowledge
    \/ SlotPasses
    \/ Tick

\* Every worker polls for ever and no step of it blocks; time passes.  Nothing
\* says that a later slot begins before the cycle is completed.
Spec ==
    /\ Init /\ [][Next]_vars
    /\ WF_vars(Tick)
    /\ \A w \in Worker : WF_vars(Progress(w))
-----------------------------------------------------------------------------
(* What the store promises.                                                *)

Executing == {"run", "queue", "insert", "failing"}
Label == Executing \cup {"reload", "undo", "idle", "dispatch", "send", "read", "write"}

AlertRow == [status : {"none", "PENDING", "SENT", "FAILED", "ACKNOWLEDGED", "SUPPRESSED"},
             attempts : 0..MaxAttempts, wait : 0..MaxDelay]

\* Types of the store, of the workers' locals and of the histories.
DeliveryTypeOK ==
    /\ cycle \in CycleRow /\ passed \in BOOLEAN
    /\ alert \in [Alert -> AlertRow]
    /\ tries \in [Alert -> [rows : 0..MaxAttempts, ok : BOOLEAN]]
    /\ left \subseteq Channel /\ acking \in Channel \cup {NoRow}
    /\ pc \in [Worker -> Label]
    /\ plan \in [Worker -> SUBSET Alert] /\ todo \in [Worker -> SUBSET Alert]
    /\ batch \in [Worker -> SUBSET Channel] /\ cur \in [Worker -> Alert \cup {NoRow}]
    /\ held \in [Worker -> 0..MaxAttempts] /\ ok \in [Worker -> BOOLEAN]
    /\ age \in [Worker -> 0..MaxDelay]
    /\ claim \in [Worker -> 0..Lease] /\ holder \in Worker \cup {NoWorker}
    /\ overtaken \in BOOLEAN /\ reverted \in BOOLEAN /\ completions \in 0..2
    /\ announced \subseteq Alert /\ crowded \subseteq Alert /\ repeated \subseteq Alert
    /\ faults \in 0..MaxFaults

\* The lease keeps two workers apart: unless a worker ended a cycle after
\* another one had claimed it, whoever executes the cycle either holds its
\* running claim or has outlived its lease.
ClaimIsExclusive ==
    ~overtaken =>
        \A w \in Worker : pc[w] \in Executing =>
            \/ w = holder /\ cycle.status = "RUNNING" /\ claim[w] = cycle.lease
            \/ w # holder /\ claim[w] = 0

\* Exact replay completes a cycle once, but for two ways to a second completion:
\* a worker ends a cycle that another one has claimed in the meantime, or the
\* reload after the commit raises and a failure is recorded over a completion.
CompletedOnceInTurn == ~overtaken /\ ~reverted => completions <= 1

\* A completed cycle has queued every alert it planned, although the queue and
\* the completion are different transactions and a run may be interrupted
\* between two alerts, or take alerts over from an earlier run.
CompletedIsAnnounced == \A c \in announced : alert[c].status # "none"

\* An alert counts as sent or acknowledged only if an attempt on record has
\* succeeded and a message has left, although the message, the record and the
\* acknowledgement are separate steps of two processes and a user.
SentWasDelivered ==
    \A c \in Channel : alert[c].status \in Settled => tries[c].ok /\ c \in left

\* The counter of an alert never runs ahead of its append-only attempts, and a
\* dead letter has used all of its attempts.
AttemptsAreOnRecord ==
    \A c \in Channel :
        /\ alert[c].attempts <= tries[c].rows
        /\ alert[c].status = "FAILED" => tries[c].rows = MaxAttempts

\* A message is sent again after a recorded success, or a settled alert is
\* reopened, only if two dispatchers had read it as pending at one time.
RepeatsNeedOverlap == repeated \subseteq crowded

\* A queued alert does not stay pending for ever: it is sent or, after the last
\* attempt, given up, whatever the dispatcher answers and wherever it dies.
PendingIsSettled ==
    \A c \in Channel :
        []<>(alert[c].status \in Settled \cup {"none", "FAILED"})

\* The cycle of a slot is completed in the end although runs fail and workers
\* die, as long as no later slot begins and the day lasts: after that a failed
\* or abandoned cycle is never claimed again.
CycleCompletes == <>[](cycle.status = "COMPLETED" \/ passed)
=============================================================================
