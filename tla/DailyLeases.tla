---------------------------- MODULE DailyLeases ----------------------------
(***************************************************************************)
(* The coordination plane of one canonical daily operation, as kept by     *)
(* LeasedSQLiteCanonicalDailyOperationsStore in operations/daily_leases.py.*)
(*                                                                         *)
(* Durable state is one SQLite file: a row in the operation lease table, a *)
(* row per stage in the stage lease table, the claim row and the           *)
(* append-only event table.  Each process keeps, in memory only, the       *)
(* grants it believes it holds.  A BEGIN IMMEDIATE transaction is one step *)
(* of this module; a transaction that raises leaves the file as it was,    *)
(* though not always the memory of the process that tried.                 *)
(*                                                                         *)
(* Here the processes are arbitrary clients of the store: they may publish *)
(* any event at any time.  DailyOperations restricts them to what the      *)
(* orchestrator does.                                                      *)
(***************************************************************************)
EXTENDS Integers, Sequences

CONSTANTS
    Worker,         \* worker identities; a restarted process may reuse one
    NoWorker,       \* owner of a lease row that does not exist yet
    NStages,        \* length of CANONICAL_DAILY_STAGE_ORDER (12 in the code)
    MaxAttempts,    \* StageRetryPolicy.maximum_attempts
    Beat,           \* heartbeat details, which the event identifier digests
    LeaseDuration,  \* store.lease_duration, in clock ticks
    Key,            \* idempotency keys a deployment may derive for the day
    NoKey,          \* the claim row does not exist yet
    ForeignKey,     \* keys already claimed by another operation identifier
    MaxTime,        \* bound: last instant of the clock
    MaxToken,       \* bound: operation lease acquisitions
    MaxEvents       \* bound: length of the event table

ASSUME LeaseAssumption ==
    /\ NoWorker \notin Worker
    /\ NStages \in Nat \ {0}
    /\ MaxAttempts \in Nat \ {0}
    /\ LeaseDuration \in Nat \ {0}
    /\ NoKey \notin Key
    /\ MaxTime \in Nat /\ MaxToken \in Nat /\ MaxEvents \in Nat

Stage == 1 .. NStages
Attempt == 1 .. MaxAttempts

-----------------------------------------------------------------------------
(* Events.  The event identifier of the code is a function of the kind, the *)
(* stage, the attempt and, for a heartbeat, the digest of its detail.  The  *)
(* note of any other event is payload: it is compared but not identifying. *)

Fenced == {"stage_heartbeat", "stage_completed", "stage_failed"}
Closing == {"stage_completed", "stage_failed"}
Terminal == {"operation_completed", "operation_failed"}
Staged == {"stage_started"} \cup Fenced    \* published under a stage lease

EventKind == {"operation_claimed", "stage_blocked"} \cup Staged \cup Terminal
Note == {"", "retryable", "final"} \cup Beat

Event == [kind : {"operation_claimed"} \cup Terminal, stage : {0}, attempt : {0}, note : {""}]
      \cup [kind : {"stage_blocked"}, stage : Stage, attempt : {0}, note : {""}]
      \cup [kind : {"stage_started", "stage_completed"}, stage : Stage, attempt : Attempt, note : {""}]
      \cup [kind : {"stage_failed"}, stage : Stage, attempt : Attempt, note : {"retryable", "final"}]
      \cup [kind : {"stage_heartbeat"}, stage : Stage, attempt : Attempt, note : Beat]

SameIdentifier(a, b) ==
    /\ a.kind = b.kind /\ a.stage = b.stage /\ a.attempt = b.attempt
    /\ a.kind = "stage_heartbeat" => a.note = b.note

Lease == [owner : Worker \cup {NoWorker}, token : Nat, expires : Nat]
NoLease == [owner |-> NoWorker, token |-> 0, expires |-> 0]

\* A row of the event table: the event and the lease metadata the store adds.
Entry == [kind : EventKind, stage : 0 .. NStages, attempt : 0 .. MaxAttempts,
          note : Note, worker : Worker,
          opToken : Nat, opExpires : Nat, stToken : Nat, stExpires : Nat]

VARIABLES
    now,       \* the clock of the host
    opLease,   \* row of canonical_daily_operation_leases
    stLease,   \* rows of canonical_daily_stage_leases
    claimKey,  \* idempotency key of the claim row, NoKey while there is none
    log,       \* canonical_daily_operation_events
    opGrant,   \* worker -> token in _operation_grants, 0 when it has none
    stGrant    \* worker -> stage -> token in _stage_grants, 0 when it has none

durable == <<opLease, stLease, claimKey, log>>
memory == <<opGrant, stGrant>>
leaseVars == <<now, durable, memory>>

LeaseTypeOK ==
    /\ now \in Nat
    /\ opLease \in Lease
    /\ stLease \in [Stage -> Lease]
    /\ claimKey \in Key \cup {NoKey}
    /\ log \in Seq(Entry)
    /\ opGrant \in [Worker -> Nat]
    /\ stGrant \in [Worker -> [Stage -> Nat]]

NoGrants == [s \in Stage |-> 0]

LeaseInit ==
    /\ now = 0
    /\ opLease = NoLease
    /\ stLease = [s \in Stage |-> NoLease]
    /\ claimKey = NoKey
    /\ log = <<>>
    /\ opGrant = [w \in Worker |-> 0]
    /\ stGrant = [w \in Worker |-> NoGrants]

-----------------------------------------------------------------------------
(* Lease rows.                                                             *)

Active(l) == l.expires > now

\* Mutants: an active lease of another worker is taken; an expired one is not.
CanAcquireActive(l, w) == TRUE
CanAcquireOwnOnly(l, w) == l.token = 0 \/ l.owner = w

\* A row may be taken when it is missing, expired, or already one's own.
CanAcquire(l, w) == Active(l) => l.owner = w

\* Re-acquiring one's own active lease keeps the token; any other
\* acquisition is a new epoch.
Acquired(l, w) ==
    [owner   |-> w,
     token   |-> IF Active(l) /\ l.owner = w THEN l.token ELSE l.token + 1,
     expires |-> now + LeaseDuration]

\* Mutant: the fence trusts the grant in memory.
HoldsByMemory(l, w, grant) == grant # 0 /\ Active(l)

Holds(l, w, grant) ==
    /\ grant # 0
    /\ l.owner = w
    /\ l.token = grant
    /\ Active(l)

Renewed(l) == [l EXCEPT !.expires = now + LeaseDuration]
Released(l) == [l EXCEPT !.expires = now]

-----------------------------------------------------------------------------
(* claim(): the transaction that takes the operation lease and the claim   *)
(* row.  The OPERATION_CLAIMED event is a publication of its own.          *)

KeyAccepted(k) == k \notin ForeignKey /\ claimKey \in {NoKey, k}

Claim(w, k) ==
    /\ opLease.token < MaxToken
    /\ CanAcquire(opLease, w)
    /\ KeyAccepted(k)
    /\ opLease' = Acquired(opLease, w)
    /\ opGrant' = [opGrant EXCEPT ![w] = opLease'.token]
    /\ claimKey' = k
    /\ UNCHANGED <<now, stLease, log, stGrant>>

\* Another worker holds the operation: nothing changes.
ClaimDenied(w) ==
    /\ ~CanAcquire(opLease, w)
    /\ UNCHANGED leaseVars

\* The idempotency key is refused after the grant was recorded in memory:
\* the transaction rolls the row back, the process keeps the grant.
ClaimConflict(w, k) ==
    /\ opLease.token < MaxToken
    /\ CanAcquire(opLease, w)
    /\ ~KeyAccepted(k)
    /\ opGrant' = [opGrant EXCEPT ![w] = Acquired(opLease, w).token]
    /\ UNCHANGED <<now, durable, stGrant>>

-----------------------------------------------------------------------------
(* append(): fence, renew and publish in one transaction.                  *)

OperationFence(w) == Holds(opLease, w, opGrant[w])

StageFence(w, e) ==
    /\ e.kind = "stage_started" => CanAcquire(stLease[e.stage], w)
    /\ e.kind \in Fenced => Holds(stLease[e.stage], w, stGrant[w][e.stage])

\* The stage lease the event is published under, after the transaction
\* acquired or renewed it.
StageLeaseOf(w, e) ==
    CASE e.kind = "stage_started"   -> Acquired(stLease[e.stage], w)
      [] e.kind = "stage_heartbeat" -> Renewed(stLease[e.stage])
      [] e.kind \in Closing         -> stLease[e.stage]
      [] OTHER                      -> NoLease

EntryOf(w, e) ==
    [kind      |-> e.kind,
     stage     |-> e.stage,
     attempt   |-> e.attempt,
     note      |-> e.note,
     worker    |-> w,
     opToken   |-> opLease.token,
     opExpires |-> now + LeaseDuration,
     stToken   |-> StageLeaseOf(w, e).token,
     stExpires |-> StageLeaseOf(w, e).expires]

Known(e) == \E i \in DOMAIN log : SameIdentifier(log[i], e)
Identical(w, e) == \E i \in DOMAIN log : log[i] = EntryOf(w, e)

\* Lease rows and grants when the stage lease of e becomes l.
StageLeaseBecomes(w, e, l, grant) ==
    IF e.kind \in Staged
    THEN /\ stLease' = [stLease EXCEPT ![e.stage] = l]
         /\ stGrant' = [stGrant EXCEPT ![w][e.stage] = grant]
    ELSE UNCHANGED <<stLease, stGrant>>

Publish(w, e) ==
    /\ Len(log) < MaxEvents
    /\ OperationFence(w)
    /\ StageFence(w, e)
    /\ ~Known(e)
    /\ log' = Append(log, EntryOf(w, e))
    /\ IF e.kind \in Terminal
       THEN /\ opLease' = Released(opLease)
            /\ opGrant' = [opGrant EXCEPT ![w] = 0]
       ELSE /\ opLease' = Renewed(opLease)
            /\ UNCHANGED opGrant
    /\ IF e.kind \in Closing
       THEN StageLeaseBecomes(w, e, Released(stLease[e.stage]), 0)
       ELSE StageLeaseBecomes(w, e, StageLeaseOf(w, e), StageLeaseOf(w, e).token)
    /\ UNCHANGED <<now, claimKey>>

\* The event exists with exactly this content: the call returns its sequence
\* number.  The leases were renewed, and the early return commits that, but
\* a terminal or closing event does not release anything a second time.
PublishAgain(w, e) ==
    /\ OperationFence(w)
    /\ StageFence(w, e)
    /\ Known(e)
    /\ Identical(w, e)
    /\ opLease' = Renewed(opLease)
    /\ StageLeaseBecomes(w, e, StageLeaseOf(w, e), StageLeaseOf(w, e).token)
    /\ UNCHANGED <<now, claimKey, log, opGrant>>

Rejected(w, e) ==
    \/ ~OperationFence(w)
    \/ ~StageFence(w, e)
    \/ Known(e) /\ ~Identical(w, e)

\* append() raises and the transaction rolls back.  A stage-started event
\* that fails on its identifier has already put the stage grant in memory.
PublishRejected(w, e) ==
    /\ Rejected(w, e)
    /\ IF OperationFence(w) /\ StageFence(w, e) /\ e.kind = "stage_started"
       THEN stGrant' = [stGrant EXCEPT ![w][e.stage] = StageLeaseOf(w, e).token]
       ELSE UNCHANGED stGrant
    /\ UNCHANGED <<now, durable, opGrant>>

\* assert_fencing_context() returns normally.
FenceHolds(w, s) == OperationFence(w) /\ Holds(stLease[s], w, stGrant[w][s])

-----------------------------------------------------------------------------
(* release_all(), the loss of a process, and time.                         *)

ReleaseIfOwn(l, w, grant) ==
    IF grant # 0 /\ l.owner = w /\ l.token = grant THEN Released(l) ELSE l

\* Mutant: stage leases are left to expire.
ReleaseOperationOnly(w) ==
    /\ opLease' = ReleaseIfOwn(opLease, w, opGrant[w])
    /\ opGrant' = [opGrant EXCEPT ![w] = 0]
    /\ stGrant' = [stGrant EXCEPT ![w] = NoGrants]
    /\ UNCHANGED <<now, stLease, claimKey, log>>

ReleaseAll(w) ==
    /\ opLease' = ReleaseIfOwn(opLease, w, opGrant[w])
    /\ stLease' = [s \in Stage |-> ReleaseIfOwn(stLease[s], w, stGrant[w][s])]
    /\ opGrant' = [opGrant EXCEPT ![w] = 0]
    /\ stGrant' = [stGrant EXCEPT ![w] = NoGrants]
    /\ UNCHANGED <<now, claimKey, log>>

\* The process dies.  The file keeps its rows; its grants are gone.
LoseMemory(w) ==
    /\ opGrant' = [opGrant EXCEPT ![w] = 0]
    /\ stGrant' = [stGrant EXCEPT ![w] = NoGrants]
    /\ UNCHANGED <<now, durable>>

Tick ==
    /\ now < MaxTime
    /\ now' = now + 1
    /\ UNCHANGED <<durable, memory>>

LeaseNext ==
    \/ Tick
    \/ \E w \in Worker :
        \/ \E k \in Key : Claim(w, k) \/ ClaimConflict(w, k)
        \/ ClaimDenied(w)
        \/ \E e \in Event : Publish(w, e) \/ PublishAgain(w, e) \/ PublishRejected(w, e)
        \/ ReleaseAll(w)
        \/ LoseMemory(w)

LeaseSpec == LeaseInit /\ [][LeaseNext]_leaseVars

-----------------------------------------------------------------------------
(* Properties.                                                             *)

\* The event table never goes back to an older epoch: the operation tokens
\* it records never decrease, and all events of one epoch were published by
\* one worker.  (append() fences before every insert, so a worker that was
\* replaced cannot publish between or after the events of its successor.)
FencedHistory ==
    \A i, j \in DOMAIN log :
        i < j => /\ log[i].opToken <= log[j].opToken
                 /\ log[i].opToken = log[j].opToken => log[i].worker = log[j].worker

\* The same for the attempts of one stage and its stage tokens.
FencedStages ==
    \A i, j \in DOMAIN log :
        (i < j /\ log[i].stage = log[j].stage /\ log[i].stToken # 0 /\ log[j].stToken # 0)
            => /\ log[i].stToken <= log[j].stToken
               /\ log[i].stToken = log[j].stToken => log[i].worker = log[j].worker

\* An event is published only under the newest epoch, and the newest epoch
\* belongs to the owner of the row.
HistoryBelowLease ==
    \A i \in DOMAIN log :
        /\ log[i].opToken <= opLease.token
        /\ log[i].opToken = opLease.token => log[i].worker = opLease.owner
        /\ log[i].stToken # 0 =>
              /\ log[i].stToken <= stLease[log[i].stage].token
              /\ log[i].stToken = stLease[log[i].stage].token
                    => log[i].worker = stLease[log[i].stage].owner

\* No operation or stage lease changes hands while it is active, and every
\* change of hands raises the fencing token; tokens never go down.
Handover(l, m) ==
    /\ l.token <= m.token
    /\ l.owner # m.owner => l.token < m.token /\ ~Active(l)

LeasesHandedOver ==
    [][/\ Handover(opLease, opLease')
       /\ \A s \in Stage : Handover(stLease[s], stLease'[s])]_leaseVars
=============================================================================
