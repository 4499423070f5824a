------------------------- MODULE DailyHistoryProofs -------------------------
(***************************************************************************)
(* What the event table of the daily operation says is what a single       *)
(* worker could have done: attempts are closed by who started them, nothing*)
(* follows the end, a failure accounts for every stage, and the table      *)
(* implements SequentialOperation.                                         *)
(*                                                                         *)
(* The argument: whoever passes the fence of the operation is current, all *)
(* others are not and never will be without a new claim; and a current     *)
(* worker's locals agree with the table (InSync), because it read the table*)
(* under the claim it still holds.                                         *)
(***************************************************************************)
EXTENDS DailyOperationsProofs

Lifecycle == {"stage_started"} \cup Closing
Claiming == {"claimed", "announce", "check"}
InStage == {"active", "run", "reconciled", "complete", "fail"}

\* The grant of the worker is the one the operation lease row names.
Current(w) == opGrant[w] # 0 /\ opGrant[w] = opLease.token

\* Only the owner of the row is current; a grant of an earlier epoch is below
\* it.  (A refused key leaves a grant above the row, and leaves run() at once.)
GrantsBelow ==
    \A w \in Worker : pc[w] \in Claiming \cup Looping =>
        /\ opGrant[w] <= opLease.token
        /\ opGrant[w] = opLease.token => opLease.owner = w

IsBlocked(s) == \E i \in DOMAIN log : log[i].kind = "stage_blocked" /\ log[i].stage = s

\* The event that started the attempt a worker is at is the last of its stage.
Open(w, i) ==
    /\ log[i].kind = "stage_started" /\ log[i].stage = cur[w]
    /\ log[i].attempt = tries[w] /\ log[i].worker = w
    /\ log[i].opToken = opGrant[w] /\ log[i].stToken = stGrant[w][cur[w]]
    /\ \A m \in DOMAIN log : m > i /\ log[m].kind \in Lifecycle => log[m].stage # cur[w]

\* A stage that cannot be attempted again.
Spent(s) ==
    \/ AttemptState(s) = "failed"
    \/ AttemptState(s) = "open" /\ Attempts(s) = MaxAttempts

\* What a current worker has read of the table is still so.
InSync(w) ==
    /\ pc[w] \in Looping \cup {"check"} => Exists({"operation_claimed"})
    /\ pc[w] \in Looping \cup {"announce"} => ~Exists(Terminal)
    /\ pc[w] \in Looping => \A t \in 1 .. cur[w] - 1 : Completed(t)
    /\ pc[w] = "completeOp" => \A t \in Stage : Completed(t)
    /\ pc[w] \in Attempting => ~Completed(cur[w])
    /\ pc[w] = "start" => Attempts(cur[w]) = tries[w] - 1
    /\ pc[w] \in InStage => Attempts(cur[w]) = tries[w] /\ \E i \in DOMAIN log : Open(w, i)
    /\ pc[w] \in {"block", "failOp"} =>
        /\ Spent(cur[w])
        /\ blocking[w] > cur[w]
        /\ \A s \in cur[w] + 1 .. blocking[w] - 1 : IsBlocked(s)
    /\ pc[w] = "failOp" => blocking[w] = NStages + 1

Synced == \A w \in Worker : Current(w) => InSync(w)

\* Attempts are numbered up to the number of starts and to the limit, each start
\* above all that came before it, and a completion is of the last one.
AttemptsNumbered ==
    /\ \A i \in DOMAIN log : log[i].kind \in Lifecycle =>
        log[i].attempt <= Attempts(log[i].stage)
    /\ \A i \in DOMAIN log : log[i].kind = "stage_completed" =>
        log[i].attempt = Attempts(log[i].stage)
    /\ \A i, j \in DOMAIN log :
        (i < j /\ log[i].kind \in Lifecycle /\ log[j].kind = "stage_started"
               /\ log[i].stage = log[j].stage) => log[i].attempt < log[j].attempt
    /\ \A s \in Stage : Attempts(s) <= MaxAttempts

EndIsAnnounced == Exists(Terminal) => Exists({"operation_claimed"})

\* The strengthening of the properties of the table.
TableInv ==
    /\ PhaseInv /\ GrantsBelow /\ Synced
    /\ AttemptsNumbered /\ EndIsAnnounced
    /\ ClosedByStarter /\ NothingAfterTerminal /\ FailureAccountsForStages

-----------------------------------------------------------------------------
(* The table after one more event.                                         *)

\* The lifecycle events are published under a stage lease and name a stage
\* and an attempt of it.
LEMMA LifecycleEvents ==
    ASSUME NEW e \in Event, e.kind \in Lifecycle
    PROVE  e.stage \in Stage /\ e.attempt \in Attempt /\ e.kind \in Staged
BY DEF Event, Lifecycle, Closing, Terminal, Staged, Fenced

\* append() adds one row at the end and changes none.
LEMMA RowAdded ==
    ASSUME LeaseTypeOK, NEW w \in Worker, NEW e \in Event, Publish(w, e)
    PROVE  /\ Len(log) \in Nat
           /\ DOMAIN log = 1 .. Len(log) /\ DOMAIN log' = 1 .. Len(log) + 1
           /\ \A i \in DOMAIN log : i \in DOMAIN log' /\ log'[i] = log[i]
           /\ Len(log) + 1 \in DOMAIN log' /\ Len(log) + 1 \notin DOMAIN log
           /\ \A i \in DOMAIN log' : i \in DOMAIN log \/ i = Len(log) + 1
           /\ log'[Len(log) + 1] = EntryOf(w, e)
           /\ EntryOf(w, e).kind = e.kind /\ EntryOf(w, e).stage = e.stage
           /\ EntryOf(w, e).attempt = e.attempt /\ EntryOf(w, e).worker = w
           /\ EntryOf(w, e).opToken = opLease.token
           /\ EntryOf(w, e).stToken = StageLeaseOf(w, e).token
           /\ Len(log') = Len(log) + 1
<1>1. log' = Append(log, EntryOf(w, e))
  BY DEF Publish
<1>2. log \in Seq(Entry) /\ EntryOf(w, e) \in Entry
  BY EntryType DEF LeaseTypeOK
<1>3. /\ EntryOf(w, e).kind = e.kind /\ EntryOf(w, e).stage = e.stage
      /\ EntryOf(w, e).attempt = e.attempt /\ EntryOf(w, e).worker = w
      /\ EntryOf(w, e).opToken = opLease.token
      /\ EntryOf(w, e).stToken = StageLeaseOf(w, e).token
  BY DEF EntryOf
<1> HIDE DEF EntryOf
<1> QED BY <1>1, <1>2, <1>3

\* Hence the kinds of events that exist, the completed and the blocked stages.
LEMMA KindsAdded ==
    ASSUME LeaseTypeOK, NEW w \in Worker, NEW e \in Event, Publish(w, e)
    PROVE  /\ \A kinds : Exists(kinds)' <=> Exists(kinds) \/ e.kind \in kinds
           /\ \A s : Completed(s)' <=>
                 Completed(s) \/ (e.kind = "stage_completed" /\ e.stage = s)
           /\ \A s : IsBlocked(s)' <=>
                 IsBlocked(s) \/ (e.kind = "stage_blocked" /\ e.stage = s)
<1> DEFINE n == Len(log) + 1
<1>1. /\ \A i \in DOMAIN log : i \in DOMAIN log' /\ log'[i] = log[i]
      /\ \A i \in DOMAIN log' : i \in DOMAIN log \/ i = n
      /\ n \in DOMAIN log' /\ log'[n].kind = e.kind /\ log'[n].stage = e.stage
  BY RowAdded
<1> HIDE DEF n
<1>2. ASSUME NEW kinds PROVE Exists(kinds)' <=> Exists(kinds) \/ e.kind \in kinds
  BY <1>1 DEF Exists
<1>3. ASSUME NEW s
      PROVE  Completed(s)' <=> Completed(s) \/ (e.kind = "stage_completed" /\ e.stage = s)
  BY <1>1 DEF Completed
<1>4. ASSUME NEW s
      PROVE  IsBlocked(s)' <=> IsBlocked(s) \/ (e.kind = "stage_blocked" /\ e.stage = s)
  BY <1>1 DEF IsBlocked
<1> QED BY <1>2, <1>3, <1>4

\* The attempts of a stage are counted by its started events.
LEMMA AttemptsAdded ==
    ASSUME LeaseTypeOK, NEW w \in Worker, NEW e \in Event, Publish(w, e), NEW s
    PROVE  /\ Attempts(s) \in Nat
           /\ Attempts(s)' = IF e.kind = "stage_started" /\ e.stage = s
                             THEN Attempts(s) + 1 ELSE Attempts(s)
<1> DEFINE n == Len(log) + 1
           S == {i \in DOMAIN log : log[i].kind = "stage_started" /\ log[i].stage = s}
           T == {i \in DOMAIN log' : log'[i].kind = "stage_started" /\ log'[i].stage = s}
<1>1. /\ \A i \in DOMAIN log : i \in DOMAIN log' /\ log'[i] = log[i]
      /\ \A i \in DOMAIN log' : i \in DOMAIN log \/ i = n
      /\ n \in DOMAIN log' /\ n \notin DOMAIN log
      /\ log'[n].kind = e.kind /\ log'[n].stage = e.stage
  BY RowAdded
<1>2. IsFiniteSet(S)
  <2>1. DOMAIN log = 1 .. Len(log) /\ Len(log) \in Int
    BY RowAdded
  <2> QED BY <2>1, FS_Interval, FS_Subset
<1>3. Attempts(s) = Cardinality(S) /\ Attempts(s)' = Cardinality(T)
  BY DEF Attempts
<1> HIDE DEF n
<1>4. T = IF e.kind = "stage_started" /\ e.stage = s THEN S \cup {n} ELSE S
  BY <1>1
<1>5. n \notin S
  BY <1>1
<1> HIDE DEF S, T
<1> QED BY <1>2, <1>3, <1>4, <1>5, FS_AddElement, FS_CardinalityType

\* An attempt of the stage has an event of this kind.
ClosedAt(s, n, kind) ==
    \E i \in DOMAIN log : log[i].stage = s /\ log[i].attempt = n /\ log[i].kind = kind

LEMMA StateByClosing ==
    ASSUME NEW s
    PROVE  AttemptState(s) =
              IF Attempts(s) = 0 THEN "none"
              ELSE IF ClosedAt(s, Attempts(s), "stage_completed") THEN "done"
              ELSE IF ClosedAt(s, Attempts(s), "stage_failed") THEN "failed" ELSE "open"
BY DEF AttemptState, ClosedAt

LEMMA ClosingAdded ==
    ASSUME LeaseTypeOK, NEW w \in Worker, NEW e \in Event, Publish(w, e)
    PROVE  \A s, n, kind : ClosedAt(s, n, kind)' <=>
              ClosedAt(s, n, kind) \/ (e.stage = s /\ e.attempt = n /\ e.kind = kind)
<1> DEFINE last == Len(log) + 1
<1>1. /\ \A i \in DOMAIN log : i \in DOMAIN log' /\ log'[i] = log[i]
      /\ \A i \in DOMAIN log' : i \in DOMAIN log \/ i = last
      /\ last \in DOMAIN log'
      /\ log'[last].kind = e.kind /\ log'[last].stage = e.stage /\ log'[last].attempt = e.attempt
  BY RowAdded
<1> HIDE DEF last
<1> QED BY <1>1 DEF ClosedAt

\* The state of the latest attempt changes with the lifecycle events of its
\* stage, and with no other.
LEMMA StateAdded ==
    ASSUME LeaseTypeOK, AttemptsNumbered, NEW w \in Worker, NEW e \in Event, Publish(w, e),
           NEW s \in Stage
    PROVE  /\ e.kind \notin Lifecycle \/ e.stage # s => AttemptState(s)' = AttemptState(s)
           /\ e.kind = "stage_started" /\ e.stage = s => AttemptState(s)' = "open"
           /\ e.kind = "stage_completed" /\ e.stage = s /\ e.attempt = Attempts(s)
                 => AttemptState(s)' = "done"
           /\ e.kind = "stage_failed" /\ e.stage = s /\ e.attempt = Attempts(s) /\ ~Completed(s)
                 => AttemptState(s)' = "failed"
<1>1. Attempts(s) \in Nat
  BY AttemptsCount
<1>2. \A n : n = Attempts(s)' =>
        AttemptState(s)' = IF n = 0 THEN "none"
                           ELSE IF ClosedAt(s, n, "stage_completed")' THEN "done"
                           ELSE IF ClosedAt(s, n, "stage_failed")' THEN "failed" ELSE "open"
  BY DEF AttemptState, ClosedAt
<1>3. CASE e.kind \notin Lifecycle \/ e.stage # s
  <2>1. Attempts(s)' = Attempts(s)
    BY <1>3, AttemptsAdded DEF Lifecycle
  <2>2. \A n, k : k \in Closing => (ClosedAt(s, n, k)' <=> ClosedAt(s, n, k))
    BY <1>3, ClosingAdded DEF Lifecycle
  <2>3. AttemptState(s)' = AttemptState(s)
    BY <1>2, <2>1, <2>2, StateByClosing DEF Closing
  <2> QED BY <1>3, <2>3 DEF Lifecycle, Closing
<1>4. CASE e.kind = "stage_started" /\ e.stage = s
  <2>1. Attempts(s)' = Attempts(s) + 1
    BY <1>4, AttemptsAdded
  <2>2. ASSUME NEW k \in Closing PROVE \A n : n = Attempts(s) + 1 => ~ClosedAt(s, n, k)
    <3>1. \A i \in DOMAIN log : log[i].kind = k => log[i].attempt <= Attempts(log[i].stage)
      BY DEF AttemptsNumbered, Lifecycle
    <3> QED BY <1>1, <3>1 DEF ClosedAt
  <2>3. \A n : \A k \in Closing : n = Attempts(s)' => ~ClosedAt(s, n, k)'
    BY <1>4, <2>1, <2>2, ClosingAdded DEF Closing
  <2>4. AttemptState(s)' = "open"
    BY <1>1, <1>2, <2>1, <2>3 DEF Closing
  <2> QED BY <1>4, <2>4 DEF Lifecycle
<1>5. CASE e.kind \in Closing /\ e.stage = s
  <2>1. Attempts(s)' = Attempts(s) /\ e.attempt \in Nat \ {0}
    BY <1>5, AttemptsAdded, LifecycleEvents DEF Closing, Lifecycle, Attempt
  <2>2. ClosedAt(s, Attempts(s), "stage_completed") => Completed(s)
    BY DEF ClosedAt, Completed
  <2>3. \A n, k : ClosedAt(s, n, k)' <=>
                    ClosedAt(s, n, k) \/ (e.attempt = n /\ e.kind = k)
    BY <1>5, ClosingAdded
  <2> QED BY <1>2, <1>5, <2>1, <2>2, <2>3 DEF Lifecycle, Closing
<1> QED BY <1>3, <1>4, <1>5 DEF Lifecycle

\* A stage is completed when its latest attempt is.
LEMMA CompletedIsDone ==
    ASSUME AttemptsNumbered, LeaseTypeOK, NEW s \in Stage
    PROVE  /\ Completed(s) /\ Attempts(s) # 0 => AttemptState(s) = "done"
           /\ AttemptState(s) = "done" => Completed(s)
<1>1. Completed(s) => ClosedAt(s, Attempts(s), "stage_completed")
  BY DEF AttemptsNumbered, Completed, ClosedAt
<1>2. ClosedAt(s, Attempts(s), "stage_completed") => Completed(s)
  BY DEF ClosedAt, Completed
<1> QED BY <1>1, <1>2, StateByClosing

\* Nothing of this changes while the table does not.
LEMMA TableKept ==
    ASSUME log' = log
    PROVE  /\ \A kinds : Exists(kinds)' <=> Exists(kinds)
           /\ \A s : (Completed(s)' <=> Completed(s)) /\ (IsBlocked(s)' <=> IsBlocked(s))
           /\ \A s : Attempts(s)' = Attempts(s) /\ AttemptState(s)' = AttemptState(s)
           /\ \A s : Spent(s)' <=> Spent(s)
<1>1. \A kinds : Exists(kinds)' <=> Exists(kinds)
  BY DEF Exists
<1>2. \A s : (Completed(s)' <=> Completed(s)) /\ (IsBlocked(s)' <=> IsBlocked(s))
  BY DEF Completed, IsBlocked
<1>3. \A s : Attempts(s)' = Attempts(s)
  BY DEF Attempts
<1>4. \A s : AttemptState(s)' = AttemptState(s)
  BY <1>3 DEF AttemptState
<1> QED BY <1>1, <1>2, <1>3, <1>4 DEF Spent

-----------------------------------------------------------------------------
(* Who is current.                                                         *)

Running == Claiming \cup Looping

\* Whoever passes the fence of the operation is current, and nobody else is.
LEMMA OneCurrent ==
    ASSUME PhaseInv, GrantsBelow, NEW w \in Worker, OperationFence(w), pc[w] \in Running
    PROVE  /\ Current(w) /\ opLease.owner = w
           /\ \A v \in Worker : v # w /\ pc[v] \in Running => ~Current(v)
BY DEF GrantsBelow, OperationFence, Holds, Current, Running

\* The rows and grants of a step that claims nothing and forgets nothing.
LEMMA GrantsKept ==
    ASSUME GrantsBelow, opLease'.token = opLease.token, opLease'.owner = opLease.owner,
           \A v \in Worker : pc'[v] \in Running => pc[v] \in Running /\ opGrant'[v] = opGrant[v]
    PROVE  GrantsBelow'
BY DEF GrantsBelow, Running

\* Outside run() there is nothing to be in step with.
LEMMA OutsideRun ==
    ASSUME NEW w, pc[w] \notin Running
    PROVE  InSync(w)
BY DEF InSync, Running, Claiming, Looping, Attempting, InStage

\* The locals of a worker that does nothing stay in step with a table that
\* stays as it is.
LEMMA StillInSync ==
    ASSUME NEW v \in Worker, log' = log, InSync(v),
           pc'[v] = pc[v], cur'[v] = cur[v], tries'[v] = tries[v], blocking'[v] = blocking[v],
           opGrant'[v] = opGrant[v], stGrant'[v] = stGrant[v]
    PROVE  InSync(v)'
<1>1. \A i \in DOMAIN log : Open(v, i) => Open(v, i)'
  BY DEF Open
<1> QED BY <1>1, TableKept DEF InSync

\* All but one worker.
OnlyMoves(w) ==
    \A v \in Worker \ {w} :
        /\ pc'[v] = pc[v] /\ cur'[v] = cur[v] /\ tries'[v] = tries[v]
        /\ blocking'[v] = blocking[v]
        /\ opGrant'[v] = opGrant[v] /\ stGrant'[v] = stGrant[v]

\* Steps that publish nothing.
LEMMA OthersInSync ==
    ASSUME TableInv, NEW w \in Worker, log' = log, OnlyMoves(w), opLease'.token = opLease.token,
           Current(w)' => InSync(w)'
    PROVE  Synced'
<1> SUFFICES ASSUME NEW v \in Worker, v # w, Current(v)' PROVE InSync(v)'
  BY DEF Synced
<1>1. Current(v) /\ InSync(v)
  BY DEF OnlyMoves, Current, TableInv, Synced
<1> QED BY <1>1, StillInSync DEF OnlyMoves

-----------------------------------------------------------------------------
(* Steps that leave the store alone.                                       *)

\* Where a worker goes after a stage.
LEMMA NextStageValues ==
    ASSUME NEW w \in Worker, cur[w] \in Stage
    PROVE  /\ cur[w] = NStages => AfterStage(w) = "completeOp" /\ NextStage(w) = cur[w]
           /\ cur[w] # NStages => AfterStage(w) = "select" /\ NextStage(w) = cur[w] + 1
                                  /\ NextStage(w) \in Stage
BY LeaseAssumption DEF AfterStage, NextStage, Stage

\* A worker that goes to the next stage knows that this one completed.
LEMMA StageBehind ==
    ASSUME PhaseInv, NEW w \in Worker, InSync(w), pc[w] \in Looping,
           Exists({"operation_claimed"})', ~Exists(Terminal)',
           \A s \in Stage : Completed(s) => Completed(s)',
           Completed(cur[w])
              \/ \A c : c = cur[w] => Completed(c)',
           pc'[w] = AfterStage(w), cur'[w] = NextStage(w)
    PROVE  InSync(w)'
<1>1. cur[w] \in Stage /\ NStages \in Nat \ {0}
  BY LeaseAssumption DEF PhaseInv
<1>2. \A t \in 1 .. cur[w] : t \in Stage /\ Completed(t)'
  BY <1>1 DEF InSync, Stage
<1>3. CASE cur[w] = NStages
  <2>1. pc'[w] = "completeOp" /\ cur'[w] = cur[w]
    BY <1>1, <1>3, NextStageValues
  <2>2. \A t \in Stage : Completed(t)'
    BY <1>2, <1>3 DEF Stage
  <2>3. \A t \in 1 .. cur'[w] - 1 : Completed(t)'
    BY <1>1, <2>1, <2>2 DEF Stage
  <2> QED BY <2>1, <2>2, <2>3 DEF InSync, Looping, Attempting, InStage
<1>4. CASE cur[w] # NStages
  <2>1. pc'[w] = "select" /\ cur'[w] = cur[w] + 1
    BY <1>1, <1>4, NextStageValues
  <2>2. \A t \in 1 .. cur'[w] - 1 : Completed(t)'
    BY <1>1, <1>2, <2>1 DEF Stage
  <2> QED BY <2>1, <2>2 DEF InSync, Looping, Attempting, InStage
<1> QED BY <1>3, <1>4

\* A stage without a completion and without attempts left is spent.
LEMMA ExhaustedIsSpent ==
    ASSUME LeaseTypeOK, AttemptsNumbered, NEW s \in Stage, ~Completed(s),
           Attempts(s) >= MaxAttempts
    PROVE  Spent(s)
<1>1. Attempts(s) = MaxAttempts /\ Attempts(s) # 0
  BY LeaseAssumption, AttemptsCount DEF AttemptsNumbered
<1>2. AttemptState(s) # "done"
  BY CompletedIsDone
<1> QED BY <1>1, <1>2, StateByClosing DEF Spent

\* What a worker read of the table it knows for as long as it is current.
LEMMA QuietStepsInSync ==
    ASSUME TableInv, NEW w \in Worker,
           SeekClaimed(w) \/ CheckResult(w) \/ SkipCompleted(w) \/ SelectAttempt(w)
               \/ Exhausted(w) \/ DelegateReturns(w) \/ DelegateFails(w) \/ Abort(w)
    PROVE  GrantsBelow' /\ Synced' /\ log' = log
<1>1. /\ UNCHANGED leaseVars
      /\ pc[w] \in Running
      /\ \E p : pc' = [pc EXCEPT ![w] = p]
      /\ \E c : cur' = [cur EXCEPT ![w] = c]
      /\ \E t : tries' = [tries EXCEPT ![w] = t]
      /\ \E b : blocking' = [blocking EXCEPT ![w] = b]
  <2> USE DEF Goto
  <2>1. /\ cur = [cur EXCEPT ![w] = cur[w]] /\ tries = [tries EXCEPT ![w] = tries[w]]
        /\ blocking = [blocking EXCEPT ![w] = blocking[w]]
    BY DEF TableInv, PhaseInv, TypeOK
  <2>2. CASE SeekClaimed(w)
    BY <2>1, <2>2 DEF SeekClaimed, Running, Claiming
  <2>3. CASE CheckResult(w)
    BY <2>1, <2>3 DEF CheckResult, Running, Claiming
  <2>4. CASE SkipCompleted(w)
    BY <2>1, <2>4 DEF SkipCompleted, Running, Looping
  <2>5. CASE SelectAttempt(w)
    BY <2>1, <2>5 DEF SelectAttempt, Running, Looping
  <2>6. CASE Exhausted(w)
    BY <2>1, <2>6 DEF Exhausted, Running, Looping
  <2>7. CASE DelegateReturns(w)
    BY <2>1, <2>7 DEF DelegateReturns, LeaveRunner, Running, Looping
  <2>8. CASE DelegateFails(w)
    BY <2>1, <2>8 DEF DelegateFails, LeaveRunner, Running, Looping
  <2>9. CASE Abort(w)
    BY <2>1, <2>9 DEF Abort, Running, Claiming, Looping, PC, TableInv, PhaseInv, TypeOK
  <2> QED BY <2>2, <2>3, <2>4, <2>5, <2>6, <2>7, <2>8, <2>9
<1>2. log' = log /\ opLease' = opLease /\ opGrant' = opGrant /\ stGrant' = stGrant
  BY <1>1 DEF leaseVars, durable, memory
<1>3. OnlyMoves(w)
  BY <1>1, <1>2 DEF OnlyMoves, TableInv, PhaseInv, TypeOK
<1>4. GrantsBelow'
  BY <1>1, <1>2, <1>3, GrantsKept DEF OnlyMoves, TableInv
<1>5. Current(w)' => InSync(w)'
  <2> SUFFICES ASSUME Current(w) PROVE InSync(w)'
    BY <1>2 DEF Current
  <2>1. InSync(w)
    BY DEF TableInv, Synced
  <2>2. PhaseInv /\ LeaseTypeOK /\ AttemptsNumbered
    BY DEF TableInv, PhaseInv, TypeOK
  <2>3. /\ pc \in [Worker -> PC] /\ cur \in [Worker -> 0 .. NStages]
        /\ tries \in [Worker -> 0 .. MaxAttempts] /\ blocking \in [Worker -> 0 .. NStages + 1]
        /\ pc[w] \in Looping => cur[w] \in Stage
    BY DEF TableInv, PhaseInv, TypeOK
  <2> USE DEF Goto, Looping, Claiming, Attempting, InStage
  <2>4. CASE SeekClaimed(w)
    <3>1. pc'[w] = IF Exists({"operation_claimed"}) THEN "check" ELSE "announce"
      BY <2>3, <2>4 DEF SeekClaimed
    <3>2. ~Exists({"operation_claimed"}) => ~Exists(Terminal)
      BY DEF TableInv, EndIsAnnounced
    <3> QED BY <1>2, <3>1, <3>2, TableKept DEF InSync
  <2>5. CASE CheckResult(w)
    <3>1. \/ pc'[w] = "release"
          \/ pc'[w] = "select" /\ cur'[w] = 1 /\ ~Exists(Terminal)
      BY <2>3, <2>5 DEF CheckResult
    <3>2. Exists({"operation_claimed"})
      BY <2>1, <2>5 DEF CheckResult, InSync
    <3> QED BY <1>2, <3>1, <3>2, TableKept DEF InSync
  <2>6. CASE SkipCompleted(w)
    <3>1. pc'[w] = AfterStage(w) /\ cur'[w] = NextStage(w) /\ Completed(cur[w])
          /\ pc[w] \in Looping
      BY <2>3, <2>6 DEF SkipCompleted
    <3>2. Exists({"operation_claimed"})' /\ ~Exists(Terminal)'
          /\ \A s \in Stage : Completed(s) => Completed(s)'
      BY <1>2, <2>1, <3>1, TableKept DEF InSync
    <3> QED BY <2>1, <2>2, <3>1, <3>2, StageBehind
  <2>7. CASE SelectAttempt(w)
    <3>1. /\ pc[w] = "select" /\ pc'[w] = "start" /\ cur'[w] = cur[w] /\ ~Completed(cur[w])
          /\ tries'[w] = Attempts(cur[w]) + 1
      BY <2>3, <2>7 DEF SelectAttempt
    <3>2. Attempts(cur[w]) \in Nat
      BY <2>2, <2>3, <3>1, AttemptsCount
    <3> QED BY <1>2, <2>1, <3>1, <3>2, TableKept DEF InSync
  <2>8. CASE Exhausted(w)
    <3>1. /\ pc[w] = "select" /\ pc'[w] = BlockFrom(cur[w] + 1) /\ cur'[w] = cur[w]
          /\ blocking'[w] = cur[w] + 1
      BY <2>3, <2>8 DEF Exhausted
    <3>2. cur[w] \in Stage /\ Spent(cur[w])
      BY <2>2, <2>3, <2>8, <3>1, ExhaustedIsSpent DEF Exhausted
    <3>3. \/ pc'[w] = "block"
          \/ pc'[w] = "failOp" /\ blocking'[w] = NStages + 1
      BY <3>1, <3>2, LeaseAssumption DEF BlockFrom, Stage
    <3>4. \A s \in cur'[w] + 1 .. blocking'[w] - 1 : FALSE
      BY <3>1, <3>2, LeaseAssumption DEF Stage
    <3>5. blocking'[w] > cur'[w]
      BY <3>1, <3>2 DEF Stage
    <3>6. Spent(cur[w])'
      BY <1>2, <3>1, <3>2, TableKept
    <3>7. (\A t \in 1 .. cur[w] - 1 : Completed(t))' /\ Exists({"operation_claimed"})'
            /\ ~Exists(Terminal)'
      BY <1>2, <2>1, <3>1, TableKept DEF InSync
    <3> QED BY <3>3, <3>4, <3>5, <3>6, <3>7 DEF InSync
  <2>9. CASE DelegateReturns(w) \/ DelegateFails(w)
    <3>1. /\ pc[w] = "run" /\ pc'[w] \in {"fail", "reconciled"} /\ cur'[w] = cur[w]
          /\ tries'[w] = tries[w]
      BY <2>3, <2>9 DEF DelegateReturns, DelegateFails, LeaveRunner
    <3>2. \A i \in DOMAIN log : Open(w, i) => Open(w, i)'
      BY <1>2, <3>1 DEF Open
    <3> QED BY <1>2, <2>1, <3>1, <3>2, TableKept DEF InSync
  <2>10. CASE Abort(w)
    <3>1. pc'[w] = "release"
      BY <2>3, <2>10 DEF Abort
    <3> QED BY <3>1 DEF InSync
  <2> QED BY <2>4, <2>5, <2>6, <2>7, <2>8, <2>9, <2>10
<1> QED BY <1>2, <1>3, <1>4, <1>5, OthersInSync

-----------------------------------------------------------------------------
(* Steps that enter or leave run().                                        *)

\* A worker that leaves run() disturbs nobody.
LEMMA LeavingRun ==
    ASSUME TableInv, NEW w \in Worker, log' = log, OnlyMoves(w), pc'[w] \notin Running,
           opLease'.token = opLease.token, opLease'.owner = opLease.owner
    PROVE  GrantsBelow' /\ Synced'
<1>1. GrantsBelow'
  BY GrantsKept DEF OnlyMoves, TableInv
<1>2. InSync(w)'
  BY DEF InSync, Running, Claiming, Looping, Attempting, InStage
<1> QED BY <1>1, <1>2, OthersInSync

\* A claim that moves the row to a new epoch makes everybody else outdated;
\* one that does not was made by the owner.
LEMMA ClaimInSync ==
    ASSUME TableInv, NEW w \in Worker, Poll(w)
    PROVE  GrantsBelow' /\ Synced' /\ log' = log
<1>1. PICK k \in Key : Claim(w, k)
  BY DEF Poll
<1>2. /\ opLease \in Lease /\ now \in Nat
      /\ opGrant \in [Worker -> Nat] /\ pc \in [Worker -> PC]
  BY DEF TableInv, PhaseInv, TypeOK, LeaseTypeOK
<1>3. /\ log' = log /\ opLease' = Acquired(opLease, w) /\ CanAcquire(opLease, w)
      /\ opGrant' = [opGrant EXCEPT ![w] = opLease'.token] /\ stGrant' = stGrant
  BY <1>1 DEF Claim
<1>4. /\ opLease'.owner = w /\ opLease'.token \in Nat /\ opLease.token \in Nat
      /\ opLease.token <= opLease'.token
      /\ opLease'.token = opLease.token => opLease.owner = w
  BY <1>2, <1>3, LeaseValues DEF Lease
<1>5. pc' = [pc EXCEPT ![w] = "claimed"] /\ OnlyMoves(w)
  BY <1>2, <1>3 DEF Poll, Goto, OnlyMoves
<1>6. ASSUME NEW v \in Worker, v # w, pc[v] \in Running
      PROVE  opGrant'[v] <= opLease'.token /\ opGrant'[v] # opLease'.token
  <2>1. opGrant[v] <= opLease.token /\ (opGrant[v] = opLease.token => opLease.owner = v)
    BY <1>6 DEF TableInv, GrantsBelow, Running
  <2> QED BY <1>2, <1>3, <1>4, <1>6, <2>1
<1>7. GrantsBelow'
  <2> SUFFICES ASSUME NEW v \in Worker, pc'[v] \in Running
               PROVE  opGrant'[v] <= opLease'.token
                      /\ (opGrant'[v] = opLease'.token => opLease'.owner = v)
    BY DEF GrantsBelow, Running
  <2>1. CASE v = w
    BY <1>2, <1>3, <1>4, <2>1
  <2> QED BY <1>5, <1>6, <2>1 DEF OnlyMoves
<1>8. Synced'
  <2> SUFFICES ASSUME NEW v \in Worker, Current(v)' PROVE InSync(v)'
    BY DEF Synced
  <2>1. CASE v = w
    <3>1. pc'[v] = "claimed"
      BY <1>2, <1>5, <2>1
    <3> QED BY <3>1 DEF InSync, Looping, Attempting, InStage
  <2>2. CASE v # w
    <3>1. pc'[v] \notin Running
      BY <1>5, <1>6, <2>2 DEF OnlyMoves, Current
    <3> QED BY <3>1 DEF InSync, Running, Claiming, Looping, Attempting, InStage
  <2> QED BY <2>1, <2>2
<1> QED BY <1>3, <1>7, <1>8

\* A refused key, a process that leaves run() and one that dies.
LEMMA LeaversInSync ==
    ASSUME TableInv, NEW w \in Worker, PollRefused(w) \/ Release(w) \/ Crash(w)
    PROVE  GrantsBelow' /\ Synced' /\ log' = log
<1>1. TypeOK
  BY DEF TableInv, PhaseInv
<1>2. /\ log' = log
      /\ opLease'.token = opLease.token /\ opLease'.owner = opLease.owner
  <2>1. CASE Release(w)
    BY <1>1, <2>1 DEF Release, ReleaseAll, ReleaseIfOwn, Released, TypeOK, LeaseTypeOK, Lease
  <2>2. CASE PollRefused(w) \/ Crash(w)
    BY <2>2 DEF PollRefused, ClaimConflict, Crash, LoseMemory, durable
  <2> QED BY <2>1, <2>2
<1>3. pc'[w] \notin Running
  BY <1>1 DEF PollRefused, Release, Crash, Goto, Running, Claiming, Looping, TypeOK
<1>4. OnlyMoves(w)
  <2>1. CASE PollRefused(w)
    BY <1>1, <2>1 DEF PollRefused, ClaimConflict, Goto, OnlyMoves, TypeOK, LeaseTypeOK
  <2>2. CASE Release(w)
    BY <1>1, <2>2 DEF Release, ReleaseAll, ForgetRun, Goto, OnlyMoves, TypeOK, LeaseTypeOK
  <2>3. CASE Crash(w)
    BY <1>1, <2>3 DEF Crash, LoseMemory, ForgetRun, Goto, OnlyMoves, TypeOK, LeaseTypeOK
  <2> QED BY <2>1, <2>2, <2>3
<1> QED BY <1>2, <1>3, <1>4, LeavingRun

\* Time, a denied claim and waiting change nothing a worker relies on.
LEMMA IdleInSync ==
    ASSUME TableInv,
           Clock \/ (\E w \in Worker : PollDenied(w) \/ Sleep(w)) \/ UNCHANGED vars
    PROVE  GrantsBelow' /\ Synced' /\ log' = log
<1>1. /\ log' = log /\ opLease' = opLease /\ opGrant' = opGrant /\ stGrant' = stGrant
      /\ pc' = pc /\ cur' = cur /\ tries' = tries /\ blocking' = blocking
  BY DEF Clock, Tick, PollDenied, ClaimDenied, Sleep, vars, leaseVars, durable, memory, runVars
<1>2. GrantsBelow'
  BY <1>1 DEF TableInv, GrantsBelow
<1>3. ASSUME NEW v \in Worker, Current(v)' PROVE InSync(v)'
  <2>1. InSync(v)
    BY <1>1, <1>3 DEF TableInv, Synced, Current
  <2> QED BY <1>1, <2>1, StillInSync
<1> QED BY <1>1, <1>2, <1>3 DEF Synced

-----------------------------------------------------------------------------
(* Steps that call append().                                               *)

\* The locals of the others while a worker calls.
Undisturbed(w) ==
    \A v \in Worker \ {w} : /\ pc'[v] = pc[v] /\ cur'[v] = cur[v] /\ tries'[v] = tries[v]
                            /\ blocking'[v] = blocking[v]

\* What a call does to the grants and to the row of the operation.
LEMMA CallTouches ==
    ASSUME LeaseTypeOK, NEW w \in Worker, NEW e \in Event, Returns(w, e) \/ PublishRejected(w, e)
    PROVE  /\ opLease'.token = opLease.token /\ opLease'.owner = opLease.owner
           /\ \A v \in Worker \ {w} : opGrant'[v] = opGrant[v] /\ stGrant'[v] = stGrant[v]
           /\ PublishRejected(w, e) \/ e.kind \notin Terminal \/ PublishAgain(w, e)
                 => opGrant' = opGrant
           /\ PublishRejected(w, e) /\ e.kind # "stage_started" => stGrant' = stGrant
<1>1. \A l, v, g : StageLeaseBecomes(v, e, l, g) =>
        \A u \in Worker \ {v} : stGrant'[u] = stGrant[u]
  BY DEF StageLeaseBecomes, LeaseTypeOK
<1>2. CASE Publish(w, e)
  <2>1. opLease'.token = opLease.token /\ opLease'.owner = opLease.owner
    BY <1>2 DEF Publish, Released, Renewed, LeaseTypeOK, Lease
  <2>2. \A v \in Worker \ {w} : opGrant'[v] = opGrant[v]
    BY <1>2 DEF Publish, LeaseTypeOK
  <2>3. \A v \in Worker \ {w} : stGrant'[v] = stGrant[v]
    BY <1>1, <1>2 DEF Publish
  <2>4. e.kind \notin Terminal => opGrant' = opGrant
    BY <1>2 DEF Publish
  <2>5. PublishAgain(w, e) => opGrant' = opGrant
    BY DEF PublishAgain
  <2>6. PublishRejected(w, e) => opGrant' = opGrant /\ (e.kind # "stage_started" => stGrant' = stGrant)
    BY DEF PublishRejected
  <2> QED BY <2>1, <2>2, <2>3, <2>4, <2>5, <2>6
<1>3. CASE PublishAgain(w, e)
  <2>1. opLease'.token = opLease.token /\ opLease'.owner = opLease.owner
    BY <1>3 DEF PublishAgain, Renewed, LeaseTypeOK, Lease
  <2>2. \A v \in Worker \ {w} : stGrant'[v] = stGrant[v]
    BY <1>1, <1>3 DEF PublishAgain
  <2>3. opGrant' = opGrant
    BY <1>3 DEF PublishAgain
  <2>4. PublishRejected(w, e) => (e.kind # "stage_started" => stGrant' = stGrant)
    BY DEF PublishRejected
  <2> QED BY <2>1, <2>2, <2>3, <2>4
<1>4. CASE PublishRejected(w, e)
  <2>1. opLease' = opLease /\ opGrant' = opGrant
    BY <1>4 DEF PublishRejected, durable
  <2>2. \A v \in Worker \ {w} : stGrant'[v] = stGrant[v]
    BY <1>4 DEF PublishRejected, LeaseTypeOK
  <2>3. e.kind # "stage_started" => stGrant' = stGrant
    BY <1>4 DEF PublishRejected
  <2> QED BY <2>1, <2>2, <2>3
<1> QED BY <1>2, <1>3, <1>4 DEF Returns

\* A call that returns keeps the workers in step if it keeps the caller in
\* step: all others are outdated.
LEMMA ReturnInSync ==
    ASSUME TableInv, NEW w \in Worker, NEW e \in Event, Returns(w, e), Undisturbed(w),
           pc[w] \in Running, e.kind \notin Terminal \/ pc'[w] \notin Running, InSync(w)'
    PROVE  GrantsBelow' /\ Synced'
<1>1. LeaseTypeOK /\ PhaseInv /\ GrantsBelow
  BY DEF TableInv, PhaseInv, TypeOK
<1>2. OperationFence(w)
  BY DEF Returns, Publish, PublishAgain
<1>3. /\ opLease'.token = opLease.token /\ opLease'.owner = opLease.owner
      /\ \A v \in Worker \ {w} : opGrant'[v] = opGrant[v]
      /\ pc'[w] \in Running => opGrant' = opGrant
  BY <1>1, CallTouches DEF Returns
<1>4. GrantsBelow'
  BY <1>1, <1>3, GrantsKept DEF Undisturbed
<1>5. ASSUME NEW v \in Worker, v # w, Current(v)' PROVE InSync(v)'
  <2>1. pc[v] \notin Running
    BY <1>1, <1>2, <1>3, <1>5, OneCurrent DEF Current
  <2>2. pc'[v] \notin Running
    BY <1>5, <2>1 DEF Undisturbed
  <2> QED BY <2>2 DEF InSync, Running, Claiming, Looping, Attempting, InStage
<1> QED BY <1>4, <1>5 DEF Synced

\* A call that raises leaves run(), or is a renewal.
LEMMA RejectedInSync ==
    ASSUME TableInv, NEW w \in Worker, NEW e \in Event, PublishRejected(w, e), Undisturbed(w),
           \/ pc'[w] = "release"
           \/ /\ e.kind # "stage_started" /\ pc'[w] = pc[w] /\ cur'[w] = cur[w]
              /\ tries'[w] = tries[w] /\ blocking'[w] = blocking[w]
    PROVE  GrantsBelow' /\ Synced' /\ log' = log
<1>1. LeaseTypeOK /\ GrantsBelow
  BY DEF TableInv, PhaseInv, TypeOK
<1>2. log' = log
  BY DEF PublishRejected, durable
<1>3. OnlyMoves(w) /\ opLease'.token = opLease.token /\ opLease'.owner = opLease.owner
        /\ opGrant' = opGrant /\ (e.kind # "stage_started" => stGrant' = stGrant)
  BY <1>1, CallTouches DEF Undisturbed, OnlyMoves
<1>4. CASE pc'[w] = "release"
  <2>1. pc'[w] \notin Running
    BY <1>4 DEF Running, Claiming, Looping
  <2> QED BY <1>2, <1>3, <2>1, LeavingRun
<1>5. CASE pc'[w] # "release"
  <2>1. GrantsBelow'
    BY <1>1, <1>3, <1>5, GrantsKept DEF OnlyMoves
  <2>2. Current(w)' => InSync(w)'
    <3> SUFFICES ASSUME Current(w)' PROVE InSync(w)'
      OBVIOUS
    <3>1. InSync(w)
      BY <1>3 DEF TableInv, Synced, Current
    <3> QED BY <1>2, <1>3, <1>5, <3>1, StillInSync
  <2> QED BY <1>2, <1>3, <2>1, <2>2, OthersInSync
<1> QED BY <1>4, <1>5

-----------------------------------------------------------------------------
(* What the caller knows of the event it publishes.                        *)

\* The event that started the attempt which e closes.
StartedBy(w, e, j) ==
    /\ log[j].kind = "stage_started" /\ log[j].stage = e.stage /\ log[j].attempt = e.attempt
    /\ log[j].worker = w /\ log[j].opToken = opLease.token
    /\ log[j].stToken = stLease[e.stage].token
    /\ \A m \in DOMAIN log : m > j /\ log[m].kind \in Lifecycle => log[m].stage # e.stage

\* The table allows e to be added by w.
Justified(w, e) ==
    /\ ~Exists(Terminal)
    /\ e.kind \in Terminal => Exists({"operation_claimed"})
    /\ e.kind \in Lifecycle => /\ ~Completed(e.stage)
                              /\ \A t \in 1 .. e.stage - 1 : Completed(t)
    /\ e.kind = "stage_started" => e.attempt = Attempts(e.stage) + 1
    /\ e.kind \in Closing => /\ e.attempt = Attempts(e.stage)
                            /\ \E j \in DOMAIN log : StartedBy(w, e, j)
    /\ e.kind = "operation_completed" => \A s \in Stage : Completed(s)
    /\ e.kind = "operation_failed" =>
        \E f \in Stage : /\ Spent(f) /\ \A s \in 1 .. f - 1 : Completed(s)
                        /\ \A s \in f + 1 .. NStages : IsBlocked(s)

\* A call that returned left the table alone or added a justified event.
AddsJustified(w) == log' = log \/ \E e \in Event : Publish(w, e) /\ Justified(w, e)

\* What the fence gives the caller.
LEMMA CallerKnows ==
    ASSUME TableInv, NEW w \in Worker, NEW e \in Event, Returns(w, e), pc[w] \in Running
    PROVE  /\ InSync(w) /\ opGrant[w] = opLease.token
           /\ e.kind \in Fenced => stGrant[w][e.stage] = stLease[e.stage].token
           /\ PublishAgain(w, e) \/ Publish(w, e)
<1>1. OperationFence(w) /\ StageFence(w, e)
  BY DEF Returns, Publish, PublishAgain
<1>2. Current(w) /\ opGrant[w] = opLease.token
  BY <1>1, OneCurrent DEF TableInv, Current
<1>3. InSync(w)
  BY <1>2 DEF TableInv, Synced
<1>4. e.kind \in Fenced => stGrant[w][e.stage] = stLease[e.stage].token
  BY <1>1 DEF StageFence, Holds
<1> QED BY <1>2, <1>3, <1>4 DEF Returns

\* The OPERATION_CLAIMED event.
LEMMA AnnounceInSync ==
    ASSUME TableInv, NEW w \in Worker, Announce(w)
    PROVE  GrantsBelow' /\ Synced' /\ AddsJustified(w)
<1> DEFINE e == OpEvent("operation_claimed")
<1>1. /\ e \in Event /\ e.kind = "operation_claimed" /\ pc[w] = "announce"
      /\ pc[w] \in Running
  BY OperationEvents DEF OpEvent, Announce, Running, Claiming
<1>2. pc \in [Worker -> PC] /\ LeaseTypeOK
  BY DEF TableInv, PhaseInv, TypeOK
<1>3. Undisturbed(w)
  BY <1>2 DEF Announce, Call, Goto, Undisturbed
<1>4. CASE PublishRejected(w, e) /\ pc'[w] = "release"
  BY <1>1, <1>3, <1>4, RejectedInSync DEF AddsJustified
<1>5. CASE Returns(w, e) /\ pc'[w] = "check"
  <2>1. InSync(w) /\ (PublishAgain(w, e) \/ Publish(w, e))
    BY <1>1, <1>5, CallerKnows
  <2>2. Exists({"operation_claimed"})' /\ AddsJustified(w)
    <3>1. CASE Publish(w, e)
      <4>1. Exists({"operation_claimed"})'
        BY <1>1, <1>2, <3>1, KindsAdded
      <4>2. Justified(w, e)
        BY <1>1, <2>1 DEF Justified, InSync, Lifecycle, Closing, Terminal
      <4> QED BY <1>1, <3>1, <4>1, <4>2 DEF AddsJustified
    <3>2. CASE PublishAgain(w, e)
      <4>1. Exists({"operation_claimed"}) /\ log' = log
        BY <1>1, <3>2 DEF PublishAgain, Known, SameIdentifier, Exists
      <4> QED BY <4>1, TableKept DEF AddsJustified
    <3> QED BY <2>1, <3>1, <3>2
  <2>3. InSync(w)'
    BY <1>5, <2>2 DEF InSync, Looping, Attempting, InStage
  <2>4. e.kind \notin Terminal
    BY <1>1 DEF Terminal
  <2> QED BY <1>1, <1>3, <1>5, <2>2, <2>3, <2>4, ReturnInSync
<1> QED BY <1>2, <1>4, <1>5 DEF Announce, Call, Goto

\* The facts a caller in the stage loop starts from.
LEMMA LoopCaller ==
    ASSUME TableInv, NEW w \in Worker, pc[w] \in Looping
    PROVE  /\ pc[w] \in Running /\ LeaseTypeOK /\ AttemptsNumbered /\ PhaseInv
           /\ pc \in [Worker -> PC] /\ cur \in [Worker -> 0 .. NStages]
           /\ tries \in [Worker -> 0 .. MaxAttempts]
           /\ blocking \in [Worker -> 0 .. NStages + 1]
           /\ cur[w] \in Stage /\ Attempts(cur[w]) \in Nat
           /\ pc[w] \in Attempting => tries[w] \in Attempt
           /\ pc[w] = "block" => blocking[w] \in Stage
BY AttemptsCount DEF TableInv, PhaseInv, TypeOK, Running

\* Starting an attempt.
LEMMA StartInSync ==
    ASSUME TableInv, NEW w \in Worker, StartStage(w)
    PROVE  GrantsBelow' /\ Synced' /\ AddsJustified(w)
<1> DEFINE e == StageEvent(w, "stage_started", "")
<1>1. pc[w] = "start" /\ pc[w] \in Looping /\ pc[w] \in Attempting
  BY DEF StartStage, Looping, Attempting
<1>2. /\ pc[w] \in Running /\ LeaseTypeOK /\ AttemptsNumbered /\ pc \in [Worker -> PC]
      /\ cur[w] \in Stage /\ Attempts(cur[w]) \in Nat /\ tries[w] \in Attempt
  BY <1>1, LoopCaller
<1>3. /\ e \in Event /\ e.kind = "stage_started" /\ e.stage = cur[w] /\ e.attempt = tries[w]
  BY <1>2, StageEvents DEF StageEvent
<1> HIDE DEF e
<1>4. /\ UNCHANGED <<cur, tries, failure, blocking, beats, beatDue>>
      /\ Undisturbed(w)
      /\ \/ Returns(w, e) /\ pc'[w] = "active"
         \/ PublishRejected(w, e) /\ pc'[w] = "release"
  BY <1>2 DEF StartStage, Call, Goto, Undisturbed, e
<1>5. CASE PublishRejected(w, e) /\ pc'[w] = "release"
  BY <1>3, <1>4, <1>5, RejectedInSync DEF AddsJustified
<1>6. CASE Returns(w, e) /\ pc'[w] = "active"
  <2>1. InSync(w) /\ (PublishAgain(w, e) \/ Publish(w, e)) /\ opGrant[w] = opLease.token
    BY <1>2, <1>3, <1>6, CallerKnows
  <2>2. Attempts(cur[w]) = tries[w] - 1 /\ tries[w] \in Nat
    BY <1>1, <1>2, <2>1 DEF InSync, Attempt
  <2>3. ~PublishAgain(w, e)
    <3>1. ASSUME NEW i \in DOMAIN log, log[i].kind = "stage_started", log[i].stage = cur[w],
                 log[i].attempt = tries[w]
          PROVE  FALSE
      BY <1>2, <2>2, <3>1 DEF AttemptsNumbered, Lifecycle
    <3> QED BY <1>3, <3>1 DEF PublishAgain, Known, SameIdentifier
  <2>4. Publish(w, e)
    BY <2>1, <2>3
  <2>5. Justified(w, e)
    BY <1>1, <1>2, <1>3, <2>1, <2>2 DEF Justified, InSync, Looping, Attempting, Terminal, Closing
  <2>6. Exists({"operation_claimed"})' /\ ~Exists(Terminal)'
    BY <1>1, <1>2, <1>3, <2>1, <2>4, KindsAdded DEF InSync, Looping, Terminal
  <2>7. \A s \in Stage : Completed(s)' <=> Completed(s)
    BY <1>2, <1>3, <2>4, KindsAdded
  <2>8. (\A t \in 1 .. cur[w] - 1 : Completed(t))'
    <3>1. \A t \in 1 .. cur[w] - 1 : t \in Stage /\ Completed(t)
      BY <1>1, <1>2, <2>1, LeaseAssumption DEF InSync, Stage
    <3> QED BY <1>4, <2>7, <3>1
  <2>9. \A c : c = cur[w] => ~Completed(c)' /\ Attempts(c)' = tries[w]
    BY <1>1, <1>2, <1>3, <2>1, <2>2, <2>4, <2>7, AttemptsAdded DEF InSync
  <2>10. ASSUME NEW n, n = Len(log) + 1
         PROVE  n \in DOMAIN log' /\ Open(w, n)'
    <3>1. /\ Len(log) \in Nat /\ DOMAIN log' = 1 .. Len(log) + 1
          /\ log'[n].kind = "stage_started"
          /\ log'[n].stage = cur[w] /\ log'[n].attempt = tries[w]
          /\ log'[n].worker = w /\ log'[n].opToken = opLease.token
          /\ log'[n].stToken = StageLeaseOf(w, e).token
      BY <1>2, <1>3, <2>4, <2>10, RowAdded
    <3>2. opGrant' = opGrant /\ stGrant'[w][cur[w]] = StageLeaseOf(w, e).token
      BY <1>2, <1>3, <2>4 DEF Publish, StageLeaseBecomes, Staged, Closing, Terminal, LeaseTypeOK
    <3>3. \A m \in DOMAIN log' : ~(m > n)
      BY <2>10, <3>1
    <3> QED BY <1>4, <2>1, <2>10, <3>1, <3>2, <3>3 DEF Open
  <2>11. \E i \in DOMAIN log' : Open(w, i)'
    BY <2>10
  <2>12. InSync(w)'
    BY <1>4, <1>6, <2>6, <2>8, <2>9, <2>11 DEF InSync, InStage
  <2>13. e.kind \notin Terminal
    BY <1>3 DEF Terminal
  <2> QED BY <1>2, <1>3, <1>4, <1>6, <2>4, <2>5, <2>12, <2>13, ReturnInSync DEF AddsJustified
<1> QED BY <1>4, <1>5, <1>6

\* A heartbeat changes nothing its sender relies on, first or repeated.
LEMMA HeartbeatKeepsSync ==
    ASSUME TableInv, NEW w \in Worker, NEW e \in Event, Returns(w, e),
           e.kind = "stage_heartbeat", e.stage = cur[w], pc[w] \in InStage, pc'[w] \in InStage,
           cur'[w] = cur[w], tries'[w] = tries[w], Undisturbed(w)
    PROVE  GrantsBelow' /\ Synced' /\ AddsJustified(w)
<1>1. pc[w] \in Looping /\ pc[w] \in Attempting /\ pc'[w] \notin {"block", "failOp", "start", "completeOp"}
  BY DEF InStage, Looping, Attempting
<1>2. /\ pc[w] \in Running /\ LeaseTypeOK /\ AttemptsNumbered
      /\ cur[w] \in Stage /\ Attempts(cur[w]) \in Nat
  BY <1>1, LoopCaller
<1>3. /\ InSync(w) /\ (PublishAgain(w, e) \/ Publish(w, e))
      /\ stGrant[w][cur[w]] = stLease[cur[w]].token
  BY <1>2, CallerKnows DEF Fenced
<1>4. opGrant' = opGrant /\ stGrant'[w][cur[w]] = stGrant[w][cur[w]]
  <2>1. opGrant' = opGrant
    BY <1>3 DEF Publish, PublishAgain, Terminal
  <2>2. StageLeaseOf(w, e).token = stLease[cur[w]].token
    BY <1>2 DEF StageLeaseOf, Renewed, Closing, LeaseTypeOK, Lease
  <2>3. stGrant' = [stGrant EXCEPT ![w][cur[w]] = StageLeaseOf(w, e).token]
    BY <1>3 DEF Publish, PublishAgain, StageLeaseBecomes, Staged, Fenced, Closing
  <2> QED BY <1>2, <1>3, <2>1, <2>2, <2>3 DEF LeaseTypeOK
<1>5. /\ Exists({"operation_claimed"}) /\ ~Exists(Terminal) /\ ~Completed(cur[w])
      /\ \A t \in 1 .. cur[w] - 1 : t \in Stage /\ Completed(t)
      /\ Attempts(cur[w]) = tries[w] /\ \E i \in DOMAIN log : Open(w, i)
  BY <1>1, <1>2, <1>3, LeaseAssumption DEF InSync, Stage
<1>6. /\ Exists({"operation_claimed"})' /\ ~Exists(Terminal)'
      /\ \A t \in Stage : (Completed(t)' <=> Completed(t)) /\ Attempts(t)' = Attempts(t)
      /\ \A i \in DOMAIN log : i \in DOMAIN log' /\ (Open(w, i) => Open(w, i)')
      /\ AddsJustified(w)
  <2>1. CASE Publish(w, e)
    <3>1. Exists({"operation_claimed"})' /\ ~Exists(Terminal)'
      BY <1>2, <1>5, <2>1, KindsAdded DEF Terminal
    <3>2. \A t \in Stage : (Completed(t)' <=> Completed(t)) /\ Attempts(t)' = Attempts(t)
      BY <1>2, <2>1, KindsAdded, AttemptsAdded
    <3>3. ASSUME NEW i \in DOMAIN log
          PROVE  i \in DOMAIN log' /\ (Open(w, i) => Open(w, i)')
      <4> DEFINE n == Len(log) + 1
      <4>1. /\ \A m \in DOMAIN log : m \in DOMAIN log' /\ log'[m] = log[m]
            /\ \A m \in DOMAIN log' : m \in DOMAIN log \/ m = n
            /\ log'[n].kind = "stage_heartbeat"
        BY <1>2, <2>1, RowAdded
      <4> HIDE DEF n
      <4> QED BY <1>4, <4>1 DEF Open, Lifecycle, Closing
    <3>4. Justified(w, e)
      BY <1>5 DEF Justified, Terminal, Lifecycle, Closing
    <3> QED BY <2>1, <3>1, <3>2, <3>3, <3>4 DEF AddsJustified
  <2>2. CASE PublishAgain(w, e)
    <3>1. log' = log
      BY <2>2 DEF PublishAgain
    <3> QED BY <1>4, <1>5, <3>1, TableKept DEF Open, AddsJustified
  <2> QED BY <1>3, <2>1, <2>2
<1>7. InSync(w)'
  <2>1. (\A t \in 1 .. cur[w] - 1 : Completed(t))'
    BY <1>5, <1>6
  <2>2. \A c : c = cur[w] => ~Completed(c)' /\ Attempts(c)' = tries[w]
    BY <1>2, <1>5, <1>6
  <2>3. \E i \in DOMAIN log' : Open(w, i)'
    BY <1>5, <1>6
  <2> QED BY <1>1, <1>6, <2>1, <2>2, <2>3 DEF InSync, InStage
<1>8. e.kind \notin Terminal
  BY DEF Terminal
<1> QED BY <1>2, <1>6, <1>7, <1>8, ReturnInSync

\* The three places that send one.
LEMMA BeatsInSync ==
    ASSUME TableInv, NEW w \in Worker, BeatActive(w) \/ RenewLeases(w) \/ BeatReconciled(w)
    PROVE  GrantsBelow' /\ Synced' /\ AddsJustified(w)
<1>1. /\ pc[w] \in InStage /\ pc[w] \in Looping /\ pc[w] \in Attempting
      /\ pc[w] \in {"active", "run", "reconciled"}
  BY DEF BeatActive, RenewLeases, BeatReconciled, InStage, Looping, Attempting
<1>2. /\ cur[w] \in Stage /\ tries[w] \in Attempt /\ pc \in [Worker -> PC]
  BY <1>1, LoopCaller
<1>3. \A b \in {"active", "renewed", "reconciled"} :
        LET e == StageEvent(w, "stage_heartbeat", b) IN
        e \in Event /\ e.kind = "stage_heartbeat" /\ e.stage = cur[w]
  BY <1>2, StageEvents DEF StageEvent
<1>4. \E b \in {"active", "renewed", "reconciled"} :
        LET e == StageEvent(w, "stage_heartbeat", b) IN
        \/ Returns(w, e) /\ pc'[w] \in InStage
        \/ PublishRejected(w, e) /\ pc'[w] \in {pc[w], "release"}
  BY <1>1, <1>2 DEF BeatActive, RenewLeases, BeatReconciled, Call, Goto, InStage
<1>5. Undisturbed(w) /\ cur' = cur /\ tries' = tries /\ blocking' = blocking
  BY <1>2 DEF BeatActive, RenewLeases, BeatReconciled, Call, Goto, Undisturbed
<1>6. PICK e \in Event :
        /\ e.kind = "stage_heartbeat" /\ e.stage = cur[w]
        /\ \/ Returns(w, e) /\ pc'[w] \in InStage
           \/ PublishRejected(w, e) /\ pc'[w] \in {pc[w], "release"}
  BY <1>3, <1>4
<1>7. CASE Returns(w, e) /\ pc'[w] \in InStage
  BY <1>1, <1>5, <1>6, <1>7, HeartbeatKeepsSync
<1>8. CASE PublishRejected(w, e) /\ pc'[w] \in {pc[w], "release"}
  BY <1>5, <1>6, <1>8, RejectedInSync DEF AddsJustified
<1> QED BY <1>6, <1>7, <1>8

\* The facts the caller of an attempt brings to its end.  Its result is new: what
\* was recorded of the stage before belongs to lower attempts.
LEMMA CloserKnows ==
    ASSUME TableInv, NEW w \in Worker, NEW e \in Event, Returns(w, e), e.kind \in Closing,
           e.stage = cur[w], e.attempt = tries[w], pc[w] \in InStage
    PROVE  /\ InSync(w) /\ Exists({"operation_claimed"}) /\ ~Exists(Terminal)
           /\ ~Completed(cur[w]) /\ Attempts(cur[w]) = tries[w]
           /\ \A t \in 1 .. cur[w] - 1 : t \in Stage /\ Completed(t)
           /\ Publish(w, e) /\ Justified(w, e)
<1>1. pc[w] \in Looping /\ pc[w] \in Attempting
  BY DEF InStage, Looping, Attempting
<1>2. pc[w] \in Running /\ cur[w] \in Stage /\ LeaseTypeOK /\ AttemptsNumbered
        /\ tries[w] \in Attempt
  BY <1>1, LoopCaller
<1>3. /\ InSync(w) /\ (PublishAgain(w, e) \/ Publish(w, e))
      /\ opGrant[w] = opLease.token /\ stGrant[w][cur[w]] = stLease[cur[w]].token
  BY <1>2, CallerKnows DEF Fenced, Closing
<1>4. /\ Exists({"operation_claimed"}) /\ ~Exists(Terminal) /\ ~Completed(cur[w])
      /\ \A t \in 1 .. cur[w] - 1 : t \in Stage /\ Completed(t)
      /\ Attempts(cur[w]) = tries[w] /\ \E i \in DOMAIN log : Open(w, i)
  BY <1>1, <1>2, <1>3, LeaseAssumption DEF InSync, Stage
<1>5. \E j \in DOMAIN log : StartedBy(w, e, j)
  BY <1>3, <1>4 DEF Open, StartedBy
<1>6. ~PublishAgain(w, e)
  <2> SUFFICES ASSUME NEW i \in DOMAIN log, log[i].kind = e.kind, log[i].stage = cur[w],
                      log[i].attempt = tries[w]
               PROVE  FALSE
    BY DEF PublishAgain, Known, SameIdentifier
  <2>1. PICK j \in DOMAIN log : Open(w, j)
    BY <1>4
  <2>2. i \in Int /\ j \in Int /\ ~(i > j) /\ i # j
    BY <1>2, <2>1 DEF LeaseTypeOK, Open, Lifecycle, Closing
  <2>3. log[i].attempt < log[j].attempt
    BY <1>2, <2>1, <2>2 DEF AttemptsNumbered, Open, Lifecycle
  <2> QED BY <1>2, <2>1, <2>3 DEF Open, Attempt
<1> QED BY <1>3, <1>4, <1>5, <1>6 DEF Justified, Closing, Terminal, Lifecycle

\* Completing a stage.
LEMMA CompleteInSync ==
    ASSUME TableInv, NEW w \in Worker, CompleteStage(w)
    PROVE  GrantsBelow' /\ Synced' /\ AddsJustified(w)
<1> DEFINE e == StageEvent(w, "stage_completed", "")
<1>1. pc[w] \in InStage /\ pc[w] \in Looping /\ pc[w] \in Attempting
  BY DEF CompleteStage, InStage, Looping, Attempting
<1>2. /\ pc[w] \in Running /\ LeaseTypeOK /\ PhaseInv /\ cur[w] \in Stage /\ tries[w] \in Attempt
      /\ pc \in [Worker -> PC] /\ cur \in [Worker -> 0 .. NStages]
  BY <1>1, LoopCaller
<1>3. /\ e \in Event /\ e.kind = "stage_completed" /\ e.stage = cur[w] /\ e.attempt = tries[w]
  BY <1>2, StageEvents DEF StageEvent
<1> HIDE DEF e
<1>4. /\ Undisturbed(w)
      /\ \/ Returns(w, e) /\ pc'[w] = AfterStage(w) /\ cur'[w] = NextStage(w)
         \/ PublishRejected(w, e) /\ pc'[w] = "release"
  BY <1>2 DEF CompleteStage, Call, Goto, Undisturbed, e
<1>5. CASE PublishRejected(w, e) /\ pc'[w] = "release"
  BY <1>3, <1>4, <1>5, RejectedInSync DEF AddsJustified
<1>6. CASE Returns(w, e) /\ pc'[w] = AfterStage(w) /\ cur'[w] = NextStage(w)
  <2>1. /\ InSync(w) /\ Exists({"operation_claimed"}) /\ ~Exists(Terminal) /\ ~Completed(cur[w])
        /\ Publish(w, e) /\ Justified(w, e)
    BY <1>1, <1>3, <1>6, CloserKnows DEF Closing
  <2>2. Publish(w, e)
    BY <2>1
  <2>3. /\ Exists({"operation_claimed"})' /\ ~Exists(Terminal)'
        /\ \A s \in Stage : Completed(s) => Completed(s)'
        /\ \A c : c = cur[w] => Completed(c)'
    BY <1>2, <1>3, <2>1, <2>2, KindsAdded DEF Terminal
  <2>4. InSync(w)'
    BY <1>1, <1>2, <1>6, <2>1, <2>3, StageBehind
  <2>5. e.kind \notin Terminal
    BY <1>3 DEF Terminal
  <2> QED BY <1>2, <1>3, <1>4, <1>6, <2>1, <2>2, <2>4, <2>5, ReturnInSync DEF AddsJustified
<1> QED BY <1>4, <1>5, <1>6

\* Failing an attempt: the next one, or the stages behind.
LEMMA FailInSync ==
    ASSUME TableInv, NEW w \in Worker, FailStage(w)
    PROVE  GrantsBelow' /\ Synced' /\ AddsJustified(w)
<1> DEFINE e == StageEvent(w, "stage_failed", failure[w])
<1>1. pc[w] = "fail" /\ pc[w] \in InStage /\ pc[w] \in Looping /\ pc[w] \in Attempting
  BY DEF FailStage, InStage, Looping, Attempting
<1>2. /\ pc[w] \in Running /\ LeaseTypeOK /\ PhaseInv /\ AttemptsNumbered
      /\ cur[w] \in Stage /\ tries[w] \in Attempt
      /\ pc \in [Worker -> PC] /\ cur \in [Worker -> 0 .. NStages]
      /\ tries \in [Worker -> 0 .. MaxAttempts]
      /\ blocking \in [Worker -> 0 .. NStages + 1]
  BY <1>1, LoopCaller
<1>3. /\ e \in Event /\ e.kind = "stage_failed" /\ e.stage = cur[w] /\ e.attempt = tries[w]
  BY <1>1, <1>2, StageEvents DEF StageEvent, PhaseInv
<1> HIDE DEF e
<1>4. /\ Undisturbed(w) /\ cur' = cur
      /\ \/ /\ Returns(w, e)
            /\ \/ pc'[w] = "start" /\ tries'[w] = tries[w] + 1
               \/ pc'[w] = BlockFrom(cur[w] + 1) /\ blocking'[w] = cur[w] + 1
         \/ PublishRejected(w, e) /\ pc'[w] = "release"
  BY <1>2 DEF FailStage, Call, Goto, Undisturbed, e
<1>5. CASE PublishRejected(w, e) /\ pc'[w] = "release"
  BY <1>3, <1>4, <1>5, RejectedInSync DEF AddsJustified
<1>6. CASE Returns(w, e) /\ pc'[w] # "release"
  <2>1. /\ Exists({"operation_claimed"}) /\ ~Exists(Terminal) /\ ~Completed(cur[w])
        /\ Attempts(cur[w]) = tries[w]
        /\ \A t \in 1 .. cur[w] - 1 : t \in Stage /\ Completed(t)
        /\ Publish(w, e) /\ Justified(w, e)
    BY <1>1, <1>3, <1>6, CloserKnows DEF Closing
  <2>2. /\ Exists({"operation_claimed"})' /\ ~Exists(Terminal)'
        /\ \A s \in Stage : (Completed(s)' <=> Completed(s)) /\ Attempts(s)' = Attempts(s)
        /\ \A c : c = cur[w] => AttemptState(c)' = "failed"
        /\ AddsJustified(w)
    <3>1. Exists({"operation_claimed"})' /\ ~Exists(Terminal)'
      BY <1>2, <1>3, <2>1, KindsAdded DEF Terminal
    <3>2. \A s \in Stage : (Completed(s)' <=> Completed(s)) /\ Attempts(s)' = Attempts(s)
      BY <1>2, <1>3, <2>1, KindsAdded, AttemptsAdded
    <3>3. \A c : c = cur[w] => AttemptState(c)' = "failed"
      BY <1>2, <1>3, <2>1, StateAdded
    <3> QED BY <1>3, <2>1, <3>1, <3>2, <3>3 DEF AddsJustified
  <2>3. (\A t \in 1 .. cur[w] - 1 : Completed(t))'
    BY <1>4, <2>1, <2>2
  <2>4. \A c : c = cur[w] => ~Completed(c)' /\ Attempts(c)' = tries[w]
    BY <1>2, <2>1, <2>2
  <2>5. CASE pc'[w] = "start" /\ tries'[w] = tries[w] + 1
    <3>1. Attempts(cur[w])' = tries'[w] - 1
      BY <1>2, <1>4, <2>4, <2>5 DEF Attempt
    <3>2. ~Completed(cur[w])'
      BY <1>4, <2>4
    <3>3. InSync(w)'
      BY <2>2, <2>3, <2>5, <3>1, <3>2 DEF InSync, InStage
    <3> QED BY <1>2, <1>3, <1>4, <1>6, <2>2, <3>3, ReturnInSync DEF Terminal
  <2>6. CASE pc'[w] = BlockFrom(cur[w] + 1) /\ blocking'[w] = cur[w] + 1
    <3>1. \/ pc'[w] = "block"
          \/ pc'[w] = "failOp" /\ blocking'[w] = NStages + 1
      BY <1>2, <2>6, LeaseAssumption DEF BlockFrom, Stage
    <3>2. blocking'[w] > cur'[w] /\ \A s \in cur'[w] + 1 .. blocking'[w] - 1 : FALSE
      BY <1>2, <1>4, <2>6, LeaseAssumption DEF Stage
    <3>3. Spent(cur[w])'
      BY <1>4, <2>2 DEF Spent
    <3>4. InSync(w)'
      BY <2>2, <2>3, <3>1, <3>2, <3>3 DEF InSync, Attempting, InStage
    <3> QED BY <1>2, <1>3, <1>4, <1>6, <2>2, <3>4, ReturnInSync DEF Terminal
  <2> QED BY <1>4, <1>6, <2>5, <2>6
<1>7. pc'[w] = "release" => PublishRejected(w, e)
  BY <1>4 DEF BlockFrom
<1> QED BY <1>4, <1>5, <1>6, <1>7

\* Marking the stages behind, one after another.
LEMMA BlockInSync ==
    ASSUME TableInv, NEW w \in Worker, BlockStage(w)
    PROVE  GrantsBelow' /\ Synced' /\ AddsJustified(w)
<1> DEFINE e == Blocked(blocking[w])
<1>1. pc[w] = "block" /\ pc[w] \in Looping
  BY DEF BlockStage, Looping
<1>2. /\ pc[w] \in Running /\ LeaseTypeOK /\ AttemptsNumbered
      /\ cur[w] \in Stage /\ blocking[w] \in Stage /\ pc \in [Worker -> PC]
      /\ blocking \in [Worker -> 0 .. NStages + 1]
  BY <1>1, LoopCaller
<1>3. /\ e \in Event /\ e.kind = "stage_blocked" /\ e.stage = blocking[w]
  BY <1>2, BlockedEvents DEF Blocked
<1> HIDE DEF e
<1>4. /\ Undisturbed(w) /\ cur' = cur
      /\ \/ /\ Returns(w, e)
            /\ pc'[w] = BlockFrom(blocking[w] + 1) /\ blocking'[w] = blocking[w] + 1
         \/ PublishRejected(w, e) /\ pc'[w] = "release"
  BY <1>2 DEF BlockStage, Call, Goto, Undisturbed, e
<1>5. CASE PublishRejected(w, e) /\ pc'[w] = "release"
  BY <1>3, <1>4, <1>5, RejectedInSync DEF AddsJustified
<1>6. CASE /\ Returns(w, e)
           /\ pc'[w] = BlockFrom(blocking[w] + 1) /\ blocking'[w] = blocking[w] + 1
  <2>1. /\ Exists({"operation_claimed"}) /\ ~Exists(Terminal) /\ Spent(cur[w])
        /\ blocking[w] > cur[w]
        /\ \A t \in 1 .. cur[w] - 1 : t \in Stage /\ Completed(t)
        /\ \A s \in cur[w] + 1 .. blocking[w] - 1 : s \in Stage /\ IsBlocked(s)
        /\ PublishAgain(w, e) \/ Publish(w, e)
    BY <1>1, <1>2, <1>3, <1>6, CallerKnows, LeaseAssumption DEF InSync, Stage
  <2>2. /\ Exists({"operation_claimed"})' /\ ~Exists(Terminal)'
        /\ \A s \in Stage : Completed(s)' <=> Completed(s)
        /\ \A s \in Stage : IsBlocked(s) => IsBlocked(s)'
        /\ \A b : b = blocking[w] => IsBlocked(b)'
        /\ \A s \in Stage : AttemptState(s)' = AttemptState(s) /\ Attempts(s)' = Attempts(s)
        /\ AddsJustified(w)
    <3>1. CASE Publish(w, e)
      <4>1. Exists({"operation_claimed"})' /\ ~Exists(Terminal)'
        BY <1>2, <1>3, <2>1, <3>1, KindsAdded DEF Terminal
      <4>2. /\ \A s \in Stage : Completed(s)' <=> Completed(s)
            /\ \A s \in Stage : IsBlocked(s) => IsBlocked(s)'
            /\ \A b : b = blocking[w] => IsBlocked(b)'
        BY <1>2, <1>3, <3>1, KindsAdded
      <4>3. \A s \in Stage : AttemptState(s)' = AttemptState(s) /\ Attempts(s)' = Attempts(s)
        BY <1>2, <1>3, <3>1, StateAdded, AttemptsAdded DEF Lifecycle, Closing
      <4>4. Justified(w, e)
        BY <1>3, <2>1 DEF Justified, Terminal, Lifecycle, Closing
      <4> QED BY <1>3, <3>1, <4>1, <4>2, <4>3, <4>4 DEF AddsJustified
    <3>2. CASE PublishAgain(w, e)
      <4>1. log' = log
        BY <3>2 DEF PublishAgain
      <4>2. IsBlocked(blocking[w])
        BY <1>3, <3>2 DEF PublishAgain, Known, SameIdentifier, IsBlocked
      <4> QED BY <2>1, <4>1, <4>2, TableKept DEF AddsJustified
    <3> QED BY <2>1, <3>1, <3>2
  <2>3. (\A t \in 1 .. cur[w] - 1 : Completed(t))'
    BY <1>4, <2>1, <2>2
  <2>4. \/ pc'[w] = "block"
        \/ pc'[w] = "failOp" /\ blocking'[w] = NStages + 1
    BY <1>2, <1>6, LeaseAssumption DEF BlockFrom, Stage
  <2>5. blocking'[w] > cur'[w]
    BY <1>2, <1>4, <1>6, <2>1, LeaseAssumption DEF Stage
  <2>6. \A s \in cur'[w] + 1 .. blocking'[w] - 1 : IsBlocked(s)'
    <3>1. \A s \in cur'[w] + 1 .. blocking'[w] - 1 :
            s \in cur[w] + 1 .. blocking[w] - 1 \/ s = blocking[w]
      BY <1>2, <1>4, <1>6, LeaseAssumption DEF Stage
    <3> QED BY <2>1, <2>2, <3>1
  <2>7. \A c : c = cur[w] => Spent(c)'
    BY <1>2, <2>1, <2>2 DEF Spent
  <2>8. Spent(cur[w])'
    BY <1>4, <2>7
  <2>9. InSync(w)'
    BY <2>2, <2>3, <2>4, <2>5, <2>6, <2>8 DEF InSync, Attempting, InStage
  <2>10. e.kind \notin Terminal
    BY <1>3 DEF Terminal
  <2> QED BY <1>2, <1>3, <1>4, <1>6, <2>2, <2>9, <2>10, ReturnInSync
<1> QED BY <1>4, <1>5, <1>6

\* Ending the operation.
LEMMA EndInSync ==
    ASSUME TableInv, NEW w \in Worker, FailOperation(w) \/ CompleteOperation(w)
    PROVE  GrantsBelow' /\ Synced' /\ AddsJustified(w)
<1>1. pc[w] \in {"failOp", "completeOp"} /\ pc[w] \in Looping
  BY DEF FailOperation, CompleteOperation, Looping
<1>2. /\ pc[w] \in Running /\ LeaseTypeOK /\ cur[w] \in Stage /\ pc \in [Worker -> PC]
  BY <1>1, LoopCaller
<1>3. PICK e \in Event :
        /\ e = OpEvent(IF pc[w] = "failOp" THEN "operation_failed" ELSE "operation_completed")
        /\ Returns(w, e) \/ PublishRejected(w, e)
  BY OperationEvents DEF FailOperation, CompleteOperation, Call
<1>4. Undisturbed(w) /\ pc'[w] = "release"
  BY <1>2 DEF FailOperation, CompleteOperation, Call, Goto, Undisturbed
<1>5. e.kind = IF pc[w] = "failOp" THEN "operation_failed" ELSE "operation_completed"
  BY <1>3 DEF OpEvent
<1>6. CASE PublishRejected(w, e)
  BY <1>4, <1>6, RejectedInSync DEF AddsJustified
<1>7. CASE Returns(w, e)
  <2>1. InSync(w) /\ (PublishAgain(w, e) \/ Publish(w, e))
    BY <1>2, <1>7, CallerKnows
  <2>2. pc'[w] \notin Running /\ InSync(w)'
    BY <1>4 DEF InSync, Running, Claiming, Looping, Attempting, InStage
  <2>3. Justified(w, e)
    <3>1. Exists({"operation_claimed"}) /\ ~Exists(Terminal)
            /\ \A t \in 1 .. cur[w] - 1 : Completed(t)
      BY <1>1, <2>1 DEF InSync
    <3>2. CASE pc[w] = "failOp"
      <4>1. Spent(cur[w]) /\ \A s \in cur[w] + 1 .. NStages : IsBlocked(s)
        BY <2>1, <3>2, LeaseAssumption DEF InSync
      <4> QED BY <1>2, <1>5, <3>1, <3>2, <4>1 DEF Justified, Lifecycle, Closing
    <3>3. CASE pc[w] = "completeOp"
      <4>1. \A s \in Stage : Completed(s)
        BY <2>1, <3>3 DEF InSync
      <4> QED BY <1>5, <3>1, <3>3, <4>1 DEF Justified, Lifecycle, Closing
    <3> QED BY <1>1, <3>2, <3>3
  <2>4. AddsJustified(w)
    BY <2>1, <2>3 DEF AddsJustified, PublishAgain
  <2> QED BY <1>2, <1>4, <1>7, <2>2, <2>4, ReturnInSync
<1> QED BY <1>3, <1>6, <1>7

\* Every step keeps the current workers in step, and adds at most an event
\* that the table allows.
LEMMA StepInSync ==
    ASSUME TableInv, [Next]_vars
    PROVE  /\ GrantsBelow' /\ Synced'
           /\ log' = log \/ \E w \in Worker, e \in Event : Publish(w, e) /\ Justified(w, e)
<1>1. CASE Clock \/ (\E w \in Worker : PollDenied(w) \/ Sleep(w)) \/ UNCHANGED vars
  BY <1>1, IdleInSync
<1>2. ASSUME NEW w \in Worker,
             SeekClaimed(w) \/ CheckResult(w) \/ SkipCompleted(w) \/ SelectAttempt(w)
               \/ Exhausted(w) \/ DelegateReturns(w) \/ DelegateFails(w) \/ Abort(w)
      PROVE  GrantsBelow' /\ Synced' /\ log' = log
  BY <1>2, QuietStepsInSync
<1>3. ASSUME NEW w \in Worker, Poll(w) \/ PollRefused(w) \/ Release(w) \/ Crash(w)
      PROVE  GrantsBelow' /\ Synced' /\ log' = log
  BY <1>3, ClaimInSync, LeaversInSync
<1>4. ASSUME NEW w \in Worker,
             Announce(w) \/ StartStage(w) \/ BeatActive(w) \/ RenewLeases(w)
               \/ BeatReconciled(w) \/ CompleteStage(w) \/ FailStage(w) \/ BlockStage(w)
               \/ FailOperation(w) \/ CompleteOperation(w)
      PROVE  GrantsBelow' /\ Synced' /\ AddsJustified(w)
  BY <1>4, AnnounceInSync, StartInSync, BeatsInSync, CompleteInSync, FailInSync, BlockInSync,
     EndInSync
<1> QED BY <1>1, <1>2, <1>3, <1>4 DEF Next, Progress, AddsJustified

-----------------------------------------------------------------------------
(* What the table says.                                                    *)

\* Every part of TableInv that is about the table alone stays while the table
\* does.
LEMMA TableStays ==
    ASSUME TableInv, log' = log
    PROVE  /\ AttemptsNumbered' /\ EndIsAnnounced' /\ ClosedByStarter' /\ NothingAfterTerminal'
           /\ FailureAccountsForStages'
<1>1. AttemptsNumbered'
  BY DEF TableInv, AttemptsNumbered, Attempts
<1>2. EndIsAnnounced'
  BY TableKept DEF TableInv, EndIsAnnounced
<1>3. ClosedByStarter'
  BY DEF TableInv, ClosedByStarter
<1>4. NothingAfterTerminal'
  BY DEF TableInv, NothingAfterTerminal
<1>5. FailureAccountsForStages'
  <2> SUFFICES ASSUME Exists({"operation_failed"})'
               PROVE  \E f \in Stage :
                        /\ ~Completed(f)' /\ Attempts(f)' > 0
                        /\ \A s \in 1 .. f - 1 : Completed(s)'
                        /\ \A s \in f + 1 .. NStages : IsBlocked(s)'
    BY DEF FailureAccountsForStages, IsBlocked
  <2>1. Exists({"operation_failed"})
    BY TableKept
  <2>2. PICK f \in Stage : /\ ~Completed(f) /\ Attempts(f) > 0
                           /\ \A s \in 1 .. f - 1 : Completed(s)
                           /\ \A s \in f + 1 .. NStages : IsBlocked(s)
    BY <2>1 DEF TableInv, FailureAccountsForStages, IsBlocked
  <2> QED BY <2>2, TableKept
<1> QED BY <1>1, <1>2, <1>3, <1>4, <1>5

\* Attempts stay numbered: a start is the next one, and a completed stage is
\* not started again.
LEMMA NumbersStep ==
    ASSUME TableInv, NEW w \in Worker, NEW e \in Event, Publish(w, e), Justified(w, e)
    PROVE  AttemptsNumbered' /\ EndIsAnnounced'
<1> DEFINE n == Len(log) + 1
<1>1. LeaseTypeOK /\ AttemptsNumbered /\ EndIsAnnounced
  BY DEF TableInv, PhaseInv, TypeOK
<1>2. /\ \A i \in DOMAIN log' : i = n \/ (i \in DOMAIN log /\ log'[i] = log[i])
      /\ log'[n].kind = e.kind /\ log'[n].stage = e.stage /\ log'[n].attempt = e.attempt
  BY <1>1, RowAdded
<1>3. \A s : /\ Attempts(s) \in Nat
            /\ Attempts(s)' = IF e.kind = "stage_started" /\ e.stage = s
                               THEN Attempts(s) + 1 ELSE Attempts(s)
  BY <1>1, AttemptsAdded
<1>4. e.kind \in Lifecycle => e.stage \in Stage /\ e.attempt \in Attempt
  BY LifecycleEvents
<1>5. \A i \in DOMAIN log : log[i].attempt \in Nat
  <2>1. \A i \in DOMAIN log : log[i] \in Entry
    BY <1>1 DEF LeaseTypeOK
  <2>2. 0 .. MaxAttempts \subseteq Nat
    BY LeaseAssumption
  <2> QED BY <2>1, <2>2 DEF Entry
<1> HIDE DEF n
<1>6. ASSUME NEW i \in DOMAIN log', log'[i].kind \in Lifecycle
      PROVE  \A s : s = log'[i].stage => log'[i].attempt <= Attempts(s)'
  <2>1. CASE i = n
    BY <1>2, <1>3, <1>4, <1>6, <2>1 DEF Justified, Lifecycle, Attempt
  <2>2. CASE i \in DOMAIN log /\ log'[i] = log[i]
    BY <1>1, <1>3, <1>5, <1>6, <2>2 DEF AttemptsNumbered
  <2> QED BY <1>2, <2>1, <2>2
<1>7. ASSUME NEW i \in DOMAIN log', log'[i].kind = "stage_completed"
      PROVE  \A s : s = log'[i].stage => log'[i].attempt = Attempts(s)'
  <2>1. CASE i = n
    BY <1>2, <1>3, <1>7, <2>1 DEF Justified, Closing
  <2>2. CASE i \in DOMAIN log /\ log'[i] = log[i]
    <3>1. Completed(log[i].stage) /\ log[i].attempt = Attempts(log[i].stage)
      BY <1>1, <1>7, <2>2 DEF AttemptsNumbered, Completed
    <3>2. ~(e.kind = "stage_started" /\ e.stage = log[i].stage)
      BY <3>1 DEF Justified, Lifecycle
    <3> QED BY <1>3, <2>2, <3>1, <3>2
  <2> QED BY <1>2, <2>1, <2>2
<1>8. ASSUME NEW s \in Stage PROVE Attempts(s)' <= MaxAttempts
  <2>1. Attempts(s) <= MaxAttempts
    BY <1>1 DEF AttemptsNumbered
  <2> QED BY <1>3, <1>4, <2>1, LeaseAssumption DEF Justified, Lifecycle, Attempt
<1>9. ASSUME NEW i \in DOMAIN log', NEW j \in DOMAIN log', i < j,
             log'[i].kind \in Lifecycle, log'[j].kind = "stage_started",
             log'[i].stage = log'[j].stage
      PROVE  log'[i].attempt < log'[j].attempt
  <2>1. i \in DOMAIN log /\ log'[i] = log[i]
    BY <1>1, <1>2, <1>9, RowAdded DEF n
  <2>2. CASE j \in DOMAIN log /\ log'[j] = log[j]
    BY <1>1, <1>9, <2>1, <2>2 DEF AttemptsNumbered
  <2>3. CASE j = n
    <3>1. e.kind = "stage_started" /\ e.attempt = Attempts(log[i].stage) + 1
      BY <1>2, <1>9, <2>1, <2>3 DEF Justified
    <3>2. log[i].attempt <= Attempts(log[i].stage)
      BY <1>1, <1>9, <2>1 DEF AttemptsNumbered
    <3> QED BY <1>2, <1>3, <1>5, <2>1, <2>3, <3>1, <3>2
  <2> QED BY <1>2, <2>2, <2>3
<1>10. AttemptsNumbered'
  BY <1>6, <1>7, <1>8, <1>9 DEF AttemptsNumbered
<1>11. EndIsAnnounced'
  BY <1>1, KindsAdded DEF EndIsAnnounced, Justified
<1> QED BY <1>10, <1>11

\* A new result closes the attempt its publisher started last; an old one
\* keeps the start it had.
LEMMA ClosedByStarterStep ==
    ASSUME TableInv, NEW w \in Worker, NEW e \in Event, Publish(w, e), Justified(w, e)
    PROVE  ClosedByStarter'
<1> DEFINE n == Len(log) + 1
           F == {"stage", "attempt", "worker", "opToken", "stToken"}
           Starts(j, i) ==
             /\ log[j].kind = "stage_started"
             /\ \A f \in F : log[j][f] = log[i][f]
             /\ \A m \in j + 1 .. i - 1 :
                   log[m].kind \in {"stage_started"} \cup Closing => log[m].stage # log[i].stage
<1>1. LeaseTypeOK
  BY DEF TableInv, PhaseInv, TypeOK
<1>2. /\ Len(log) \in Nat /\ DOMAIN log = 1 .. Len(log) /\ DOMAIN log' = 1 .. n
      /\ \A i \in DOMAIN log : log'[i] = log[i]
      /\ log'[n].kind = e.kind /\ log'[n].stage = e.stage /\ log'[n].attempt = e.attempt
      /\ log'[n].worker = w /\ log'[n].opToken = opLease.token
      /\ log'[n].stToken = StageLeaseOf(w, e).token
  BY <1>1, RowAdded
<1>3. SUFFICES ASSUME NEW i \in DOMAIN log', log'[i].kind \in Closing
               PROVE  \E j \in 1 .. i - 1 : Starts(j, i)'
  BY DEF ClosedByStarter
<1> HIDE DEF n
<1>4. CASE i \in DOMAIN log
  <2>1. PICK j \in 1 .. i - 1 : Starts(j, i)
    BY <1>2, <1>3, <1>4 DEF TableInv, ClosedByStarter
  <2>2. /\ j \in DOMAIN log /\ log'[j] = log[j] /\ log'[i] = log[i]
        /\ \A m \in j + 1 .. i - 1 : m \in DOMAIN log /\ log'[m] = log[m]
    BY <1>2, <1>4
  <2>3. Starts(j, i)'
    BY <2>1, <2>2
  <2> QED BY <2>3
<1>5. CASE i = n
  <2>1. e.kind \in Closing
    BY <1>2, <1>3, <1>5
  <2>2. PICK j \in DOMAIN log : StartedBy(w, e, j)
    BY <2>1 DEF Justified
  <2>3. StageLeaseOf(w, e) = stLease[e.stage]
    BY <2>1 DEF StageLeaseOf, Closing
  <2>4. j \in 1 .. i - 1 /\ \A m \in j + 1 .. i - 1 : m \in DOMAIN log /\ m > j
    BY <1>2, <1>5, <2>2 DEF n
  <2>5. log'[j].kind = "stage_started" /\ \A f \in F : log'[j][f] = log'[i][f]
    BY <1>2, <1>5, <2>2, <2>3 DEF StartedBy
  <2>6. \A m \in j + 1 .. i - 1 : log'[m].kind \in Lifecycle => log'[m].stage # log'[i].stage
    BY <1>2, <1>5, <2>2, <2>4 DEF StartedBy
  <2> QED BY <2>4, <2>5, <2>6 DEF Lifecycle
<1> QED BY <1>2, <1>4, <1>5 DEF n

\* A spent stage was attempted and did not complete.
LEMMA SpentDidNotComplete ==
    ASSUME AttemptsNumbered, LeaseTypeOK, NEW s \in Stage, Spent(s)
    PROVE  ~Completed(s) /\ Attempts(s) \in Nat \ {0}
<1>1. AttemptState(s) \in {"failed", "open"} /\ Attempts(s) \in Nat
  BY AttemptsCount DEF Spent
<1>2. Attempts(s) # 0
  BY <1>1, StateByClosing
<1> QED BY <1>1, <1>2, CompletedIsDone

\* Nothing is added after the end, and the end of a failed operation accounts
\* for every stage.
LEMMA EndStep ==
    ASSUME TableInv, NEW w \in Worker, NEW e \in Event, Publish(w, e), Justified(w, e)
    PROVE  NothingAfterTerminal' /\ FailureAccountsForStages'
<1> DEFINE n == Len(log) + 1
<1>1. LeaseTypeOK /\ AttemptsNumbered /\ ~Exists(Terminal)
  BY DEF TableInv, PhaseInv, TypeOK, Justified
<1>2. NothingAfterTerminal'
  <2>1. /\ Len(log') = n
        /\ \A i \in DOMAIN log' : i = n \/ (i \in DOMAIN log /\ log'[i] = log[i])
    BY <1>1, RowAdded
  <2> QED BY <1>1, <2>1 DEF NothingAfterTerminal, Exists
<1>3. FailureAccountsForStages'
  <2> SUFFICES ASSUME Exists({"operation_failed"})'
               PROVE  \E f \in Stage :
                        /\ ~Completed(f)' /\ Attempts(f)' > 0
                        /\ \A s \in 1 .. f - 1 : Completed(s)'
                        /\ \A s \in f + 1 .. NStages : IsBlocked(s)'
    BY DEF FailureAccountsForStages, IsBlocked
  <2>1. ~Exists({"operation_failed"})
    BY <1>1 DEF Exists, Terminal
  <2>2. e.kind = "operation_failed"
    BY <1>1, <2>1, KindsAdded
  <2>3. PICK f \in Stage : /\ Spent(f) /\ \A s \in 1 .. f - 1 : Completed(s)
                           /\ \A s \in f + 1 .. NStages : IsBlocked(s)
    BY <2>2 DEF Justified
  <2>4. ~Completed(f) /\ Attempts(f) \in Nat \ {0}
    BY <1>1, <2>3, SpentDidNotComplete
  <2>5. /\ \A s : (Completed(s)' <=> Completed(s)) /\ (IsBlocked(s)' <=> IsBlocked(s))
        /\ Attempts(f)' = Attempts(f)
    BY <1>1, <2>2, KindsAdded, AttemptsAdded
  <2> QED BY <2>3, <2>4, <2>5
<1> QED BY <1>2, <1>3

-----------------------------------------------------------------------------
(* Theorems.                                                               *)

\* TableInv is inductive.
THEOREM TableCorrect == Spec => []TableInv
<1>1. Init => TableInv
  <2> SUFFICES ASSUME Init PROVE TableInv
    OBVIOUS
  <2>1. log = <<>> /\ opGrant = [w \in Worker |-> 0] /\ pc = [w \in Worker |-> "idle"]
    BY DEF Init, LeaseInit
  <2>2. PhaseInv
    <3>1. LeaseTypeOK
      BY LeaseAssumption, NoLeaseType DEF Init, LeaseInit, LeaseTypeOK, NoGrants
    <3> QED BY <3>1, LeaseAssumption, OperationAssumption
            DEF Init, PhaseInv, TypeOK, PC, Looping, Attempting
  <2>3. GrantsBelow /\ Synced
    BY <2>1 DEF GrantsBelow, Synced, Current, Claiming, Looping
  <2>4. \A s : Attempts(s) = 0
    BY <2>1, FS_EmptySet DEF Attempts
  <2>5. AttemptsNumbered /\ EndIsAnnounced /\ ClosedByStarter /\ NothingAfterTerminal
          /\ FailureAccountsForStages
    BY <2>1, <2>4, LeaseAssumption
    DEF AttemptsNumbered, EndIsAnnounced, ClosedByStarter, NothingAfterTerminal,
        FailureAccountsForStages, Exists
  <2> QED BY <2>2, <2>3, <2>5 DEF TableInv
<1>2. TableInv /\ [Next]_vars => TableInv'
  <2> SUFFICES ASSUME TableInv, [Next]_vars PROVE TableInv'
    OBVIOUS
  <2>1. PhaseInv'
    BY PhaseStep DEF TableInv
  <2>2. /\ GrantsBelow' /\ Synced'
        /\ log' = log \/ \E w \in Worker, e \in Event : Publish(w, e) /\ Justified(w, e)
    BY StepInSync
  <2>3. /\ AttemptsNumbered' /\ EndIsAnnounced' /\ ClosedByStarter' /\ NothingAfterTerminal'
        /\ FailureAccountsForStages'
    <3>1. CASE log' = log
      BY <3>1, TableStays
    <3>2. CASE \E w \in Worker, e \in Event : Publish(w, e) /\ Justified(w, e)
      BY <3>2, NumbersStep, ClosedByStarterStep, EndStep
    <3> QED BY <2>2, <3>1, <3>2
  <2> QED BY <2>1, <2>2, <2>3 DEF TableInv
<1> QED BY <1>1, <1>2, PTL DEF Spec

\* Every completion or failure closes the attempt started last, by the worker
\* and under the tokens that started it (append() under both fences).
THEOREM ResultsCloseTheirAttempt == Spec => []ClosedByStarter
BY TableCorrect, PTL DEF TableInv

\* A finished operation stays finished (the terminal checks of run() and the
\* release of the operation lease with the terminal event).
THEOREM EndIsLast == Spec => []NothingAfterTerminal
BY TableCorrect, PTL DEF TableInv

\* A failed operation accounts for every stage (_block_downstream).
THEOREM FailureIsComplete == Spec => []FailureAccountsForStages
BY TableCorrect, PTL DEF TableInv

-----------------------------------------------------------------------------
(* The refinement of SequentialOperation.                                  *)

\* A completed stage was started, so its latest attempt is done.
LEMMA CompletedWasStarted ==
    ASSUME TableInv, NEW s \in Stage, Completed(s)
    PROVE  AttemptState(s) = "done"
<1>1. LeaseTypeOK /\ AttemptsNumbered
  BY DEF TableInv, PhaseInv, TypeOK
<1> DEFINE S == {i \in DOMAIN log : log[i].kind = "stage_started" /\ log[i].stage = s}
<1>2. S # {}
  <2>1. PICK i \in DOMAIN log : log[i].kind = "stage_completed" /\ log[i].stage = s
    BY DEF Completed
  <2>2. PICK j \in 1 .. i - 1 : log[j].kind = "stage_started" /\ log[j]["stage"] = log[i]["stage"]
    BY <2>1 DEF TableInv, ClosedByStarter, Closing
  <2>3. j \in DOMAIN log
    <3>1. DOMAIN log = 1 .. Len(log) /\ Len(log) \in Nat
      BY <1>1 DEF LeaseTypeOK
    <3> QED BY <2>1, <2>2, <3>1
  <2> QED BY <2>1, <2>2, <2>3
<1>3. IsFiniteSet(S)
  <2>1. DOMAIN log = 1 .. Len(log) /\ Len(log) \in Int
    BY <1>1 DEF LeaseTypeOK
  <2> QED BY <2>1, FS_Interval, FS_Subset
<1>4. Attempts(s) # 0
  BY <1>2, <1>3, FS_EmptySet DEF Attempts
<1> QED BY <1>1, <1>4, CompletedIsDone

\* The outcome while the operation has not ended.
LEMMA RunningOutcome ==
    ASSUME ~Exists(Terminal)
    PROVE  Outcome = "running"
BY DEF Outcome, Exists, Terminal

\* The initial table is that of an operation nobody started.
LEMMA InitSimulates == Init => Sequential!Init
<1> SUFFICES ASSUME Init PROVE Sequential!Init
  OBVIOUS
<1>1. log = <<>>
  BY DEF Init, LeaseInit
<1>2. \A s : Attempts(s) = 0
  BY <1>1, FS_EmptySet DEF Attempts
<1>3. \A s : AttemptState(s) = "none"
  BY <1>2 DEF AttemptState
<1>4. Outcome = "running"
  BY <1>1 DEF Outcome, Exists
<1> QED BY <1>2, <1>3, <1>4 DEF Sequential!Init, Sequential!Stage, Stage

\* A stage whose predecessors completed has been reached.
LEMMA ReachedStage ==
    ASSUME TableInv, ~Exists(Terminal), NEW s \in Stage, \A t \in 1 .. s - 1 : Completed(t)
    PROVE  Sequential!Reached(s)
<1>1. \A t \in 1 .. s - 1 : t \in Stage /\ AttemptState(t) = "done"
  <2>1. \A t \in 1 .. s - 1 : t \in Stage
    BY LeaseAssumption DEF Stage
  <2> QED BY <2>1, CompletedWasStarted
<1> QED BY <1>1, RunningOutcome DEF Sequential!Reached, Sequential!Stage, Stage

\* A justified event is a step of the sequential operation.
LEMMA EventSimulates ==
    ASSUME TableInv, NEW w \in Worker, NEW e \in Event, Publish(w, e), Justified(w, e)
    PROVE  [Sequential!Next]_(Sequential!vars)
<1> DEFINE T == [s \in Stage |-> Attempts(s)]
           A == [s \in Stage |-> AttemptState(s)]
<1>1. /\ LeaseTypeOK /\ AttemptsNumbered /\ ~Exists(Terminal) /\ Outcome = "running"
  BY RunningOutcome DEF TableInv, PhaseInv, TypeOK, Justified
<1>2. \A s \in Stage : /\ Attempts(s) \in Nat
                        /\ Attempts(s)' = IF e.kind = "stage_started" /\ e.stage = s
                                           THEN Attempts(s) + 1 ELSE Attempts(s)
  BY <1>1, AttemptsAdded
<1>3. \A s \in Stage :
        /\ e.kind \notin Lifecycle \/ e.stage # s => AttemptState(s)' = AttemptState(s)
        /\ e.kind = "stage_started" /\ e.stage = s => AttemptState(s)' = "open"
        /\ e.kind = "stage_completed" /\ e.stage = s /\ e.attempt = Attempts(s)
              => AttemptState(s)' = "done"
        /\ e.kind = "stage_failed" /\ e.stage = s /\ e.attempt = Attempts(s) /\ ~Completed(s)
              => AttemptState(s)' = "failed"
  BY <1>1, StateAdded
<1>4. Outcome' = CASE e.kind = "operation_completed" -> "completed"
                   [] e.kind = "operation_failed" -> "failed"
                   [] OTHER -> "running"
  <2>1. /\ Exists({"operation_completed"})' <=> e.kind = "operation_completed"
        /\ Exists({"operation_failed"})' <=> e.kind = "operation_failed"
    <3>1. ~Exists({"operation_completed"}) /\ ~Exists({"operation_failed"})
      BY <1>1 DEF Exists, Terminal
    <3> QED BY <1>1, <3>1, KindsAdded
  <2> QED BY <2>1 DEF Outcome
<1>5. CASE e.kind = "stage_started"
  <2>1. e.stage \in Stage /\ e.attempt \in Attempt /\ ~Completed(e.stage)
          /\ e.attempt = Attempts(e.stage) + 1 /\ e.kind \in Lifecycle
    BY <1>5, LifecycleEvents DEF Justified, Lifecycle
  <2>2. Sequential!Reached(e.stage)
    BY <1>1, <2>1, ReachedStage DEF Justified
  <2>3. AttemptState(e.stage) # "done"
    BY <1>1, <2>1, CompletedIsDone
  <2>4. Attempts(e.stage) < MaxAttempts
    BY <1>2, <2>1, LeaseAssumption DEF Attempt
  <2>5. T' = [T EXCEPT ![e.stage] = @ + 1]
    BY <1>2, <1>5, <2>1
  <2>6. A' = [A EXCEPT ![e.stage] = "open"]
    BY <1>3, <1>5, <2>1
  <2>7. Sequential!Start(e.stage)
    BY <1>1, <1>4, <1>5, <2>1, <2>2, <2>3, <2>4, <2>5, <2>6 DEF Sequential!Start
  <2> QED BY <2>1, <2>7 DEF Sequential!Next, Sequential!Stage, Stage
<1>6. CASE e.kind \in Closing
  <2>1. e.stage \in Stage /\ ~Completed(e.stage) /\ e.attempt = Attempts(e.stage)
          /\ e.kind \in Lifecycle
    BY <1>6, LifecycleEvents DEF Justified, Lifecycle
  <2>2. Sequential!Reached(e.stage)
    BY <1>1, <2>1, ReachedStage DEF Justified
  <2>3. AttemptState(e.stage) = "open"
    <3>1. Attempts(e.stage) # 0
      BY <2>1, <1>6, LifecycleEvents DEF Attempt
    <3>2. ~ClosedAt(e.stage, Attempts(e.stage), "stage_failed")
      <4> SUFFICES ASSUME NEW i \in DOMAIN log, log[i].stage = e.stage,
                          log[i].attempt = e.attempt, log[i].kind = "stage_failed"
                   PROVE  FALSE
        BY <2>1 DEF ClosedAt
      <4>1. PICK j \in DOMAIN log : StartedBy(w, e, j)
        BY <1>6 DEF Justified
      <4>2. ~(i > j) /\ i # j
        BY <4>1 DEF StartedBy, Lifecycle, Closing
      <4>3. i \in Int /\ j \in Int
        BY <1>1 DEF LeaseTypeOK
      <4>4. i < j
        BY <4>2, <4>3
      <4>5. log[i].attempt < log[j].attempt
        BY <1>1, <4>1, <4>4 DEF AttemptsNumbered, StartedBy, Lifecycle, Closing
      <4> QED BY <2>1, <4>1, <4>5, <1>2 DEF StartedBy
    <3>3. ~ClosedAt(e.stage, Attempts(e.stage), "stage_completed")
      BY <2>1 DEF ClosedAt, Completed
    <3> QED BY <3>1, <3>2, <3>3, StateByClosing
  <2>4. T' = T
    BY <1>2, <1>6 DEF Closing
  <2>5. \E r \in {"done", "failed"} : A' = [A EXCEPT ![e.stage] = r]
    BY <1>3, <1>6, <2>1 DEF Closing
  <2>6. Sequential!Close(e.stage)
    BY <1>1, <1>4, <1>6, <2>1, <2>2, <2>3, <2>4, <2>5 DEF Sequential!Close, Closing
  <2> QED BY <2>1, <2>6 DEF Sequential!Next, Sequential!Stage, Stage
<1>7. CASE e.kind \notin Lifecycle
  <2>1. T' = T /\ A' = A
    BY <1>2, <1>3, <1>7 DEF Lifecycle
  <2>2. CASE e.kind = "operation_completed"
    <3>1. \A s \in Stage : AttemptState(s) = "done"
      BY <2>2, CompletedWasStarted DEF Justified
    <3>2. Sequential!Complete
      BY <1>1, <1>4, <2>1, <2>2, <3>1 DEF Sequential!Complete, Sequential!Stage, Stage
    <3> QED BY <3>2 DEF Sequential!Next
  <2>3. CASE e.kind = "operation_failed"
    <3>1. PICK f \in Stage : Spent(f) /\ \A s \in 1 .. f - 1 : Completed(s)
      BY <2>3 DEF Justified
    <3>2. Sequential!Reached(f)
      BY <1>1, <3>1, ReachedStage
    <3>3. Sequential!GiveUp(f)
      BY <1>1, <1>4, <2>1, <2>3, <3>1, <3>2 DEF Sequential!GiveUp, Spent
    <3> QED BY <3>3 DEF Sequential!Next, Sequential!Stage, Stage
  <2>4. CASE e.kind \notin Terminal
    <3>1. Outcome' = Outcome
      BY <1>1, <1>4, <2>4 DEF Terminal
    <3> QED BY <2>1, <3>1 DEF Sequential!vars
  <2> QED BY <2>2, <2>3, <2>4 DEF Terminal
<1> QED BY <1>5, <1>6, <1>7 DEF Lifecycle

\* However many workers, crashes and takeovers: the recorded operation is one
\* that a single worker could have run from start to end.
THEOREM TableIsSequential == Spec => ImplementsSequential
<1>1. Init => Sequential!Init
  BY InitSimulates
<1>2. TableInv /\ [Next]_vars => [Sequential!Next]_(Sequential!vars)
  <2> SUFFICES ASSUME TableInv, [Next]_vars PROVE [Sequential!Next]_(Sequential!vars)
    OBVIOUS
  <2>1. CASE log' = log
    <3>1. Outcome' = Outcome
      BY <2>1, TableKept DEF Outcome
    <3> QED BY <2>1, <3>1, TableKept DEF Sequential!vars
  <2>2. CASE \E w \in Worker, e \in Event : Publish(w, e) /\ Justified(w, e)
    BY <2>2, EventSimulates
  <2> QED BY <2>1, <2>2, StepInSync
<1> QED BY <1>1, <1>2, TableCorrect, PTL DEF Spec, Sequential!Spec, ImplementsSequential

-----------------------------------------------------------------------------
(* Stage leases inside the operation lease.                                *)

\* Worker v answers for the live lease of stage s: it owns the row of the
\* operation as well, for at least as long, and if it is alive it is at that
\* stage, or on its way out of run() with the grant that will release it.
HeldBy(s, v) ==
    /\ stLease[s].owner = v /\ stLease[s].token # 0
    /\ opLease.owner = v /\ stLease[s].expires <= opLease.expires
    /\ pc[v] = "gone" \/ stGrant[v][s] = stLease[s].token
    /\ pc[v] \in {"gone", "release"} \/ (pc[v] \in InStage /\ cur[v] = s)

StageHolder ==
    ~StableNames => \A s \in Stage : Active(stLease[s]) => \E v \in Worker : HeldBy(s, v)

\* While the owner of the operation is at no stage, no stage lease is live; while
\* it is at one, only that one can be.
LEMMA OnlyItsStage ==
    ASSUME StageHolder, ~StableNames, NEW w \in Worker, opLease.owner = w,
           pc[w] \notin {"gone", "release"}
    PROVE  \A s \in Stage : Active(stLease[s]) =>
              HeldBy(s, w) /\ pc[w] \in InStage /\ cur[w] = s
BY DEF StageHolder, HeldBy

\* Steps of a worker that leave the rows and the stage grants alone.
LEMMA HolderStays ==
    ASSUME StageHolder, NEW w \in Worker, stLease' = stLease, opLease' = opLease, now' = now,
           \A v \in Worker \ {w} : pc'[v] = pc[v] /\ cur'[v] = cur[v] /\ stGrant'[v] = stGrant[v],
           pc[w] \in InStage \cup {"gone", "release"} =>
              \/ pc'[w] = "gone"
              \/ pc'[w] = "release" /\ stGrant'[w] = stGrant[w] /\ pc[w] # "gone"
              \/ /\ pc[w] \in InStage /\ pc'[w] \in InStage /\ cur'[w] = cur[w]
                 /\ stGrant'[w] = stGrant[w]
    PROVE  StageHolder'
<1> SUFFICES ASSUME ~StableNames, NEW s \in Stage, Active(stLease[s])'
             PROVE  \E v \in Worker : HeldBy(s, v)'
  BY DEF StageHolder
<1>1. PICK v \in Worker : HeldBy(s, v)
  BY DEF StageHolder, Active
<1>2. CASE v # w
  BY <1>1, <1>2 DEF HeldBy
<1>3. CASE v = w
  BY <1>1, <1>3 DEF HeldBy, InStage
<1> QED BY <1>2, <1>3

\* A step after which no stage lease is live that was not, and that were none.
LEMMA NoneLive ==
    ASSUME \A s \in Stage : ~Active(stLease[s]), stLease' = stLease, now' = now
    PROVE  StageHolder'
BY DEF StageHolder, Active

\* Only the owner of a live operation lease can claim it again, and it does so
\* between runs, when it is at no stage.
LEMMA HolderClaims ==
    ASSUME TableInv, StageHolder, NEW w \in Worker, Poll(w), ~StableNames
    PROVE  StageHolder'
<1>1. PICK k \in Key : Claim(w, k)
  BY DEF Poll
<1>2. pc[w] = "idle" /\ CanAcquire(opLease, w) /\ stLease' = stLease /\ now' = now
  BY <1>1 DEF Poll, Claim
<1>3. ASSUME NEW s \in Stage, Active(stLease[s]) PROVE FALSE
  <2>1. PICK v \in Worker : HeldBy(s, v)
    BY <1>3 DEF StageHolder
  <2>2. Active(opLease)
    <3>1. opLease.expires \in Nat /\ stLease[s].expires \in Nat /\ now \in Nat
      BY DEF TableInv, PhaseInv, TypeOK, LeaseTypeOK, Lease
    <3> QED BY <1>3, <2>1, <3>1 DEF HeldBy, Active
  <2>3. v = w
    BY <1>2, <2>1, <2>2 DEF HeldBy, CanAcquire
  <2> QED BY <1>2, <2>1, <2>3 DEF HeldBy, InStage
<1> QED BY <1>2, <1>3, NoneLive

\* Leaving run() ends the stage lease a worker still holds with its own.
LEMMA HolderReleases ==
    ASSUME TableInv, StageHolder, NEW w \in Worker, Release(w), ~StableNames
    PROVE  StageHolder'
<1>1. /\ LeaseTypeOK /\ pc \in [Worker -> PC] /\ cur \in [Worker -> 0 .. NStages]
  BY DEF TableInv, PhaseInv, TypeOK
<1>2. /\ pc[w] = "release" /\ now' = now
      /\ stLease' = [s \in Stage |-> ReleaseIfOwn(stLease[s], w, stGrant[w][s])]
      /\ opLease' = ReleaseIfOwn(opLease, w, opGrant[w])
      /\ \A v \in Worker \ {w} : pc'[v] = pc[v] /\ cur'[v] = cur[v] /\ stGrant'[v] = stGrant[v]
  BY <1>1 DEF Release, ReleaseAll, ForgetRun, Goto, LeaseTypeOK
<1> SUFFICES ASSUME NEW s \in Stage, Active(stLease[s])'
             PROVE  \E v \in Worker : HeldBy(s, v)'
  BY DEF StageHolder
<1>3. now \in Nat /\ stLease[s] \in Lease /\ stLease'[s] = ReleaseIfOwn(stLease[s], w, stGrant[w][s])
  BY <1>1, <1>2 DEF LeaseTypeOK
<1>4. /\ Active(stLease[s]) /\ stLease'[s] = stLease[s]
      /\ ~(stGrant[w][s] # 0 /\ stLease[s].owner = w /\ stLease[s].token = stGrant[w][s])
  BY <1>2, <1>3 DEF Active, ReleaseIfOwn, Released, Lease
<1>5. PICK v \in Worker : HeldBy(s, v)
  BY <1>4 DEF StageHolder
<1>6. v # w
  BY <1>2, <1>4, <1>5 DEF HeldBy
<1>7. opLease' = opLease
  BY <1>2, <1>5, <1>6 DEF HeldBy, ReleaseIfOwn
<1> QED BY <1>2, <1>4, <1>5, <1>6, <1>7 DEF HeldBy

\* A call that raises leaves run() with the grants it had.
LEMMA HolderRejected ==
    ASSUME TableInv, StageHolder, NEW w \in Worker, NEW e \in Event, PublishRejected(w, e),
           Undisturbed(w), pc[w] \in Running, e.kind = "stage_started" => pc[w] = "start",
           pc'[w] = "release" \/ (pc'[w] = pc[w] /\ cur'[w] = cur[w] /\ pc[w] # "start")
    PROVE  StageHolder'
<1>1. /\ stLease' = stLease /\ opLease' = opLease /\ now' = now
      /\ \A v \in Worker \ {w} : stGrant'[v] = stGrant[v]
      /\ e.kind # "stage_started" => stGrant' = stGrant
  BY CallTouches DEF PublishRejected, durable, TableInv, PhaseInv, TypeOK
<1>2. pc[w] \notin {"gone", "release"} /\ (pc[w] \in InStage => pc[w] # "start")
  BY DEF Running, Claiming, Looping, InStage
<1> QED BY <1>1, <1>2, HolderStays DEF Undisturbed

\* A call that returns covers the stage it is about with a renewed operation
\* lease; no other stage has a live lease.
LEMMA HolderReturns ==
    ASSUME TableInv, StageHolder, ~StableNames, NEW w \in Worker, NEW e \in Event, Returns(w, e),
           pc[w] \in Running,
           e.kind \notin Staged => pc[w] \notin InStage,
           e.kind = "stage_started" => /\ pc[w] = "start" /\ pc'[w] \in InStage
                                       /\ cur'[w] = e.stage,
           e.kind = "stage_heartbeat" => pc'[w] \in InStage /\ e.stage = cur[w] /\ cur'[w] = cur[w],
           e.kind \in Closing => Publish(w, e) /\ e.stage = cur[w]
    PROVE  StageHolder'
<1>1. /\ LeaseTypeOK /\ now \in Nat /\ now' = now /\ opLease \in Lease
      /\ \A s \in Stage : stLease[s] \in Lease
  BY DEF TableInv, PhaseInv, TypeOK, LeaseTypeOK, Returns, Publish, PublishAgain
<1>2. opLease.owner = w /\ StageFence(w, e)
  BY DEF Returns, Publish, PublishAgain, OperationFence, Holds
<1>3. pc[w] \notin {"gone", "release"}
  BY DEF Running, Claiming, Looping
<1>4. \A s \in Stage : Active(stLease[s]) => pc[w] \in InStage /\ cur[w] = s
  BY <1>2, <1>3, OnlyItsStage
<1>5. CASE e.kind \notin Staged
  <2>1. stLease' = stLease
    BY <1>5 DEF Returns, Publish, PublishAgain, StageLeaseBecomes, Staged, Fenced, Closing
  <2> QED BY <1>1, <1>4, <1>5, <2>1, NoneLive
<1>6. CASE e.kind \in {"stage_started", "stage_heartbeat"}
  <2> DEFINE l == StageLeaseOf(w, e)
  <2>1. e.kind \in Staged /\ e.kind \notin Closing /\ e.kind \notin Terminal /\ e.stage \in Stage
    BY <1>6, EventFields DEF Staged, Fenced, Closing, Terminal
  <2>2. /\ stLease' = [stLease EXCEPT ![e.stage] = l]
        /\ stGrant' = [stGrant EXCEPT ![w][e.stage] = l.token]
        /\ opLease' = Renewed(opLease)
    BY <2>1 DEF Returns, Publish, PublishAgain, StageLeaseBecomes
  <2>3. l.owner = w /\ l.token # 0 /\ l.expires = now + LeaseDuration
    <3>1. stLease[e.stage] \in Lease
      BY <1>1, <2>1
    <3>2. CASE e.kind = "stage_started"
      <4>1. ~Active(stLease[e.stage])
        BY <1>4, <2>1, <3>2 DEF InStage
      <4>2. l = Acquired(stLease[e.stage], w)
        BY <3>2 DEF StageLeaseOf, Closing
      <4>3. stLease[e.stage].token \in Nat
        BY <3>1 DEF Lease
      <4> HIDE DEF l
      <4> QED BY <4>1, <4>2, <4>3 DEF Acquired
    <3>3. CASE e.kind = "stage_heartbeat"
      <4>1. Holds(stLease[e.stage], w, stGrant[w][e.stage])
        BY <1>2, <3>3 DEF StageFence, Fenced
      <4> QED BY <3>1, <3>3, <4>1 DEF StageLeaseOf, Renewed, Holds, Lease, Closing
    <3> QED BY <1>6, <3>2, <3>3
  <2> HIDE DEF l
  <2>4. opLease'.owner = w /\ opLease'.expires = now + LeaseDuration
    BY <1>1, <1>2, <2>2 DEF Renewed, Lease
  <2>5. stLease'[e.stage] = l /\ stGrant'[w][e.stage] = l.token
    BY <1>1, <2>1, <2>2 DEF LeaseTypeOK
  <2>6. pc'[w] \in InStage /\ cur'[w] = e.stage
    BY <1>6
  <2>7. \A s \in Stage : Active(stLease[s])' => s = e.stage
    <3>1. \A s \in Stage : s # e.stage => stLease'[s] = stLease[s]
      BY <1>1, <2>2 DEF LeaseTypeOK
    <3>2. \A s \in Stage : s # e.stage => ~Active(stLease[s])
      BY <1>4, <1>6 DEF InStage
    <3> QED BY <1>1, <3>1, <3>2 DEF Active
  <2>8. ASSUME NEW s \in Stage, s = e.stage PROVE HeldBy(s, w)'
    <3>1. now + LeaseDuration \in Int
      BY <1>1, LeaseAssumption
    <3> QED BY <2>3, <2>4, <2>5, <2>6, <2>8, <3>1 DEF HeldBy
  <2> QED BY <2>7, <2>8 DEF StageHolder
<1>7. CASE e.kind \in Closing
  <2>1. e.kind \in Staged /\ e.stage \in Stage
    BY <1>7, EventFields DEF Staged, Fenced, Closing
  <2>2. stLease' = [stLease EXCEPT ![e.stage] = Released(stLease[e.stage])]
    BY <1>7, <2>1 DEF Publish, StageLeaseBecomes
  <2>3. \A s \in Stage : ~Active(stLease[s])'
    <3>1. stLease'[e.stage].expires = now
      BY <1>1, <2>1, <2>2 DEF Released, LeaseTypeOK, Lease
    <3>2. \A s \in Stage : s # e.stage => stLease'[s] = stLease[s] /\ ~Active(stLease[s])
      BY <1>1, <1>4, <1>7, <2>2 DEF LeaseTypeOK
    <3> QED BY <1>1, <3>1, <3>2 DEF Active
  <2> QED BY <2>3 DEF StageHolder
<1> QED BY <1>5, <1>6, <1>7 DEF Staged, Fenced, Closing

\* Every step keeps the live stage leases held.
LEMMA HolderStep ==
    ASSUME TableInv, StageHolder, [Next]_vars
    PROVE  StageHolder'
<1> SUFFICES ASSUME ~StableNames PROVE StageHolder'
  BY DEF StageHolder
<1>0. /\ pc \in [Worker -> PC] /\ cur \in [Worker -> 0 .. NStages] /\ LeaseTypeOK /\ TypeOK
  BY DEF TableInv, PhaseInv, TypeOK
<1>1. CASE Clock \/ (\E w \in Worker : PollDenied(w) \/ Sleep(w)) \/ UNCHANGED vars
  <2>1. /\ opLease' = opLease /\ stLease' = stLease /\ stGrant' = stGrant /\ pc' = pc /\ cur' = cur
        /\ now' = now \/ now' = now + 1
    BY <1>1 DEF Clock, Tick, PollDenied, ClaimDenied, Sleep, vars, leaseVars, durable, memory, runVars
  <2>2. \A s \in Stage : Active(stLease[s])' => Active(stLease[s])
    <3>1. now \in Nat /\ \A s \in Stage : stLease[s].expires \in Nat
      BY <1>0 DEF LeaseTypeOK, Lease
    <3> QED BY <2>1, <3>1 DEF Active
  <2> QED BY <2>1, <2>2 DEF StageHolder, HeldBy
<1>2. ASSUME NEW w \in Worker,
             SeekClaimed(w) \/ CheckResult(w) \/ SkipCompleted(w) \/ SelectAttempt(w)
               \/ Exhausted(w) \/ DelegateReturns(w) \/ DelegateFails(w) \/ Abort(w)
      PROVE  StageHolder'
  <2>1. /\ UNCHANGED leaseVars
        /\ \A v \in Worker \ {w} : pc'[v] = pc[v] /\ cur'[v] = cur[v]
    BY <1>0, <1>2 DEF SeekClaimed, CheckResult, SkipCompleted, SelectAttempt, Exhausted,
       DelegateReturns, DelegateFails, LeaveRunner, Abort, Goto
  <2>2. /\ pc[w] \notin {"gone", "release"}
        /\ pc[w] \in InStage =>
             pc'[w] = "release" \/ (pc'[w] \in InStage /\ cur'[w] = cur[w])
    BY <1>0, <1>2 DEF SeekClaimed, CheckResult, SkipCompleted, SelectAttempt, Exhausted,
       DelegateReturns, DelegateFails, LeaveRunner, Abort, Goto, InStage
  <2> QED BY <2>1, <2>2, HolderStays DEF leaseVars, durable, memory
<1>3. ASSUME NEW w \in Worker, Poll(w) \/ Release(w)
      PROVE  StageHolder'
  BY <1>3, HolderClaims, HolderReleases
<1>4. ASSUME NEW w \in Worker, PollRefused(w) \/ Crash(w)
      PROVE  StageHolder'
  <2>1. /\ stLease' = stLease /\ opLease' = opLease /\ now' = now
        /\ \A v \in Worker \ {w} : pc'[v] = pc[v] /\ cur'[v] = cur[v] /\ stGrant'[v] = stGrant[v]
        /\ pc[w] = "idle" \/ pc'[w] = "gone"
    BY <1>0, <1>4 DEF PollRefused, ClaimConflict, Crash, LoseMemory, ForgetRun, Goto, durable,
       LeaseTypeOK
  <2> QED BY <2>1, HolderStays DEF InStage
<1>5. ASSUME NEW w \in Worker,
             Announce(w) \/ BlockStage(w) \/ FailOperation(w) \/ CompleteOperation(w)
      PROVE  StageHolder'
  <2>1. /\ pc[w] \in Running /\ pc[w] \notin InStage
        /\ pc[w] \in Looping => blocking[w] \in Stage \/ pc[w] # "block"
    BY <1>5 DEF Announce, BlockStage, FailOperation, CompleteOperation, Running, Claiming,
       Looping, InStage, TableInv, PhaseInv
  <2>2. Undisturbed(w)
    BY <1>0, <1>5 DEF Announce, BlockStage, FailOperation, CompleteOperation, Call, Goto,
       Undisturbed, TypeOK
  <2>3. PICK e \in Event :
          /\ e.kind \notin Staged
          /\ Returns(w, e) \/ (PublishRejected(w, e) /\ pc'[w] = "release")
    <3>1. \A k \in {"operation_claimed", "operation_failed", "operation_completed"} :
            OpEvent(k) \in Event /\ OpEvent(k).kind \notin Staged
      BY OperationEvents DEF OpEvent, Staged, Fenced
    <3>2. pc[w] = "block" => Blocked(blocking[w]) \in Event /\ Blocked(blocking[w]).kind \notin Staged
      BY <2>1, BlockedEvents DEF Blocked, Staged, Fenced, Looping
    <3> QED BY <1>0, <1>5, <3>1, <3>2 DEF Announce, BlockStage, FailOperation, CompleteOperation,
            Call, Goto
  <2>4. CASE Returns(w, e)
    BY <2>1, <2>3, <2>4, HolderReturns DEF Staged, Fenced, Closing
  <2>5. CASE PublishRejected(w, e) /\ pc'[w] = "release"
    BY <2>1, <2>2, <2>3, <2>5, HolderRejected DEF Staged
  <2> QED BY <2>3, <2>4, <2>5
<1>6. ASSUME NEW w \in Worker,
             StartStage(w) \/ BeatActive(w) \/ RenewLeases(w) \/ BeatReconciled(w)
               \/ CompleteStage(w) \/ FailStage(w)
      PROVE  StageHolder'
  <2>1. /\ pc[w] \in Looping /\ pc[w] \in Attempting
        /\ StartStage(w) => pc[w] = "start"
        /\ StartStage(w) \/ (pc[w] \in InStage /\ pc[w] # "start")
    BY <1>6 DEF StartStage, BeatActive, RenewLeases, BeatReconciled, CompleteStage, FailStage,
       Looping, Attempting, InStage
  <2>2. /\ pc[w] \in Running /\ cur[w] \in Stage /\ tries[w] \in Attempt
        /\ pc[w] = "fail" => failure[w] \in {"retryable", "final"}
    BY <2>1, LoopCaller DEF PhaseInv
  <2>3. Undisturbed(w)
    BY <1>0, <1>6 DEF StartStage, BeatActive, RenewLeases, BeatReconciled, CompleteStage, FailStage,
       Call, Goto, Undisturbed, TypeOK
  <2>4. PICK e \in Event :
          /\ e.stage = cur[w] /\ e.attempt = tries[w] /\ e.kind \in Staged
          /\ e.kind = "stage_started" <=> StartStage(w)
          /\ \/ /\ Returns(w, e)
                /\ e.kind \in {"stage_started", "stage_heartbeat"} =>
                      pc'[w] \in InStage /\ cur'[w] = cur[w]
             \/ /\ PublishRejected(w, e)
                /\ pc'[w] = "release" \/ (pc'[w] = pc[w] /\ cur'[w] = cur[w] /\ pc[w] # "start")
    <3> DEFINE Case(e) ==
          /\ e.stage = cur[w] /\ e.attempt = tries[w] /\ e.kind \in Staged
          /\ e.kind = "stage_started" <=> StartStage(w)
          /\ \/ /\ Returns(w, e)
                /\ e.kind \in {"stage_started", "stage_heartbeat"} =>
                      pc'[w] \in InStage /\ cur'[w] = cur[w]
             \/ /\ PublishRejected(w, e)
                /\ pc'[w] = "release" \/ (pc'[w] = pc[w] /\ cur'[w] = cur[w] /\ pc[w] # "start")
    <3>0. \A k, m : LET e == StageEvent(w, k, m) IN
            e.kind = k /\ e.stage = cur[w] /\ e.attempt = tries[w]
      BY DEF StageEvent
    <3>1. CASE StartStage(w)
      <4> DEFINE e == StageEvent(w, "stage_started", "")
      <4>0. e.kind = "stage_started" /\ e.stage = cur[w] /\ e.attempt = tries[w]
        BY <3>0
      <4>2. \/ Returns(w, e) /\ pc'[w] \in InStage /\ cur'[w] = cur[w]
            \/ PublishRejected(w, e) /\ pc'[w] = "release"
        BY <1>0, <3>1 DEF StartStage, Call, Goto, InStage
      <4> HIDE DEF e
      <4>3. Case(e)
        BY <3>1, <4>0, <4>2 DEF Staged
      <4>1. Case(StageEvent(w, "stage_started", ""))
        BY <4>3 DEF e
      <4> QED BY <2>2, <4>1, StageEvents
    <3>2. CASE BeatActive(w) \/ RenewLeases(w) \/ BeatReconciled(w)
      <4>1. \E b \in {"active", "renewed", "reconciled"} : Case(StageEvent(w, "stage_heartbeat", b))
        BY <1>0, <2>1, <3>0, <3>2 DEF BeatActive, RenewLeases, BeatReconciled, Call, Goto, InStage,
           Staged, Fenced
      <4> QED BY <2>2, <4>1, StageEvents
    <3>3. CASE CompleteStage(w)
      <4>1. Case(StageEvent(w, "stage_completed", ""))
        BY <1>0, <2>1, <3>0, <3>3 DEF CompleteStage, Call, Goto, Staged, Fenced
      <4> QED BY <2>2, <4>1, StageEvents
    <3>4. CASE FailStage(w)
      <4>1. Case(StageEvent(w, "stage_failed", failure[w])) /\ pc[w] = "fail"
        BY <1>0, <2>1, <3>0, <3>4 DEF FailStage, Call, Goto, Staged, Fenced
      <4> QED BY <2>2, <4>1, StageEvents
    <3> QED BY <1>6, <3>1, <3>2, <3>3, <3>4
  <2>5. CASE /\ Returns(w, e)
             /\ e.kind \in {"stage_started", "stage_heartbeat"} =>
                   pc'[w] \in InStage /\ cur'[w] = cur[w]
    <3>1. e.kind \in Closing => Publish(w, e)
      <4> SUFFICES ASSUME e.kind \in Closing PROVE Publish(w, e)
        OBVIOUS
      <4>1. pc[w] \in InStage
        BY <2>1, <2>4 DEF Closing
      <4> QED BY <2>4, <2>5, <4>1, CloserKnows
    <3>2. e.kind = "stage_started" => pc[w] = "start"
      BY <2>1, <2>4
    <3> QED BY <2>2, <2>4, <2>5, <3>1, <3>2, HolderReturns
  <2>6. CASE /\ PublishRejected(w, e)
             /\ pc'[w] = "release" \/ (pc'[w] = pc[w] /\ cur'[w] = cur[w] /\ pc[w] # "start")
    <3>1. e.kind = "stage_started" => pc[w] = "start"
      BY <2>1, <2>4
    <3> QED BY <2>2, <2>3, <2>4, <2>6, <3>1, HolderRejected
  <2> QED BY <2>4, <2>5, <2>6
<1> QED BY <1>1, <1>2, <1>3, <1>4, <1>5, <1>6 DEF Next, Progress

\* With names that no restart reuses, a live stage lease is covered by a live
\* operation lease of the same worker: whoever may claim the operation may start
\* its stages.
THEOREM StagesStayInside == Spec => []StageInsideOperation
<1>1. Init => StageHolder
  <2> SUFFICES ASSUME Init, NEW s \in Stage PROVE ~Active(stLease[s])
    BY DEF StageHolder
  <2> QED BY DEF Init, LeaseInit, NoLease, Active
<1>2. TableInv /\ StageHolder /\ [Next]_vars => StageHolder'
  BY HolderStep
<1>3. StageHolder => StageInsideOperation
  BY DEF StageHolder, StageInsideOperation, HeldBy
<1> QED BY <1>1, <1>2, <1>3, TableCorrect, PTL DEF Spec
=============================================================================
