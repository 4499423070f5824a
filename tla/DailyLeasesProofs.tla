------------------------- MODULE DailyLeasesProofs -------------------------
(***************************************************************************)
(* The fencing of the daily-operation store, proved for any number of      *)
(* workers, stages and attempts, any lease duration and any client.        *)
(***************************************************************************)
EXTENDS DailyLeases, TLAPS

-----------------------------------------------------------------------------
(* Values.                                                                 *)

\* What the event kinds have in common: the fields of an event have the types
\* of the columns of the event table, and an event published under a stage
\* lease names a stage.
LEMMA EventFields ==
    ASSUME NEW e \in Event
    PROVE  /\ e.kind \in EventKind
           /\ e.stage \in 0 .. NStages
           /\ e.attempt \in 0 .. MaxAttempts
           /\ e.note \in Note
           /\ e.kind \in Staged => e.stage \in Stage
<1>1. Stage \subseteq 0 .. NStages /\ Attempt \subseteq 0 .. MaxAttempts /\ 0 \in 0 .. NStages
        /\ 0 \in 0 .. MaxAttempts
  BY LeaseAssumption DEF Stage, Attempt
<1>2. CASE e \in [kind : {"operation_claimed"} \cup Terminal, stage : {0}, attempt : {0}, note : {""}]
  <2>1. e.kind \in {"operation_claimed"} \cup Terminal /\ e.stage = 0 /\ e.attempt = 0 /\ e.note = ""
    BY <1>2
  <2> QED BY <2>1, <1>1 DEF EventKind, Note, Staged, Fenced, Terminal
<1>3. CASE e \in [kind : {"stage_blocked"}, stage : Stage, attempt : {0}, note : {""}]
  <2>1. e.kind = "stage_blocked" /\ e.stage \in Stage /\ e.attempt = 0 /\ e.note = ""
    BY <1>3
  <2> QED BY <2>1, <1>1 DEF EventKind, Note, Staged, Fenced, Terminal
<1>4. CASE e \in [kind : {"stage_started", "stage_completed"}, stage : Stage, attempt : Attempt, note : {""}]
  <2>1. e.kind \in {"stage_started", "stage_completed"} /\ e.stage \in Stage
         /\ e.attempt \in Attempt /\ e.note = ""
    BY <1>4
  <2> QED BY <2>1, <1>1 DEF EventKind, Note, Staged, Fenced, Terminal
<1>5. CASE e \in [kind : {"stage_failed"}, stage : Stage, attempt : Attempt, note : {"retryable", "final"}]
  <2>1. e.kind = "stage_failed" /\ e.stage \in Stage /\ e.attempt \in Attempt
         /\ e.note \in {"retryable", "final"}
    BY <1>5
  <2> QED BY <2>1, <1>1 DEF EventKind, Note, Staged, Fenced, Terminal
<1>6. CASE e \in [kind : {"stage_heartbeat"}, stage : Stage, attempt : Attempt, note : Beat]
  <2>1. e.kind = "stage_heartbeat" /\ e.stage \in Stage /\ e.attempt \in Attempt /\ e.note \in Beat
    BY <1>6
  <2> QED BY <2>1, <1>1 DEF EventKind, Note, Staged, Fenced, Terminal
<1> QED BY <1>2, <1>3, <1>4, <1>5, <1>6 DEF Event

\* Acquiring, renewing and releasing a lease row yields a lease row, and never
\* lowers its token; only its owner can acquire it without raising the token.
LEMMA LeaseValues ==
    ASSUME NEW l \in Lease, NEW w \in Worker, now \in Nat
    PROVE  /\ Acquired(l, w) \in Lease
           /\ Acquired(l, w).owner = w
           /\ l.token <= Acquired(l, w).token
           /\ CanAcquire(l, w) /\ Acquired(l, w).token = l.token => l.owner = w
           /\ Renewed(l) \in Lease /\ Renewed(l).owner = l.owner /\ Renewed(l).token = l.token
           /\ Released(l) \in Lease /\ Released(l).owner = l.owner /\ Released(l).token = l.token
BY LeaseAssumption DEF Lease, Acquired, CanAcquire, Active, Renewed, Released

\* Recording one stage grant keeps the table of grants a table of grants.
LEMMA GrantUpdate ==
    ASSUME NEW G \in [Worker -> [Stage -> Nat]],
           NEW w \in Worker, NEW s \in Stage, NEW g \in Nat
    PROVE  [G EXCEPT ![w][s] = g] \in [Worker -> [Stage -> Nat]]
OBVIOUS

\* A row that does not exist is a lease row.
LEMMA NoLeaseType == NoLease \in Lease
BY DEF NoLease, Lease

\* The row a publication adds is a row of the event table.
LEMMA EntryType ==
    ASSUME LeaseTypeOK, NEW w \in Worker, NEW e \in Event
    PROVE  /\ StageLeaseOf(w, e) \in Lease
           /\ EntryOf(w, e) \in Entry
<1>1. e.kind \in EventKind /\ e.stage \in 0 .. NStages /\ e.attempt \in 0 .. MaxAttempts
        /\ e.note \in Note /\ (e.kind \in Staged => e.stage \in Stage)
  BY EventFields
<1>2. \A s \in Stage : stLease[s] \in Lease
  BY DEF LeaseTypeOK
<1>3. StageLeaseOf(w, e) \in Lease
  <2>1. CASE e.kind = "stage_started"
    BY <2>1, <1>1, <1>2, LeaseValues DEF StageLeaseOf, Staged, LeaseTypeOK
  <2>2. CASE e.kind = "stage_heartbeat"
    BY <2>2, <1>1, <1>2, LeaseValues DEF StageLeaseOf, Staged, Fenced, LeaseTypeOK
  <2>3. CASE e.kind \in Closing
    BY <2>3, <1>1, <1>2 DEF StageLeaseOf, Staged, Fenced, Closing
  <2>4. CASE e.kind \notin {"stage_started", "stage_heartbeat"} \cup Closing
    BY <2>4, NoLeaseType DEF StageLeaseOf
  <2> QED BY <2>1, <2>2, <2>3, <2>4
<1>4. opLease.token \in Nat /\ now + LeaseDuration \in Nat
  BY LeaseAssumption DEF LeaseTypeOK, Lease
<1>5. StageLeaseOf(w, e).token \in Nat /\ StageLeaseOf(w, e).expires \in Nat
  BY <1>3 DEF Lease
<1> QED BY <1>1, <1>3, <1>4, <1>5 DEF EntryOf, Entry

-----------------------------------------------------------------------------
(* Types.                                                                  *)

\* One step of any client keeps the types.
LEMMA TypeStep ==
    ASSUME LeaseTypeOK, [LeaseNext]_leaseVars
    PROVE  LeaseTypeOK'
<1> USE LeaseAssumption DEF LeaseTypeOK
<1>1. CASE Tick
  BY <1>1 DEF Tick, durable, memory
<1>2. ASSUME NEW w \in Worker, NEW k \in Key, Claim(w, k)
      PROVE  LeaseTypeOK'
  <2>1. opLease' \in Lease
    BY <1>2, LeaseValues DEF Claim
  <2>2. opLease'.token \in Nat
    BY <2>1 DEF Lease
  <2> QED BY <1>2, <2>1, <2>2 DEF Claim
<1>3. ASSUME NEW w \in Worker, NEW k \in Key, ClaimConflict(w, k)
      PROVE  LeaseTypeOK'
  <2>1. Acquired(opLease, w).token \in Nat
    BY LeaseValues DEF Lease
  <2> QED BY <1>3, <2>1 DEF ClaimConflict, durable
<1>4. ASSUME NEW w \in Worker, ClaimDenied(w)
      PROVE  LeaseTypeOK'
  BY <1>4 DEF ClaimDenied, leaseVars, durable, memory
<1>5. ASSUME NEW w \in Worker, NEW e \in Event, NEW l \in Lease, NEW g \in Nat,
             StageLeaseBecomes(w, e, l, g)
      PROVE  stLease' \in [Stage -> Lease] /\ stGrant' \in [Worker -> [Stage -> Nat]]
  <2>1. CASE e.kind \in Staged
    <3>1. e.stage \in Stage
      BY <2>1, EventFields
    <3>2. stLease' = [stLease EXCEPT ![e.stage] = l] /\ stGrant' = [stGrant EXCEPT ![w][e.stage] = g]
      BY <1>5, <2>1 DEF StageLeaseBecomes
    <3>3. stLease' \in [Stage -> Lease]
      BY <3>1, <3>2
    <3> QED BY <3>1, <3>2, <3>3, GrantUpdate
  <2>2. CASE e.kind \notin Staged
    BY <1>5, <2>2 DEF StageLeaseBecomes
  <2> QED BY <2>1, <2>2
<1>6. ASSUME NEW w \in Worker, NEW e \in Event, Publish(w, e)
      PROVE  LeaseTypeOK'
  <2>1. StageLeaseOf(w, e) \in Lease /\ EntryOf(w, e) \in Entry
    BY EntryType
  <2>2. log' \in Seq(Entry)
    <3>1. log' = Append(log, EntryOf(w, e))
      BY <1>6 DEF Publish
    <3> QED BY <2>1, <3>1
  <2>3. opLease' \in Lease /\ opGrant' \in [Worker -> Nat]
    <3>1. Released(opLease) \in Lease /\ Renewed(opLease) \in Lease
      BY LeaseValues
    <3>2. opLease' \in {Released(opLease), Renewed(opLease)}
          /\ opGrant' \in {opGrant, [opGrant EXCEPT ![w] = 0]}
      BY <1>6 DEF Publish
    <3> QED BY <3>1, <3>2
  <2>4. stLease' \in [Stage -> Lease] /\ stGrant' \in [Worker -> [Stage -> Nat]]
    <3>1. CASE e.kind \in Closing
      <4>1. e.stage \in Stage
        BY <3>1, EventFields DEF Staged, Fenced, Closing
      <4>2. Released(stLease[e.stage]) \in Lease
        BY <4>1, LeaseValues
      <4> QED BY <3>1, <4>2, <1>5, <1>6 DEF Publish
    <3>2. CASE e.kind \notin Closing
      <4>1. StageLeaseOf(w, e).token \in Nat
        BY <2>1 DEF Lease
      <4> QED BY <3>2, <4>1, <2>1, <1>5, <1>6 DEF Publish
    <3> QED BY <3>1, <3>2
  <2> QED BY <1>6, <2>2, <2>3, <2>4 DEF Publish
<1>7. ASSUME NEW w \in Worker, NEW e \in Event, PublishAgain(w, e)
      PROVE  LeaseTypeOK'
  <2>1. StageLeaseOf(w, e) \in Lease
    BY EntryType
  <2>2. StageLeaseOf(w, e).token \in Nat
    BY <2>1 DEF Lease
  <2>3. Renewed(opLease) \in Lease
    BY LeaseValues
  <2> QED BY <1>5, <1>7, <2>1, <2>2, <2>3 DEF PublishAgain
<1>8. ASSUME NEW w \in Worker, NEW e \in Event, PublishRejected(w, e)
      PROVE  LeaseTypeOK'
  <2>1. StageLeaseOf(w, e) \in Lease
    BY EntryType
  <2>2. StageLeaseOf(w, e).token \in Nat
    BY <2>1 DEF Lease
  <2>3. stGrant' \in [Worker -> [Stage -> Nat]]
    <3>1. CASE stGrant' = stGrant
      BY <3>1
    <3>2. CASE stGrant' # stGrant
      <4>1. e.kind = "stage_started"
             /\ stGrant' = [stGrant EXCEPT ![w][e.stage] = StageLeaseOf(w, e).token]
        BY <1>8, <3>2 DEF PublishRejected
      <4>2. e.stage \in Stage
        BY <4>1, EventFields DEF Staged
      <4> QED BY <2>2, <4>1, <4>2, GrantUpdate
    <3> QED BY <3>1, <3>2
  <2> QED BY <1>8, <2>3 DEF PublishRejected, durable
<1>9. ASSUME NEW w \in Worker, ReleaseAll(w)
      PROVE  LeaseTypeOK'
  <2>1. ASSUME NEW l \in Lease, NEW g \in Nat
        PROVE  ReleaseIfOwn(l, w, g) \in Lease
    BY LeaseValues DEF ReleaseIfOwn
  <2>2. opLease' \in Lease /\ stLease' \in [Stage -> Lease]
    BY <1>9, <2>1 DEF ReleaseAll
  <2> QED BY <1>9, <2>2 DEF ReleaseAll, NoGrants
<1>10. ASSUME NEW w \in Worker, LoseMemory(w)
       PROVE  LeaseTypeOK'
  BY <1>10 DEF LoseMemory, durable, NoGrants
<1>11. CASE UNCHANGED leaseVars
  BY <1>11 DEF leaseVars, durable, memory
<1> QED
  BY <1>1, <1>2, <1>3, <1>4, <1>6, <1>7, <1>8, <1>9, <1>10, <1>11 DEF LeaseNext

\* The store's rows, table and grants keep their types.
THEOREM TypeCorrect == LeaseSpec => []LeaseTypeOK
<1>1. LeaseInit => LeaseTypeOK
  BY LeaseAssumption, NoLeaseType DEF LeaseInit, LeaseTypeOK, NoGrants
<1>2. LeaseTypeOK /\ [LeaseNext]_leaseVars => LeaseTypeOK'
  BY TypeStep
<1> QED BY <1>1, <1>2, PTL DEF LeaseSpec

-----------------------------------------------------------------------------
(* Leases change hands only when they lapsed, under a higher token.        *)

Handed == /\ Handover(opLease, opLease')
          /\ \A s \in Stage : Handover(stLease[s], stLease'[s])

\* The three things a transaction does to a lease row, and leaving it alone.
LEMMA HandoverValues ==
    ASSUME NEW l \in Lease, NEW w \in Worker, now \in Nat
    PROVE  /\ Handover(l, l)
           /\ Handover(l, Renewed(l))
           /\ Handover(l, Released(l))
           /\ CanAcquire(l, w) => Handover(l, Acquired(l, w))
<1>1. l.token \in Nat /\ l.expires \in Nat
  BY DEF Lease
<1> QED BY <1>1, LeaseValues DEF Handover, CanAcquire, Acquired, Active, Lease

\* A stage lease under which an event passes the fence is handed over to the
\* publisher, or stays his.
LEMMA StageLeaseHandover ==
    ASSUME LeaseTypeOK, NEW w \in Worker, NEW e \in Event,
           e.kind \in Staged, StageFence(w, e)
    PROVE  /\ Handover(stLease[e.stage], StageLeaseOf(w, e))
           /\ StageLeaseOf(w, e).owner = w
<1>1. e.stage \in Stage
  BY EventFields
<1>2. stLease[e.stage] \in Lease /\ now \in Nat
  BY <1>1 DEF LeaseTypeOK
<1>3. stGrant[w][e.stage] \in Nat
  BY <1>1 DEF LeaseTypeOK
<1>4. CASE e.kind = "stage_started"
  <2>1. CanAcquire(stLease[e.stage], w) /\ StageLeaseOf(w, e) = Acquired(stLease[e.stage], w)
    BY <1>4 DEF StageFence, StageLeaseOf, Closing
  <2> QED BY <2>1, <1>2, HandoverValues, LeaseValues
<1>5. CASE e.kind \in Fenced
  <2>1. Holds(stLease[e.stage], w, stGrant[w][e.stage])
    BY <1>5 DEF StageFence
  <2>2. StageLeaseOf(w, e) \in {stLease[e.stage], Renewed(stLease[e.stage])}
    BY <1>5 DEF StageLeaseOf, Fenced, Closing
  <2> QED BY <2>1, <2>2, <1>2, HandoverValues, LeaseValues DEF Holds
<1> QED BY <1>4, <1>5 DEF Staged

\* Every step of every client hands the leases over properly.
LEMMA StepHandover ==
    ASSUME LeaseTypeOK, [LeaseNext]_leaseVars
    PROVE  Handed
<1> USE DEF LeaseTypeOK
<1>1. CASE opLease' = opLease /\ stLease' = stLease
  BY <1>1 DEF Handover, Handed, Lease
<1>2. ASSUME NEW w \in Worker, NEW k \in Key, Claim(w, k)
      PROVE  Handed
  BY <1>2, HandoverValues DEF Claim, Handed
<1>3. ASSUME NEW w \in Worker, NEW e \in Event, NEW l, NEW g,
             StageLeaseBecomes(w, e, l, g),
             e.kind \in Staged => Handover(stLease[e.stage], l)
      PROVE  \A s \in Stage : Handover(stLease[s], stLease'[s])
  <2>1. CASE e.kind \in Staged
    <3>1. e.stage \in Stage
      BY <2>1, EventFields
    <3>2. stLease' = [stLease EXCEPT ![e.stage] = l]
      BY <1>3, <2>1 DEF StageLeaseBecomes
    <3> QED BY <3>1, <3>2, <1>3, <2>1, HandoverValues
  <2>2. CASE e.kind \notin Staged
    BY <1>3, <2>2, HandoverValues DEF StageLeaseBecomes
  <2> QED BY <2>1, <2>2
<1>4. ASSUME NEW w \in Worker, NEW e \in Event, Publish(w, e)
      PROVE  Handed
  <2>1. opLease' \in {Released(opLease), Renewed(opLease)} /\ StageFence(w, e)
    BY <1>4 DEF Publish
  <2>2. Handover(opLease, opLease')
    BY <2>1, HandoverValues
  <2>3. CASE e.kind \in Closing
    <3>1. StageLeaseBecomes(w, e, Released(stLease[e.stage]), 0)
      BY <1>4, <2>3 DEF Publish
    <3>2. e.stage \in Stage
      BY <2>3, EventFields DEF Closing, Staged, Fenced
    <3>3. Handover(stLease[e.stage], Released(stLease[e.stage]))
      BY <3>2, HandoverValues
    <3> QED BY <3>1, <3>3, <1>3, <2>2 DEF Handed
  <2>4. CASE e.kind \notin Closing
    <3>1. StageLeaseBecomes(w, e, StageLeaseOf(w, e), StageLeaseOf(w, e).token)
      BY <1>4, <2>4 DEF Publish
    <3>2. e.kind \in Staged => Handover(stLease[e.stage], StageLeaseOf(w, e))
      BY <2>1, StageLeaseHandover
    <3> QED BY <3>1, <3>2, <1>3, <2>2 DEF Handed
  <2> QED BY <2>3, <2>4
<1>5. ASSUME NEW w \in Worker, NEW e \in Event, PublishAgain(w, e)
      PROVE  Handed
  <2>1. opLease' = Renewed(opLease) /\ StageFence(w, e)
        /\ StageLeaseBecomes(w, e, StageLeaseOf(w, e), StageLeaseOf(w, e).token)
    BY <1>5 DEF PublishAgain
  <2>2. e.kind \in Staged => Handover(stLease[e.stage], StageLeaseOf(w, e))
    BY <2>1, StageLeaseHandover
  <2> QED BY <2>1, <2>2, <1>3, HandoverValues DEF Handed
<1>6. ASSUME NEW w \in Worker, ReleaseAll(w)
      PROVE  Handed
  <2>1. ASSUME NEW l \in Lease, NEW g
        PROVE  Handover(l, ReleaseIfOwn(l, w, g))
    BY HandoverValues DEF ReleaseIfOwn
  <2> QED BY <1>6, <2>1 DEF ReleaseAll, Handed
<1> QED
  BY <1>1, <1>2, <1>4, <1>5, <1>6
  DEF LeaseNext, Tick, ClaimDenied, ClaimConflict, PublishRejected, LoseMemory, leaseVars, durable

\* No operation or stage lease is ever taken from a worker while it is active,
\* and every change of hands raises the token.
THEOREM LeasesNeverStolen == LeaseSpec => LeasesHandedOver
<1>1. LeaseTypeOK /\ [LeaseNext]_leaseVars
        => [Handover(opLease, opLease') /\ \A s \in Stage : Handover(stLease[s], stLease'[s])]_leaseVars
  BY StepHandover DEF Handed
<1> QED BY <1>1, TypeCorrect, PTL DEF LeaseSpec, LeasesHandedOver

-----------------------------------------------------------------------------
(* The event table records the epochs of the leases in order.              *)

\* The strengthening of FencedHistory and FencedStages: what was published is
\* below the current lease rows, so the next publication, which carries the
\* tokens of those rows, extends an ordered table.
HistoryInv ==
    /\ LeaseTypeOK
    /\ \A i \in DOMAIN log : log[i].stToken # 0 => log[i].stage \in Stage
    /\ HistoryBelowLease
    /\ FencedHistory
    /\ FencedStages

\* Rows of the table stay below the leases when those are handed over.
LEMMA OldRowsBelow ==
    ASSUME HistoryInv, LeaseTypeOK', Handed, NEW i \in DOMAIN log
    PROVE  /\ log[i].opToken <= opLease'.token
           /\ log[i].opToken = opLease'.token => log[i].worker = opLease'.owner
           /\ log[i].stToken # 0 =>
                 /\ log[i].stToken <= stLease'[log[i].stage].token
                 /\ log[i].stToken = stLease'[log[i].stage].token
                       => log[i].worker = stLease'[log[i].stage].owner
<1>1. log[i] \in Entry
  BY DEF HistoryInv, LeaseTypeOK
<1>2. log[i].opToken \in Nat /\ log[i].stToken \in Nat
  BY <1>1 DEF Entry
<1>3. opLease.token \in Nat /\ opLease'.token \in Nat
  BY DEF HistoryInv, LeaseTypeOK, Lease
<1>4. log[i].opToken <= opLease'.token
        /\ (log[i].opToken = opLease'.token => log[i].worker = opLease'.owner)
  <2>1. log[i].opToken <= opLease.token
          /\ (log[i].opToken = opLease.token => log[i].worker = opLease.owner)
    BY DEF HistoryInv, HistoryBelowLease
  <2>2. Handover(opLease, opLease')
    BY DEF Handed
  <2> QED BY <1>2, <1>3, <2>1, <2>2 DEF Handover
<1>5. ASSUME log[i].stToken # 0
      PROVE  /\ log[i].stToken <= stLease'[log[i].stage].token
             /\ log[i].stToken = stLease'[log[i].stage].token
                   => log[i].worker = stLease'[log[i].stage].owner
  <2> DEFINE s == log[i].stage
  <2>1. s \in Stage
    BY <1>5 DEF HistoryInv
  <2>2. stLease[s].token \in Nat /\ stLease'[s].token \in Nat
    BY <2>1 DEF HistoryInv, LeaseTypeOK, Lease
  <2>3. log[i].stToken <= stLease[s].token
          /\ (log[i].stToken = stLease[s].token => log[i].worker = stLease[s].owner)
    BY <1>5 DEF HistoryInv, HistoryBelowLease
  <2>4. Handover(stLease[s], stLease'[s])
    BY <2>1 DEF Handed
  <2> QED BY <1>2, <2>2, <2>3, <2>4 DEF Handover
<1> QED BY <1>4, <1>5

\* The row a publication adds carries the current tokens of its publisher.
LEMMA NewRowOnTop ==
    ASSUME LeaseTypeOK, NEW w \in Worker, NEW e \in Event, Publish(w, e)
    PROVE  /\ EntryOf(w, e).worker = w
           /\ EntryOf(w, e).opToken = opLease.token
           /\ opLease'.token = opLease.token
           /\ opLease.owner = w /\ opLease'.owner = w
           /\ EntryOf(w, e).stToken # 0 =>
                 /\ e.kind \in Staged /\ e.stage \in Stage
                 /\ stLease'[e.stage].token = EntryOf(w, e).stToken
                 /\ stLease'[e.stage].owner = w
<1>1. Holds(opLease, w, opGrant[w]) /\ StageFence(w, e)
  BY DEF Publish, OperationFence
<1>2. opLease' \in {Released(opLease), Renewed(opLease)}
  BY DEF Publish
<1>3. opLease.owner = w /\ opLease'.owner = w /\ opLease'.token = opLease.token
  BY <1>1, <1>2, LeaseValues DEF Holds, LeaseTypeOK
<1>4. ASSUME EntryOf(w, e).stToken # 0
      PROVE  /\ e.kind \in Staged /\ e.stage \in Stage
             /\ stLease'[e.stage].token = EntryOf(w, e).stToken
             /\ stLease'[e.stage].owner = w
  <2>1. StageLeaseOf(w, e).token # 0
    BY <1>4 DEF EntryOf
  <2>2. e.kind \in Staged
    BY <2>1 DEF StageLeaseOf, Staged, Fenced, Closing, NoLease
  <2>3. e.stage \in Stage
    BY <2>2, EventFields
  <2>4. StageLeaseOf(w, e).owner = w
    BY <1>1, <2>2, StageLeaseHandover
  <2>5. CASE e.kind \in Closing
    <3>1. stLease' = [stLease EXCEPT ![e.stage] = Released(stLease[e.stage])]
      BY <2>2, <2>5 DEF Publish, StageLeaseBecomes
    <3>2. StageLeaseOf(w, e) = stLease[e.stage]
      BY <2>5 DEF StageLeaseOf, Closing
    <3>3. stLease'[e.stage] = Released(stLease[e.stage])
      BY <2>3, <3>1 DEF LeaseTypeOK
    <3>4. stLease[e.stage] \in Lease
      BY <2>3 DEF LeaseTypeOK
    <3> QED BY <2>2, <2>3, <2>4, <3>2, <3>3, <3>4, LeaseValues DEF EntryOf, LeaseTypeOK
  <2>6. CASE e.kind \notin Closing
    <3>1. stLease' = [stLease EXCEPT ![e.stage] = StageLeaseOf(w, e)]
      BY <2>2, <2>6 DEF Publish, StageLeaseBecomes
    <3>2. stLease'[e.stage] = StageLeaseOf(w, e)
      BY <2>3, <3>1 DEF LeaseTypeOK
    <3> QED BY <2>2, <2>3, <2>4, <3>2 DEF EntryOf
  <2> QED BY <2>5, <2>6
<1> QED BY <1>3, <1>4 DEF EntryOf

\* Only a publication changes the event table, and it adds one row.
LEMMA StepLog ==
    ASSUME [LeaseNext]_leaseVars
    PROVE  log' = log \/ \E w \in Worker, e \in Event : Publish(w, e)
BY DEF LeaseNext, Tick, Claim, ClaimDenied, ClaimConflict, PublishAgain, PublishRejected,
       ReleaseAll, LoseMemory, leaseVars, durable

\* A step keeps the ordering of the table.
LEMMA HistoryStep ==
    ASSUME HistoryInv, [LeaseNext]_leaseVars
    PROVE  HistoryInv'
<1>1. LeaseTypeOK /\ LeaseTypeOK'
  BY TypeStep DEF HistoryInv
<1>2. Handed
  BY <1>1, StepHandover
<1>3. CASE log' = log
  <2>1. HistoryBelowLease'
    BY <1>1, <1>2, <1>3, OldRowsBelow DEF HistoryBelowLease
  <2> QED BY <1>1, <1>3, <2>1 DEF HistoryInv, FencedHistory, FencedStages
<1>4. ASSUME NEW w \in Worker, NEW e \in Event, Publish(w, e)
      PROVE  HistoryInv'
  <2> DEFINE r == EntryOf(w, e)
             n == Len(log) + 1
  <2>1. log' = Append(log, r) /\ r \in Entry
    BY <1>1, <1>4, EntryType DEF Publish
  <2>2. /\ DOMAIN log' = 1 .. n /\ DOMAIN log = 1 .. Len(log) /\ Len(log) \in Nat
        /\ log'[n] = r
        /\ \A i \in DOMAIN log : log'[i] = log[i]
    BY <1>1, <2>1 DEF LeaseTypeOK
  <2>3. \A i \in DOMAIN log' : i \in DOMAIN log \/ i = n
    BY <2>2
  <2>4. /\ r.worker = w /\ r.stage = e.stage
        /\ r.opToken = opLease'.token /\ opLease'.owner = w
        /\ r.stToken # 0 =>
              /\ e.stage \in Stage
              /\ stLease'[e.stage].token = r.stToken
              /\ stLease'[e.stage].owner = w
    BY <1>1, <1>4, NewRowOnTop DEF EntryOf
  <2>5. \A i \in DOMAIN log' : log'[i].stToken # 0 => log'[i].stage \in Stage
    BY <2>2, <2>3, <2>4 DEF HistoryInv
  <2>6. \A i \in DOMAIN log :
          /\ log[i].opToken <= opLease'.token
          /\ log[i].opToken = opLease'.token => log[i].worker = opLease'.owner
          /\ log[i].stToken # 0 =>
                /\ log[i].stToken <= stLease'[log[i].stage].token
                /\ log[i].stToken = stLease'[log[i].stage].token
                      => log[i].worker = stLease'[log[i].stage].owner
    BY <1>1, <1>2, OldRowsBelow
  <2>7. r.opToken \in Nat /\ r.stToken \in Nat
    BY <2>1 DEF Entry
  <2>8. HistoryBelowLease'
    <3> SUFFICES ASSUME NEW i \in DOMAIN log'
                 PROVE  /\ log'[i].opToken <= opLease'.token
                        /\ log'[i].opToken = opLease'.token => log'[i].worker = opLease'.owner
                        /\ log'[i].stToken # 0 =>
                              /\ log'[i].stToken <= stLease'[log'[i].stage].token
                              /\ log'[i].stToken = stLease'[log'[i].stage].token
                                    => log'[i].worker = stLease'[log'[i].stage].owner
      BY DEF HistoryBelowLease
    <3>1. CASE i \in DOMAIN log
      BY <3>1, <2>2, <2>6
    <3>2. CASE i = n
      BY <3>2, <2>2, <2>4, <2>7
    <3> QED BY <2>3, <3>1, <3>2
  <2>9. FencedHistory'
    <3> SUFFICES ASSUME NEW i \in DOMAIN log', NEW j \in DOMAIN log', i < j
                 PROVE  /\ log'[i].opToken <= log'[j].opToken
                        /\ log'[i].opToken = log'[j].opToken => log'[i].worker = log'[j].worker
      BY DEF FencedHistory
    <3>1. i \in DOMAIN log
      BY <2>2
    <3>2. CASE j \in DOMAIN log
      BY <3>1, <3>2, <2>2 DEF HistoryInv, FencedHistory
    <3>3. CASE j = n
      BY <3>1, <3>3, <2>2, <2>4, <2>6
    <3> QED BY <2>3, <3>2, <3>3
  <2>10. FencedStages'
    <3> SUFFICES ASSUME NEW i \in DOMAIN log', NEW j \in DOMAIN log', i < j,
                        log'[i].stage = log'[j].stage,
                        log'[i].stToken # 0, log'[j].stToken # 0
                 PROVE  /\ log'[i].stToken <= log'[j].stToken
                        /\ log'[i].stToken = log'[j].stToken => log'[i].worker = log'[j].worker
      BY DEF FencedStages
    <3>1. i \in DOMAIN log
      BY <2>2
    <3>2. CASE j \in DOMAIN log
      BY <3>1, <3>2, <2>2 DEF HistoryInv, FencedStages
    <3>3. CASE j = n
      BY <3>1, <3>3, <2>2, <2>4, <2>6
    <3> QED BY <2>3, <3>2, <3>3
  <2> QED BY <1>1, <2>5, <2>8, <2>9, <2>10 DEF HistoryInv
<1> QED BY <1>3, <1>4, StepLog

\* The inductive invariant holds of every client of the store.
THEOREM HistoryOrdered == LeaseSpec => []HistoryInv
<1>1. LeaseInit => HistoryInv
  <2> SUFFICES ASSUME LeaseInit PROVE HistoryInv
    OBVIOUS
  <2>1. LeaseTypeOK
    BY LeaseAssumption, NoLeaseType DEF LeaseInit, LeaseTypeOK, NoGrants
  <2>2. DOMAIN log = {}
    BY DEF LeaseInit
  <2> QED BY <2>1, <2>2 DEF HistoryInv, HistoryBelowLease, FencedHistory, FencedStages
<1>2. HistoryInv /\ [LeaseNext]_leaseVars => HistoryInv'
  BY HistoryStep
<1> QED BY <1>1, <1>2, PTL DEF LeaseSpec

\* A stale worker never publishes: the operation tokens of the event table
\* never decrease, and each belongs to one worker.
THEOREM StaleWorkerNeverPublishes == LeaseSpec => []FencedHistory
BY HistoryOrdered, PTL DEF HistoryInv

\* Nor does a stale worker publish for a stage.
THEOREM StaleStageNeverPublishes == LeaseSpec => []FencedStages
BY HistoryOrdered, PTL DEF HistoryInv
=============================================================================
