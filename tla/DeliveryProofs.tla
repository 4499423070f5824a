--------------------------- MODULE DeliveryProofs ---------------------------
(***************************************************************************)
(* What the alert store promises of cycles, alerts and attempts, for every *)
(* number of workers, channels, attempts and faults and for all leases and *)
(* delays: types, the exclusive claim, the single completion, and what the *)
(* statuses of an alert say of its messages and its attempts.              *)
(***************************************************************************)
EXTENDS Delivery, TLAPS

\* What a worker has in hand, by its label, and the alerts that are pending.
InHand ==
    /\ \A c \in Alert : alert[c].status = "PENDING" =>
          c \in Channel /\ alert[c].attempts < MaxAttempts
    /\ \A w \in Worker :
          /\ pc[w] = "insert" => cur[w] \in Alert
          /\ pc[w] \in {"read", "write"} => cur[w] \in Channel /\ cur[w] \in batch[w]
          /\ pc[w] = "write" => held[w] < MaxAttempts

TypeInv == DeliveryTypeOK /\ InHand

-----------------------------------------------------------------------------
(* Facts about the operators.                                              *)

LEMMA Constants ==
    /\ Lease \in Nat \ {0} /\ RetryDelay \in Nat \ {0}
    /\ MaxAttempts \in Nat \ {0} /\ MaxDelay \in Nat /\ BaseDelay \in 0..MaxDelay
    /\ "suppressed" \in Alert /\ Channel \subseteq Alert /\ NoRow \notin Alert
    /\ NoWorker \notin Worker
  BY CycleTimes, DeliveryConstants, BackoffGrows DEF Alert

\* A claim, a completion, a failure and the passing of time yield cycle rows.
LEMMA CycleRows ==
    /\ NoCycle \in CycleRow /\ Begun \in CycleRow /\ Completed \in CycleRow
    /\ Failed \in CycleRow
    /\ \A row \in CycleRow : /\ Aged(row) \in CycleRow
                             /\ Aged(row).status = row.status
                             /\ Aged(row).lease = Down(row.lease)
<1>1. /\ NoCycle \in CycleRow /\ Begun \in CycleRow /\ Completed \in CycleRow
      /\ Failed \in CycleRow
  BY CycleTimes DEF NoCycle, Begun, Completed, Failed, CycleRow
<1>2. ASSUME NEW row \in CycleRow
      PROVE  /\ Aged(row) \in CycleRow
             /\ Aged(row).status = row.status
             /\ Aged(row).lease = Down(row.lease)
  <2>1. Down(row.lease) \in 0..Lease /\ Down(row.wait) \in 0..RetryDelay
    BY CycleTimes DEF CycleRow, Down
  <2> QED BY <2>1 DEF CycleRow, Aged
<1> QED BY <1>1, <1>2

\* An attempt that was counted from less than the maximum yields a row again.
LEMMA AttemptedRow ==
    ASSUME NEW n \in 0..MaxAttempts, n < MaxAttempts, NEW good \in BOOLEAN,
           NEW elapsed \in 0..MaxDelay
    PROVE  LET next == Attempted(n + 1, good, elapsed)
           IN /\ next \in AlertRow
              /\ next.attempts = n + 1
              /\ next.status = "SENT" <=> good
              /\ next.status = "PENDING" => n + 1 < MaxAttempts
              /\ next.status = "FAILED" => n + 1 = MaxAttempts
              /\ next.status \in {"SENT", "FAILED", "PENDING"}
<1>1. n + 1 \in 1..MaxAttempts
  BY Constants
<1>2. CASE good
  BY <1>1, <1>2, Constants DEF Attempted, AlertRow
<1>3. CASE ~good /\ n + 1 >= MaxAttempts
  BY <1>1, <1>3, Constants DEF Attempted, AlertRow
<1>4. CASE ~good /\ ~(n + 1 >= MaxAttempts)
  <2>1. Delay(n + 1) \in 0..MaxDelay
    BY <1>1, <1>4, BackoffGrows, Constants
  <2>2. /\ Attempted(n + 1, good, elapsed).status = "PENDING"
        /\ Attempted(n + 1, good, elapsed).attempts = n + 1
        /\ Attempted(n + 1, good, elapsed) \in AlertRow
    BY <1>1, <1>4, <2>1, Constants DEF Attempted, AlertRow
  <2> QED BY <1>1, <1>4, <2>2, Constants
<1> QED BY <1>2, <1>3, <1>4

-----------------------------------------------------------------------------
(* Types.                                                                  *)

LEMMA InitTypes == Init => TypeInv
<1> SUFFICES ASSUME Init PROVE TypeInv
  OBVIOUS
<1>1. DeliveryTypeOK
  <2>1. cycle \in CycleRow /\ NoAlert \in AlertRow /\ claim \in [Worker -> 0..Lease]
    BY CycleRows, Constants DEF Init, NoAlert, AlertRow
  <2>2. /\ alert \in [Alert -> AlertRow]
        /\ tries \in [Alert -> [rows : 0..MaxAttempts, ok : BOOLEAN]]
    BY <2>1, Constants DEF Init
  <2>3. /\ pc \in [Worker -> Label] /\ plan \in [Worker -> SUBSET Alert]
        /\ todo \in [Worker -> SUBSET Alert] /\ batch \in [Worker -> SUBSET Channel]
        /\ cur \in [Worker -> Alert \cup {NoRow}] /\ held \in [Worker -> 0..MaxAttempts]
        /\ ok \in [Worker -> BOOLEAN] /\ age \in [Worker -> 0..MaxDelay]
    BY Constants DEF Init, Label
  <2>4. completions \in 0..2 /\ faults \in 0..MaxFaults
    BY DeliveryConstants DEF Init
  <2>5. /\ left \subseteq Channel /\ acking \in Channel \cup {NoRow}
        /\ holder \in Worker \cup {NoWorker}
        /\ announced \subseteq Alert /\ crowded \subseteq Alert /\ repeated \subseteq Alert
    BY DEF Init
  <2>6. overtaken \in BOOLEAN /\ reverted \in BOOLEAN /\ passed \in BOOLEAN
    BY DEF Init
  <2> QED BY <2>1, <2>2, <2>3, <2>4, <2>5, <2>6 DEF DeliveryTypeOK
<1>2. InHand
  BY DEF Init, InHand, NoAlert
<1> QED BY <1>1, <1>2 DEF TypeInv

\* The local steps of a worker that touch neither the cycle nor the alerts.
LEMMA LocalTypes ==
    ASSUME TypeInv, NEW w \in Worker,
           \/ RunExecutor(w) \/ RunFails(w) \/ \E c \in Alert : LookUp(w, c)
           \/ ReadPending(w) \/ Crash(w) \/ Reload(w)
    PROVE  TypeInv'
<1> USE DEF Goto, history, local, store, Label, Executing
<1>1. CASE RunExecutor(w)
  BY <1>1, Constants DEF RunExecutor, TypeInv, DeliveryTypeOK, InHand
<1>2. CASE RunFails(w)
  <2>1. /\ pc' \in [Worker -> Label] /\ cur' \in [Worker -> Alert \cup {NoRow}]
        /\ pc'[w] \in {"failing", "undo"}
        /\ \A v \in Worker \ {w} : pc'[v] = pc[v] /\ cur'[v] = cur[v]
    BY <1>2, Constants DEF RunFails, TypeInv, DeliveryTypeOK
  <2>2. faults' \in 0..MaxFaults
    BY <1>2, DeliveryConstants DEF RunFails, TypeInv, DeliveryTypeOK
  <2> QED BY <1>2, <2>1, <2>2 DEF RunFails, TypeInv, DeliveryTypeOK, InHand
<1>3. ASSUME NEW c \in Alert, LookUp(w, c) PROVE TypeInv'
  <2>1. CASE alert[c].status # "none"
    BY <1>3, <2>1 DEF LookUp, TypeInv, DeliveryTypeOK, InHand
  <2>2. CASE alert[c].status = "none"
    <3>1. pc' = [pc EXCEPT ![w] = "insert"] /\ cur' = [cur EXCEPT ![w] = c]
          /\ todo' = [todo EXCEPT ![w] = @ \ {c}]
      BY <1>3, <2>2 DEF LookUp
    <3>2. /\ pc' \in [Worker -> Label] /\ cur' \in [Worker -> Alert \cup {NoRow}]
          /\ todo' \in [Worker -> SUBSET Alert]
          /\ pc'[w] = "insert" /\ cur'[w] = c
          /\ \A v \in Worker \ {w} : pc'[v] = pc[v] /\ cur'[v] = cur[v]
      BY <3>1 DEF TypeInv, DeliveryTypeOK
    <3> QED BY <1>3, <3>2 DEF LookUp, TypeInv, DeliveryTypeOK, InHand
  <2> QED BY <2>1, <2>2
<1>4. CASE ReadPending(w)
  <2>1. Due \subseteq Channel
    BY DEF TypeInv, InHand, Due
  <2> QED BY <1>4, <2>1, Constants DEF ReadPending, TypeInv, DeliveryTypeOK, InHand
<1>5. CASE Crash(w)
  BY <1>5, DeliveryConstants, Constants DEF Crash, TypeInv, DeliveryTypeOK, InHand
<1>6. CASE Reload(w)
  BY <1>6 DEF Reload, TypeInv, DeliveryTypeOK, InHand
<1> QED BY <1>1, <1>2, <1>3, <1>4, <1>5, <1>6

\* The steps that claim, complete or fail the cycle.
LEMMA CycleTypes ==
    ASSUME TypeInv, NEW w \in Worker, RunDue(w) \/ CompleteCycle(w) \/ FailCycle(w)
    PROVE  TypeInv'
<1> USE DEF Goto, history, local, store, Label, Executing, Ends
<1>1. CASE RunDue(w)
  <2>1. cycle' \in CycleRow /\ claim' \in [Worker -> 0..Lease] /\ holder' \in Worker \cup {NoWorker}
    BY <1>1, CycleRows, Constants DEF RunDue, TypeInv, DeliveryTypeOK
  <2>2. pc' \in [Worker -> Label] /\ \A v \in Worker : pc'[v] = pc[v] \/ pc'[v] \in {"run", "dispatch"}
    BY <1>1 DEF RunDue, TypeInv, DeliveryTypeOK
  <2> QED BY <1>1, <2>1, <2>2 DEF RunDue, TypeInv, DeliveryTypeOK, InHand
<1>2. CASE CompleteCycle(w)
  BY <1>2, CycleRows, Constants DEF CompleteCycle, TypeInv, DeliveryTypeOK, InHand
<1>3. CASE FailCycle(w)
  BY <1>3, CycleRows, Constants DEF FailCycle, TypeInv, DeliveryTypeOK, InHand
<1> QED BY <1>1, <1>2, <1>3
\* The steps on the alerts, the attempts and the messages.
LEMMA NextAlertTypes ==
    ASSUME TypeInv, NEW w \in Worker, pc[w] \in {"read", "write"}, NextAlert(w)
    PROVE  /\ pc' \in [Worker -> Label] /\ batch' \in [Worker -> SUBSET Channel]
           /\ cur' \in [Worker -> Alert \cup {NoRow}] /\ held' \in [Worker -> 0..MaxAttempts]
           /\ ok' \in [Worker -> BOOLEAN] /\ age' \in [Worker -> 0..MaxDelay]
           /\ pc'[w] \in {"idle", "send"}
           /\ \A v \in Worker \ {w} : /\ pc'[v] = pc[v] /\ batch'[v] = batch[v]
                                      /\ cur'[v] = cur[v] /\ held'[v] = held[v]
                                      /\ ok'[v] = ok[v]
           /\ batch'[w] = batch[w] \ {cur[w]}
<1>1. /\ pc \in [Worker -> Label] /\ batch \in [Worker -> SUBSET Channel]
      /\ cur \in [Worker -> Alert \cup {NoRow}] /\ held \in [Worker -> 0..MaxAttempts]
      /\ ok \in [Worker -> BOOLEAN] /\ age \in [Worker -> 0..MaxDelay]
  BY DEF TypeInv, DeliveryTypeOK
<1>2. \/ pc' = [pc EXCEPT ![w] = "idle"] /\ age' = [age EXCEPT ![w] = 0]
      \/ pc' = [pc EXCEPT ![w] = "send"] /\ age' = age
  BY DEF NextAlert, Goto
<1>3. pc' \in [Worker -> Label] /\ age' \in [Worker -> 0..MaxDelay] /\ pc'[w] \in {"idle", "send"}
      /\ \A v \in Worker \ {w} : pc'[v] = pc[v]
  BY <1>1, <1>2, Constants DEF Label, Executing
<1>4. /\ batch' = [batch EXCEPT ![w] = @ \ {cur[w]}] /\ cur' = [cur EXCEPT ![w] = NoRow]
      /\ held' = [held EXCEPT ![w] = 0] /\ ok' = [ok EXCEPT ![w] = FALSE]
  BY DEF NextAlert
<1> QED BY <1>1, <1>3, <1>4, Constants

LEMMA AlertTypes ==
    ASSUME TypeInv, NEW w \in Worker,
           Insert(w) \/ ReadAttempt(w) \/ RecordAttempt(w) \/ \E c \in Alert : Send(w, c)
    PROVE  TypeInv'
<1> USE DEF history, local, store
<1>1. CASE Insert(w)
  <2>1. pc[w] = "insert" /\ cur[w] \in Alert
    BY <1>1 DEF Insert, TypeInv, InHand
  <2> DEFINE Rows == /\ alert' \in [Alert -> AlertRow]
                     /\ \A c \in Alert : alert'[c].status = "PENDING" =>
                            c \in Channel /\ alert'[c].attempts < MaxAttempts
  <2>2. Rows
    <3>1. CASE alert' = alert
      BY <3>1 DEF TypeInv, DeliveryTypeOK, InHand
    <3>2. CASE alert' = [alert EXCEPT !["suppressed"].status = "SUPPRESSED"]
      <4>1. [alert["suppressed"] EXCEPT !.status = "SUPPRESSED"] \in AlertRow
        BY Constants DEF TypeInv, DeliveryTypeOK, AlertRow
      <4>2. [alert["suppressed"] EXCEPT !.status = "SUPPRESSED"].status = "SUPPRESSED"
        BY Constants DEF TypeInv, DeliveryTypeOK, AlertRow
      <4> QED BY <3>2, <4>1, <4>2, Constants DEF TypeInv, DeliveryTypeOK, InHand
    <3>3. ASSUME NEW delay \in {0, BaseDelay}, cur[w] # "suppressed",
                 alert' = [alert EXCEPT ![cur[w]] =
                            [status |-> "PENDING", attempts |-> 0, wait |-> delay]]
          PROVE  Rows
      BY <2>1, <3>3, Constants DEF TypeInv, DeliveryTypeOK, InHand, AlertRow, Alert
    <3> QED BY <1>1, <3>1, <3>2, <3>3 DEF Insert
  <2>3. pc' \in [Worker -> Label] /\ pc'[w] \in {"failing", "queue"}
        /\ \A v \in Worker \ {w} : pc'[v] = pc[v] /\ cur'[v] = cur[v]
    BY <1>1 DEF Insert, Goto, TypeInv, DeliveryTypeOK, Label, Executing
  <2> QED BY <1>1, <2>2, <2>3, Constants DEF Insert, TypeInv, DeliveryTypeOK, InHand
<1>2. CASE ReadAttempt(w)
  <2>1. CASE alert[cur[w]].status # "PENDING" /\ NextAlert(w)
    BY <1>2, <2>1, NextAlertTypes DEF ReadAttempt, TypeInv, DeliveryTypeOK, InHand
  <2>2. CASE /\ alert[cur[w]].status = "PENDING"
             /\ held' = [held EXCEPT ![w] = alert[cur[w]].attempts]
             /\ Goto(w, "write") /\ UNCHANGED <<batch, cur, ok, age>>
    <3>1. /\ cur[w] \in Channel /\ cur[w] \in batch[w]
          /\ alert[cur[w]].attempts \in 0..MaxAttempts
          /\ alert[cur[w]].attempts < MaxAttempts
      BY <1>2, <2>2, Constants DEF ReadAttempt, TypeInv, DeliveryTypeOK, InHand, AlertRow
    <3> QED BY <1>2, <2>2, <3>1 DEF ReadAttempt, TypeInv, DeliveryTypeOK, InHand, Goto, Label
  <2> QED BY <1>2, <2>1, <2>2 DEF ReadAttempt
<1>3. CASE RecordAttempt(w)
  <2> DEFINE next == Attempted(held[w] + 1, ok[w], age[w])
  <2>1. /\ cur[w] \in Channel /\ held[w] \in 0..MaxAttempts /\ held[w] < MaxAttempts
        /\ ok[w] \in BOOLEAN /\ age[w] \in 0..MaxDelay /\ pc[w] = "write"
    BY <1>3 DEF RecordAttempt, TypeInv, DeliveryTypeOK, InHand
  <2>2. next \in AlertRow /\ (next.status = "PENDING" => next.attempts < MaxAttempts)
    BY <2>1, AttemptedRow
  <2>3. /\ alert' = [alert EXCEPT ![cur[w]] = next]
        /\ tries' = [tries EXCEPT ![cur[w]] =
                [rows |-> IF @.rows < MaxAttempts THEN @.rows + 1 ELSE @.rows,
                 ok |-> @.ok \/ ok[w]]]
        /\ repeated' = repeated \/ repeated' = repeated \cup {cur[w]}
    BY <1>3 DEF RecordAttempt
  <2> HIDE DEF next
  <2>4. /\ alert' \in [Alert -> AlertRow]
        /\ \A c \in Alert : alert'[c].status = "PENDING" =>
               c \in Channel /\ alert'[c].attempts < MaxAttempts
    BY <2>1, <2>2, <2>3, Constants DEF TypeInv, DeliveryTypeOK, InHand
  <2>5. tries' \in [Alert -> [rows : 0..MaxAttempts, ok : BOOLEAN]] /\ repeated' \subseteq Alert
    BY <2>1, <2>3, Constants DEF TypeInv, DeliveryTypeOK
  <2>6. NextAlert(w)
    BY <1>3 DEF RecordAttempt
  <2> QED BY <1>3, <2>1, <2>4, <2>5, <2>6, NextAlertTypes
          DEF RecordAttempt, TypeInv, DeliveryTypeOK, InHand
<1>4. ASSUME NEW c \in Alert, Send(w, c) PROVE TypeInv'
  <2>1. c \in Channel /\ c \in batch[w]
    BY <1>4 DEF Send, TypeInv, DeliveryTypeOK
  <2>2. PICK sent, good \in BOOLEAN :
            /\ ok' = [ok EXCEPT ![w] = good]
            /\ left' = IF sent THEN left \cup {c} ELSE left
            /\ repeated' = IF sent /\ tries[c].ok THEN repeated \cup {c} ELSE repeated
    BY <1>4 DEF Send
  <2>3. ok' \in [Worker -> BOOLEAN] /\ left' \subseteq Channel /\ repeated' \subseteq Alert
    BY <2>1, <2>2, Constants DEF TypeInv, DeliveryTypeOK
  <2> QED BY <1>4, <2>1, <2>3, Constants DEF Send, Goto, Label, TypeInv, DeliveryTypeOK, InHand
<1> QED BY <1>1, <1>2, <1>3, <1>4

\* The steps of the account and of time.
LEMMA OutsideTypes ==
    ASSUME TypeInv,
           \/ Acknowledge \/ SlotPasses \/ Tick
           \/ \E c \in Channel : ReadForAcknowledgement(c)
    PROVE  TypeInv'
<1> USE DEF history, local, store
<1>1. CASE Acknowledge
  <2>1. acking \in Channel /\ alert' = [alert EXCEPT ![acking].status = "ACKNOWLEDGED"]
    BY <1>1 DEF Acknowledge, TypeInv, DeliveryTypeOK
  <2>2. /\ alert' \in [Alert -> AlertRow]
        /\ \A c \in Alert : alert'[c].status = "PENDING" =>
               c \in Channel /\ alert'[c].attempts < MaxAttempts
    BY <2>1, Constants DEF TypeInv, DeliveryTypeOK, InHand, AlertRow
  <2> QED BY <1>1, <2>2 DEF Acknowledge, TypeInv, DeliveryTypeOK, InHand
<1>2. CASE Tick
  <2>1. cycle' \in CycleRow
    BY <1>2, CycleRows DEF Tick, TypeInv, DeliveryTypeOK
  <2>2. \A c \in Alert : /\ alert'[c] \in AlertRow
                        /\ alert'[c].status = alert[c].status
                        /\ alert'[c].attempts = alert[c].attempts
    BY <1>2, Constants DEF Tick, TypeInv, DeliveryTypeOK, AlertRow, Down
  <2>3. alert' \in [Alert -> AlertRow] /\ claim' \in [Worker -> 0..Lease]
    BY <1>2, <2>2, Constants DEF Tick, TypeInv, DeliveryTypeOK, Down
  <2>4. age' \in [Worker -> 0..MaxDelay]
    BY <1>2, Constants DEF Tick, TypeInv, DeliveryTypeOK
  <2> QED BY <1>2, <2>1, <2>2, <2>3, <2>4 DEF Tick, TypeInv, DeliveryTypeOK, InHand
<1>3. ASSUME NEW c \in Channel, ReadForAcknowledgement(c) PROVE TypeInv'
  BY <1>3 DEF ReadForAcknowledgement, TypeInv, DeliveryTypeOK, InHand
<1>4. CASE SlotPasses
  BY <1>4 DEF SlotPasses, TypeInv, DeliveryTypeOK, InHand
<1> QED BY <1>1, <1>2, <1>3, <1>4

\* What next-state proofs split on.
LEMMA StepCases ==
    ASSUME [Next]_vars
    PROVE  \/ UNCHANGED vars
           \/ \E w \in Worker :
                \/ RunDue(w) \/ CompleteCycle(w) \/ FailCycle(w)
                \/ RunExecutor(w) \/ RunFails(w) \/ \E c \in Alert : LookUp(w, c)
                \/ ReadPending(w) \/ Crash(w) \/ Reload(w) \/ Insert(w) \/ ReadAttempt(w)
                \/ RecordAttempt(w) \/ \E c \in Alert : Send(w, c)
           \/ Acknowledge \/ SlotPasses \/ Tick
           \/ \E c \in Channel : ReadForAcknowledgement(c)
  BY DEF Next, Progress

LEMMA TypesPreserved == TypeInv /\ [Next]_vars => TypeInv'
<1> SUFFICES ASSUME TypeInv, [Next]_vars PROVE TypeInv'
  OBVIOUS
<1>1. CASE UNCHANGED vars
  BY <1>1 DEF vars, store, local, history, TypeInv, DeliveryTypeOK, InHand
<1> QED BY <1>1, StepCases, LocalTypes, CycleTypes, AlertTypes, OutsideTypes

\* The store and the locals of its workers keep their types (delivery/store.py).
THEOREM TypesOfDelivery == Spec => []DeliveryTypeOK
<1>1. TypeInv => DeliveryTypeOK
  BY DEF TypeInv
<1> QED BY <1>1, InitTypes, TypesPreserved, PTL DEF Spec
-----------------------------------------------------------------------------
(* The claim on the cycle.                                                 *)

\* Before anybody ends a cycle that another worker has claimed, or records a
\* failure over a completion, a completion leaves the row completed, and nobody
\* claims it again.
CompletedStays ==
    ~overtaken /\ ~reverted =>
        completions = 0 \/ (completions = 1 /\ cycle.status = "COMPLETED")

CycleInv == TypeInv /\ ClaimIsExclusive /\ CompletedStays

\* A worker at another label than before, at most, and the cycle left alone.
LEMMA CycleUntouched ==
    ASSUME CycleInv, UNCHANGED <<cycle, claim, holder, overtaken, reverted, completions>>,
           \A v \in Worker : pc'[v] \in Executing => pc[v] \in Executing
    PROVE  ClaimIsExclusive' /\ CompletedStays'
  BY DEF CycleInv, ClaimIsExclusive, CompletedStays

\* The end of a worker's cycle: unless it was overtaken, it was the holder, and
\* no other worker has anything left of its lease.
LEMMA EndOfTurn ==
    ASSUME CycleInv, NEW w \in Worker, Ends(w), ~overtaken'
    PROVE  /\ ~overtaken /\ holder = w
           /\ \A v \in Worker \ {w} : pc[v] \in Executing => claim[v] = 0 /\ claim'[v] = 0
           /\ pc[w] \in Executing => cycle.status = "RUNNING" /\ (~reverted => completions = 0)
  BY DEF CycleInv, TypeInv, DeliveryTypeOK, ClaimIsExclusive, CompletedStays, Ends

LEMMA CyclePreserved == CycleInv /\ [Next]_vars => CycleInv'
<1> SUFFICES ASSUME CycleInv, [Next]_vars PROVE CycleInv'
  OBVIOUS
<1> DEFINE Kept == ClaimIsExclusive' /\ CompletedStays'
<1>1. TypeInv'
  BY TypesPreserved DEF CycleInv
<1> SUFFICES Kept
  BY <1>1 DEF CycleInv
<1>t. /\ pc \in [Worker -> Label] /\ claim \in [Worker -> 0..Lease] /\ cycle \in CycleRow
      /\ completions \in 0..2 /\ overtaken \in BOOLEAN /\ reverted \in BOOLEAN
  BY DEF CycleInv, TypeInv, DeliveryTypeOK
<1> USE DEF Executing
<1>2. CASE UNCHANGED vars
  BY <1>2, CycleUntouched DEF vars, store, local, history
<1>3. ASSUME NEW w \in Worker, RunDue(w) PROVE Kept
  <2>1. CASE passed \/ ~AttemptDue(cycle)
    BY <1>3, <1>t, <2>1, CycleUntouched DEF RunDue, Goto
  <2>2. CASE ~passed /\ AttemptDue(cycle)
    <3>1. /\ cycle' = Begun /\ claim' = [claim EXCEPT ![w] = Lease] /\ holder' = w
          /\ pc' = [pc EXCEPT ![w] = "run"]
          /\ UNCHANGED <<overtaken, reverted, completions>>
      BY <1>3, <2>2 DEF RunDue, Goto
    <3>2. cycle'.status = "RUNNING" /\ cycle'.lease = Lease
      BY <3>1 DEF Begun
    <3>3. cycle.status # "COMPLETED" /\ (cycle.status = "RUNNING" => cycle.lease = 0)
      BY <2>2 DEF AttemptDue
    <3>4. ASSUME ~overtaken, NEW v \in Worker, v # w, pc'[v] \in Executing
          PROVE  claim'[v] = 0
      BY <1>t, <3>1, <3>3, <3>4 DEF CycleInv, ClaimIsExclusive
    <3>5. ClaimIsExclusive'
      BY <1>t, <3>1, <3>2, <3>4 DEF ClaimIsExclusive
    <3>6. CompletedStays'
      BY <3>1, <3>3 DEF CycleInv, CompletedStays
    <3> QED BY <3>5, <3>6
  <2> QED BY <2>1, <2>2
<1>4. ASSUME NEW w \in Worker, CompleteCycle(w) PROVE Kept
  <2>1. /\ pc[w] \in Executing /\ Ends(w) /\ cycle'.status = "COMPLETED"
        /\ completions' = IF completions < 2 THEN completions + 1 ELSE 2
        /\ pc' = [pc EXCEPT ![w] = "reload"] /\ holder' = holder /\ reverted' = reverted
    BY <1>4 DEF CompleteCycle, Goto, Completed
  <2> QED BY <1>t, <2>1, EndOfTurn DEF ClaimIsExclusive, CompletedStays
<1>5. ASSUME NEW w \in Worker, FailCycle(w) PROVE Kept
  <2>1. /\ Ends(w) /\ completions' = completions
        /\ reverted' = (reverted \/ cycle.status = "COMPLETED")
        /\ pc' = [pc EXCEPT ![w] = "dispatch"] /\ holder' = holder
    BY <1>5 DEF FailCycle, Goto
  <2>2. ClaimIsExclusive'
    BY <1>t, <2>1, EndOfTurn DEF ClaimIsExclusive
  <2>3. CompletedStays'
    BY <1>t, <2>1, EndOfTurn DEF CycleInv, CompletedStays
  <2> QED BY <2>2, <2>3
<1>6. ASSUME NEW w \in Worker, RunExecutor(w) PROVE Kept
  BY <1>6, <1>t, CycleUntouched DEF RunExecutor, Goto, store, history
<1>7. ASSUME NEW w \in Worker, RunFails(w) PROVE Kept
  BY <1>7, <1>t, CycleUntouched DEF RunFails, Goto, store
<1>18. ASSUME NEW w \in Worker, Reload(w) PROVE Kept
  BY <1>18, <1>t, CycleUntouched DEF Reload, Goto, store, history
<1>19. CASE SlotPasses
  BY <1>19, CycleUntouched DEF SlotPasses, local, history
<1>8. ASSUME NEW w \in Worker, NEW c \in Alert, LookUp(w, c) PROVE Kept
  BY <1>8, <1>t, CycleUntouched DEF LookUp, Goto, store, history
<1>9. ASSUME NEW w \in Worker, ReadPending(w) PROVE Kept
  BY <1>9, <1>t, CycleUntouched DEF ReadPending, Goto, store
<1>10. ASSUME NEW w \in Worker, Crash(w) PROVE Kept
  BY <1>10, <1>t DEF CycleInv, ClaimIsExclusive, CompletedStays, Crash, Goto, store
<1>11. ASSUME NEW w \in Worker, Insert(w) PROVE Kept
  BY <1>11, <1>t, CycleUntouched DEF Insert, Goto, history
<1>12. ASSUME NEW w \in Worker, ReadAttempt(w) PROVE Kept
  BY <1>12, <1>t, CycleUntouched DEF ReadAttempt, NextAlert, Goto, store, history
<1>13. ASSUME NEW w \in Worker, RecordAttempt(w) PROVE Kept
  BY <1>13, <1>t, CycleUntouched DEF RecordAttempt, NextAlert, Goto
<1>14. ASSUME NEW w \in Worker, NEW c \in Alert, Send(w, c) PROVE Kept
  BY <1>14, <1>t, CycleUntouched DEF Send, Goto
<1>15. CASE Acknowledge
  BY <1>15, CycleUntouched DEF Acknowledge, local, history
<1>16. ASSUME NEW c \in Channel, ReadForAcknowledgement(c) PROVE Kept
  BY <1>16, CycleUntouched DEF ReadForAcknowledgement, local, history
<1>17. CASE Tick
  <2>1. /\ cycle'.status = cycle.status /\ cycle'.lease = Down(cycle.lease)
        /\ claim' = [v \in Worker |-> Down(claim[v])]
        /\ UNCHANGED <<pc, holder, overtaken, reverted, completions>>
    BY <1>17, <1>t, CycleRows DEF Tick
  <2>2. Down(0) = 0
    BY DEF Down
  <2> QED BY <2>1, <2>2 DEF CycleInv, ClaimIsExclusive, CompletedStays
<1> QED BY <1>2, <1>3, <1>4, <1>5, <1>6, <1>7, <1>8, <1>9, <1>10, <1>11, <1>12, <1>13,
           <1>14, <1>15, <1>16, <1>17, <1>18, <1>19, StepCases

LEMMA CycleStart == Init => CycleInv
  BY InitTypes DEF Init, CycleInv, ClaimIsExclusive, CompletedStays, Executing

\* Until a worker ends a cycle another one has claimed, whoever executes it holds
\* its running claim or has outlived its lease (delivery/store.py, begin_cycle).
THEOREM ClaimsAreExclusive == Spec => []ClaimIsExclusive
<1>1. CycleInv => ClaimIsExclusive
  BY DEF CycleInv
<1> QED BY <1>1, CycleStart, CyclePreserved, PTL DEF Spec

\* As long as that does not happen and no failure is recorded over a completion,
\* the cycle is completed once at most, however often it fails, runs out of its
\* lease, and is claimed again (delivery/store.py, complete_cycle, fail_cycle).
THEOREM CompletionsAreSingle == Spec => []CompletedOnceInTurn
<1>1. CycleInv => CompletedOnceInTurn
  BY DEF CycleInv, CompletedStays, CompletedOnceInTurn
<1> QED BY <1>1, CycleStart, CyclePreserved, PTL DEF Spec
-----------------------------------------------------------------------------
(* Queueing: what a completed run has announced.                           *)

\* What a run has looked up is queued, but for the alert it is about to insert.
LookedUpIsQueued ==
    \A w \in Worker : pc[w] \in {"queue", "insert"} =>
        \A c \in plan[w] \ todo[w] :
            alert[c].status # "none" \/ (pc[w] = "insert" /\ c = cur[w])

QueueInv == TypeInv /\ LookedUpIsQueued /\ CompletedIsAnnounced

\* A queued alert stays queued.
LEMMA QueuedStays ==
    ASSUME TypeInv, [Next]_vars
    PROVE  \A c \in Alert : alert[c].status # "none" => alert'[c].status # "none"
<1> SUFFICES ASSUME NEW c \in Alert, alert[c].status # "none"
             PROVE  alert'[c].status # "none"
  OBVIOUS
<1>t. alert \in [Alert -> AlertRow]
  BY DEF TypeInv, DeliveryTypeOK
<1> USE DEF vars, store, local, history
<1>1. CASE UNCHANGED alert
  BY <1>1
<1>2. ASSUME NEW w \in Worker, Insert(w) PROVE alert'[c].status # "none"
  <2>1. alert'[c] = alert[c] \/ alert'[c].status \in {"SUPPRESSED", "PENDING"}
    BY <1>2, <1>t DEF Insert, AlertRow
  <2> QED BY <2>1
<1>3. ASSUME NEW w \in Worker, RecordAttempt(w) PROVE alert'[c].status # "none"
  <2> DEFINE next == Attempted(held[w] + 1, ok[w], age[w])
  <2>1. next.status \in {"SENT", "FAILED", "PENDING"}
    BY <1>3, AttemptedRow DEF RecordAttempt, TypeInv, DeliveryTypeOK, InHand
  <2>2. alert' = [alert EXCEPT ![cur[w]] = next]
    BY <1>3 DEF RecordAttempt
  <2> QED BY <2>1, <2>2, <1>t
<1>4. CASE Acknowledge
  BY <1>4, <1>t DEF Acknowledge, AlertRow
<1>5. CASE Tick
  BY <1>5, <1>t DEF Tick, AlertRow
<1>6. \A w \in Worker : RunDue(w) \/ CompleteCycle(w) \/ FailCycle(w) => UNCHANGED alert
  BY DEF RunDue, CompleteCycle, FailCycle
<1>7. \A w \in Worker : RunExecutor(w) \/ RunFails(w) \/ ReadPending(w) \/ Crash(w)
                     \/ ReadAttempt(w) \/ Reload(w) => UNCHANGED alert
  BY DEF RunExecutor, RunFails, ReadPending, Crash, ReadAttempt, Reload
<1>10. SlotPasses => UNCHANGED alert
  BY DEF SlotPasses
<1>8. \A w \in Worker, d \in Alert : LookUp(w, d) \/ Send(w, d) => UNCHANGED alert
  BY DEF LookUp, Send
<1>9. \A d \in Channel : ReadForAcknowledgement(d) => UNCHANGED alert
  BY DEF ReadForAcknowledgement
<1> QED BY <1>1, <1>2, <1>3, <1>4, <1>5, <1>6, <1>7, <1>8, <1>9, <1>10, StepCases

LEMMA QueuePreserved == QueueInv /\ [Next]_vars => QueueInv'
<1> SUFFICES ASSUME QueueInv, [Next]_vars PROVE LookedUpIsQueued' /\ CompletedIsAnnounced'
  BY TypesPreserved DEF QueueInv
<1> DEFINE Kept == LookedUpIsQueued' /\ CompletedIsAnnounced'
<1>q. \A c \in Alert : alert[c].status # "none" => alert'[c].status # "none"
  BY QueuedStays DEF QueueInv
<1>t. /\ pc \in [Worker -> Label] /\ plan \in [Worker -> SUBSET Alert]
      /\ todo \in [Worker -> SUBSET Alert] /\ cur \in [Worker -> Alert \cup {NoRow}]
      /\ announced \subseteq Alert /\ alert \in [Alert -> AlertRow]
  BY DEF QueueInv, TypeInv, DeliveryTypeOK
\* Steps of others, and of a worker that leaves or has left the queue.
<1>1. ASSUME UNCHANGED announced,
             \A v \in Worker : pc'[v] \in {"queue", "insert"} =>
                /\ pc'[v] = pc[v] /\ plan'[v] = plan[v] /\ todo'[v] = todo[v]
                /\ cur'[v] = cur[v]
      PROVE  Kept
  BY <1>1, <1>q, <1>t DEF QueueInv, LookedUpIsQueued, CompletedIsAnnounced
<1> USE DEF vars, store, local, history
<1>2. CASE UNCHANGED vars
  BY <1>1, <1>2
<1>3. ASSUME NEW w \in Worker, RunDue(w) \/ FailCycle(w) \/ Reload(w) PROVE Kept
  BY <1>1, <1>3, <1>t DEF RunDue, FailCycle, Reload, Goto
<1>4. ASSUME NEW w \in Worker, CompleteCycle(w) PROVE Kept
  <2>1. \A c \in plan[w] : alert[c].status # "none"
    BY <1>4, <1>t DEF CompleteCycle, QueueInv, LookedUpIsQueued
  <2>2. CompletedIsAnnounced'
    BY <1>4, <1>t, <1>q, <2>1 DEF CompleteCycle, QueueInv, CompletedIsAnnounced
  <2>3. LookedUpIsQueued'
    BY <1>4, <1>t DEF CompleteCycle, Goto, QueueInv, LookedUpIsQueued
  <2> QED BY <2>2, <2>3
<1>5. ASSUME NEW w \in Worker, RunExecutor(w) PROVE Kept
  <2>1. /\ plan'[w] = todo'[w] /\ pc' = [pc EXCEPT ![w] = "queue"]
        /\ \A v \in Worker \ {w} : plan'[v] = plan[v] /\ todo'[v] = todo[v]
        /\ UNCHANGED <<alert, cur, announced>>
    BY <1>5, <1>t DEF RunExecutor, Goto
  <2> QED BY <2>1, <1>t DEF QueueInv, LookedUpIsQueued, CompletedIsAnnounced
<1>6. ASSUME NEW w \in Worker, RunFails(w) \/ ReadPending(w) \/ Crash(w) PROVE Kept
  <2>1. pc'[w] \notin {"queue", "insert"} /\ UNCHANGED announced
    BY <1>6, <1>t DEF RunFails, ReadPending, Crash, Goto
  <2>2. \A v \in Worker \ {w} : /\ pc'[v] = pc[v] /\ plan'[v] = plan[v]
                              /\ todo'[v] = todo[v] /\ cur'[v] = cur[v]
    BY <1>6, <1>t DEF RunFails, ReadPending, Crash, Goto
  <2> QED BY <1>1, <2>1, <2>2
<1>7. ASSUME NEW w \in Worker, NEW c \in Alert, LookUp(w, c) PROVE Kept
  <2>1. /\ todo' = [todo EXCEPT ![w] = @ \ {c}] /\ pc[w] = "queue"
        /\ UNCHANGED <<alert, plan, announced>>
        /\ \/ alert[c].status # "none" /\ UNCHANGED <<pc, cur>>
           \/ pc' = [pc EXCEPT ![w] = "insert"] /\ cur' = [cur EXCEPT ![w] = c]
    BY <1>7 DEF LookUp, Goto
  <2> QED BY <2>1, <1>t DEF QueueInv, LookedUpIsQueued, CompletedIsAnnounced
<1>8. ASSUME NEW w \in Worker, Insert(w) PROVE Kept
  <2>1. /\ pc[w] = "insert" /\ cur[w] \in Alert /\ cur' = [cur EXCEPT ![w] = NoRow]
        /\ UNCHANGED <<plan, todo, announced>>
        /\ \/ pc' = [pc EXCEPT ![w] = "failing"]
           \/ pc' = [pc EXCEPT ![w] = "queue"] /\ alert'[cur[w]].status # "none"
    BY <1>8, <1>t DEF Insert, Goto, QueueInv, TypeInv, InHand, AlertRow
  <2> QED BY <2>1, <1>t, <1>q DEF QueueInv, LookedUpIsQueued, CompletedIsAnnounced
<1>9. ASSUME NEW w \in Worker, ReadAttempt(w) \/ RecordAttempt(w) PROVE Kept
  <2>1. /\ pc'[w] \notin {"queue", "insert"} /\ UNCHANGED <<announced, plan, todo>>
        /\ \A v \in Worker \ {w} : pc'[v] = pc[v] /\ cur'[v] = cur[v]
    BY <1>9, <1>t DEF ReadAttempt, RecordAttempt, NextAlert, Goto
  <2> QED BY <1>1, <2>1
<1>10. ASSUME NEW w \in Worker, NEW c \in Alert, Send(w, c) PROVE Kept
  BY <1>1, <1>10, <1>t DEF Send, Goto
<1>11. CASE Acknowledge \/ SlotPasses \/ Tick
  BY <1>1, <1>11 DEF Acknowledge, SlotPasses, Tick
<1>12. ASSUME NEW c \in Channel, ReadForAcknowledgement(c) PROVE Kept
  BY <1>1, <1>12 DEF ReadForAcknowledgement
<1> QED BY <1>2, <1>3, <1>4, <1>5, <1>6, <1>7, <1>8, <1>9, <1>10, <1>11, <1>12, StepCases

\* A completed cycle has queued every alert of its plan, whoever inserted it and
\* however often the cycle was run (delivery/service.py, queue_cycle_result).
THEOREM CompletedRunsAnnounce == Spec => []CompletedIsAnnounced
<1>1. Init => QueueInv
  BY InitTypes DEF Init, QueueInv, LookedUpIsQueued, CompletedIsAnnounced
<1>2. QueueInv => CompletedIsAnnounced
  BY DEF QueueInv
<1> QED BY <1>1, <1>2, QueuePreserved, PTL DEF Spec
-----------------------------------------------------------------------------
(* Messages and attempts: what the status of an alert says of them.        *)

\* A success is reported only of a message that has left, and an acknowledgement
\* is under way only for an alert whose success is on record.
SuccessInHand ==
    /\ \A w \in Worker : pc[w] \in {"read", "write"} /\ ok[w] => cur[w] \in left
    /\ acking # NoRow => tries[acking].ok /\ acking \in left

\* An attempt is counted from no more than the attempts on record.
CountInHand == \A w \in Worker : pc[w] = "write" => held[w] <= tries[cur[w]].rows

\* An alert that two dispatchers never held at one time is pending as long as one
\* of them holds it, and its first success settles it.
OneDispatcher ==
    \A c \in Alert \ crowded :
        /\ \A v, w \in Worker : c \in batch[v] /\ c \in batch[w] => v = w
        /\ \A w \in Worker : c \in batch[w] => alert[c].status = "PENDING"
        /\ alert[c].status \in {"none", "PENDING"} => ~tries[c].ok
        /\ acking = c => alert[c].status \in Settled

AttemptInv ==
    /\ TypeInv
    /\ SentWasDelivered /\ SuccessInHand
    /\ AttemptsAreOnRecord /\ CountInHand
    /\ RepeatsNeedOverlap /\ OneDispatcher

Promises ==
    /\ SentWasDelivered /\ SuccessInHand /\ AttemptsAreOnRecord /\ CountInHand
    /\ RepeatsNeedOverlap /\ OneDispatcher

\* Steps that touch no alert, no attempt and no batch.
LEMMA AttemptsUntouched ==
    ASSUME AttemptInv,
           UNCHANGED <<alert, tries, left, acking, batch, crowded, repeated>>,
           \A w \in Worker : pc'[w] \in {"read", "write"} =>
                /\ pc'[w] = pc[w] /\ cur'[w] = cur[w] /\ ok'[w] = ok[w] /\ held'[w] = held[w]
    PROVE  Promises'
  BY DEF AttemptInv, Promises, SentWasDelivered, SuccessInHand, AttemptsAreOnRecord,
         CountInHand, RepeatsNeedOverlap, OneDispatcher, Settled

\* Insertion of an alert.
LEMMA InsertKeeps ==
    ASSUME AttemptInv, NEW w \in Worker, Insert(w)
    PROVE  Promises'
<1>t. /\ pc \in [Worker -> Label] /\ alert \in [Alert -> AlertRow]
      /\ pc[w] = "insert" /\ cur[w] \in Alert
      /\ cur \in [Worker -> Alert \cup {NoRow}]
      /\ tries \in [Alert -> [rows : 0..MaxAttempts, ok : BOOLEAN]]
  BY DEF Insert, AttemptInv, TypeInv, InHand, DeliveryTypeOK
<1>1. /\ UNCHANGED <<tries, left, acking, batch, crowded, repeated, ok, held>>
      /\ pc'[w] \in {"queue", "failing"}
      /\ \A v \in Worker \ {w} : pc'[v] = pc[v] /\ cur'[v] = cur[v]
  BY <1>t DEF Insert, Goto, history
<1>2. CASE alert' = alert
  <2>1. \A v \in Worker : pc'[v] \in {"read", "write"} => pc'[v] = pc[v] /\ cur'[v] = cur[v]
    BY <1>1
  <2> QED BY <1>1, <1>2, <2>1, AttemptsUntouched
<1>3. CASE alert' # alert
  <2>1. alert[cur[w]].status = "none"
    BY <1>3 DEF Insert
  <2>2. /\ alert'[cur[w]].status \in {"PENDING", "SUPPRESSED"}
        /\ alert'[cur[w]].status = "PENDING" \/ alert'[cur[w]].attempts = alert[cur[w]].attempts
        /\ alert'[cur[w]].status = "PENDING" => alert'[cur[w]].attempts = 0
        /\ \A c \in Alert \ {cur[w]} : alert'[c] = alert[c]
    BY <1>t, <1>3 DEF Insert, AlertRow
  <2>3. /\ SentWasDelivered' /\ SuccessInHand' /\ CountInHand' /\ RepeatsNeedOverlap'
    BY <1>1, <2>2, Constants DEF AttemptInv, SentWasDelivered, SuccessInHand, CountInHand,
                                 RepeatsNeedOverlap, Settled
  <2>4. AttemptsAreOnRecord'
    BY <1>t, <1>1, <2>2, Constants DEF AttemptInv, AttemptsAreOnRecord
  <2>5. OneDispatcher'
    BY <1>1, <2>1, <2>2 DEF AttemptInv, OneDispatcher, Settled
  <2> QED BY <2>3, <2>4, <2>5 DEF Promises
<1> QED BY <1>2, <1>3

\* The batch of a dispatcher.
LEMMA ReadPendingKeeps ==
    ASSUME AttemptInv, NEW w \in Worker, ReadPending(w)
    PROVE  Promises'
<1>t. /\ pc \in [Worker -> Label] /\ batch \in [Worker -> SUBSET Channel]
  BY DEF AttemptInv, TypeInv, DeliveryTypeOK
<1>1. /\ UNCHANGED <<alert, tries, left, acking, repeated, ok, held, cur>>
      /\ pc'[w] \in {"idle", "send"} /\ batch'[w] = Due
      /\ \A v \in Worker \ {w} : pc'[v] = pc[v] /\ batch'[v] = batch[v]
      /\ crowded' = crowded \cup {c \in Due : \E v \in Worker \ {w} : c \in batch[v]}
  BY <1>t DEF ReadPending, Goto, store
<1>2. /\ SentWasDelivered' /\ SuccessInHand' /\ CountInHand' /\ AttemptsAreOnRecord'
      /\ RepeatsNeedOverlap'
  BY <1>1 DEF AttemptInv, SentWasDelivered, SuccessInHand, CountInHand, AttemptsAreOnRecord,
              RepeatsNeedOverlap, Settled
<1>3. OneDispatcher'
  BY <1>1 DEF AttemptInv, OneDispatcher, Due, Settled
<1> QED BY <1>2, <1>3 DEF Promises

\* A message.
LEMMA SendKeeps ==
    ASSUME AttemptInv, NEW w \in Worker, NEW c \in Alert, Send(w, c)
    PROVE  Promises'
<1>t. /\ pc \in [Worker -> Label] /\ cur \in [Worker -> Alert \cup {NoRow}]
      /\ ok \in [Worker -> BOOLEAN] /\ c \in batch[w]
  BY DEF Send, AttemptInv, TypeInv, DeliveryTypeOK
<1>1. /\ UNCHANGED <<alert, tries, acking, batch, crowded, held>>
      /\ pc' = [pc EXCEPT ![w] = "read"] /\ cur' = [cur EXCEPT ![w] = c]
  BY DEF Send, Goto
<1>2. PICK sent, good \in BOOLEAN :
            /\ good => sent
            /\ ok' = [ok EXCEPT ![w] = good]
            /\ left' = IF sent THEN left \cup {c} ELSE left
            /\ repeated' = IF sent /\ tries[c].ok THEN repeated \cup {c} ELSE repeated
  BY DEF Send
<1>3. SentWasDelivered' /\ AttemptsAreOnRecord' /\ CountInHand' /\ OneDispatcher'
  BY <1>t, <1>1, <1>2 DEF AttemptInv, SentWasDelivered, AttemptsAreOnRecord, CountInHand,
                          OneDispatcher, Settled
<1>4. SuccessInHand'
  BY <1>t, <1>1, <1>2 DEF AttemptInv, SuccessInHand
<1>5. c \in crowded \/ ~tries[c].ok
  BY <1>t DEF AttemptInv, OneDispatcher
<1>6. RepeatsNeedOverlap'
  BY <1>1, <1>2, <1>5 DEF AttemptInv, RepeatsNeedOverlap
<1> QED BY <1>3, <1>4, <1>6 DEF Promises
\* The SELECT of an attempt.
LEMMA ReadAttemptKeeps ==
    ASSUME AttemptInv, NEW w \in Worker, ReadAttempt(w)
    PROVE  Promises'
<1>t. /\ pc \in [Worker -> Label] /\ held \in [Worker -> 0..MaxAttempts]
      /\ pc[w] = "read" /\ cur[w] \in Channel
      /\ UNCHANGED <<alert, tries, left, acking, crowded, repeated>>
  BY DEF ReadAttempt, AttemptInv, TypeInv, InHand, DeliveryTypeOK, store, history
<1>1. CASE NextAlert(w)
  <2>1. /\ pc'[w] \in {"idle", "send"} /\ batch'[w] = batch[w] \ {cur[w]}
        /\ \A v \in Worker \ {w} : /\ pc'[v] = pc[v] /\ batch'[v] = batch[v]
                                   /\ cur'[v] = cur[v] /\ held'[v] = held[v] /\ ok'[v] = ok[v]
    BY <1>t, <1>1, NextAlertTypes DEF AttemptInv
  <2>2. /\ SentWasDelivered' /\ SuccessInHand' /\ CountInHand' /\ AttemptsAreOnRecord'
        /\ RepeatsNeedOverlap'
    BY <1>t, <2>1 DEF AttemptInv, SentWasDelivered, SuccessInHand, CountInHand,
                      AttemptsAreOnRecord, RepeatsNeedOverlap, Settled
  <2>3. OneDispatcher'
    BY <1>t, <2>1 DEF AttemptInv, OneDispatcher, Settled
  <2> QED BY <2>2, <2>3 DEF Promises
<1>2. CASE /\ held' = [held EXCEPT ![w] = alert[cur[w]].attempts]
           /\ Goto(w, "write") /\ UNCHANGED <<batch, cur, ok, age>>
  <2>1. alert[cur[w]].attempts <= tries[cur[w]].rows
    BY <1>t DEF AttemptInv, AttemptsAreOnRecord
  <2>2. CountInHand'
    BY <1>t, <1>2, <2>1 DEF AttemptInv, CountInHand, Goto
  <2>3. SuccessInHand'
    BY <1>t, <1>2 DEF AttemptInv, SuccessInHand, Goto
  <2>4. SentWasDelivered' /\ AttemptsAreOnRecord' /\ RepeatsNeedOverlap' /\ OneDispatcher'
    BY <1>t, <1>2 DEF AttemptInv, SentWasDelivered, AttemptsAreOnRecord, RepeatsNeedOverlap,
                      OneDispatcher, Settled
  <2> QED BY <2>2, <2>3, <2>4 DEF Promises
<1> QED BY <1>1, <1>2 DEF ReadAttempt

\* The INSERT of the attempt and the UPDATE of the alert.
LEMMA RecordAttemptKeeps ==
    ASSUME AttemptInv, NEW w \in Worker, RecordAttempt(w)
    PROVE  Promises'
<1> DEFINE next == Attempted(held[w] + 1, ok[w], age[w])
           row == [rows |-> IF tries[cur[w]].rows < MaxAttempts
                            THEN tries[cur[w]].rows + 1 ELSE tries[cur[w]].rows,
                   ok |-> tries[cur[w]].ok \/ ok[w]]
<1>t. /\ pc \in [Worker -> Label] /\ alert \in [Alert -> AlertRow]
      /\ tries \in [Alert -> [rows : 0..MaxAttempts, ok : BOOLEAN]]
      /\ pc[w] = "write" /\ cur[w] \in Channel /\ cur[w] \in batch[w]
      /\ held[w] \in 0..MaxAttempts /\ held[w] < MaxAttempts
      /\ ok[w] \in BOOLEAN /\ age[w] \in 0..MaxDelay
      /\ UNCHANGED <<left, acking, crowded>>
  BY DEF RecordAttempt, AttemptInv, TypeInv, InHand, DeliveryTypeOK
<1>1. /\ next.attempts = held[w] + 1
      /\ next.status = "SENT" <=> ok[w]
      /\ next.status = "FAILED" => held[w] + 1 = MaxAttempts
      /\ next.status \in {"SENT", "FAILED", "PENDING"}
  BY <1>t, AttemptedRow
<1>2. /\ alert' = [alert EXCEPT ![cur[w]] = next]
      /\ tries' = [tries EXCEPT ![cur[w]] = row]
      /\ repeated' = IF alert[cur[w]].status \in Settled /\ next.status # alert[cur[w]].status
                     THEN repeated \cup {cur[w]} ELSE repeated
  BY <1>t, Constants DEF RecordAttempt
<1>3. /\ row.ok <=> (tries[cur[w]].ok \/ ok[w])
      /\ row.rows \in 0..MaxAttempts /\ row.rows >= tries[cur[w]].rows
      /\ row.rows >= held[w] + 1
  <2>1. held[w] <= tries[cur[w]].rows
    BY <1>t DEF AttemptInv, CountInHand
  <2>2. tries[cur[w]].rows \in 0..MaxAttempts
    BY <1>t, Constants
  <2> QED BY <1>t, <2>1, <2>2, Constants
<1> HIDE DEF next, row
<1>4. /\ pc'[w] \in {"idle", "send"} /\ batch'[w] = batch[w] \ {cur[w]}
      /\ \A v \in Worker \ {w} : /\ pc'[v] = pc[v] /\ batch'[v] = batch[v]
                                 /\ cur'[v] = cur[v] /\ held'[v] = held[v] /\ ok'[v] = ok[v]
  BY <1>t, NextAlertTypes DEF AttemptInv, RecordAttempt
<1>5. /\ alert'[cur[w]] = next /\ tries'[cur[w]] = row
      /\ \A c \in Alert \ {cur[w]} : alert'[c] = alert[c] /\ tries'[c] = tries[c]
  BY <1>2, <1>t, Constants
<1>6. SentWasDelivered' /\ SuccessInHand'
  <2>1. ok[w] => cur[w] \in left
    BY <1>t DEF AttemptInv, SuccessInHand
  <2>2. SentWasDelivered'
    BY <1>t, <1>1, <1>3, <1>5, <2>1, Constants DEF AttemptInv, SentWasDelivered, Settled
  <2>3. acking # NoRow => tries'[acking].ok /\ acking \in left
    <3>1. acking \in Alert \cup {NoRow}
      BY Constants DEF AttemptInv, TypeInv, DeliveryTypeOK
    <3> QED BY <1>3, <1>5, <3>1 DEF AttemptInv, SuccessInHand
  <2> QED BY <1>t, <1>4, <2>2, <2>3 DEF AttemptInv, SuccessInHand
<1>7. AttemptsAreOnRecord'
  <2>1. ASSUME NEW c \in Channel, c # cur[w]
        PROVE  alert'[c].attempts <= tries'[c].rows /\ (alert'[c].status = "FAILED" => tries'[c].rows = MaxAttempts)
    BY <1>5, <2>1, Constants DEF AttemptInv, AttemptsAreOnRecord
  <2>2. next.attempts <= row.rows /\ (next.status = "FAILED" => row.rows = MaxAttempts)
    BY <1>t, <1>1, <1>3, Constants
  <2> QED BY <1>5, <2>1, <2>2 DEF AttemptsAreOnRecord
<1>8. CountInHand'
  <2>1. ASSUME NEW v \in Worker, pc'[v] = "write" PROVE held'[v] <= tries'[cur'[v]].rows
    <3>1. /\ v # w /\ held'[v] = held[v] /\ cur'[v] = cur[v] /\ held[v] <= tries[cur[v]].rows
          /\ cur[v] \in Alert /\ held[v] \in 0..MaxAttempts
      BY <1>4, <2>1, Constants DEF AttemptInv, CountInHand, TypeInv, InHand, DeliveryTypeOK
    <3>2. tries[cur[v]].rows \in 0..MaxAttempts
      BY <1>t, <3>1
    <3> QED BY <1>3, <1>5, <3>1, <3>2, Constants
  <2> QED BY <2>1 DEF CountInHand
<1>9. cur[w] \notin crowded =>
        /\ alert[cur[w]].status = "PENDING" /\ ~tries[cur[w]].ok /\ acking # cur[w]
        /\ \A v \in Worker \ {w} : cur[w] \notin batch[v]
  BY <1>t, Constants DEF AttemptInv, OneDispatcher, Settled
<1>10. RepeatsNeedOverlap'
  BY <1>t, <1>2, <1>9 DEF AttemptInv, RepeatsNeedOverlap, Settled
<1>11. OneDispatcher'
  <2>1. ASSUME NEW c \in Alert \ crowded, c # cur[w]
        PROVE  /\ \A u, v \in Worker : c \in batch'[u] /\ c \in batch'[v] => u = v
               /\ \A v \in Worker : c \in batch'[v] => alert'[c].status = "PENDING"
               /\ alert'[c].status \in {"none", "PENDING"} => ~tries'[c].ok
               /\ acking = c => alert'[c].status \in Settled
    BY <1>4, <1>5, <2>1 DEF AttemptInv, OneDispatcher
  <2>2. cur[w] \notin crowded =>
            /\ \A v \in Worker : cur[w] \notin batch'[v]
            /\ next.status \in {"none", "PENDING"} => ~row.ok
            /\ acking # cur[w]
    BY <1>1, <1>3, <1>4, <1>9
  <2> QED BY <1>t, <1>5, <2>1, <2>2 DEF OneDispatcher
<1> QED BY <1>6, <1>7, <1>8, <1>10, <1>11 DEF Promises

\* Deaths, acknowledgements and time.
LEMMA OthersKeep ==
    ASSUME AttemptInv,
           \/ \E w \in Worker : Crash(w)
           \/ Acknowledge \/ SlotPasses \/ Tick
           \/ \E c \in Channel : ReadForAcknowledgement(c)
    PROVE  Promises'
<1> USE DEF store, local, history
<1>t. /\ pc \in [Worker -> Label] /\ alert \in [Alert -> AlertRow]
      /\ batch \in [Worker -> SUBSET Channel]
  BY DEF AttemptInv, TypeInv, DeliveryTypeOK
<1>1. ASSUME NEW w \in Worker, Crash(w) PROVE Promises'
  <2>1. /\ UNCHANGED <<alert, tries, left, acking, crowded, repeated>>
        /\ pc'[w] = "idle" /\ batch'[w] = {}
        /\ \A v \in Worker \ {w} : /\ pc'[v] = pc[v] /\ batch'[v] = batch[v]
                                   /\ cur'[v] = cur[v] /\ held'[v] = held[v] /\ ok'[v] = ok[v]
    BY <1>1, <1>t DEF Crash, Goto
  <2> QED BY <2>1 DEF AttemptInv, Promises, SentWasDelivered, SuccessInHand,
                      AttemptsAreOnRecord, CountInHand, RepeatsNeedOverlap, OneDispatcher, Settled
<1>2. CASE Acknowledge
  <2>1. /\ acking \in Channel /\ acking' = NoRow /\ alert'[acking].status = "ACKNOWLEDGED"
        /\ alert'[acking].attempts = alert[acking].attempts
        /\ \A c \in Alert \ {acking} : alert'[c] = alert[c]
        /\ UNCHANGED <<tries, left, pc, batch, cur, held, ok, crowded, repeated>>
    BY <1>2, <1>t, Constants DEF Acknowledge, AttemptInv, TypeInv, DeliveryTypeOK, AlertRow
  <2>2. SentWasDelivered' /\ SuccessInHand' /\ CountInHand' /\ RepeatsNeedOverlap'
    BY <2>1, Constants DEF AttemptInv, SentWasDelivered, SuccessInHand, CountInHand,
                           RepeatsNeedOverlap
  <2>3. AttemptsAreOnRecord'
    BY <2>1, Constants DEF AttemptInv, AttemptsAreOnRecord
  <2>4. OneDispatcher'
    BY <2>1, Constants DEF AttemptInv, OneDispatcher, Settled
  <2> QED BY <2>2, <2>3, <2>4 DEF Promises
<1>3. CASE Tick
  <2>1. /\ \A c \in Alert : alert'[c].status = alert[c].status /\ alert'[c].attempts = alert[c].attempts
        /\ UNCHANGED <<tries, left, acking, pc, batch, cur, held, ok, crowded, repeated>>
    BY <1>3, <1>t DEF Tick, AlertRow
  <2> QED BY <2>1, Constants
          DEF AttemptInv, Promises, SentWasDelivered, SuccessInHand,
              AttemptsAreOnRecord, CountInHand, RepeatsNeedOverlap, OneDispatcher
<1>4. ASSUME NEW c \in Channel, ReadForAcknowledgement(c) PROVE Promises'
  <2>1. /\ acking' = c /\ alert[c].status = "SENT"
        /\ UNCHANGED <<alert, tries, left, pc, batch, cur, held, ok, crowded, repeated>>
    BY <1>4 DEF ReadForAcknowledgement
  <2> QED BY <2>1, Constants
          DEF AttemptInv, Promises, SentWasDelivered, SuccessInHand, AttemptsAreOnRecord,
              CountInHand, RepeatsNeedOverlap, OneDispatcher, Settled
<1>5. CASE SlotPasses
  BY <1>5, AttemptsUntouched DEF SlotPasses
<1> QED BY <1>1, <1>2, <1>3, <1>4, <1>5

\* Steps on the cycle and the queue.
LEMMA QueueKeeps ==
    ASSUME AttemptInv, NEW w \in Worker,
           \/ RunDue(w) \/ CompleteCycle(w) \/ FailCycle(w) \/ RunExecutor(w) \/ RunFails(w)
           \/ Reload(w) \/ \E c \in Alert : LookUp(w, c)
    PROVE  Promises'
<1>t. pc \in [Worker -> Label] /\ cur \in [Worker -> Alert \cup {NoRow}]
  BY DEF AttemptInv, TypeInv, DeliveryTypeOK
<1>1. UNCHANGED <<alert, tries, left, acking, batch, crowded, repeated, held, ok>>
  BY DEF RunDue, CompleteCycle, FailCycle, RunExecutor, RunFails, Reload, LookUp, store, history
<1>2. /\ pc'[w] \notin {"read", "write"}
      /\ \A v \in Worker \ {w} : pc'[v] = pc[v] /\ cur'[v] = cur[v]
  BY <1>t DEF RunDue, CompleteCycle, FailCycle, RunExecutor, RunFails, Reload, LookUp, Goto
<1> QED BY <1>1, <1>2, AttemptsUntouched

LEMMA AttemptsPreserved == AttemptInv /\ [Next]_vars => AttemptInv'
<1> SUFFICES ASSUME AttemptInv, [Next]_vars PROVE Promises'
  BY TypesPreserved DEF AttemptInv, Promises
<1>1. CASE UNCHANGED vars
  BY <1>1, AttemptsUntouched DEF vars, store, local, history
<1> QED BY <1>1, StepCases, QueueKeeps, InsertKeeps, ReadPendingKeeps, SendKeeps,
           ReadAttemptKeeps, RecordAttemptKeeps, OthersKeep

LEMMA AttemptsStart == Init => AttemptInv
  BY InitTypes, Constants
     DEF Init, AttemptInv, SentWasDelivered, SuccessInHand, AttemptsAreOnRecord, CountInHand,
         RepeatsNeedOverlap, OneDispatcher, NoAlert, Settled

\* An alert counts as sent or acknowledged only if a success is on record and a
\* message has left (delivery/service.py, dispatch_pending).
THEOREM SentMeansDelivered == Spec => []SentWasDelivered
<1>1. AttemptInv => SentWasDelivered
  BY DEF AttemptInv
<1> QED BY <1>1, AttemptsStart, AttemptsPreserved, PTL DEF Spec

\* The counter never runs ahead of the append-only attempts, and a dead letter has
\* used all of them (delivery/store.py, record_attempt).
THEOREM CountersAreCovered == Spec => []AttemptsAreOnRecord
<1>1. AttemptInv => AttemptsAreOnRecord
  BY DEF AttemptInv
<1> QED BY <1>1, AttemptsStart, AttemptsPreserved, PTL DEF Spec

\* Without two dispatchers at one alert, no message follows a success on record and
\* no settled alert is reopened, whatever dies.  A message whose dispatcher raised,
\* or whose record was lost, is sent again by one alone (delivery/service.py).
THEOREM RepeatsTakeTwoDispatchers == Spec => []RepeatsNeedOverlap
<1>1. AttemptInv => RepeatsNeedOverlap
  BY DEF AttemptInv
<1> QED BY <1>1, AttemptsStart, AttemptsPreserved, PTL DEF Spec
=============================================================================
