-------------------------- MODULE CioOperatorProofs --------------------------
(***************************************************************************)
(* What the autonomous paper operator promises of its passes, for every    *)
(* number of records, prices, slots and faults and for all timers.         *)
(***************************************************************************)
EXTENDS CioOperator, TLAPS

\* The guard interval opens only before a slot of the bound.
GuardedSlot == guard = "before" => slot < MaxSlots

\* A scheduled cycle runs for a slot.
RunningSlot == pc \in {"cycle", "complete", "fail"} /\ kind = "scheduled" => running \in Slots

TypeInv == OperatorTypeOK /\ GuardedSlot /\ RunningSlot

LEMMA Bounds ==
    /\ Cooldown \in Nat \ {0} /\ ScanInterval \in Nat \ {0}
    /\ MaxSlots \in Nat \ {0} /\ MaxFaults \in Nat /\ 1 \in Slots
    /\ 0 \in 0..MaxSlots /\ \A s \in Slots : s \in 0..MaxSlots
    /\ 0 \in 0..Cooldown /\ Cooldown \in 0..Cooldown
    /\ 0 \in 0..ScanInterval /\ ScanInterval \in 0..ScanInterval
  BY OperatorConstants DEF Slots

LEMMA Names ==
    /\ NoPrice \notin Price /\ "move" \notin Record /\ "count" \notin Record
    /\ Record \subseteq Claimable /\ Claimable \subseteq Opportunity
    /\ "move" \in Claimable /\ "count" \in Opportunity /\ "count" \notin Claimable
  BY OperatorConstants DEF Claimable, Opportunity

LEMMA CycleRows ==
    /\ NoCycle \in CycleRow /\ Begun \in CycleRow /\ Completed \in CycleRow
    /\ Failed \in CycleRow
    /\ \A r \in CycleRow : Aged(r) \in CycleRow
<1>1. /\ NoCycle \in CycleRow /\ Begun \in CycleRow /\ Completed \in CycleRow
      /\ Failed \in CycleRow
  BY CycleTimes DEF NoCycle, Begun, Completed, Failed, CycleRow
<1>2. ASSUME NEW r \in CycleRow PROVE Aged(r) \in CycleRow
  <2>1. Down(r.lease) \in 0..Lease /\ Down(r.wait) \in 0..RetryDelay
    BY CycleTimes DEF CycleRow, Down
  <2> QED BY <2>1 DEF CycleRow, Aged
<1> QED BY <1>1, <1>2

\* The faults that are counted stay within their bound.
LEMMA FaultBound == TypeInv /\ Fault => faults' \in 0..MaxFaults
  BY Bounds DEF TypeInv, OperatorTypeOK, Fault
-----------------------------------------------------------------------------
(* Types.                                                                  *)

LEMMA InitTypes == Init => TypeInv
<1> SUFFICES ASSUME Init PROVE TypeInv
  OBVIOUS
<1>1. row \in [Slots -> CycleRow] /\ claims \in [Claimable -> 0..Cooldown]
  BY CycleRows, Bounds DEF Init
<1>2. scanWait \in 0..ScanInterval /\ faults \in 0..MaxFaults /\ slot \in Slots
      /\ decided \in 0..MaxSlots /\ running \in 0..MaxSlots
  BY Bounds DEF Init
<1>3. result \in [Kind -> {"none", "failed", "completed"}]
  BY DEF Init, NoResult
<1>4. due \in BOOLEAN /\ triggered \in BOOLEAN /\ grown \in BOOLEAN
  BY DEF Init
<1>5. OperatorTypeOK
  BY <1>1, <1>2, <1>3, <1>4 DEF Init, OperatorTypeOK, Label, Kind
<1> QED BY <1>5 DEF Init, TypeInv, GuardedSlot, RunningSlot

LEMMA WorldTypes ==
    ASSUME TypeInv,
           \/ Collect \/ MarketMoves \/ NearSlot \/ NewSlot \/ Tick
    PROVE  TypeInv'
<1> USE DEF pass, scanner, history, TypeInv, OperatorTypeOK, GuardedSlot, RunningSlot
<1>1. CASE Collect
  BY <1>1 DEF Collect
<1>2. CASE MarketMoves
  BY <1>2 DEF MarketMoves
<1>3. CASE NearSlot
  BY <1>3 DEF NearSlot
<1>4. CASE NewSlot
  BY <1>4, Bounds DEF NewSlot, Slots
<1>5. CASE Tick
  <2>1. row' \in [Slots -> CycleRow] 
    BY <1>5, CycleRows DEF Tick
  <2>2. claims' \in [Claimable -> 0..Cooldown] /\ scanWait' \in 0..ScanInterval
    BY <1>5, Bounds DEF Tick, Down
  <2> QED BY <1>5, <2>1, <2>2 DEF Tick
<1> QED BY <1>1, <1>2, <1>3, <1>4, <1>5

\* The end of a pass.
LEMMA OverTypes ==
    ASSUME TypeInv, Over
    PROVE  /\ journal' \in Kind \cup {"old"} /\ kind' \in Kind /\ due' \in BOOLEAN
           /\ triggered' \in BOOLEAN /\ trigger' = {} /\ decided' \in 0..MaxSlots
           /\ read' = {} /\ running' \in 0..MaxSlots /\ pc' = "idle"
           /\ result' \in [Kind -> {"none", "failed", "completed"}]
<1>1. result' \in [Kind -> {"none", "failed", "completed"}]
  BY DEF Over, NoResult
<1>2. decided' \in 0..MaxSlots /\ running' \in 0..MaxSlots
  BY Bounds DEF Over
<1>3. due' \in BOOLEAN /\ triggered' \in BOOLEAN
  BY DEF Over
<1> QED BY <1>1, <1>2, <1>3 DEF Over, Kind

\* A claim.
LEMMA ClaimTypes ==
    ASSUME TypeInv, NEW keys \in SUBSET Opportunity, Claim(keys)
    PROVE  /\ claims' \in [Claimable -> 0..Cooldown] /\ triggered' \in BOOLEAN
           /\ trigger' \subseteq Opportunity /\ released' \subseteq Claimable
  BY Bounds, Names DEF TypeInv, OperatorTypeOK, Claim

LEMMA ScanTypes ==
    ASSUME TypeInv,
           \/ Start \/ ScanFails \/ ScanMarkets(TRUE) \/ ScanMarkets(FALSE) \/ ScanRecords
           \/ PlanScheduled \/ PlanEvent
    PROVE  TypeInv'
<1> USE DEF world, scanner, pass, history, Label
<1>1. CASE Start
  BY <1>1, Bounds DEF Start, AttemptDue, TypeInv, OperatorTypeOK, GuardedSlot, RunningSlot
<1>2. CASE ScanFails
  BY <1>2, FaultBound DEF ScanFails, TypeInv, OperatorTypeOK, GuardedSlot, RunningSlot
<1>3. ASSUME NEW open \in BOOLEAN, ScanMarkets(open) PROVE TypeInv'
  <2>1. /\ claims' \in [Claimable -> 0..Cooldown] /\ triggered' \in BOOLEAN
        /\ trigger' \subseteq Opportunity /\ released' \subseteq Claimable
    <3>1. CASE open
      BY <1>3, <3>1, ClaimTypes, Names DEF ScanMarkets
    <3>2. CASE ~open
      BY <1>3, <3>2 DEF ScanMarkets, TypeInv, OperatorTypeOK
    <3> QED BY <3>1, <3>2
  <2>2. last' \in Price \cup {NoPrice} /\ grown' \in BOOLEAN
    BY <1>3 DEF ScanMarkets, TypeInv, OperatorTypeOK
  <2> QED BY <1>3, <2>1, <2>2, Bounds
          DEF ScanMarkets, TypeInv, OperatorTypeOK, GuardedSlot, RunningSlot
<1>4. CASE ScanRecords
  <2>1. arrived \ acked \in SUBSET Opportunity
    BY Names DEF TypeInv, OperatorTypeOK
  <2>2. /\ claims' \in [Claimable -> 0..Cooldown] /\ triggered' \in BOOLEAN
        /\ trigger' \subseteq Opportunity /\ released' \subseteq Claimable
    BY <1>4, <2>1, ClaimTypes DEF ScanRecords
  <2> QED BY <1>4, <2>2 DEF ScanRecords, TypeInv, OperatorTypeOK, GuardedSlot, RunningSlot
<1>5. CASE PlanScheduled
  BY <1>5 DEF PlanScheduled, TypeInv, OperatorTypeOK, GuardedSlot, RunningSlot
<1>6. CASE PlanEvent
  BY <1>6 DEF PlanEvent, TypeInv, OperatorTypeOK, GuardedSlot, RunningSlot, Kind
<1> QED BY <1>1, <1>2, <1>3, <1>4, <1>5, <1>6
LEMMA CycleTypes ==
    ASSUME TypeInv,
           \/ PrepareContext \/ ContextBlocked \/ Begin \/ RunCycle(TRUE) \/ RunCycle(FALSE)
           \/ Complete \/ Fail
    PROVE  TypeInv'
<1> USE DEF world, scanner, history, Label
<1>s. slot \in 0..MaxSlots /\ 0 \in 0..MaxSlots
  BY Bounds DEF TypeInv, OperatorTypeOK
<1>1. CASE PrepareContext
  <2>1. decided' \in 0..MaxSlots /\ read' \subseteq Record /\ pc' = "begin"
    BY <1>1, <1>s DEF PrepareContext, TypeInv, OperatorTypeOK
  <2>2. /\ UNCHANGED <<world, row, scanner, journal, history, faults>>
        /\ UNCHANGED <<kind, due, triggered, trigger, running, result>>
    BY <1>1 DEF PrepareContext
  <2>3. OperatorTypeOK'
    BY <2>1, <2>2 DEF TypeInv, OperatorTypeOK
  <2> QED BY <2>1, <2>2, <2>3 DEF TypeInv, GuardedSlot, RunningSlot
<1>2. CASE ContextBlocked
  <2>1. result' \in [Kind -> {"none", "failed", "completed"}]
    BY <1>2 DEF ContextBlocked, TypeInv, OperatorTypeOK
  <2> QED BY <1>2, <2>1, FaultBound
          DEF ContextBlocked, TypeInv, OperatorTypeOK, GuardedSlot, RunningSlot
<1>3. CASE Begin
  <2>1. CASE Over /\ UNCHANGED row
    BY <1>3, <2>1, OverTypes DEF Begin, TypeInv, OperatorTypeOK, GuardedSlot, RunningSlot
  <2>2. CASE /\ pc' = "cycle"
             /\ IF kind = "scheduled"
                THEN row' = [row EXCEPT ![slot] = Begun] /\ running' = slot
                ELSE UNCHANGED <<row, running>>
             /\ UNCHANGED <<journal, kind, due, triggered, trigger, decided, read, result>>
    <3>1. row' \in [Slots -> CycleRow] /\ running' \in 0..MaxSlots
          /\ (kind = "scheduled" => running' \in Slots)
      BY <2>2, <1>s, CycleRows DEF TypeInv, OperatorTypeOK
    <3> QED BY <1>3, <2>2, <3>1 DEF Begin, TypeInv, OperatorTypeOK, GuardedSlot, RunningSlot
  <2> QED BY <1>3, <2>1, <2>2 DEF Begin
<1>4. CASE RunCycle(TRUE) \/ RunCycle(FALSE)
  <2>1. faults' \in 0..MaxFaults /\ journal' \in Kind \cup {"old"}
    BY <1>4, FaultBound DEF RunCycle, TypeInv, OperatorTypeOK
  <2> QED BY <1>4, <2>1 DEF RunCycle, pass, TypeInv, OperatorTypeOK, GuardedSlot, RunningSlot
<1>5. CASE Complete
  <2>1. /\ row' \in [Slots -> CycleRow] /\ early' \subseteq Slots
        /\ result' \in [Kind -> {"none", "failed", "completed"}]
    BY <1>5, CycleRows DEF Complete, TypeInv, OperatorTypeOK, RunningSlot
  <2> QED BY <1>5, <1>s, <2>1 DEF Complete, TypeInv, OperatorTypeOK, GuardedSlot, RunningSlot
<1>6. CASE Fail
  <2>1. /\ row' \in [Slots -> CycleRow]
        /\ result' \in [Kind -> {"none", "failed", "completed"}]
    BY <1>6, CycleRows DEF Fail, TypeInv, OperatorTypeOK
  <2> QED BY <1>6, <1>s, <2>1 DEF Fail, TypeInv, OperatorTypeOK, GuardedSlot, RunningSlot
<1> QED BY <1>1, <1>2, <1>3, <1>4, <1>5, <1>6

LEMMA EndTypes ==
    ASSUME TypeInv,
           \/ AcknowledgePrices \/ AcknowledgeRecords \/ Release \/ Attempt \/ Crash
    PROVE  TypeInv'
<1> USE DEF world, scanner, history, pass, Label
<1>1. CASE AcknowledgePrices
  <2>1. claims' \in [Claimable -> 0..Cooldown]
    <3>1. claims' = [claims EXCEPT !["move"] = 0]
      BY <1>1 DEF AcknowledgePrices
    <3> QED BY <3>1, Bounds DEF TypeInv, OperatorTypeOK
  <2> QED BY <1>1, <2>1
          DEF AcknowledgePrices, TypeInv, OperatorTypeOK, GuardedSlot, RunningSlot
<1>2. CASE AcknowledgeRecords
  BY <1>2 DEF AcknowledgeRecords, After, TypeInv, OperatorTypeOK, GuardedSlot, RunningSlot
<1>3. CASE Release
  <2>1. claims' \in [Claimable -> 0..Cooldown]
    BY <1>3, Bounds DEF Release, TypeInv, OperatorTypeOK
  <2> QED BY <1>3, <2>1 DEF Release, TypeInv, OperatorTypeOK, GuardedSlot, RunningSlot
<1>4. CASE Attempt
  <2>1. handed' \in {"none", "failed", "completed"}
    BY <1>4 DEF Attempt, Expected, TypeInv, OperatorTypeOK, Kind
  <2>2. Over
    BY <1>4 DEF Attempt
  <2> QED BY <1>4, <2>1, <2>2, OverTypes
          DEF Attempt, TypeInv, OperatorTypeOK, GuardedSlot, RunningSlot
<1>5. CASE Crash
  BY <1>5, FaultBound, OverTypes DEF Crash, TypeInv, OperatorTypeOK, GuardedSlot, RunningSlot
<1> QED BY <1>1, <1>2, <1>3, <1>4, <1>5

\* What next-state proofs split on.
LEMMA StepCases ==
    ASSUME [Next]_vars
    PROVE  \/ UNCHANGED vars
           \/ Collect \/ MarketMoves \/ NearSlot \/ NewSlot \/ Tick
           \/ Start \/ ScanFails \/ ScanMarkets(TRUE) \/ ScanMarkets(FALSE) \/ ScanRecords
           \/ PlanScheduled \/ PlanEvent
           \/ PrepareContext \/ ContextBlocked \/ Begin \/ RunCycle(TRUE) \/ RunCycle(FALSE)
           \/ Complete \/ Fail
           \/ AcknowledgePrices \/ AcknowledgeRecords \/ Release \/ Attempt \/ Crash
  BY DEF Next, Progress

LEMMA TypesPreserved == TypeInv /\ [Next]_vars => TypeInv'
<1> SUFFICES ASSUME TypeInv, [Next]_vars PROVE TypeInv'
  OBVIOUS
<1>1. CASE UNCHANGED vars
  BY <1>1 DEF vars, world, scanner, pass, history, TypeInv, OperatorTypeOK, GuardedSlot,
              RunningSlot
<1> QED BY <1>1, StepCases, WorldTypes, ScanTypes, CycleTypes, EndTypes

\* The files of the operator and the locals of its passes keep their types.
THEOREM TypesOfOperator == Spec => []OperatorTypeOK
<1>1. TypeInv => OperatorTypeOK
  BY DEF TypeInv
<1> QED BY <1>1, InitTypes, TypesPreserved, PTL DEF Spec
-----------------------------------------------------------------------------
(* Safety: records and slots.                                              *)

\* What a scan has found is on file, or has been reviewed, or has left the file
\* unreviewed; what was on file when the context in hand was prepared is in it,
\* and has been reviewed once the cycle is complete.
PendingInHand ==
    /\ pending \subseteq arrived \cup reviewed \cup lapsed
    /\ pc \in {"begin", "cycle", "complete"} => pending \subseteq read \cup reviewed \cup lapsed
    /\ pc \in {"acknowledge", "records acknowledged"} => pending \subseteq reviewed \cup lapsed

\* The cycle of a slot carries a decision time that is not before it.
DecidedInSlot ==
    pc \in {"cycle", "complete"} /\ kind = "scheduled" => running <= decided

Promises == PendingInHand /\ NoSlotDecidedEarly /\ DecidedInSlot
SafetyInv == TypeInv /\ Promises

\* The parts of the operator the invariant speaks of are left alone.
LEMMA Untouched ==
    ASSUME SafetyInv, UNCHANGED <<arrived, pending, reviewed, lapsed, early>>,
           \/ pc' \notin {"begin", "cycle", "complete", "acknowledge", "records acknowledged"}
           \/ UNCHANGED <<pc, kind, running, decided, read>>
    PROVE  Promises'
  BY DEF SafetyInv, Promises, PendingInHand, NoSlotDecidedEarly, DecidedInSlot

LEMMA SafetyPreserved == SafetyInv /\ [Next]_vars => SafetyInv'
<1> SUFFICES ASSUME SafetyInv, [Next]_vars PROVE Promises'
  BY TypesPreserved DEF SafetyInv
<1> USE DEF world, scanner, pass, history
<1>t. TypeInv /\ TypeInv'
  BY TypesPreserved DEF SafetyInv
<1>1. CASE UNCHANGED vars
  BY <1>1, Untouched DEF vars
<1>2. CASE Collect
  BY <1>2 DEF Collect, SafetyInv, Promises, PendingInHand, NoSlotDecidedEarly, DecidedInSlot
<1>3. CASE MarketMoves \/ NearSlot \/ NewSlot \/ Tick
  BY <1>3, Untouched DEF MarketMoves, NearSlot, NewSlot, Tick
<1>4. CASE Start \/ ScanFails \/ PlanScheduled \/ PlanEvent
  BY <1>4, Untouched DEF Start, ScanFails, PlanScheduled, PlanEvent
<1>5. CASE ScanMarkets(TRUE) \/ ScanMarkets(FALSE)
  BY <1>5, Untouched DEF ScanMarkets
<1>6. CASE ScanRecords
  BY <1>6 DEF ScanRecords, SafetyInv, Promises, PendingInHand, NoSlotDecidedEarly, DecidedInSlot
<1>7. CASE PrepareContext
  BY <1>7
     DEF PrepareContext, SafetyInv, Promises, PendingInHand, NoSlotDecidedEarly, DecidedInSlot
<1>8. CASE ContextBlocked \/ Fail \/ Release
  BY <1>8, Untouched DEF ContextBlocked, Fail, Release
<1>9. CASE Begin
  <2>1. CASE Over /\ UNCHANGED row
    BY <1>9, <2>1, Untouched DEF Begin, Over
  <2>2. CASE /\ ~(kind = "scheduled" /\ decided < slot) /\ pc' = "cycle"
             /\ IF kind = "scheduled"
                THEN row' = [row EXCEPT ![slot] = Begun] /\ running' = slot
                ELSE UNCHANGED <<row, running>>
             /\ UNCHANGED <<journal, kind, due, triggered, trigger, decided, read, result>>
    <3>1. DecidedInSlot'
      BY <2>2, <1>t DEF TypeInv, OperatorTypeOK, Slots, DecidedInSlot
    <3> QED BY <1>9, <2>2, <3>1
            DEF Begin, SafetyInv, Promises, PendingInHand, NoSlotDecidedEarly
  <2> QED BY <1>9, <2>1, <2>2 DEF Begin
<1>10. CASE RunCycle(TRUE) \/ RunCycle(FALSE)
  BY <1>10 DEF RunCycle, SafetyInv, Promises, PendingInHand, NoSlotDecidedEarly, DecidedInSlot
<1>11. CASE Complete
  <2>1. early' = early
    BY <1>11, <1>t DEF Complete, SafetyInv, Promises, DecidedInSlot, TypeInv, OperatorTypeOK
  <2> QED BY <1>11, <2>1
          DEF Complete, SafetyInv, Promises, PendingInHand, NoSlotDecidedEarly, DecidedInSlot
<1>12. CASE AcknowledgePrices
  BY <1>12
     DEF AcknowledgePrices, SafetyInv, Promises, PendingInHand, NoSlotDecidedEarly, DecidedInSlot
<1>13. CASE AcknowledgeRecords
  BY <1>13 DEF AcknowledgeRecords, After, SafetyInv, Promises, PendingInHand,
               NoSlotDecidedEarly, DecidedInSlot
<1>14. CASE Attempt \/ Crash
  BY <1>14, Untouched DEF Attempt, Crash, Over
<1> QED BY <1>1, <1>2, <1>3, <1>4, <1>5, <1>6, <1>7, <1>8, <1>9, <1>10, <1>11, <1>12,
           <1>13, <1>14, StepCases

LEMMA SafetyStart == Init => SafetyInv
  BY InitTypes
     DEF Init, SafetyInv, Promises, PendingInHand, NoSlotDecidedEarly, DecidedInSlot

\* A record becomes acknowledged only if since the last acknowledgement a completed
\* cycle had it on file, or it left the file while its review was pending
\* (operations/investor_material_reassessment.py, acknowledge_assessment).
THEOREM AcknowledgedMeansReviewed == Spec => AcknowledgedWasReviewed
<1> DEFINE Answered == acked' \ acked \subseteq reviewed \cup lapsed
<1>1. SafetyInv /\ [Next]_vars => [Answered]_vars
  <2> SUFFICES ASSUME SafetyInv, Next PROVE Answered
    BY DEF vars
  <2>1. CASE AcknowledgeRecords
    BY <2>1 DEF AcknowledgeRecords, SafetyInv, Promises, PendingInHand
  <2>2. CASE UNCHANGED acked
    BY <2>2
  <2>3. AcknowledgeRecords \/ UNCHANGED acked
    BY DEF Next, Progress, scanner, Collect, MarketMoves, NearSlot, NewSlot, Tick, Start,
           ScanFails, ScanMarkets, ScanRecords, PlanScheduled, PlanEvent, PrepareContext,
           ContextBlocked, Begin, RunCycle, Complete, Fail, AcknowledgePrices, Release,
           Attempt, Crash
  <2> QED BY <2>1, <2>2, <2>3
<1> QED BY <1>1, SafetyStart, SafetyPreserved, PTL DEF Spec, AcknowledgedWasReviewed

\* No slot is completed by a cycle decided before it began, although the next slot
\* may begin at any point of a pass (delivery/canonical_scheduler.py, run_due).
THEOREM SlotsAreDecidedInside == Spec => []NoSlotDecidedEarly
<1>1. SafetyInv => NoSlotDecidedEarly
  BY DEF SafetyInv, Promises
<1> QED BY <1>1, SafetyStart, SafetyPreserved, PTL DEF Spec

-----------------------------------------------------------------------------
(* Failed reviews are retried.                                             *)

\* What a failed trigger released is not claimed; and a move has a price it moved
\* away from.
ReleasedIsFree ==
    /\ \A k \in released : claims[k] = 0
    /\ "move" \in released \cup trigger => baseline # NoPrice

RetryInv == TypeInv /\ ReleasedIsFree

\* A claim takes what it claims out of the released.
LEMMA ClaimKeeps ==
    ASSUME RetryInv, NEW keys \in SUBSET Opportunity, Claim(keys), UNCHANGED baseline,
           "move" \in keys => baseline # NoPrice
    PROVE  ReleasedIsFree'
<1>1. \A k \in released' : claims'[k] = 0
  BY Names DEF RetryInv, TypeInv, OperatorTypeOK, ReleasedIsFree, Claim
<1>2. "move" \in released' \cup trigger' => baseline' # NoPrice
  BY DEF RetryInv, ReleasedIsFree, Claim
<1> QED BY <1>1, <1>2 DEF ReleasedIsFree
LEMMA RetryPreserved == RetryInv /\ [Next]_vars => RetryInv'
<1> SUFFICES ASSUME RetryInv, [Next]_vars PROVE ReleasedIsFree'
  BY TypesPreserved DEF RetryInv
<1> USE DEF world, scanner, pass, history
\* Steps that release nothing, claim nothing and keep the baseline.
<1>1. ASSUME UNCHANGED <<claims, released, baseline>>, trigger' \subseteq trigger
      PROVE  ReleasedIsFree'
  BY <1>1 DEF RetryInv, ReleasedIsFree
<1>2. CASE UNCHANGED vars
  BY <1>1, <1>2 DEF vars
<1>3. CASE Collect
  BY <1>1, <1>3 DEF Collect
<1>4. CASE MarketMoves \/ NearSlot \/ NewSlot
  BY <1>1, <1>4 DEF MarketMoves, NearSlot, NewSlot
<1>5. CASE Tick
  <2>1. Down(0) = 0
    BY DEF Down
  <2> QED BY <1>5, <2>1 DEF Tick, RetryInv, TypeInv, OperatorTypeOK, ReleasedIsFree
<1>6. CASE Start \/ ScanFails \/ PlanScheduled \/ PlanEvent
  BY <1>1, <1>6 DEF Start, ScanFails, PlanScheduled, PlanEvent
<1>7. CASE ScanMarkets(FALSE)
  BY <1>1, <1>7 DEF ScanMarkets
<1>8. CASE ScanMarkets(TRUE)
  <2> DEFINE keys == (IF baseline \notin {NoPrice, price} THEN {"move"} ELSE {}) \cup
                     (IF last # NoPrice /\ grown THEN {"count"} ELSE {})
  <2>1. Claim(keys) /\ UNCHANGED baseline
    BY <1>8 DEF ScanMarkets
  <2>2. keys \in SUBSET Opportunity /\ ("move" \in keys => baseline # NoPrice)
    BY Names
  <2> QED BY <2>1, <2>2, ClaimKeeps
<1>9. CASE ScanRecords
  <2>1. Claim(arrived \ acked) /\ UNCHANGED baseline
    BY <1>9 DEF ScanRecords
  <2>2. arrived \ acked \in SUBSET Opportunity /\ "move" \notin arrived \ acked
    BY Names DEF RetryInv, TypeInv, OperatorTypeOK
  <2> QED BY <2>1, <2>2, ClaimKeeps
<1>10. CASE PrepareContext \/ ContextBlocked \/ RunCycle(TRUE) \/ RunCycle(FALSE) \/ Complete \/ Fail
  BY <1>1, <1>10 DEF PrepareContext, ContextBlocked, RunCycle, Complete, Fail
<1>11. CASE Begin \/ Attempt \/ Crash
  BY <1>1, <1>11 DEF Begin, Attempt, Crash, Over
<1>12. CASE AcknowledgePrices
  <2>1. claims' = [claims EXCEPT !["move"] = 0] /\ released' = released \ {"move"}
    BY <1>12 DEF AcknowledgePrices
  <2>2. \A k \in released' : claims'[k] = 0
    BY <2>1 DEF RetryInv, TypeInv, OperatorTypeOK, ReleasedIsFree
  <2> QED BY <1>12, <2>2 DEF AcknowledgePrices, ReleasedIsFree
<1>13. CASE AcknowledgeRecords
  BY <1>13 DEF AcknowledgeRecords, RetryInv, ReleasedIsFree
<1>14. CASE Release
  <2>1. \A k \in released' : claims'[k] = 0
    BY <1>14 DEF Release, RetryInv, TypeInv, OperatorTypeOK, ReleasedIsFree
  <2>2. "move" \in released' \cup trigger' => baseline' # NoPrice
    BY <1>14 DEF Release, RetryInv, ReleasedIsFree
  <2> QED BY <2>1, <2>2 DEF ReleasedIsFree
<1> QED BY <1>2, <1>3, <1>4, <1>5, <1>6, <1>7, <1>8, <1>9, <1>10, <1>11, <1>12, <1>13,
           <1>14, StepCases

\* The opportunities of a failed review join the trigger of the next scan that
\* looks at them (operations/cio_material_reassessment.py, release_trigger).
THEOREM FailedReviewsRetried == Spec => FailedReviewsAreRetried
<1> DEFINE Retried == /\ ScanRecords => released \cap (arrived \ acked) \subseteq trigger'
                      /\ ScanMarkets(TRUE) /\ "move" \in released /\ baseline # price =>
                            "move" \in trigger'
<1>1. Init => RetryInv
  BY InitTypes DEF Init, RetryInv, ReleasedIsFree
<1>2. RetryInv => Retried
  <2> SUFFICES ASSUME RetryInv PROVE Retried
    OBVIOUS
  <2>1. ASSUME ScanRecords, NEW r \in released \cap (arrived \ acked) PROVE r \in trigger'
    <3>1. Claim(arrived \ acked)
      BY <2>1 DEF ScanRecords
    <3>2. claims[r] = 0
      BY Names DEF RetryInv, TypeInv, OperatorTypeOK, ReleasedIsFree
    <3> QED BY <3>1, <3>2 DEF Claim
  <2>2. ASSUME ScanMarkets(TRUE), "move" \in released, baseline # price PROVE "move" \in trigger'
    <3>1. baseline \notin {NoPrice, price} /\ claims["move"] = 0
      BY <2>2, Names DEF RetryInv, ReleasedIsFree
    <3>2. Claim((IF baseline \notin {NoPrice, price} THEN {"move"} ELSE {}) \cup
                (IF last # NoPrice /\ grown THEN {"count"} ELSE {}))
      BY <2>2 DEF ScanMarkets
    <3> QED BY <3>1, <3>2 DEF Claim
  <2> QED BY <2>1, <2>2
<1> QED BY <1>1, <1>2, RetryPreserved, PTL DEF Spec, FailedReviewsAreRetried

\* In a pass that reaches the hand-over, the construction of a completed cycle is
\* passed over only when it is the scheduled cycle's and an event cycle followed,
\* completed or not (run_autonomous_paper_operator.py, _run_pass).
THEOREM CompletedIsHandedOver == Spec => HandOverIsComplete
<1> DEFINE HandedOver == pc = "attempt" /\ pc' = "idle" /\ faults' = faults =>
                            \A k \in Kind : journal = k /\ result[k] = "completed" =>
                                \/ handed' = "completed"
                                \/ k = "scheduled" /\ result["event"] # "none"
<1>1. TypeInv /\ [Next]_vars => [HandedOver]_vars
  <2> SUFFICES ASSUME TypeInv, [Next]_vars, vars' # vars,
                      pc = "attempt", pc' = "idle", faults' = faults,
                      NEW k \in Kind, journal = k, result[k] = "completed",
                      ~(k = "scheduled" /\ result["event"] # "none")
               PROVE  handed' = "completed"
    OBVIOUS
  <2>1. Attempt
    <3>1. ~Crash
      BY DEF Crash, Fault, TypeInv, OperatorTypeOK
    <3>2. ~Collect
      BY DEF Collect
    <3>3. ~MarketMoves /\ ~NearSlot /\ ~NewSlot /\ ~Tick
      BY DEF MarketMoves, NearSlot, NewSlot, Tick
    <3> QED BY <3>1, <3>2, <3>3
            DEF Next, Progress, Start, ScanFails, ScanMarkets, ScanRecords, PlanScheduled,
                PlanEvent, PrepareContext, ContextBlocked, Begin, RunCycle, Complete, Fail,
                AcknowledgePrices, AcknowledgeRecords, Release
  <2>2. k \in Expected
    BY DEF Expected, Kind
  <2> QED BY <2>1, <2>2 DEF Attempt
<1> QED BY <1>1, InitTypes, TypesPreserved, PTL DEF Spec, HandOverIsComplete
=============================================================================
