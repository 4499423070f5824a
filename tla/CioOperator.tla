----------------------------- MODULE CioOperator -----------------------------
(***************************************************************************)
(* The autonomous paper operator (run_autonomous_paper_operator.py): one   *)
(* process that passes again and again through a scan for material         *)
(* evidence (operations/cio_material_reassessment.py and                   *)
(* operations/investor_material_reassessment.py), the scheduled CIO cycle, *)
(* an event cycle for what the scan found, and the hand-over of the        *)
(* completed cycle's construction to paper execution.  It may die between  *)
(* any two of its writes and starts again with what is on disk.            *)
(***************************************************************************)
EXTENDS CycleClaims, FiniteSets

CONSTANTS
    Record,        \* material public records that may be collected
    Price,         \* price levels that differ by more than the threshold
    NoPrice,
    Cooldown,      \* event_cooldown: how long an opportunity stays claimed
    ScanInterval,  \* scan_interval
    MaxSlots,      \* bound: scheduled slots
    MaxFaults      \* bound: deaths, exceptions, blocked contexts, failures

ASSUME OperatorConstants ==
    /\ NoPrice \notin Price
    /\ Record \cap {"move", "count"} = {}
    /\ Cooldown \in Nat \ {0} /\ ScanInterval \in Nat \ {0}
    /\ MaxSlots \in Nat \ {0} /\ MaxFaults \in Nat

\* The opportunities whose claims can suppress a later one.  The key of a
\* larger record count names that count, so no claim ever suppresses it.
Claimable == Record \cup {"move"}
Opportunity == Claimable \cup {"count"}

VARIABLES
    slot,       \* the latest scheduled slot that has begun
    guard,      \* where the guard interval around a slot stands
    arrived,    \* material records on file
    grown,      \* the record count of the latest report exceeds the
                \* one the last open scan saw
    price,      \* the market price
    row,        \* scheduled_cycles: the row of each slot
    scanWait,   \* time left until the next scan is due
    claims,     \* recent_opportunity_claims: what is left of each cooldown
    pending, acked,   \* pending and acknowledged public record identifiers
    last, baseline,   \* last_prices and assessment_prices; the former is there
                \* as soon as an open scan has also recorded the record count
    journal,    \* the cycle of this pass that published the latest construction
    pc, kind, due, triggered, trigger, decided, read, running, result,  \* a pass
    reviewed,   \* history: records on file when a cycle prepared that completed
                \* after the last acknowledgement
    lapsed,     \* history: records that left the file pending and not reviewed,
                \* and have not been reviewed or acknowledged since
    early,      \* history: slots completed from a decision time before them
    released,   \* history: opportunities of failed triggers, not yet retried, but
                \* for the count, which the next scan no longer finds grown
    handed,     \* history: the result of the cycle whose construction the last
                \* pass handed over
    faults

world == <<slot, guard, arrived, grown, price>>
scanner == <<scanWait, claims, pending, acked, last, baseline>>
pass == <<kind, due, triggered, trigger, decided, read, running, result>>
history == <<reviewed, lapsed, early, released, handed>>
vars == <<world, row, scanner, journal, pc, pass, history, faults>>

Slots == 1..MaxSlots
Kind == {"scheduled", "event"}
NoResult == [k \in Kind |-> "none"]

Init ==
    /\ slot = 1 /\ guard = "clear"
    /\ arrived = {} /\ grown = FALSE
    /\ price \in Price
    /\ row = [s \in Slots |-> NoCycle]
    /\ scanWait = 0
    /\ claims = [k \in Claimable |-> 0]
    /\ pending = {} /\ acked = {}
    /\ last = NoPrice /\ baseline = NoPrice
    /\ journal = "old"
    /\ pc = "idle" /\ kind = "scheduled" /\ due = FALSE
    /\ triggered = FALSE /\ trigger = {} /\ decided = 0 /\ read = {} /\ running = 0
    /\ result = NoResult
    /\ reviewed = {} /\ lapsed = {} /\ early = {}
    /\ released = {} /\ handed = "none" /\ faults = 0

Fault == faults < MaxFaults /\ faults' = faults + 1

-----------------------------------------------------------------------------
(* The world: collection runs in the pass and in the evidence plane.       *)

\* merge_public_event_records writes what was collected now and those of the
\* records on file that are not older than 30 hours, the newest 2000 of them:
\* records come and go.  The count is that of the current report alone.  What is
\* pending stays pending when its record leaves the file.
Collect ==
    /\ arrived' \in SUBSET Record /\ grown' \in BOOLEAN
    /\ <<arrived', grown'>> # <<arrived, grown>>
    /\ lapsed' = lapsed \cup (pending \ (arrived' \cup reviewed))
    /\ UNCHANGED <<slot, guard, price, row, scanner, journal, pc, pass, reviewed, early,
                   released, handed, faults>>

MarketMoves ==
    /\ price' \in Price \ {price}
    /\ UNCHANGED <<slot, guard, arrived, grown, row, scanner, journal, pc, pass, history, faults>>

\* The guard interval opens before a slot begins and outlasts its beginning.
NearSlot ==
    /\ guard = "clear" /\ slot < MaxSlots
    /\ guard' = "before"
    /\ UNCHANGED <<slot, arrived, grown, price, row, scanner, journal, pc, pass, history, faults>>

NewSlot ==
    /\ guard = "before"
    /\ slot' = slot + 1 /\ guard' = "after"
    /\ UNCHANGED <<arrived, grown, price, row, scanner, journal, pc, pass, history, faults>>

\* Mutant of Tick: claims do not run out.
TickKeepsClaims ==
    /\ row' = [s \in Slots |-> Aged(row[s])]
    /\ scanWait' = Down(scanWait)
    /\ guard' = IF guard = "after" THEN "clear" ELSE guard
    /\ UNCHANGED <<slot, arrived, grown, price, claims, pending, acked, last, baseline,
                   journal, pc, pass, history, faults>>

Tick ==
    /\ row' = [s \in Slots |-> Aged(row[s])]
    /\ scanWait' = Down(scanWait)
    /\ claims' = [k \in Claimable |-> Down(claims[k])]
    /\ guard' = IF guard = "after" THEN "clear" ELSE guard
    /\ UNCHANGED <<slot, arrived, grown, price, pending, acked, last, baseline,
                   journal, pc, pass, history, faults>>

-----------------------------------------------------------------------------
(* A pass: the scan.                                                       *)

\* The pass is over: its locals go, and the latest construction grows old.
Over ==
    /\ pc' = "idle" /\ kind' = "scheduled" /\ due' = FALSE
    /\ triggered' = FALSE /\ trigger' = {}
    /\ decided' = 0 /\ read' = {} /\ running' = 0
    /\ result' = NoResult /\ journal' = "old"

\* The time of the pass is read once: it decides whether the scan is due and not
\* guarded, and whether the cycle of the slot of that time is due.  A guarded
\* scan counts as a scan.  Nobody else writes the row meanwhile.
Start ==
    /\ pc = "idle"
    /\ pc' = IF scanWait = 0 /\ guard = "clear" THEN "scan" ELSE "plan"
    /\ scanWait' = IF scanWait = 0 /\ guard # "clear" THEN ScanInterval ELSE scanWait
    /\ due' = AttemptDue(row[slot])
    /\ handed' = "none"
    /\ UNCHANGED <<world, row, claims, pending, acked, last, baseline, journal,
                   kind, triggered, trigger, decided, read, running, result,
                   reviewed, lapsed, early, released, faults>>

\* The market client or the universe raises: nothing is saved.
ScanFails ==
    /\ pc = "scan" /\ pc' = "plan"
    /\ Fault
    /\ UNCHANGED <<world, row, scanner, journal, pass, history>>

\* _claim_distinct_opportunities and _attach_opportunities_to_trigger: keys that
\* are still claimed are left out, the others join the trigger of the scan.
Claim(keys) ==
    LET new == {k \in keys : k \in Claimable => claims[k] = 0}
    IN /\ claims' = [k \in Claimable |-> IF k \in new THEN Cooldown ELSE claims[k]]
       /\ triggered' = (triggered \/ new # {})
       /\ trigger' = trigger \cup new
       /\ released' = released \ new

\* The scan of the markets, saved before the records are looked at.
ScanMarkets(open) ==
    /\ pc = "scan" /\ pc' = "records"
    /\ scanWait' = ScanInterval
    /\ IF open
       THEN /\ Claim((IF baseline \notin {NoPrice, price} THEN {"move"} ELSE {}) \cup
                     (IF last # NoPrice /\ grown THEN {"count"} ELSE {}))
            /\ last' = price
            /\ grown' = FALSE
       ELSE UNCHANGED <<claims, triggered, trigger, released, last, grown>>
    /\ UNCHANGED <<slot, guard, arrived, price, row, pending, acked, baseline, journal,
                   kind, due, decided, read, running, result, reviewed, lapsed,
                   early, handed, faults>>

\* Mutant of ScanRecords: a record that is pending is not looked at again.
ScanRecordsOnce ==
    /\ pc = "records" /\ pc' = "plan"
    /\ Claim(arrived \ (acked \cup pending))
    /\ pending' = pending \cup (arrived \ acked)
    /\ UNCHANGED <<world, row, scanWait, acked, last, baseline, journal,
                   kind, due, decided, read, running, result, reviewed, lapsed,
                   early, handed, faults>>

\* The content of the records: every one on file that is not acknowledged.
ScanRecords ==
    /\ pc = "records" /\ pc' = "plan"
    /\ Claim(arrived \ acked)
    /\ pending' = pending \cup (arrived \ acked)
    /\ UNCHANGED <<world, row, scanWait, acked, last, baseline, journal,
                   kind, due, decided, read, running, result, reviewed, lapsed,
                   early, handed, faults>>

-----------------------------------------------------------------------------
(* The scheduled and the event cycle of a pass.                            *)

PlanScheduled ==
    /\ pc = "plan" /\ pc' = IF due THEN "context" ELSE "event"
    /\ due' = FALSE
    /\ UNCHANGED <<world, row, scanner, journal, kind, triggered, trigger, decided, read,
                   running, result, history, faults>>

PlanEvent ==
    /\ pc = "event" /\ pc' = IF triggered THEN "context" ELSE "attempt"
    /\ kind' = "event"
    /\ UNCHANGED <<world, row, scanner, journal, due, triggered, trigger, decided, read,
                   running, result, history, faults>>

After(k) == IF k = "scheduled" THEN "event" ELSE "attempt"

\* The reuse cache was invalidated: the context reads what is on file now, and
\* its decision time is the time at which it was complete.
PrepareContext ==
    /\ pc = "context" /\ pc' = "begin"
    /\ read' = arrived /\ decided' = slot
    /\ UNCHANGED <<world, row, scanner, journal, kind, due, triggered, trigger, running,
                   result, history, faults>>

ContextBlocked ==
    /\ pc = "context" /\ Fault
    /\ result' = [result EXCEPT ![kind] = "failed"]
    /\ pc' = IF kind = "event" THEN "release" ELSE "event"
    /\ UNCHANGED <<world, row, scanner, journal, kind, due, triggered, trigger, decided,
                   read, running, history>>

\* run_due refuses a decision time before the slot that has begun by now, and
\* the pass ends.  An event cycle has a key of its own, unclaimed.
Begin ==
    /\ pc = "begin"
    /\ IF kind = "scheduled" /\ decided < slot
       THEN Over /\ UNCHANGED row
       ELSE /\ pc' = "cycle"
            /\ IF kind = "scheduled"
               THEN row' = [row EXCEPT ![slot] = Begun] /\ running' = slot
               ELSE UNCHANGED <<row, running>>
            /\ UNCHANGED <<journal, kind, due, triggered, trigger, decided, read, result>>
    /\ UNCHANGED <<world, scanner, history, faults>>

\* The executor may publish a construction whether or not the cycle then fails.
RunCycle(good) ==
    /\ pc = "cycle"
    /\ IF good THEN pc' = "complete" /\ UNCHANGED faults
               ELSE pc' = "fail" /\ Fault
    /\ journal' \in {journal, kind}
    /\ UNCHANGED <<world, row, scanner, pass, history>>

Complete ==
    /\ pc = "complete" /\ pc' = "acknowledge"
    /\ IF kind = "scheduled"
       THEN /\ row' = [row EXCEPT ![running] = Completed]
            /\ early' = IF decided < running THEN early \cup {running} ELSE early
       ELSE UNCHANGED <<row, early>>
    /\ result' = [result EXCEPT ![kind] = "completed"]
    /\ reviewed' = reviewed \cup read /\ lapsed' = lapsed \ read
    /\ decided' = 0 /\ read' = {} /\ running' = 0
    /\ UNCHANGED <<world, scanner, journal, kind, due, triggered, trigger, released,
                   handed, faults>>

\* fail_cycle, also over the completion whose reload raised: nobody has seen it.
Fail ==
    /\ pc = "fail"
    /\ IF kind = "scheduled"
       THEN row' = [row EXCEPT ![running] = Failed] /\ pc' = "event"
       ELSE UNCHANGED row /\ pc' = "release"
    /\ result' = [result EXCEPT ![kind] = "failed"]
    /\ decided' = 0 /\ read' = {} /\ running' = 0
    /\ UNCHANGED <<world, scanner, journal, kind, due, triggered, trigger, history, faults>>

\* The prices of the last open scan become the baseline, under a new revision:
\* the next move from the baseline has another key.
AcknowledgePrices ==
    /\ pc = "acknowledge" /\ pc' = "records acknowledged"
    /\ baseline' = IF last = NoPrice THEN baseline ELSE last
    /\ claims' = [claims EXCEPT !["move"] = 0]
    /\ trigger' = trigger \ {"move"}
    /\ released' = released \ {"move"}
    /\ UNCHANGED <<world, row, scanWait, pending, acked, last, journal, kind, due,
                   triggered, decided, read, running, result, reviewed, lapsed,
                   early, handed, faults>>

\* Mutant of AcknowledgeRecords: everything on file is acknowledged.
AcknowledgeAll ==
    /\ pc = "records acknowledged" /\ pc' = After(kind)
    /\ acked' = arrived /\ pending' = {}
    /\ released' = released \ arrived
    /\ reviewed' = {} /\ lapsed' = {}
    /\ UNCHANGED <<world, row, scanWait, claims, last, baseline, journal, pass,
                   early, handed, faults>>

\* A save of its own: the records that scans have found become acknowledged.
AcknowledgeRecords ==
    /\ pc = "records acknowledged" /\ pc' = After(kind)
    /\ acked' = acked \cup pending /\ pending' = {}
    /\ released' = released \ pending
    /\ reviewed' = {} /\ lapsed' = {}
    /\ UNCHANGED <<world, row, scanWait, claims, last, baseline, journal, pass,
                   early, handed, faults>>

\* Mutant of Release: the claims stay.
ReleaseNothing ==
    /\ pc = "release" /\ pc' = "attempt"
    /\ released' = released \cup ((trigger \ acked) \cap Claimable)
    /\ UNCHANGED <<world, row, scanner, journal, pass, reviewed, lapsed, early, handed, faults>>

\* release_trigger: the opportunities of the failed trigger may be claimed again.
Release ==
    /\ pc = "release" /\ pc' = "attempt"
    /\ claims' = [k \in Claimable |-> IF k \in trigger THEN 0 ELSE claims[k]]
    /\ released' = released \cup ((trigger \ acked) \cap Claimable)
    /\ UNCHANGED <<world, row, scanWait, pending, acked, last, baseline, journal,
                   pass, reviewed, lapsed, early, handed, faults>>

-----------------------------------------------------------------------------
(* The hand-over to paper execution, deaths, and the specification.        *)

\* Mutant of Expected: the scheduled cycle is preferred.
ExpectedScheduled ==
    LET cycle == IF result["scheduled"] # "none" THEN "scheduled" ELSE "event"
    IN IF result[cycle] = "completed" THEN {cycle} ELSE {}

\* The event cycle, if there was one, else the scheduled one; and only if it
\* completed, the construction that carries the decision time of its context.
Expected ==
    LET cycle == IF result["event"] # "none" THEN "event" ELSE "scheduled"
    IN IF result[cycle] = "completed" THEN {cycle} ELSE {}

Attempt ==
    /\ pc = "attempt"
    /\ handed' = IF journal \in Expected THEN result[journal] ELSE "none"
    /\ Over
    /\ UNCHANGED <<world, row, scanner, reviewed, lapsed, early, released, faults>>

\* The process dies, or an exception ends the pass: the file, the cycle rows and
\* the claims of the trigger stay as they are.
Crash ==
    /\ pc # "idle"
    /\ Fault
    /\ Over
    /\ UNCHANGED <<world, row, scanner, history>>

Progress ==
    \/ Start \/ ScanMarkets(TRUE) \/ ScanMarkets(FALSE) \/ ScanRecords
    \/ PlanScheduled \/ PlanEvent \/ PrepareContext \/ Begin \/ RunCycle(TRUE)
    \/ Complete \/ Fail \/ AcknowledgePrices \/ AcknowledgeRecords \/ Release \/ Attempt

Next ==
    \/ Progress \/ ScanFails \/ ContextBlocked \/ RunCycle(FALSE) \/ Crash
    \/ Collect \/ MarketMoves \/ NearSlot \/ NewSlot \/ Tick

\* The loop never stops, time passes, a slot that is near begins, and an operator
\* that keeps scanning meets an open market again and again.
Spec ==
    /\ Init /\ [][Next]_vars
    /\ WF_vars(Progress) /\ WF_vars(Tick) /\ WF_vars(NewSlot)
    /\ SF_vars(ScanMarkets(TRUE))
-----------------------------------------------------------------------------
(* What the operator promises.                                             *)

Label == {"idle", "scan", "records", "plan", "event", "context", "begin", "cycle",
          "complete", "acknowledge", "records acknowledged", "fail", "release", "attempt"}

\* Types of the files, of the locals of a pass and of the histories.
OperatorTypeOK ==
    /\ slot \in Slots /\ guard \in {"clear", "before", "after"}
    /\ arrived \subseteq Record /\ grown \in BOOLEAN /\ price \in Price
    /\ row \in [Slots -> CycleRow]
    /\ scanWait \in 0..ScanInterval /\ claims \in [Claimable -> 0..Cooldown]
    /\ pending \subseteq Record /\ acked \subseteq Record
    /\ last \in Price \cup {NoPrice} /\ baseline \in Price \cup {NoPrice}
    /\ journal \in Kind \cup {"old"} /\ kind \in Kind
    /\ due \in BOOLEAN /\ triggered \in BOOLEAN /\ trigger \subseteq Opportunity
    /\ decided \in 0..MaxSlots /\ read \subseteq Record /\ running \in 0..MaxSlots
    /\ result \in [Kind -> {"none", "failed", "completed"}]
    /\ pc \in Label
    /\ reviewed \subseteq Record /\ lapsed \subseteq Record
    /\ early \subseteq Slots /\ released \subseteq Claimable
    /\ handed \in {"none", "failed", "completed"} /\ faults \in 0..MaxFaults

\* A record becomes acknowledged, and never asks for a review again, only if
\* since the last acknowledgement it was on file when the context of a completed
\* cycle was prepared, or left the file while its review was pending: records
\* that arrive while the cycle runs stay open, and those that are no longer on
\* file are settled unreviewed.
AcknowledgedWasReviewed == [][acked' \ acked \subseteq reviewed \cup lapsed]_vars

\* A slot is never completed by a cycle that was decided before the slot began,
\* although a slot may begin while the context of the previous one is prepared.
NoSlotDecidedEarly == early = {}

\* In a pass that reaches the hand-over, the construction of a completed scheduled
\* cycle is passed over only for an event cycle of the same pass, even one that
\* failed; that of a completed event cycle never.
HandOverIsComplete ==
    [][pc = "attempt" /\ pc' = "idle" /\ faults' = faults =>
        \A k \in Kind : journal = k /\ result[k] = "completed" =>
            \/ handed' = "completed"
            \/ k = "scheduled" /\ result["event"] # "none"]_vars

\* An opportunity whose review failed is part of the trigger of the next scan
\* that looks at it, unless its condition has cleared: the failure released its
\* claim.  The record count is the exception: the scan that found it grown has
\* also recorded it, so that the next one no longer finds it grown.
FailedReviewsAreRetried ==
    [][/\ ScanRecords => released \cap (arrived \ acked) \subseteq trigger'
       /\ ScanMarkets(TRUE) /\ "move" \in released /\ baseline # price =>
            "move" \in trigger']_vars

\* A material record that stays on file is reviewed and acknowledged in the end,
\* whatever fails and wherever the operator dies.
RecordsAreReviewed == \A r \in Record : []<>(r \in arrived => r \in acked)

\* A market that stays away from the price of the last assessment is reviewed.
MovesAreReviewed ==
    <>[][price' = price]_price => <>[](baseline \in {price, NoPrice})

\* The cycle of the latest slot is completed in the end, as long as no later one begins.
LatestSlotCompletes == <>[](row[slot].status = "COMPLETED")
=============================================================================
