------------------------ MODULE CertificationProofs ------------------------
(* What TLAPS proves of the certification graph for every set of nodes,    *)
(* dependencies, providers and bounds.                                     *)
EXTENDS Certification, FiniteSetTheorems, TLAPS

USE DEF Verdict, Nothing

\* Where the locals of the run mean something.
Busy == {"submit", "journal", "poll", "check"}

\* A node is either pending, running or settled.  What has qualified, in this run
\* or an earlier one, is neither pending nor running, and has no process.
Bookkeeping ==
    /\ todo \subseteq running
    /\ pc \notin Busy => pending \cup running = {}
    /\ pc = "check" => cur \in todo
    /\ pc = "journal" => cur \in running /\ \A p \in Groups[cur] : free[p] < Capacity[p]
    /\ \A n \in Node : child[n] # "none" => n \in running
    /\ pending \cap running = {}
    /\ \A n \in pending \cup running : record[n] # "qualified"
    /\ pc \in Busy \cup {"finish"} =>
          \A n \in Node : n \in pending \cup running \/ result[n] # "none"

\* What the results and the manifest call qualified is qualified on disk.
ResultsAreOnDisk ==
    /\ \A n \in Node : result[n] = "qualified" => record[n] = "qualified"
    /\ \A n \in Node : manifest[n] = "qualified" => record[n] = "qualified"

\* The inductive invariant.
CertificationInv ==
    /\ CertificationTypeOK
    /\ Bookkeeping
    /\ ResultsAreOnDisk
    /\ CertifiedIsQualified

\* QualifiedIsKept, of one step.
Kept ==
    \A n \in Node : record[n] = "qualified" =>
        record'[n] = "qualified" /\ child'[n] \in {child[n], "none"}

USE DEF Label, Busy
USE CertificationConstants

LEMMA CapacityType ==
    /\ Capacity \in [Provider -> Nat]
    /\ \A p \in Provider : Capacity[p] <= Capacity[p]
  OBVIOUS

LEMMA CertificationInit == Init => CertificationInv
<1> SUFFICES ASSUME Init PROVE CertificationInv
  OBVIOUS
<1>1. CertificationTypeOK
  <2>1. free \in [Provider -> Nat] /\ \A p \in Provider : free[p] <= Capacity[p]
    BY CapacityType DEF Init
  <2>2. faults \in 0 .. MaxFaults
    BY DEF Init
  <2>3. /\ record \in [Node -> Verdict] /\ manifest \in [Node -> Verdict]
        /\ journal \in [Node -> {"none", "alone", "group"}]
        /\ child \in [Node -> {"none", "starting", "lane", "sent", "exited"}]
        /\ msg \in [Node -> Verdict] /\ result \in [Node -> Verdict]
    BY DEF Init
  <2> QED BY <2>1, <2>2, <2>3 DEF Init, CertificationTypeOK
<1> QED
  BY <1>1 DEF Init, CertificationInv, Bookkeeping, ResultsAreOnDisk, CertifiedIsQualified

-----------------------------------------------------------------------------
(* The processes of the nodes, and time.                                   *)

LEMMA ChildSteps ==
    ASSUME CertificationInv, NEW n \in Node,
           ChildReady(n) \/ LaneEnds(n) \/ ChildExits(n) \/ ChildDies(n)
    PROVE  CertificationInv' /\ Kept
  BY DEF ChildReady, LaneEnds, ChildExits, ChildDies, Fault, disk, tree, time, round, run,
         CertificationInv, CertificationTypeOK, Bookkeeping, ResultsAreOnDisk,
         CertifiedIsQualified, Kept

LEMMA OutsideSteps ==
    ASSUME CertificationInv, TimePasses \/ \E n \in Node : LaneFades(n)
    PROVE  CertificationInv' /\ Kept
<1>1. /\ UNCHANGED <<disk, child, msg, pc, run, round, torn, faults>>
      /\ late' \in BOOLEAN /\ stale' \in BOOLEAN
      /\ orphan' \subseteq Node /\ stray' \subseteq Node
  <2>1. CASE TimePasses
    BY <2>1 DEF TimePasses, tree, CertificationInv, CertificationTypeOK
  <2>2. CASE \E n \in Node : LaneFades(n)
    BY <2>2 DEF LaneFades, time, CertificationInv, CertificationTypeOK
  <2> QED BY <2>1, <2>2
<1>2. CertificationTypeOK'
  BY <1>1 DEF disk, round, run, CertificationInv, CertificationTypeOK
<1> QED
  BY <1>1, <1>2 DEF disk, round, run, CertificationInv, Bookkeeping, ResultsAreOnDisk,
     CertifiedIsQualified, Kept

LEMMA StutteringSteps ==
    ASSUME CertificationInv, UNCHANGED vars
    PROVE  CertificationInv' /\ Kept
  BY DEF vars, disk, tree, time, round, run,
         CertificationInv, CertificationTypeOK, Bookkeeping, ResultsAreOnDisk,
         CertifiedIsQualified, Kept

-----------------------------------------------------------------------------
(* The loop of the supervisor.                                             *)

LEMMA LoadSteps ==
    ASSUME CertificationInv, Load
    PROVE  CertificationInv' /\ Kept
<1>1. CertificationTypeOK'
  BY CapacityType DEF Load, disk, tree, time, CertificationInv, CertificationTypeOK
<1>2. Bookkeeping'
  BY DEF Load, tree, CertificationInv, CertificationTypeOK, Bookkeeping
<1>3. ResultsAreOnDisk' /\ CertifiedIsQualified' /\ Kept
  BY DEF Load, tree, CertificationInv, CertificationTypeOK, ResultsAreOnDisk,
         CertifiedIsQualified, Kept
<1> QED BY <1>1, <1>2, <1>3 DEF CertificationInv

LEMMA JournalType ==
    ASSUME NEW S \in SUBSET Node
    PROVE  Journal(S) \in [Node -> {"none", "alone", "group"}]
  BY DEF Journal

LEMMA LaunchSteps ==
    ASSUME CertificationInv, NEW n \in Node, Launch(n)
    PROVE  CertificationInv' /\ Kept
<1>1. n \in pending /\ \A p \in Groups[n] : free[p] > 0
  BY DEF Launch, Launchable
<1>2. running \in SUBSET Node /\ Groups[n] \subseteq Provider
  BY DEF CertificationInv, CertificationTypeOK
<1>3. CASE child' = [child EXCEPT ![n] = "starting"] /\ pc' = "journal"
  <2>1. free' = [p \in Provider |-> IF p \in Groups[n] THEN free[p] - 1 ELSE free[p]]
    BY <1>3 DEF Launch, CertificationInv, CertificationTypeOK
  <2> QED
    BY <1>1, <1>2, <1>3, <2>1 DEF Launch, disk, tree, time, round, run, Fault, Failed,
         CertificationInv, CertificationTypeOK, Bookkeeping, ResultsAreOnDisk,
         CertifiedIsQualified, Kept
<1>4. CASE UNCHANGED <<free, running, child, msg, pc, cur>>
  BY <1>1, <1>2, <1>4, JournalType DEF Launch, disk, tree, time, round, run, Fault, Failed,
       CertificationInv, CertificationTypeOK, Bookkeeping, ResultsAreOnDisk,
       CertifiedIsQualified, Kept
<1> QED BY <1>3, <1>4 DEF Launch

LEMMA JournalSteps ==
    ASSUME CertificationInv, WriteJournal \/ EndSubmit
    PROVE  CertificationInv' /\ Kept
  BY JournalType DEF WriteJournal, EndSubmit, disk, tree, time, round, run,
         CertificationInv, CertificationTypeOK, Bookkeeping, ResultsAreOnDisk,
         CertifiedIsQualified, Kept

LEMMA PollSteps ==
    ASSUME CertificationInv, NEW n \in Node, PollReady(n) \/ PollEmpty(n)
    PROVE  CertificationInv' /\ Kept
  BY DEF PollReady, PollEmpty, disk, tree, time, round, run,
         CertificationInv, CertificationTypeOK, Bookkeeping, ResultsAreOnDisk,
         CertifiedIsQualified, Kept

\* A run that is over leaves its files to the next one.
LEMMA OverKeeps ==
    ASSUME CertificationInv, Forget, pc' \in Label \ (Busy \cup {"finish"}),
           orphan' \subseteq Node, stray' \subseteq Node,
           UNCHANGED time, faults' \in 0 .. MaxFaults,
           journal' \in [Node -> {"none", "alone", "group"}],
           record' \in [Node -> Verdict], manifest' \in [Node -> Verdict],
           \A n \in Node : record[n] = "qualified" => record'[n] = "qualified",
           \A n \in Node : manifest'[n] = "qualified" => record'[n] = "qualified",
           pc' = "certified" => \A n \in Node : record'[n] = "qualified"
    PROVE  CertificationInv' /\ Kept
<1>1. CertificationTypeOK'
  BY CapacityType DEF Forget, time, CertificationInv, CertificationTypeOK
<1> QED
  BY <1>1 DEF Forget, CertificationInv, Bookkeeping, ResultsAreOnDisk,
     CertifiedIsQualified, Kept

LEMMA AbortKeeps ==
    ASSUME CertificationInv, NEW S \in SUBSET Node, NEW lanes \in SUBSET Node,
           Abort(S, lanes), UNCHANGED <<manifest, time>>, faults' \in 0 .. MaxFaults,
           journal' \in [Node -> {"none", "alone", "group"}],
           record' \in [Node -> Verdict],
           \A n \in Node : record[n] = "qualified" => record'[n] = "qualified"
    PROVE  CertificationInv' /\ Kept
<1>1. Forget /\ pc' = "failed"
  BY DEF Abort
<1>2. orphan' \subseteq Node /\ stray' \subseteq Node
  BY DEF Abort, Survivors, CertificationInv, CertificationTypeOK
<1>3. /\ manifest' \in [Node -> Verdict]
      /\ \A n \in Node : manifest'[n] = "qualified" => record'[n] = "qualified"
  BY DEF CertificationInv, CertificationTypeOK, ResultsAreOnDisk
<1> QED BY <1>1, <1>2, <1>3, OverKeeps

LEMMA JournalFailsSteps ==
    ASSUME CertificationInv, JournalFails
    PROVE  CertificationInv' /\ Kept
<1>1. cur \in running /\ cur \in Node /\ running \in SUBSET Node
  BY DEF JournalFails, CertificationInv, CertificationTypeOK, Bookkeeping
<1>2. faults' \in 0 .. MaxFaults
  BY DEF JournalFails, Fault, CertificationInv, CertificationTypeOK
<1>3. CASE pc' = "submit"
  <2>1. Failed({cur}, "failed") /\ UNCHANGED <<manifest, time, tree>>
    BY <1>3 DEF JournalFails, Abort
  <2>2. /\ free' = Return(cur) /\ torn' = TRUE /\ cur' = NoNode
        /\ journal' = Journal(running \ {cur})
        /\ UNCHANGED <<pending, running, ready, todo, submitted, completed>>
    BY <1>3 DEF JournalFails, Abort
  <2>3. free' \in [Provider -> Nat] /\ \A p \in Provider : free'[p] <= Capacity[p]
    BY <1>1, <2>2, CapacityType DEF JournalFails, Return, CertificationInv,
       CertificationTypeOK, Bookkeeping
  <2>4. CertificationTypeOK'
    BY <1>1, <1>2, <1>3, <2>1, <2>2, <2>3, JournalType DEF Failed, tree, time,
       CertificationInv, CertificationTypeOK
  <2>5. Bookkeeping'
    BY <1>1, <1>3, <2>1, <2>2 DEF JournalFails, Failed, tree, CertificationInv,
       CertificationTypeOK, Bookkeeping
  <2>6. ResultsAreOnDisk' /\ CertifiedIsQualified' /\ Kept
    BY <1>1, <1>3, <2>1 DEF Failed, tree, CertificationInv, CertificationTypeOK,
       Bookkeeping, ResultsAreOnDisk, CertifiedIsQualified, Kept
  <2> QED BY <2>4, <2>5, <2>6 DEF CertificationInv
<1>4. CASE Abort(running, {}) /\ record' \in {record, [record EXCEPT ![cur] = "failed"]}
           /\ UNCHANGED <<journal, manifest, time>>
  <2>1. /\ record' \in [Node -> Verdict]
        /\ \A n \in Node : record[n] = "qualified" => record'[n] = "qualified"
        /\ journal' \in [Node -> {"none", "alone", "group"}]
    BY <1>1, <1>4 DEF CertificationInv, CertificationTypeOK, Bookkeeping
  <2> QED BY <1>1, <1>2, <1>4, <2>1, AbortKeeps
<1> QED BY <1>3, <1>4 DEF JournalFails

-----------------------------------------------------------------------------
(* A node with an outcome.                                                 *)

LEMMA SettleKeeps ==
    ASSUME CertificationInv, NEW n \in todo, NEW verdict \in Verdict \ {"none"},
           NEW lanes \in SUBSET Node, pc \in {"poll", "check"},
           Settle(n, verdict, lanes), UNCHANGED time
    PROVE  CertificationInv' /\ Kept
<1>1. n \in running /\ n \in Node /\ running \in SUBSET Node
  BY DEF CertificationInv, CertificationTypeOK, Bookkeeping
<1>2. CASE Overdrawn(n)
  <2>1. Abort(running \ {n}, lanes) /\ UNCHANGED <<disk, faults>>
    BY <1>2 DEF Settle
  <2>2. running \ {n} \in SUBSET Node
    BY <1>1
  <2> QED
    BY <2>1, <2>2, AbortKeeps DEF disk, CertificationInv, CertificationTypeOK
<1>3. CASE ~Overdrawn(n)
  <2>1. /\ running' = running \ {n} /\ ready' = ready \ {n}
        /\ free' = Return(n)
        /\ child' = [child EXCEPT ![n] = "none"] /\ msg' = [msg EXCEPT ![n] = "none"]
        /\ record' = [record EXCEPT ![n] = verdict]
        /\ result' = [result EXCEPT ![n] = verdict]
        /\ failures' \in {failures, failures \cup {n}}
        /\ journal' = [Journal(running) EXCEPT ![n] = "none"]
        /\ todo' = todo \ {n} /\ completed' = TRUE
        /\ pc' = "poll" /\ cur' = NoNode
        /\ stray' = stray \cup lanes
        /\ UNCHANGED <<manifest, orphan, pending, submitted, torn, faults>>
    BY <1>3 DEF Settle
  <2>2. free' \in [Provider -> Nat] /\ \A p \in Provider : free'[p] <= Capacity[p]
    BY <1>1, <1>3, <2>1, CapacityType DEF Overdrawn, Return, CertificationInv,
       CertificationTypeOK
  <2>3. journal' \in [Node -> {"none", "alone", "group"}]
    BY <1>1, <2>1, JournalType
  <2>4. CertificationTypeOK'
    BY <1>1, <2>1, <2>2, <2>3 DEF time, CertificationInv, CertificationTypeOK
  <2>5. Bookkeeping'
    BY <1>1, <2>1 DEF CertificationInv, CertificationTypeOK, Bookkeeping
  <2>6. ResultsAreOnDisk' /\ CertifiedIsQualified' /\ Kept
    BY <1>1, <2>1 DEF CertificationInv, CertificationTypeOK, Bookkeeping,
       ResultsAreOnDisk, CertifiedIsQualified, Kept
  <2> QED BY <2>4, <2>5, <2>6 DEF CertificationInv
<1> QED BY <1>2, <1>3

LEMMA OutcomeSteps ==
    ASSUME CertificationInv, NEW n \in Node, PollResult(n) \/ PollEnd(n) \/ TimesOut(n)
    PROVE  CertificationInv' /\ Kept
<1>1. CASE PollResult(n)
  <2>1. PICK verdict \in {msg[n], "failed"} : Settle(n, verdict, {})
    BY <1>1 DEF PollResult
  <2>2. n \in todo /\ verdict \in Verdict \ {"none"} /\ pc = "poll" /\ UNCHANGED time
    BY <1>1 DEF PollResult, CertificationInv, CertificationTypeOK
  <2> QED BY <2>1, <2>2, SettleKeeps
<1>2. CASE PollEnd(n)
  BY <1>2, SettleKeeps DEF PollEnd
<1>3. CASE TimesOut(n)
  <2>1. n \in todo /\ Survivors({n}) \in SUBSET Node
    BY <1>3 DEF TimesOut, Survivors, CertificationInv, Bookkeeping
  <2> QED BY <1>3, <2>1, SettleKeeps DEF TimesOut
<1> QED BY <1>1, <1>2, <1>3

LEMMA CheckSteps ==
    ASSUME CertificationInv, CheckAlive
    PROVE  CertificationInv' /\ Kept
<1>1. cur \in todo
  BY DEF CheckAlive, CertificationInv, Bookkeeping
<1>2. CASE Settle(cur, "failed", {})
  BY <1>1, <1>2, SettleKeeps DEF CheckAlive
<1>3. CASE todo' = todo \ {cur} /\ cur' = NoNode /\ pc' = "poll"
           /\ UNCHANGED <<disk, tree, run, submitted, completed, torn, faults>>
  BY <1>3 DEF CheckAlive, disk, tree, time, run,
     CertificationInv, CertificationTypeOK, Bookkeeping, ResultsAreOnDisk,
     CertifiedIsQualified, Kept
<1> QED BY <1>2, <1>3 DEF CheckAlive

-----------------------------------------------------------------------------
(* The end of a round and of a run.                                        *)

LEMMA RoundSteps ==
    ASSUME CertificationInv, EndRound
    PROVE  CertificationInv' /\ Kept
<1>1. CASE Stuck
  <2>1. /\ running = {} /\ Failed(pending, "failed") /\ pending' = {}
        /\ journal' = Nothing("none") /\ pc' = "finish"
        /\ submitted' = FALSE /\ completed' = FALSE
        /\ UNCHANGED <<manifest, tree, time, running, free, ready, todo, cur, torn, faults>>
    BY <1>1 DEF EndRound, Stuck
  <2>2. journal' \in [Node -> {"none", "alone", "group"}]
    BY <2>1
  <2>3. CertificationTypeOK'
    <3>1. CertificationTypeOK
      BY DEF CertificationInv
    <3>2. pc' \in Label /\ "failed" \in Verdict
      BY <2>1 DEF Label, Verdict
    <3>3. record' \in [Node -> Verdict] /\ result' \in [Node -> Verdict]
      BY <2>1, <3>1, <3>2 DEF Failed, CertificationTypeOK
    <3>4. failures' \subseteq Node /\ pending' \subseteq Node /\ running' \subseteq Node
      BY <2>1, <3>1 DEF Failed, CertificationTypeOK
    <3> QED
      BY <2>1, <2>2, <3>1, <3>2, <3>3, <3>4 DEF tree, time, CertificationTypeOK
  <2>4. Bookkeeping'
    BY <2>1 DEF EndRound, Failed, tree, CertificationInv, CertificationTypeOK, Bookkeeping
  <2>5. ResultsAreOnDisk' /\ CertifiedIsQualified' /\ Kept
    BY <2>1 DEF Failed, tree, CertificationInv, CertificationTypeOK,
       Bookkeeping, ResultsAreOnDisk, CertifiedIsQualified, Kept
  <2> QED BY <2>3, <2>4, <2>5 DEF CertificationInv
<1>2. CASE ~Stuck
  <2>1. /\ pc = "poll" /\ todo = {}
        /\ pc' = IF pending \cup running = {} THEN "finish" ELSE "submit"
        /\ submitted' = FALSE /\ completed' = FALSE
        /\ UNCHANGED <<record, result, failures, pending, journal>>
        /\ UNCHANGED <<manifest, tree, time, running, free, ready, todo, cur, torn, faults>>
    BY <1>2 DEF EndRound
  <2>2. CertificationTypeOK'
    BY <2>1 DEF tree, time, CertificationInv, CertificationTypeOK
  <2>3. Bookkeeping'
    BY <2>1 DEF tree, CertificationInv, CertificationTypeOK, Bookkeeping
  <2>4. ResultsAreOnDisk' /\ CertifiedIsQualified' /\ Kept
    BY <2>1 DEF tree, CertificationInv, CertificationTypeOK,
       ResultsAreOnDisk, CertifiedIsQualified, Kept
  <2> QED BY <2>2, <2>3, <2>4 DEF CertificationInv
<1> QED BY <1>1, <1>2

LEMMA FinishSteps ==
    ASSUME CertificationInv, Finish
    PROVE  CertificationInv' /\ Kept
<1>1. /\ Forget /\ manifest' = result /\ journal' = Nothing("none")
      /\ pc' \in {"certified", "requeue"}
      /\ UNCHANGED <<record, orphan, stray, time, faults>>
  BY DEF Finish
<1>2. pc' = "certified" => \A n \in Node : record[n] = "qualified"
  <2>1. \A n \in Node : result[n] # "none"
    BY DEF Finish, CertificationInv, Bookkeeping
  <2> QED
    BY <2>1 DEF Finish, FailedNodes, CertificationInv, CertificationTypeOK,
       ResultsAreOnDisk
<1>3. journal' \in [Node -> {"none", "alone", "group"}]
  BY <1>1
<1>4. /\ manifest' \in [Node -> Verdict]
      /\ \A n \in Node : manifest'[n] = "qualified" => record'[n] = "qualified"
  BY <1>1 DEF CertificationInv, CertificationTypeOK, ResultsAreOnDisk
<1> QED
  BY <1>1, <1>2, <1>3, <1>4, OverKeeps DEF CertificationInv, CertificationTypeOK

LEMMA RaiseSteps ==
    ASSUME CertificationInv, Raise
    PROVE  CertificationInv' /\ Kept
<1>1. Abort(running, {}) /\ UNCHANGED <<disk, time>> /\ faults' \in 0 .. MaxFaults
  BY DEF Raise, Fault, CertificationInv, CertificationTypeOK
<1>2. running \in SUBSET Node /\ {} \in SUBSET Node
  BY DEF CertificationInv, CertificationTypeOK
<1> QED
  BY <1>1, <1>2, AbortKeeps DEF disk, CertificationInv, CertificationTypeOK

LEMMA CrashSteps ==
    ASSUME CertificationInv, Crash
    PROVE  CertificationInv' /\ Kept
  BY OverKeeps DEF Crash, Fault, disk, CertificationInv, CertificationTypeOK,
     ResultsAreOnDisk

LEMMA RestartSteps ==
    ASSUME CertificationInv, Requeue \/ Reap \/ Restart
    PROVE  CertificationInv' /\ Kept
  BY DEF Requeue, Reap, Restart, disk, tree, time, round, run,
     CertificationInv, CertificationTypeOK, Bookkeeping, ResultsAreOnDisk,
     CertifiedIsQualified, Kept

-----------------------------------------------------------------------------
(* The theorems.                                                           *)

LEMMA CertificationStep ==
    CertificationInv /\ [Next]_vars => CertificationInv' /\ Kept
<1> SUFFICES ASSUME CertificationInv, [Next]_vars PROVE CertificationInv' /\ Kept
  OBVIOUS
<1>1. CASE Supervise
  BY <1>1, LoadSteps, LaunchSteps, JournalSteps, PollSteps, OutcomeSteps, CheckSteps,
     RoundSteps, FinishSteps, RestartSteps DEF Supervise
<1>2. CASE JournalFails \/ Raise \/ Crash \/ TimePasses
  BY <1>2, JournalFailsSteps, RaiseSteps, CrashSteps, OutsideSteps
<1>3. CASE \E n \in Node : \/ ChildReady(n) \/ LaneEnds(n) \/ ChildExits(n) \/ ChildDies(n)
                          \/ LaneFades(n) \/ TimesOut(n)
  BY <1>3, ChildSteps, OutsideSteps, OutcomeSteps
<1>4. CASE UNCHANGED vars
  BY <1>4, StutteringSteps
<1> QED BY <1>1, <1>2, <1>3, <1>4 DEF Next

LEMMA CertificationInvariant == Spec => []CertificationInv
<1>1. Init => CertificationInv
  BY CertificationInit
<1>2. CertificationInv /\ [Next]_vars => CertificationInv'
  BY CertificationStep
<1> QED BY <1>1, <1>2, PTL DEF Spec

\* The files, the processes and the locals of the run keep their types: in
\* particular no provider ever gets more leases back than it has.
THEOREM TypesOfCertification == Spec => []CertificationTypeOK
<1>1. CertificationInv => CertificationTypeOK
  BY DEF CertificationInv
<1> QED BY <1>1, CertificationInvariant, PTL

\* The graph is certified only with every node qualified on disk.
THEOREM CertifiedMeansQualified == Spec => []CertifiedIsQualified
<1>1. CertificationInv => CertifiedIsQualified
  BY DEF CertificationInv
<1> QED BY <1>1, CertificationInvariant, PTL

\* A node that qualified is neither run again nor does its file change.
THEOREM QualifiedWorkIsKept == Spec => QualifiedIsKept
<1>1. CertificationInv /\ [Next]_vars => [Kept]_vars
  BY CertificationStep
<1>2. Spec => [][Kept]_vars
  BY <1>1, CertificationInvariant, PTL DEF Spec
<1> QED BY <1>2 DEF QualifiedIsKept, Kept
-----------------------------------------------------------------------------
(* The budgets.  The strengthening counts leases: those out and those free *)
(* make up the capacity of a provider until one is returned by a failed    *)
(* journal; from then on there is one too many, which ends the run before  *)
(* it runs out of nodes.                                                   *)

Holders(nodes, p) == {n \in nodes : p \in Groups[n]}
Leases(p) == free[p] + Cardinality(Holders(running, p))

BudgetInv ==
    /\ IsFiniteSet(running)
    /\ Cardinality(running) <= WorkerLimit
    /\ \A p \in Provider : Capacity[p] <= Leases(p) /\ (~torn => Leases(p) = Capacity[p])
    /\ torn => \E p \in Provider : Capacity[p] < Leases(p)
    /\ pc \notin Busy => ~torn

LEMMA HoldersFinite ==
    ASSUME NEW S, NEW p, IsFiniteSet(S)
    PROVE  IsFiniteSet(Holders(S, p)) /\ Cardinality(Holders(S, p)) \in Nat
  BY FS_Subset, FS_CardinalityType DEF Holders

LEMMA BudgetFresh ==
    ASSUME running' = {}, free' = Capacity, torn' = FALSE
    PROVE  BudgetInv'
<1>1. IsFiniteSet({}) /\ Cardinality({}) = 0
  BY FS_EmptySet
<1>2. \A p \in Provider : Holders({}, p) = {}
  BY DEF Holders
<1>3. \A p \in Provider : Leases(p)' = Capacity[p]
  BY <1>1, <1>2, CapacityType DEF Leases
<1>4. IsFiniteSet(running') /\ Cardinality(running') = 0
  BY <1>1
<1> QED BY <1>3, <1>4, CapacityType DEF BudgetInv

LEMMA BudgetSame ==
    ASSUME BudgetInv, UNCHANGED <<running, free, torn>>, pc' \notin Busy => ~torn
    PROVE  BudgetInv'
  BY DEF BudgetInv, Leases, Holders

\* While a lease is returned too often, some node holds another one.
LEMMA TornRuns ==
    ASSUME CertificationInv, BudgetInv, running = {}
    PROVE  ~torn /\ \A p \in Provider : free[p] = Capacity[p]
<1>1. \A p \in Provider : Leases(p) = free[p] /\ free[p] \in Nat /\ free[p] <= Capacity[p]
  <2>1. \A p : Holders(running, p) = {}
    BY DEF Holders
  <2>2. \A p : Cardinality(Holders(running, p)) = 0
    BY <2>1, FS_EmptySet
  <2> QED BY <2>2, CapacityType DEF Leases, CertificationInv, CertificationTypeOK
<1> QED BY <1>1, CapacityType DEF BudgetInv

LEMMA BudgetLaunch ==
    ASSUME CertificationInv, BudgetInv, NEW n \in Node, Launch(n)
    PROVE  BudgetInv'
<1>1. n \in pending /\ n \notin running /\ Cardinality(running) < WorkerLimit
  BY DEF Launch, Launchable, CertificationInv, Bookkeeping
<1>2. CASE /\ free' = [p \in Provider |-> IF p \in Groups[n] THEN free[p] - 1 ELSE free[p]]
           /\ running' = running \cup {n}
  <2>1. /\ IsFiniteSet(running')
        /\ Cardinality(running') = Cardinality(running) + 1
    BY <1>1, <1>2, FS_AddElement DEF BudgetInv
  <2>2. Cardinality(running) \in Nat
    BY FS_CardinalityType DEF BudgetInv
  <2>3. ASSUME NEW p \in Provider PROVE Leases(p)' = Leases(p)
    <3>1. /\ IsFiniteSet(Holders(running, p)) /\ Cardinality(Holders(running, p)) \in Nat
          /\ free[p] \in Nat
      BY <2>3, HoldersFinite DEF BudgetInv, CertificationInv, CertificationTypeOK
    <3>2. CASE p \in Groups[n]
      <4>1. Holders(running', p) = Holders(running, p) \cup {n} /\ n \notin Holders(running, p)
        BY <1>1, <1>2, <3>2 DEF Holders
      <4>2. Cardinality(Holders(running', p)) = Cardinality(Holders(running, p)) + 1
        BY <3>1, <4>1, FS_AddElement
      <4> QED BY <1>2, <3>1, <3>2, <4>2 DEF Leases
    <3>3. CASE p \notin Groups[n]
      <4>1. Holders(running', p) = Holders(running, p)
        BY <1>2, <3>3 DEF Holders
      <4> QED BY <1>2, <3>1, <3>3, <4>1 DEF Leases
    <3> QED BY <3>2, <3>3
  <2>4. torn' = torn /\ pc' \in Busy
    BY <1>2 DEF Launch
  <2> QED BY <1>1, <2>1, <2>2, <2>3, <2>4 DEF BudgetInv
<1>3. CASE UNCHANGED <<free, running>>
  BY <1>3, BudgetSame DEF Launch, BudgetInv
<1> QED BY <1>2, <1>3 DEF Launch

LEMMA BudgetSettle ==
    ASSUME CertificationInv, BudgetInv, NEW n \in todo, NEW verdict, NEW lanes,
           Settle(n, verdict, lanes)
    PROVE  BudgetInv'
<1>1. n \in running /\ n \in Node
  BY DEF CertificationInv, CertificationTypeOK, Bookkeeping
<1>2. CASE Overdrawn(n)
  BY <1>2, BudgetFresh DEF Settle, Abort, Forget
<1>3. CASE ~Overdrawn(n)
  <2>1. running' = running \ {n} /\ free' = Return(n) /\ torn' = torn /\ pc' = "poll"
    BY <1>3 DEF Settle
  <2>2. /\ IsFiniteSet(running') /\ Cardinality(running) \in Nat
        /\ Cardinality(running') = Cardinality(running) - 1
    BY <1>1, <2>1, FS_RemoveElement, FS_CardinalityType DEF BudgetInv
  <2>3. ASSUME NEW p \in Provider PROVE Leases(p)' = Leases(p)
    <3>1. /\ IsFiniteSet(Holders(running, p)) /\ Cardinality(Holders(running, p)) \in Nat
          /\ free[p] \in Nat
      BY <2>3, HoldersFinite DEF BudgetInv, CertificationInv, CertificationTypeOK
    <3>2. CASE p \in Groups[n]
      <4>1. Holders(running', p) = Holders(running, p) \ {n} /\ n \in Holders(running, p)
        BY <1>1, <2>1, <3>2 DEF Holders
      <4>2. Cardinality(Holders(running, p) \ {n}) = Cardinality(Holders(running, p)) - 1
        <5>1. ASSUME NEW S, IsFiniteSet(S), n \in S
              PROVE  Cardinality(S \ {n}) = Cardinality(S) - 1
          BY <5>1, FS_RemoveElement
        <5> QED BY <3>1, <4>1, <5>1
      <4>3. Cardinality(Holders(running', p)) = Cardinality(Holders(running, p)) - 1
        BY <4>1, <4>2
      <4> QED BY <2>1, <3>1, <3>2, <4>3 DEF Return, Leases
    <3>3. CASE p \notin Groups[n]
      <4>1. Holders(running', p) = Holders(running, p)
        BY <2>1, <3>3 DEF Holders
      <4> QED BY <2>1, <3>1, <3>3, <4>1 DEF Return, Leases
    <3> QED BY <3>2, <3>3
  <2>4. Cardinality(running') <= WorkerLimit
    BY <2>2, CertificationConstants DEF BudgetInv
  <2> QED BY <2>1, <2>2, <2>3, <2>4 DEF BudgetInv
<1> QED BY <1>2, <1>3

LEMMA BudgetSettling ==
    ASSUME CertificationInv, BudgetInv, NEW n \in Node,
           PollResult(n) \/ PollEnd(n) \/ TimesOut(n) \/ CheckAlive
    PROVE  BudgetInv'
<1>1. CASE PollResult(n)
  BY <1>1, BudgetSettle DEF PollResult
<1>2. CASE PollEnd(n)
  BY <1>2, BudgetSettle DEF PollEnd
<1>3. pc = "check" => cur \in todo
  BY DEF CertificationInv, Bookkeeping
<1>4. CASE TimesOut(n)
  BY <1>3, <1>4, BudgetSettle DEF TimesOut
<1>5. CASE CheckAlive
  <2>1. CASE Settle(cur, "failed", {})
    BY <1>3, <1>5, <2>1, BudgetSettle DEF CheckAlive
  <2>2. CASE pc' = "poll" /\ UNCHANGED <<run, torn>>
    BY <2>2, BudgetSame DEF run
  <2> QED BY <1>5, <2>1, <2>2 DEF CheckAlive
<1> QED BY <1>1, <1>2, <1>4, <1>5

LEMMA BudgetStep ==
    CertificationInv /\ BudgetInv /\ [Next]_vars => BudgetInv'
<1> SUFFICES ASSUME CertificationInv, BudgetInv, [Next]_vars PROVE BudgetInv'
  OBVIOUS
<1>1. CASE Load
  BY <1>1, BudgetFresh DEF Load, CertificationInv, CertificationTypeOK, Bookkeeping, BudgetInv
<1>2. CASE WriteJournal \/ EndSubmit \/ Requeue \/ Reap \/ Restart
  BY <1>2, BudgetSame DEF WriteJournal, EndSubmit, Requeue, Reap, Restart, run, round, BudgetInv
<1>3. CASE Finish \/ Raise \/ Crash
  BY <1>3, BudgetFresh DEF Finish, Raise, Crash, Abort, Forget
<1>4. CASE JournalFails
  <2>1. CASE Abort(running, {})
    BY <2>1, BudgetFresh DEF Abort, Forget
  <2>2. CASE torn' = TRUE /\ UNCHANGED running /\ free' = Return(cur) /\ pc' = "submit"
    <3>1. cur \in Node /\ \E p \in Provider : p \in Groups[cur]
      BY <1>4 DEF JournalFails, CertificationInv, CertificationTypeOK, Bookkeeping
    <3>2. ASSUME NEW p \in Provider
          PROVE  /\ Leases(p) \in Nat
                 /\ Leases(p)' = IF p \in Groups[cur] THEN Leases(p) + 1 ELSE Leases(p)
      <4>1. Cardinality(Holders(running, p)) \in Nat /\ free[p] \in Nat
        BY HoldersFinite DEF BudgetInv, CertificationInv, CertificationTypeOK
      <4> QED BY <2>2, <4>1 DEF Leases, Return
    <3> QED BY <2>2, <3>1, <3>2, CapacityType DEF BudgetInv
  <2> QED BY <1>4, <2>1, <2>2 DEF JournalFails
<1>9. CASE EndRound
  <2>1. UNCHANGED <<running, free, torn>> /\ (pc' \notin Busy => running = {})
    BY <1>9 DEF EndRound, Stuck, CertificationInv, CertificationTypeOK
  <2> QED BY <2>1, BudgetSame, TornRuns
<1>5. CASE TimePasses \/ UNCHANGED vars
  BY <1>5, BudgetSame DEF TimePasses, vars, run, round, BudgetInv
<1>6. CASE CheckAlive
  <2>1. cur \in Node
    BY <1>6 DEF CheckAlive, CertificationInv, CertificationTypeOK, Bookkeeping
  <2> QED BY <1>6, <2>1, BudgetSettling
<1>7. ASSUME NEW n \in Node,
             \/ ChildReady(n) \/ LaneEnds(n) \/ ChildExits(n) \/ ChildDies(n)
             \/ LaneFades(n) \/ PollReady(n) \/ PollEmpty(n)
      PROVE  BudgetInv'
  BY <1>7, BudgetSame DEF ChildReady, LaneEnds, ChildExits, ChildDies, LaneFades,
     PollReady, PollEmpty, run, round, BudgetInv
<1>8. ASSUME NEW n \in Node, Launch(n) \/ PollResult(n) \/ PollEnd(n) \/ TimesOut(n)
      PROVE  BudgetInv'
  BY <1>8, BudgetLaunch, BudgetSettling
<1> QED
  BY <1>1, <1>2, <1>3, <1>4, <1>5, <1>6, <1>7, <1>8, <1>9 DEF Next, Supervise

LEMMA BudgetInvariant == Spec => []BudgetInv
<1>1. Init => BudgetInv
  <2> SUFFICES ASSUME Init PROVE BudgetInv
    OBVIOUS
  <2>1. IsFiniteSet({}) /\ Cardinality({}) = 0
    BY FS_EmptySet
  <2>2. \A p \in Provider : Holders({}, p) = {}
    BY DEF Holders
  <2> QED BY <2>1, <2>2, CapacityType DEF Init, BudgetInv, Leases
<1> QED BY <1>1, BudgetStep, CertificationInvariant, PTL DEF Spec

\* The node processes stay within the number of workers, and within the capacities
\* until a failed journal returns the lease of a running node
\* (dag_native_comprehensive_supervision.py).
THEOREM BudgetsAreKept == Spec => []LanesWithinBudget
<1>1. CertificationInv /\ BudgetInv => LanesWithinBudget
  <2> SUFFICES ASSUME CertificationInv, BudgetInv
               PROVE  /\ Cardinality({n \in Node : Live(n)}) <= WorkerLimit
                      /\ ~torn => \A p \in Provider :
                            Cardinality({n \in Node : Live(n) /\ p \in Groups[n]}) <= Capacity[p]
    BY DEF LanesWithinBudget
  <2>1. {n \in Node : Live(n)} \subseteq running
    BY DEF Live, CertificationInv, Bookkeeping
  <2>2. ASSUME ~torn, NEW p \in Provider
        PROVE  Cardinality({n \in Node : Live(n) /\ p \in Groups[n]}) <= Capacity[p]
    <3>1. {n \in Node : Live(n) /\ p \in Groups[n]} \subseteq Holders(running, p)
      BY <2>1 DEF Holders
    <3>2. /\ IsFiniteSet(Holders(running, p)) /\ Cardinality(Holders(running, p)) \in Nat
          /\ free[p] + Cardinality(Holders(running, p)) = Capacity[p] /\ free[p] \in Nat
      BY <2>2, HoldersFinite DEF BudgetInv, Leases, CertificationInv, CertificationTypeOK
    <3>3. /\ Cardinality({n \in Node : Live(n) /\ p \in Groups[n]}) \in Nat
          /\ Cardinality({n \in Node : Live(n) /\ p \in Groups[n]})
                <= Cardinality(Holders(running, p))
      BY <3>1, <3>2, FS_Subset, FS_CardinalityType
    <3> QED BY <3>2, <3>3
  <2>3. /\ IsFiniteSet(running) /\ Cardinality(running) \in Nat
        /\ Cardinality(running) <= WorkerLimit
    BY FS_CardinalityType DEF BudgetInv
  <2>4. /\ Cardinality({n \in Node : Live(n)}) \in Nat
        /\ Cardinality({n \in Node : Live(n)}) <= Cardinality(running)
    BY <2>1, <2>3, FS_Subset, FS_CardinalityType
  <2> QED BY <2>2, <2>3, <2>4
<1> QED BY <1>1, BudgetInvariant, CertificationInvariant, PTL
-----------------------------------------------------------------------------
(* Giving up.  While nothing was launched and nothing came to its end, what *)
(* the last look at the pending nodes found is still so.                    *)

GivenUpInv ==
    /\ \A n \in pending : result[n] = "none"
    /\ ~torn => failures \cap (Qualified \cup pending \cup running) = {}
    /\ pc \in {"poll", "check"} /\ running = {} /\ ~submitted /\ ~completed =>
          \A n \in pending : Needs[n] \ Qualified # {}

\* BlockedOnlyByFailure, of one step.
GivenUp == \A n \in pending : pc = "poll" /\ result'[n] = "failed" => Needs[n] \ Qualified # {}

\* The run is over.
LEMMA GivenUpFresh ==
    ASSUME CertificationInv, GivenUpInv, Forget, pc' \notin {"poll", "check"}
    PROVE  GivenUpInv' /\ GivenUp
  BY DEF Forget, Nothing, GivenUpInv, GivenUp, Qualified, CertificationInv, CertificationTypeOK

\* Steps that leave the nodes of the run as they are.
LEMMA GivenUpSame ==
    ASSUME CertificationInv, GivenUpInv,
           UNCHANGED <<pending, running, result, failures, torn, submitted, completed>>,
           pc' \in {"poll", "check"} => pc \in {"poll", "check"}
    PROVE  GivenUpInv' /\ GivenUp
  BY DEF GivenUpInv, GivenUp, Qualified

LEMMA GivenUpLaunch ==
    ASSUME CertificationInv, GivenUpInv, NEW n \in Node, Launch(n)
    PROVE  GivenUpInv' /\ GivenUp
<1>1. n \in pending /\ n \notin running /\ result[n] = "none" /\ pc = "submit"
  BY DEF Launch, Launchable, CertificationInv, Bookkeeping, GivenUpInv
<1> QED
  BY <1>1 DEF Launch, Failed, run, GivenUpInv, GivenUp, Qualified, CertificationInv,
     CertificationTypeOK, Bookkeeping

\* With no node running every lease is there, so a node that could not be
\* launched waits for one that did not qualify.
LEMMA GivenUpSubmit ==
    ASSUME CertificationInv, BudgetInv, GivenUpInv, EndSubmit
    PROVE  GivenUpInv' /\ GivenUp
<1>1. /\ UNCHANGED <<pending, running, result, failures, torn, submitted, completed>>
      /\ pc = "submit" /\ Launchable = {}
  BY DEF EndSubmit, run
<1>2. ASSUME running = {}, NEW n \in pending PROVE Needs[n] \ Qualified # {}
  <2>1. /\ ~torn /\ \A p \in Provider : free[p] = Capacity[p]
        /\ Cardinality(running) < WorkerLimit
    BY <1>2, TornRuns, FS_EmptySet
  <2>2. n \in Node /\ Groups[n] \subseteq Provider
    BY DEF CertificationInv, CertificationTypeOK
  <2>3. \A p \in Groups[n] : free[p] > 0
    BY <2>1, <2>2
  <2>4. ~(Needs[n] \subseteq Qualified \ failures)
    BY <1>1, <2>1, <2>3 DEF Launchable
  <2>5. Qualified \ failures = Qualified
    BY <2>1 DEF GivenUpInv
  <2> QED BY <2>4, <2>5
<1> QED BY <1>1, <1>2 DEF GivenUpInv, GivenUp, Qualified

LEMMA GivenUpSettle ==
    ASSUME CertificationInv, GivenUpInv, NEW n \in todo, NEW verdict, NEW lanes,
           Settle(n, verdict, lanes)
    PROVE  GivenUpInv' /\ GivenUp
<1>1. n \in running /\ n \in Node /\ n \notin pending
  BY DEF CertificationInv, CertificationTypeOK, Bookkeeping
<1>2. CASE Overdrawn(n)
  BY <1>2, GivenUpFresh DEF Settle, Abort
<1>3. CASE ~Overdrawn(n)
  <2>1. /\ running' = running \ {n} /\ result' = [result EXCEPT ![n] = verdict]
        /\ failures' = IF verdict = "qualified" THEN failures ELSE failures \cup {n}
        /\ completed' = TRUE /\ UNCHANGED <<pending, submitted, torn>>
    BY <1>3 DEF Settle
  <2>2. /\ Qualified' \subseteq Qualified \cup {n}
        /\ verdict # "qualified" => n \notin Qualified'
    BY <1>1, <2>1 DEF Qualified, CertificationInv, CertificationTypeOK
  <2> QED BY <1>1, <2>1, <2>2 DEF GivenUpInv, GivenUp, CertificationInv, CertificationTypeOK
<1> QED BY <1>2, <1>3

LEMMA GivenUpStep ==
    CertificationInv /\ BudgetInv /\ GivenUpInv /\ [Next]_vars => GivenUpInv' /\ GivenUp
<1> SUFFICES ASSUME CertificationInv, BudgetInv, GivenUpInv, [Next]_vars
             PROVE  GivenUpInv' /\ GivenUp
  OBVIOUS
<1>1. CASE Load
  BY <1>1 DEF Load, Qualified, GivenUpInv, GivenUp, CertificationInv, Bookkeeping
<1>2. CASE WriteJournal \/ Requeue \/ Reap \/ Restart \/ TimePasses \/ UNCHANGED vars
  BY <1>2, GivenUpSame DEF WriteJournal, Requeue, Reap, Restart, TimePasses, vars, run, round
<1>3. CASE EndSubmit
  BY <1>3, GivenUpSubmit
<1>4. CASE Finish \/ Raise \/ Crash
  BY <1>4, GivenUpFresh DEF Finish, Raise, Crash, Abort
<1>5. CASE JournalFails
  <2>1. CASE Abort(running, {})
    BY <2>1, GivenUpFresh DEF Abort
  <2>2. CASE Failed({cur}, "failed") /\ torn' = TRUE /\ pc' = "submit" /\ pc = "journal"
             /\ UNCHANGED <<pending, running>>
    <3>1. cur \in Node /\ cur \notin pending
      BY <2>2 DEF CertificationInv, CertificationTypeOK, Bookkeeping
    <3> QED BY <2>2, <3>1 DEF Failed, GivenUpInv, GivenUp, CertificationInv, CertificationTypeOK
  <2> QED BY <1>5, <2>1, <2>2 DEF JournalFails
<1>6. CASE EndRound
  <2>1. CASE Stuck
    <3>1. /\ pending' = {} /\ running' = running /\ running = {} /\ torn' = torn
          /\ pc' = "finish" /\ pc = "poll" /\ Failed(pending, "failed")
      BY <1>6, <2>1 DEF EndRound, Stuck
    <3>2. \A n \in pending : Needs[n] \ Qualified # {}
      BY <2>1, <3>1 DEF Stuck, GivenUpInv
    <3>3. ~torn => failures' \cap Qualified' = {}
      BY <3>1 DEF Failed, Qualified, GivenUpInv
    <3> QED BY <3>1, <3>2, <3>3 DEF GivenUpInv, GivenUp
  <2>2. CASE ~Stuck
    BY <1>6, <2>2 DEF EndRound, GivenUpInv, GivenUp, Qualified
  <2> QED BY <2>1, <2>2
<1>7. CASE CheckAlive
  <2>1. cur \in todo /\ pc = "check"
    BY <1>7 DEF CheckAlive, CertificationInv, Bookkeeping
  <2>2. CASE Settle(cur, "failed", {})
    BY <2>1, <2>2, GivenUpSettle
  <2>3. CASE UNCHANGED <<run, submitted, completed, torn>>
    BY <2>1, <2>3, GivenUpSame DEF run
  <2> QED BY <1>7, <2>2, <2>3 DEF CheckAlive
<1>8. ASSUME NEW n \in Node,
             \/ ChildReady(n) \/ LaneEnds(n) \/ ChildExits(n) \/ ChildDies(n)
             \/ LaneFades(n) \/ PollReady(n) \/ PollEmpty(n)
      PROVE  GivenUpInv' /\ GivenUp
  BY <1>8, GivenUpSame DEF ChildReady, LaneEnds, ChildExits, ChildDies, LaneFades,
     PollReady, PollEmpty, run, round
<1>9. ASSUME NEW n \in Node, Launch(n) \/ PollResult(n) \/ PollEnd(n) \/ TimesOut(n)
      PROVE  GivenUpInv' /\ GivenUp
  <2>1. TimesOut(n) => n \in todo
    BY DEF TimesOut, CertificationInv, Bookkeeping
  <2> QED BY <1>9, <2>1, GivenUpLaunch, GivenUpSettle DEF PollResult, PollEnd, TimesOut
<1> QED
  BY <1>1, <1>2, <1>3, <1>4, <1>5, <1>6, <1>7, <1>8, <1>9 DEF Next, Supervise

\* A node that was never launched fails only for a dependency that did not
\* qualify: the supervisor's last resort does not give up a node that merely
\* waited for a lease or a worker, nor one whose dependency has just qualified.
THEOREM GivenUpOnlyByFailure == Spec => BlockedOnlyByFailure
<1>1. Init => GivenUpInv
  BY DEF Init, GivenUpInv, Nothing
<1>2. Spec => [][GivenUp]_vars
  <2>1. CertificationInv /\ BudgetInv /\ GivenUpInv /\ [Next]_vars => GivenUpInv'
    BY GivenUpStep
  <2>2. CertificationInv /\ BudgetInv /\ GivenUpInv /\ [Next]_vars => [GivenUp]_vars
    BY GivenUpStep
  <2> QED BY <1>1, <2>1, <2>2, CertificationInvariant, BudgetInvariant, PTL DEF Spec
<1> QED BY <1>2 DEF BlockedOnlyByFailure, GivenUp
=============================================================================
