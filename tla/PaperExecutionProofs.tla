------------------------ MODULE PaperExecutionProofs ------------------------
(***************************************************************************)
(* A live grant of a paper-execution lease owns the row of its             *)
(* construction, for every number of workers and constructions and         *)
(* whatever interleaving of attempts, renewals, takeovers and crashes.     *)
(***************************************************************************)
EXTENDS PaperExecution, TLAPS

Fields == {"pc", "c", "stamp", "leased", "base", "prev", "outcome", "exit"}

\* Where a worker may hold a lease, and where it works on a construction.
LeasedControl == {"require", "read", "batch", "start", "fill", "append", "record",
                  "conclude", "publish", "write", "release"}
Working == LeasedControl \cup {"authorize", "approve", "check", "lease"}

GoodRun(r) ==
    /\ DOMAIN r = Fields
    /\ r.leased \in BOOLEAN
    /\ r.leased => r.pc \in LeasedControl
    /\ r.pc \in Working => r.c \in Construction

RunShape == DOMAIN run = Worker /\ \A w \in Worker : GoodRun(run[w])

LeaseShape ==
    /\ now \in Nat /\ issued \in Nat
    /\ lease \in [Construction -> Row]
    /\ grant \in [Worker -> Row]

\* Owner identifiers are never reused, so a row names at most one grant, and
\* agrees with it on the expiry.
Exclusive ==
    /\ \A c \in Construction : lease[c].owner <= issued
    /\ \A w \in Worker : grant[w].owner <= issued
    /\ \A v, w \in Worker : grant[v].owner # 0 /\ grant[v].owner = grant[w].owner => v = w
    /\ \A w \in Worker, c \in Construction :
          OwnRow(w, c) => /\ run[w].leased /\ run[w].c = c
                          /\ lease[c].expires = grant[w].expires

LeaseInv == RunShape /\ LeaseShape /\ Exclusive /\ LiveGrantOwnsRow

-----------------------------------------------------------------------------
\* The locals a worker starts with, and those it keeps when the runner ends.
LEMMA IdleIsGood == GoodRun(Idle) /\ Idle.leased = FALSE /\ Idle.pc = "idle"
  BY DEF GoodRun, Idle, Fields, Working, LeasedControl

LEMMA KeepIsGood ==
    ASSUME RunShape, NEW w \in Worker, NEW there, NEW result, run[w].pc \in Working,
           there \in LeasedControl
    PROVE  /\ GoodRun(Keep(w, there, result))
           /\ Keep(w, there, result).leased = run[w].leased
           /\ Keep(w, there, result).c = run[w].c
<1>1. /\ DOMAIN Keep(w, there, result) = Fields
      /\ Keep(w, there, result).pc = there
      /\ Keep(w, there, result).leased = run[w].leased
      /\ Keep(w, there, result).c = run[w].c
  BY DEF Keep, Idle, Fields
<1>2. run[w].leased \in BOOLEAN /\ run[w].c \in Construction
  BY DEF RunShape, GoodRun
<1> QED BY <1>1, <1>2 DEF GoodRun

\* Only one worker's locals change in a step.
LEMMA PutOne ==
    ASSUME RunShape, NEW w \in Worker, NEW next, GoodRun(next),
           run' = [run EXCEPT ![w] = next]
    PROVE  RunShape' /\ run'[w] = next /\ \A v \in Worker : v # w => run'[v] = run[v]
  BY DEF RunShape

\* Steps that do not touch the lease store preserve the invariant.
LEMMA QuietStep ==
    ASSUME LeaseInv, UNCHANGED leaseVars, NEW w \in Worker, NEW next, GoodRun(next),
           next.leased = run[w].leased,
           run[w].leased => next.c = run[w].c,
           run' = [run EXCEPT ![w] = next]
    PROVE  LeaseInv'
<1>1. RunShape' /\ run'[w] = next /\ \A v \in Worker : v # w => run'[v] = run[v]
  BY PutOne DEF LeaseInv
<1>2. LeaseShape'
  BY DEF LeaseInv, LeaseShape, leaseVars
<1>3. Exclusive'
  BY <1>1 DEF LeaseInv, Exclusive, leaseVars, OwnRow
<1>4. LiveGrantOwnsRow'
  BY <1>1 DEF LeaseInv, LiveGrantOwnsRow, leaseVars, OwnRow
<1> QED BY <1>1, <1>2, <1>3, <1>4 DEF LeaseInv

\* The three forms of such a step: to go on, to leave the runner, and to end.
LEMMA QuietGoto ==
    ASSUME LeaseInv, UNCHANGED leaseVars, NEW w \in Worker, NEW there, Goto(w, there),
           run[w].pc \in Working,
           there \in LeasedControl \/ (~run[w].leased /\ there \in Working)
    PROVE  LeaseInv'
<1> DEFINE next == [run[w] EXCEPT !.pc = there]
<1>1. GoodRun(run[w])
  BY DEF LeaseInv, RunShape
<1>2. /\ DOMAIN next = Fields /\ next.pc = there
      /\ next.leased = run[w].leased /\ next.c = run[w].c
  BY <1>1 DEF GoodRun, Fields
<1>3. GoodRun(next)
  BY <1>1, <1>2 DEF GoodRun
<1>4. run' = [run EXCEPT ![w] = next]
  BY DEF Goto
<1> HIDE DEF next
<1> QED BY <1>2, <1>3, <1>4, QuietStep

LEMMA QuietExit ==
    ASSUME LeaseInv, UNCHANGED leaseVars, NEW w \in Worker, NEW result, Exit(w, result),
           run[w].pc \in Working
    PROVE  LeaseInv'
<1>1. CASE run[w].leased
  <2>1. run' = [run EXCEPT ![w] = Keep(w, "publish", result)]
    BY <1>1 DEF Exit
  <2>2. "publish" \in LeasedControl
    BY DEF LeasedControl
  <2> QED BY <2>1, <2>2, KeepIsGood, QuietStep DEF LeaseInv
<1>2. CASE ~run[w].leased
  <2>1. run' = [run EXCEPT ![w] = Idle]
    BY <1>2 DEF Exit
  <2>2. run[w].leased \in BOOLEAN
    BY DEF LeaseInv, RunShape, GoodRun
  <2> QED BY <1>2, <2>1, <2>2, IdleIsGood, QuietStep
<1> QED BY <1>1, <1>2

LEMMA QuietLeave ==
    ASSUME LeaseInv, UNCHANGED leaseVars, NEW w \in Worker, Leave(w), ~run[w].leased
    PROVE  LeaseInv'
<1>1. run[w].leased \in BOOLEAN
  BY DEF LeaseInv, RunShape, GoodRun
<1> QED BY <1>1, IdleIsGood, QuietStep DEF Leave

-----------------------------------------------------------------------------
\* The steps that write the lease store.

\* A worker holds no lease where it cannot: a fresh owner takes the row.
LEMMA AcquireStep ==
    ASSUME LeaseInv, NEW w \in Worker, AcquireLease(w)
    PROVE  LeaseInv'
<1> DEFINE c == run[w].c
<1>1. ~run[w].leased /\ c \in Construction /\ GoodRun(run[w])
  BY DEF LeaseInv, RunShape, GoodRun, AcquireLease, At, LeasedControl, Working
<1>2. CASE Held(c)
  <2>1. Leave(w) /\ UNCHANGED leaseVars
    BY <1>2 DEF AcquireLease
  <2> QED BY <1>1, <2>1, QuietLeave
<1>3. CASE ~Held(c)
  <2> DEFINE row == [owner |-> issued + 1, token |-> lease[c].token + 1,
                     expires |-> now + LeaseDuration]
             next == [run[w] EXCEPT !.pc = "require", !.leased = TRUE]
  <2>1. /\ lease' = [lease EXCEPT ![c] = row] /\ grant' = [grant EXCEPT ![w] = row]
        /\ issued' = issued + 1 /\ UNCHANGED now
        /\ run' = [run EXCEPT ![w] = next]
    BY <1>3 DEF AcquireLease, Acquire
  <2>2. row \in Row /\ row.owner = issued + 1 /\ row.expires = now + LeaseDuration
    BY <1>1, PaperLeaseAssumption DEF LeaseInv, LeaseShape, Row
  <2>3. GoodRun(next) /\ next.leased = TRUE /\ next.c = c
    BY <1>1 DEF GoodRun, Fields, LeasedControl
  <2> HIDE DEF row, next, c
  <2>4. RunShape' /\ run'[w] = next /\ \A v \in Worker : v # w => run'[v] = run[v]
    BY <2>1, <2>3, PutOne DEF LeaseInv
  <2>5. LeaseShape'
    BY <1>1, <2>1, <2>2 DEF LeaseInv, LeaseShape
  <2>6. Exclusive'
    BY <1>1, <2>1, <2>2, <2>3, <2>4 DEF LeaseInv, LeaseShape, Exclusive, OwnRow, Row
  <2>7. LiveGrantOwnsRow'
    <3> SUFFICES ASSUME NEW v \in Worker, run'[v].leased, grant'[v].expires > now'
                 PROVE  OwnRow(v, run[v].c)'
      BY DEF LiveGrantOwnsRow
    <3>1. CASE v = w
      BY <1>1, <2>1, <2>2, <2>3, <2>4, <3>1 DEF LeaseInv, LeaseShape, OwnRow, Row
    <3>2. CASE v # w
      <4>1. OwnRow(v, run[v].c) /\ grant[v].expires > now /\ run'[v] = run[v]
        BY <2>1, <2>4, <3>2 DEF LeaseInv, LeaseShape, LiveGrantOwnsRow
      <4>2. run[v].c # c
        BY <1>1, <1>3, <4>1 DEF LeaseInv, LeaseShape, Exclusive, OwnRow, Held, c
      <4> QED BY <1>1, <2>1, <3>2, <4>1, <4>2 DEF LeaseInv, LeaseShape, OwnRow
    <3> QED BY <3>1, <3>2
  <2> QED BY <2>4, <2>5, <2>6, <2>7 DEF LeaseInv
<1> QED BY <1>2, <1>3

\* A renewal moves the expiry of the row and of the grant it names together.
LEMMA RenewStep ==
    ASSUME LeaseInv, NEW w \in Worker, NEW c \in Construction, OwnRow(w, c), RenewRow(w, c),
           RunShape',
           \A v \in Worker : run'[v].leased = run[v].leased /\ run'[v].c = run[v].c
    PROVE  LeaseInv'
<1> DEFINE until == now + LeaseDuration
<1>1. /\ lease' = [lease EXCEPT ![c].expires = until]
      /\ grant' = [grant EXCEPT ![w].expires = until]
      /\ UNCHANGED <<now, issued>>
  BY DEF RenewRow
<1>2. until \in Nat
  BY PaperLeaseAssumption DEF LeaseInv, LeaseShape
<1> HIDE DEF until
<1>3. LeaseShape'
  BY <1>1, <1>2 DEF LeaseInv, LeaseShape, Row
<1>4. /\ \A d \in Construction : lease'[d].owner = lease[d].owner
                               /\ lease'[d].token = lease[d].token
      /\ \A v \in Worker : grant'[v].owner = grant[v].owner /\ grant'[v].token = grant[v].token
      /\ \A d \in Construction : d # c => lease'[d].expires = lease[d].expires
      /\ \A v \in Worker : v # w => grant'[v].expires = grant[v].expires
      /\ lease'[c].expires = until /\ grant'[w].expires = until
  BY <1>1 DEF LeaseInv, LeaseShape, Row
<1>5. \A v \in Worker, d \in Construction : OwnRow(v, d)' <=> OwnRow(v, d)
  BY <1>4 DEF OwnRow
<1>6. Exclusive'
  <2>1. \A v \in Worker : OwnRow(v, c) => v = w
    BY DEF LeaseInv, Exclusive, OwnRow
  <2>2. \A d \in Construction : OwnRow(w, d) => d = c
    BY DEF LeaseInv, Exclusive
  <2> QED BY <1>1, <1>4, <1>5, <2>1, <2>2 DEF LeaseInv, Exclusive
<1>7. LiveGrantOwnsRow'
  <2> SUFFICES ASSUME NEW v \in Worker, run'[v].leased, grant'[v].expires > now'
               PROVE  OwnRow(v, run[v].c)'
    BY DEF LiveGrantOwnsRow
  <2>1. run[v].leased /\ run'[v].c = run[v].c /\ run[v].c \in Construction
    BY DEF LeaseInv, RunShape, GoodRun, Working
  <2>2. CASE v = w
    <3>1. run[w].c = c
      BY DEF LeaseInv, Exclusive
    <3> QED BY <1>5, <2>1, <2>2, <3>1
  <2>3. CASE v # w
    <3>1. OwnRow(v, run[v].c)
      BY <1>1, <1>4, <2>1, <2>3 DEF LeaseInv, LiveGrantOwnsRow
    <3> QED BY <1>5, <2>1, <3>1
  <2> QED BY <2>2, <2>3
<1> QED BY <1>3, <1>6, <1>7 DEF LeaseInv

\* A worker that gives its grant up takes at most its own row with it.
LEMMA ForgetStep ==
    ASSUME LeaseInv, NEW w \in Worker, NEW c,
           lease' = lease \/ DropRow(w, c),
           grant' = [grant EXCEPT ![w] = NoGrant],
           UNCHANGED <<now, issued>>, Leave(w)
    PROVE  LeaseInv'
<1>1. RunShape' /\ run'[w] = Idle /\ \A v \in Worker : v # w => run'[v] = run[v]
  BY IdleIsGood, PutOne DEF LeaseInv, Leave
<1>2. NoRow \in Row /\ NoRow.owner = 0 /\ NoGrant \in Row /\ NoGrant.owner = 0
  BY DEF NoRow, NoGrant, Row
<1>3. LeaseShape'
  BY <1>2 DEF LeaseInv, LeaseShape, DropRow
<1>4. \A d \in Construction : lease'[d] = lease[d] \/ (d = c /\ OwnRow(w, c) /\ lease'[d] = NoRow)
  BY DEF LeaseInv, LeaseShape, DropRow
<1>5. \A v \in Worker : v # w => grant'[v] = grant[v]
  BY DEF LeaseInv, LeaseShape
<1>6. grant'[w] = NoGrant
  BY DEF LeaseInv, LeaseShape
<1>7. \A v \in Worker, d \in Construction : OwnRow(v, d)' => v # w /\ OwnRow(v, d) /\ lease'[d] = lease[d]
  BY <1>2, <1>4, <1>5, <1>6 DEF OwnRow
<1>8. Exclusive'
  BY <1>1, <1>2, <1>4, <1>5, <1>6, <1>7 DEF LeaseInv, LeaseShape, Exclusive, Row
<1>9. LiveGrantOwnsRow'
  <2> SUFFICES ASSUME NEW v \in Worker, run'[v].leased, grant'[v].expires > now'
               PROVE  OwnRow(v, run[v].c)'
    BY DEF LiveGrantOwnsRow
  <2>1. v # w
    BY <1>1, IdleIsGood
  <2>2. OwnRow(v, run[v].c) /\ run'[v] = run[v] /\ run[v].c \in Construction
    BY <1>1, <1>5, <2>1 DEF LeaseInv, LiveGrantOwnsRow, RunShape, GoodRun, Working
  <2>3. ~(run[v].c = c /\ OwnRow(w, c))
    BY <2>1, <2>2 DEF LeaseInv, Exclusive, OwnRow
  <2> QED BY <1>4, <1>5, <2>1, <2>2, <2>3 DEF OwnRow
<1> QED BY <1>1, <1>3, <1>8, <1>9 DEF LeaseInv

-----------------------------------------------------------------------------
\* The invariant holds at first.
LEMMA InitHolds == Init => LeaseInv
<1> SUFFICES ASSUME Init PROVE LeaseInv
  OBVIOUS
<1>1. RunShape
  BY IdleIsGood DEF Init, RunShape
<1>2. LeaseShape
  BY DEF Init, LeaseInit, LeaseShape, NoRow, NoGrant, Row
<1>3. Exclusive
  BY DEF Init, LeaseInit, Exclusive, NoRow, NoGrant, OwnRow
<1>4. LiveGrantOwnsRow
  BY IdleIsGood DEF Init, LiveGrantOwnsRow
<1> QED BY <1>1, <1>2, <1>3, <1>4 DEF LeaseInv

\* The runtime's own steps before and after the runner.
LEMMA RuntimeStep ==
    ASSUME LeaseInv, NEW w \in Worker,
           Authorize(w) \/ Approve(w) \/ CheckStatus(w) \/ Publish(w) \/ WriteStatus(w)
               \/ Release(w)
    PROVE  LeaseInv'
<1>1. GoodRun(run[w])
  BY DEF LeaseInv, RunShape
<1>2. CASE Authorize(w)
  <2>1. ~run[w].leased /\ run[w].pc \in Working /\ UNCHANGED leaseVars
    BY <1>1, <1>2 DEF Authorize, At, GoodRun, LeasedControl, Working
  <2>2. Leave(w) \/ Goto(w, "check") \/ Goto(w, "approve")
    BY <1>2 DEF Authorize, AfterLatest
  <2>3. "check" \in Working /\ "approve" \in Working
    BY DEF Working
  <2> QED BY <2>1, <2>2, <2>3, QuietLeave, QuietGoto
<1>3. CASE Approve(w)
  <2>1. ~run[w].leased /\ run[w].pc \in Working /\ "check" \in Working /\ UNCHANGED leaseVars
    BY <1>1, <1>3 DEF Approve, At, GoodRun, LeasedControl, Working
  <2> QED BY <1>3, <2>1, QuietGoto DEF Approve
<1>4. CASE CheckStatus(w)
  <2>1. ~run[w].leased /\ run[w].pc \in Working /\ "lease" \in Working /\ UNCHANGED leaseVars
    BY <1>1, <1>4 DEF CheckStatus, At, GoodRun, LeasedControl, Working
  <2> QED BY <1>4, <2>1, QuietLeave, QuietGoto DEF CheckStatus
<1>5. CASE Publish(w)
  <2>1. run[w].pc \in Working /\ run[w].c \in Construction
    BY <1>1, <1>5 DEF Publish, At, GoodRun, LeasedControl, Working
  <2>2. "write" \in LeasedControl /\ "release" \in LeasedControl
    BY DEF LeasedControl
  <2>3. CASE AssertOwned(w, run[w].c) /\ Goto(w, "write")
    <3> DEFINE next == [run[w] EXCEPT !.pc = "write"]
    <3>1. GoodRun(next) /\ next.leased = run[w].leased /\ next.c = run[w].c
      BY <1>1, <2>1, <2>2 DEF GoodRun, Fields
    <3>2. run' = [run EXCEPT ![w] = next]
      BY <2>3 DEF Goto
    <3> HIDE DEF next
    <3>3. RunShape' /\ \A v \in Worker : run'[v].leased = run[v].leased /\ run'[v].c = run[v].c
      BY <3>1, <3>2, PutOne DEF LeaseInv
    <3> QED BY <2>1, <2>3, <3>3, RenewStep DEF AssertOwned, Renewable
  <2>4. CASE Goto(w, "release") /\ UNCHANGED leaseVars
    BY <2>1, <2>2, <2>4, QuietGoto
  <2> QED BY <1>5, <2>3, <2>4 DEF Publish
<1>6. CASE WriteStatus(w)
  <2>1. run[w].pc \in Working /\ "release" \in LeasedControl /\ UNCHANGED leaseVars
    BY <1>6 DEF WriteStatus, At, LeasedControl, Working
  <2> QED BY <1>6, <2>1, QuietGoto DEF WriteStatus
<1>7. CASE Release(w)
  <2>1. run[w].c \in Construction
    BY <1>1, <1>7 DEF Release, At, GoodRun, LeasedControl, Working
  <2> QED BY <1>7, <2>1, ForgetStep DEF Release, ReleaseLease
<1> QED BY <1>2, <1>3, <1>4, <1>5, <1>6, <1>7

\* The runner's steps.
LEMMA RunnerStep ==
    ASSUME LeaseInv, NEW w \in Worker,
           Require(w) \/ ReadPortfolio(w) \/ ReadBatch(w) \/ StartAttempt(w) \/ Fill(w)
               \/ RunnerFails(w) \/ AppendEnding(w) \/ Record(w) \/ Conclude(w)
    PROVE  LeaseInv'
<1>1. GoodRun(run[w])
  BY DEF LeaseInv, RunShape
<1>2. run[w].pc \in LeasedControl /\ run[w].pc \in Working /\ UNCHANGED leaseVars
  BY DEF Require, ReadPortfolio, ReadBatch, StartAttempt, Fill, RunnerFails, AppendEnding,
         Record, Conclude, At, LeasedControl, Working
<1>3. /\ "read" \in LeasedControl /\ "fill" \in LeasedControl
      /\ "record" \in LeasedControl /\ "conclude" \in LeasedControl
  BY DEF LeasedControl
<1>4. CASE \E result : Exit(w, result)
  BY <1>2, <1>4, QuietExit
<1>5. CASE \E there \in LeasedControl : Goto(w, there)
  BY <1>2, <1>5, QuietGoto
<1>6. CASE run' = [run EXCEPT ![w] = Keep(w, "conclude", "none")]
  BY <1>2, <1>3, <1>6, KeepIsGood, QuietStep DEF LeaseInv
<1>7. CASE \E n : run' = [run EXCEPT ![w].pc = "batch", ![w].base = n]
  <2> PICK n : run' = [run EXCEPT ![w].pc = "batch", ![w].base = n]
    BY <1>7
  <2> DEFINE next == [run[w] EXCEPT !.pc = "batch", !.base = n]
  <2>1. GoodRun(next) /\ next.leased = run[w].leased /\ next.c = run[w].c
    BY <1>1, <1>2 DEF GoodRun, Fields, LeasedControl
  <2>2. run' = [run EXCEPT ![w] = next]
    OBVIOUS
  <2> HIDE DEF next
  <2> QED BY <1>2, <2>1, <2>2, QuietStep
<1>8. CASE \E n : run' = [run EXCEPT ![w].pc = "start", ![w].prev = n]
  <2> PICK n : run' = [run EXCEPT ![w].pc = "start", ![w].prev = n]
    BY <1>8
  <2> DEFINE next == [run[w] EXCEPT !.pc = "start", !.prev = n]
  <2>1. GoodRun(next) /\ next.leased = run[w].leased /\ next.c = run[w].c
    BY <1>1, <1>2 DEF GoodRun, Fields, LeasedControl
  <2>2. run' = [run EXCEPT ![w] = next]
    OBVIOUS
  <2> HIDE DEF next
  <2> QED BY <1>2, <2>1, <2>2, QuietStep
<1>9. CASE \E o : \E there \in {"append", "record"} : run' = [run EXCEPT ![w].pc = there, ![w].outcome = o]
  <2> PICK o : \E there \in {"append", "record"} :
                  run' = [run EXCEPT ![w].pc = there, ![w].outcome = o]
    BY <1>9
  <2> PICK there \in {"append", "record"} :
             run' = [run EXCEPT ![w].pc = there, ![w].outcome = o]
    OBVIOUS
  <2> DEFINE next == [run[w] EXCEPT !.pc = there, !.outcome = o]
  <2>1. GoodRun(next) /\ next.leased = run[w].leased /\ next.c = run[w].c
    BY <1>1, <1>2 DEF GoodRun, Fields, LeasedControl
  <2>2. run' = [run EXCEPT ![w] = next]
    OBVIOUS
  <2> HIDE DEF next
  <2> QED BY <1>2, <2>1, <2>2, QuietStep
<1>10. CASE Fill(w)
  <2>1. \E fresh, o : run' = [run EXCEPT ![w].pc = IF fresh THEN "append" ELSE "record",
                                       ![w].outcome = o]
    BY <1>10 DEF Fill
  <2> QED BY <1>9, <2>1
<1>11. CASE ReadBatch(w)
  BY <1>4, <1>6, <1>8, <1>11 DEF ReadBatch
<1>12. CASE ReadPortfolio(w)
  BY <1>4, <1>7, <1>12 DEF ReadPortfolio
<1>13. CASE Require(w) \/ StartAttempt(w) \/ RunnerFails(w) \/ AppendEnding(w) \/ Conclude(w)
  BY <1>3, <1>4, <1>5, <1>13 DEF Require, StartAttempt, RunnerFails, AppendEnding, Conclude
<1>14. CASE Record(w)
  BY <1>4, <1>6, <1>14 DEF Record
<1> QED BY <1>10, <1>11, <1>12, <1>13, <1>14

\* Nothing the invariant speaks of changes.
LEMMA FrameStep ==
    ASSUME LeaseInv, UNCHANGED <<now, lease, grant, issued, run>>
    PROVE  LeaseInv'
  BY DEF LeaseInv, RunShape, LeaseShape, Exclusive, LiveGrantOwnsRow, OwnRow

\* Faults, and the renewing thread.
LEMMA FaultStep ==
    ASSUME LeaseInv, NEW w \in Worker, DatabaseError(w) \/ Crash(w) \/ Renew(w)
    PROVE  LeaseInv'
<1>1. GoodRun(run[w])
  BY DEF LeaseInv, RunShape
<1>2. CASE DatabaseError(w)
  <2>1. run[w].pc \in Working /\ UNCHANGED leaseVars
    BY <1>2 DEF DatabaseError, LeasedControl, Working
  <2>2. CASE run[w].leased
    <3>1. run' = [run EXCEPT ![w] = Keep(w, "release", "none")] /\ "release" \in LeasedControl
      BY <1>2, <2>2 DEF DatabaseError, LeasedControl
    <3> QED BY <2>1, <3>1, KeepIsGood, QuietStep DEF LeaseInv
  <2>3. CASE ~run[w].leased
    BY <1>2, <2>1, <2>3, QuietLeave DEF DatabaseError, Leave
  <2> QED BY <2>2, <2>3
<1>3. CASE Crash(w)
  BY <1>3, ForgetStep DEF Crash, LoseGrant
<1>4. CASE Renew(w)
  <2> DEFINE c == run[w].c
  <2>1. run[w].leased /\ RenewThread(w, c) /\ UNCHANGED run
    BY <1>4 DEF Renew
  <2>2. c \in Construction /\ RunShape'
    BY <1>1, <2>1 DEF GoodRun, Working, LeaseInv, RunShape
  <2>3. CASE Renewable(w, c)
    BY <2>1, <2>2, <2>3, RenewStep DEF RenewThread, Renewable
  <2>4. CASE ~Renewable(w, c)
    BY <2>1, <2>4, FrameStep DEF RenewThread
  <2> QED BY <2>3, <2>4
<1> QED BY <1>2, <1>3, <1>4

\* Attempts and marks begin and end.
LEMMA CallerStep ==
    ASSUME LeaseInv, NEW w \in Worker,
           BeginMark(w) \/ AppendMark(w)
               \/ \E c \in Construction : Begin(w, c) \/ BeginCommand(w, c)
    PROVE  LeaseInv'
<1>1. ~run[w].leased /\ run[w].leased \in BOOLEAN /\ UNCHANGED leaseVars
  BY DEF LeaseInv, RunShape, GoodRun, BeginMark, AppendMark, Begin, BeginCommand, At, LeasedControl
<1>2. CASE AppendMark(w)
  BY <1>1, <1>2, QuietLeave DEF AppendMark
<1>3. CASE BeginMark(w)
  <2> DEFINE next == [Idle EXCEPT !.pc = "mark", !.stamp = now, !.base = Len(portfolio),
                                  !.prev = marks + 1]
  <2>1. run' = [run EXCEPT ![w] = next]
    BY <1>3 DEF BeginMark
  <2>2. GoodRun(next) /\ next.leased = FALSE
    BY DEF Idle, GoodRun, Fields, Working, LeasedControl
  <2> HIDE DEF next
  <2> QED BY <1>1, <2>1, <2>2, QuietStep
<1>4. ASSUME NEW c \in Construction, NEW there \in {"authorize", "require"},
             run' = [run EXCEPT ![w] = [Idle EXCEPT !.pc = there, !.c = c, !.stamp = now]]
      PROVE  LeaseInv'
  <2> DEFINE next == [Idle EXCEPT !.pc = there, !.c = c, !.stamp = now]
  <2>1. GoodRun(next) /\ next.leased = FALSE
    BY DEF Idle, GoodRun, Fields, Working, LeasedControl
  <2>2. run' = [run EXCEPT ![w] = next]
    BY <1>4
  <2> HIDE DEF next
  <2> QED BY <1>1, <2>1, <2>2, QuietStep
<1>5. CASE \E c \in Construction : Begin(w, c) \/ BeginCommand(w, c)
  BY <1>4, <1>5 DEF Begin, BeginCommand
<1> QED BY <1>2, <1>3, <1>5

\* People and the clock.
LEMMA OutsideStep ==
    ASSUME LeaseInv, Clock \/ (\E c \in Construction : Human(c, "approved") \/ Human(c, "stopped"))
    PROVE  LeaseInv'
<1>1. CASE Clock
  <2>1. now' = now + 1 /\ UNCHANGED <<lease, grant, issued, run>>
    BY <1>1 DEF Clock, Tick
  <2>2. \A w \in Worker : run[w].leased => run[w].c \in Construction
    BY DEF LeaseInv, RunShape, GoodRun, Working
  <2>3. \A w \in Worker : grant[w].expires \in Nat
    BY DEF LeaseInv, LeaseShape, Row
  <2>4. LeaseShape' /\ RunShape' /\ Exclusive'
    BY <2>1 DEF LeaseInv, LeaseShape, RunShape, Exclusive, OwnRow
  <2>5. LiveGrantOwnsRow'
    BY <2>1, <2>3 DEF LeaseInv, LeaseShape, LiveGrantOwnsRow, OwnRow
  <2> QED BY <2>4, <2>5 DEF LeaseInv
<1>2. CASE \E c \in Construction : Human(c, "approved") \/ Human(c, "stopped")
  BY <1>2, FrameStep DEF Human, leaseVars
<1> QED BY <1>1, <1>2

\* Every step of the executor preserves the invariant.
LEMMA LeaseInvStep == LeaseInv /\ [Next]_vars => LeaseInv'
<1> SUFFICES ASSUME LeaseInv, [Next]_vars PROVE LeaseInv'
  OBVIOUS
<1>1. CASE UNCHANGED vars
  BY <1>1, FrameStep DEF vars, leaseVars
<1>2. ASSUME NEW w \in Worker, Step(w) PROVE LeaseInv'
  BY <1>2, RuntimeStep, AcquireStep, RunnerStep DEF Step
<1>3. ASSUME NEW w \in Worker, Renew(w) \/ DatabaseError(w) \/ Crash(w) PROVE LeaseInv'
  BY <1>3, FaultStep
<1>4. ASSUME NEW w \in Worker, BeginMark(w) \/ AppendMark(w)
                 \/ \E c \in Construction : Begin(w, c) \/ BeginCommand(w, c)
      PROVE  LeaseInv'
  BY <1>4, CallerStep
<1> QED BY <1>1, <1>2, <1>3, <1>4, OutsideStep DEF Next

\* A worker whose grant has not run out owns the row of its construction: the
\* lease store and _MaintainedExecutionLease exclude each other's attempts for
\* as long as leases are renewed in time.
THEOREM LeaseExclusive == Spec => []LiveGrantOwnsRow
<1>1. LeaseInv => LiveGrantOwnsRow
  BY DEF LeaseInv
<1> QED BY InitHolds, LeaseInvStep, <1>1, PTL DEF Spec

\* Two workers never hold live grants on one construction.
THEOREM OneLiveOwner ==
    Spec => [](\A v, w \in Worker :
                  /\ run[v].leased /\ grant[v].expires > now
                  /\ run[w].leased /\ grant[w].expires > now
                  /\ run[v].c = run[w].c
                  => v = w)
<1> DEFINE Alone == \A v, w \in Worker :
                  /\ run[v].leased /\ grant[v].expires > now
                  /\ run[w].leased /\ grant[w].expires > now
                  /\ run[v].c = run[w].c
                  => v = w
<1>1. LeaseInv => Alone
  BY DEF LeaseInv, LiveGrantOwnsRow, Exclusive, OwnRow
<1> QED BY InitHolds, LeaseInvStep, <1>1, PTL DEF Spec
=============================================================================
