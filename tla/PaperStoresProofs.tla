------------------------- MODULE PaperStoresProofs -------------------------
(***************************************************************************)
(* What the stores of the paper executor say of each other, for every      *)
(* number of workers and constructions, leases or not: recorded attempts   *)
(* are published, chained and approved, reports follow the execution, and  *)
(* no order is filled beyond the largest request.                          *)
(*                                                                         *)
(* The argument: stores only grow, and what a worker has read of them      *)
(* stays true.  What makes that enough without a lease are identifiers:    *)
(* two attempts of one number cannot begin with different snapshots, two   *)
(* endings of one number on one snapshot cannot differ, and two records of *)
(* one number cannot differ; so a worker with old locals is refused, or    *)
(* writes what is there already.                                           *)
(***************************************************************************)
EXTENDS PaperExecutionProofs, SequenceTheorems

RunRecord == [pc : Control, c : Construction \cup {0}, stamp : Nat, leased : BOOLEAN,
              base : Nat, prev : Nat, outcome : Outcome, exit : Exits]
StartRecord == [c : Construction, attempt : 1 .. MaxAttempts, base : Seq(Nat)]

Types ==
    /\ LeaseTypeOK
    /\ portfolio \in Seq(Snapshot) /\ portfolio # <<>>
    /\ started \subseteq StartRecord
    /\ batches \in [Construction -> Seq(BatchRecord)]
    /\ approvals \in [Construction -> Seq(Approval)]
    /\ status \in [Construction -> [state : Exits, at : Nat]]
    /\ run \in [Worker -> RunRecord]
    /\ marks \in 0 .. MaxMarks /\ humans \in 0 .. MaxHuman /\ faults \in 0 .. MaxFaults

-----------------------------------------------------------------------------
(* What the stores say.                                                    *)

UniqueIds == \A j, k \in DOMAIN portfolio : portfolio[j].id = portfolio[k].id => j = k
OneBase == \A d, e \in started : d.c = e.c /\ d.attempt = e.attempt => d = e

\* The first attempt began with a snapshot without a fill.
Begun(c) ==
    \E e \in started, j \in DOMAIN portfolio :
        /\ e.c = c /\ e.attempt = 1
        /\ portfolio[j].id = e.base /\ portfolio[j].filled[c] = Nothing

FirstFills ==
    \A c \in Construction :
        batches[c] # <<>> \/ (\E k \in DOMAIN portfolio : portfolio[k].filled[c] # Nothing)
            => Begun(c)

Executed(c) == \E e \in ToSet(approvals[c]) : e.state = "executed"
Finished(c) == \E n \in DOMAIN batches[c] : batches[c][n].status = "completed"

Concluded ==
    \A c \in Construction :
        /\ Executed(c) => Finished(c)
        /\ status[c].state = "completed" => Executed(c)
        /\ \A n \in DOMAIN batches[c] :
              batches[c][n].status = "completed" => batches[c][n].done = Order

RecordedInThePast == \A c \in Construction : \A b \in ToSet(batches[c]) : b.at <= now

StoreInv ==
    /\ UniqueIds /\ OneBase /\ FirstFills /\ Concluded
    /\ BatchesArePublished /\ AttemptsChain /\ AttemptsAreApproved /\ OrdersFilledOnce
    /\ RecordedInThePast

\* Identifiers of marks are drawn once, and no ending has one.
Marks ==
    /\ \A k \in DOMAIN portfolio : portfolio[k].id # << 0 >>
    /\ \A k \in DOMAIN portfolio :
          portfolio[k].id # <<>> /\ portfolio[k].id[1] = 0 => portfolio[k].id[2] <= marks
    /\ \A w \in Worker : At(w, "mark") =>
          /\ run[w].prev \in 1 .. marks
          /\ \A k \in DOMAIN portfolio : portfolio[k].id # <<0, run[w].prev>>
          /\ \A v \in Worker : At(v, "mark") /\ run[v].prev = run[w].prev => v = w

-----------------------------------------------------------------------------
(* What a worker has read of them.                                         *)

Authorized(c, at) ==
    \E n \in DOMAIN approvals[c] :
        /\ approvals[c][n].state = "approved"
        /\ approvals[c][n].at <= at /\ at < approvals[c][n].expires
        /\ \A k \in n + 1 .. Len(approvals[c]) :
              approvals[c][k].state = "stopped" => approvals[c][k].at >= at

HasBase(w) == run[w].base \in DOMAIN portfolio

HasPrev(w) ==
    run[w].prev # 0 =>
        /\ run[w].prev \in DOMAIN batches[run[w].c]
        /\ Prev(w).status # "completed" /\ Resumes(w, run[w].prev)

Sound(w) ==
    /\ Fillable(w, run[w].outcome.got)
    /\ run[w].outcome.fresh <=> run[w].outcome.got # Nothing
    /\ run[w].outcome.nav \in Nav

Published(w) == run[w].outcome.fresh => Ending(w) \in ToSet(portfolio)

Reading == {"read", "batch", "start", "fill", "append", "record"}
Resuming == {"start", "fill", "append", "record"}
Filling == {"fill", "append", "record"}

Local(w) ==
    /\ run[w].stamp <= now /\ run[w].base \in 0 .. Len(portfolio)
    /\ run[w].pc \in Working => run[w].c \in Construction
    /\ run[w].pc \in Reading => Authorized(run[w].c, run[w].stamp)
    /\ run[w].pc \in (Reading \cup {"mark"}) \ {"read"} => HasBase(w)
    /\ run[w].pc \in Resuming => HasPrev(w)
    /\ run[w].pc \notin Resuming \cup {"mark"} => run[w].prev = 0
    /\ run[w].pc \in Filling => StartEvent(w) \in started
    /\ run[w].pc \in {"append", "record"} => Sound(w)
    /\ run[w].pc = "append" => run[w].outcome.fresh
    /\ run[w].pc = "record" => Published(w)
    /\ run[w].pc = "conclude" => Finished(run[w].c)
    /\ run[w].exit = "completed" => run[w].c \in Construction /\ Executed(run[w].c)

PaperInv == LeaseInv /\ Types /\ StoreInv /\ Marks /\ \A w \in Worker : Local(w)

-----------------------------------------------------------------------------
(* Stores grow.                                                            *)

Extends(new, old) == Len(old) <= Len(new) /\ \A k \in 1 .. Len(old) : new[k] = old[k]

Grows ==
    /\ now <= now'
    /\ Extends(portfolio', portfolio)
    /\ started \subseteq started'
    /\ \A c \in Construction :
          /\ Extends(batches'[c], batches[c])
          /\ Extends(approvals'[c], approvals[c])
          /\ \A k \in Len(approvals[c]) + 1 .. Len(approvals'[c]) :
                approvals'[c][k].state = "stopped" => approvals'[c][k].at >= now

LEMMA AppendFacts ==
    ASSUME NEW S, NEW s \in Seq(S), NEW e \in S
    PROVE  /\ Append(s, e) \in Seq(S) /\ Append(s, e) # <<>>
           /\ Len(Append(s, e)) = Len(s) + 1
           /\ DOMAIN Append(s, e) = 1 .. Len(s) + 1
           /\ \A i \in 1 .. Len(s) : Append(s, e)[i] = s[i]
           /\ Append(s, e)[Len(s) + 1] = e
           /\ Extends(Append(s, e), s)
  BY AppendProperties, LenProperties DEF Extends

LEMMA ExtendsFacts ==
    ASSUME NEW S, NEW s \in Seq(S), NEW t \in Seq(S), Extends(t, s)
    PROVE  /\ DOMAIN s \subseteq DOMAIN t
           /\ \A k \in DOMAIN s : t[k] = s[k]
           /\ ToSet(s) \subseteq ToSet(t)
           /\ s # <<>> => t # <<>>
<1>1. /\ DOMAIN s = 1 .. Len(s) /\ DOMAIN t = 1 .. Len(t)
      /\ Len(s) \in Nat /\ Len(t) \in Nat
  BY LenProperties
<1>2. DOMAIN s \subseteq DOMAIN t /\ \A k \in DOMAIN s : t[k] = s[k]
  BY <1>1 DEF Extends
<1>3. ToSet(s) \subseteq ToSet(t)
  BY <1>2 DEF ToSet
<1>4. s # <<>> => t # <<>>
  BY <1>1, EmptySeq DEF Extends
<1> QED BY <1>2, <1>3, <1>4

LEMMA GrowsFacts ==
    ASSUME Types, Types', Grows
    PROVE  /\ DOMAIN portfolio \subseteq DOMAIN portfolio'
           /\ \A k \in DOMAIN portfolio : portfolio'[k] = portfolio[k]
           /\ ToSet(portfolio) \subseteq ToSet(portfolio')
           /\ Len(portfolio) <= Len(portfolio')
           /\ \A c \in Construction :
                 /\ DOMAIN batches[c] \subseteq DOMAIN batches'[c]
                 /\ \A k \in DOMAIN batches[c] : batches'[c][k] = batches[c][k]
                 /\ DOMAIN approvals[c] \subseteq DOMAIN approvals'[c]
                 /\ \A k \in DOMAIN approvals[c] : approvals'[c][k] = approvals[c][k]
                 /\ ToSet(approvals[c]) \subseteq ToSet(approvals'[c])
<1>1. portfolio \in Seq(Snapshot) /\ portfolio' \in Seq(Snapshot) /\ Extends(portfolio', portfolio)
  BY DEF Types, Grows
<1>2. /\ DOMAIN portfolio \subseteq DOMAIN portfolio'
      /\ \A k \in DOMAIN portfolio : portfolio'[k] = portfolio[k]
      /\ ToSet(portfolio) \subseteq ToSet(portfolio')
      /\ Len(portfolio) <= Len(portfolio')
  BY <1>1, ExtendsFacts DEF Extends
<1>3. ASSUME NEW c \in Construction
      PROVE  /\ DOMAIN batches[c] \subseteq DOMAIN batches'[c]
             /\ \A k \in DOMAIN batches[c] : batches'[c][k] = batches[c][k]
             /\ DOMAIN approvals[c] \subseteq DOMAIN approvals'[c]
             /\ \A k \in DOMAIN approvals[c] : approvals'[c][k] = approvals[c][k]
             /\ ToSet(approvals[c]) \subseteq ToSet(approvals'[c])
  <2>1. /\ batches[c] \in Seq(BatchRecord) /\ batches'[c] \in Seq(BatchRecord)
        /\ Extends(batches'[c], batches[c])
        /\ approvals[c] \in Seq(Approval) /\ approvals'[c] \in Seq(Approval)
        /\ Extends(approvals'[c], approvals[c])
    BY <1>3 DEF Types, Grows
  <2> QED BY <2>1, ExtendsFacts
<1> QED BY <1>2, <1>3

\* The locals of an attempt that the rest of it relies on.
SameWork(w) ==
    /\ run'[w].c = run[w].c /\ run'[w].stamp = run[w].stamp /\ run'[w].base = run[w].base
    /\ run'[w].prev = run[w].prev /\ run'[w].outcome = run[w].outcome

\* An approval of an instant that has come stands against every later stop.
LEMMA AuthorizedStays ==
    ASSUME Types, Types', Grows, NEW c \in Construction, NEW at \in Nat, at <= now,
           Authorized(c, at)
    PROVE  Authorized(c, at)'
<1> PICK n \in DOMAIN approvals[c] :
        /\ approvals[c][n].state = "approved"
        /\ approvals[c][n].at <= at /\ at < approvals[c][n].expires
        /\ \A k \in n + 1 .. Len(approvals[c]) :
              approvals[c][k].state = "stopped" => approvals[c][k].at >= at
  BY DEF Authorized
<1>1. /\ n \in DOMAIN approvals'[c] /\ approvals'[c][n] = approvals[c][n]
      /\ \A k \in DOMAIN approvals[c] : approvals'[c][k] = approvals[c][k]
  BY GrowsFacts
<1>2. /\ approvals[c] \in Seq(Approval) /\ approvals'[c] \in Seq(Approval) /\ now \in Nat
      /\ \A k \in Len(approvals[c]) + 1 .. Len(approvals'[c]) :
            approvals'[c][k].state = "stopped" => approvals'[c][k].at >= now
  BY DEF Types, Grows, LeaseTypeOK
<1>3. /\ DOMAIN approvals[c] = 1 .. Len(approvals[c]) /\ Len(approvals[c]) \in Nat
      /\ DOMAIN approvals'[c] = 1 .. Len(approvals'[c]) /\ Len(approvals'[c]) \in Nat
  BY <1>2, LenProperties
<1>4. ASSUME NEW k \in n + 1 .. Len(approvals'[c]), approvals'[c][k].state = "stopped"
      PROVE  approvals'[c][k].at >= at
  <2>1. k \in DOMAIN approvals'[c] /\ approvals'[c][k].at \in Nat /\ approvals[c][n] \in Approval
    <3>1. k \in DOMAIN approvals'[c]
      BY <1>3
    <3>2. approvals'[c][k] \in Approval
      BY <1>2, <1>3, <3>1, ElementOfSeq
    <3> QED BY <1>2, <1>3, <3>1, <3>2, ElementOfSeq DEF Approval
  <2>2. CASE k \in DOMAIN approvals[c]
    BY <1>1, <1>3, <1>4, <2>2
  <2>3. CASE k \notin DOMAIN approvals[c]
    <3>1. k \in Len(approvals[c]) + 1 .. Len(approvals'[c])
      BY <1>3, <2>3
    <3>2. approvals'[c][k].at >= now
      BY <1>2, <1>4, <3>1
    <3> QED BY <1>2, <2>1, <3>2
  <2> QED BY <2>2, <2>3
<1> QED BY <1>1, <1>4 DEF Authorized

\* What a worker has read stays true while it keeps its locals.
LEMMA WorkStays ==
    ASSUME Types, Types', Grows, NEW w \in Worker, SameWork(w), run[w].c \in Construction
    PROVE  /\ HasBase(w) => HasBase(w)' /\ Base(w)' = Base(w)
           /\ HasBase(w) /\ HasPrev(w) =>
                 /\ HasPrev(w)'
                 /\ run[w].prev # 0 => Prev(w)' = Prev(w)
                 /\ StartEvent(w)' = StartEvent(w)
                 /\ Sound(w) => Sound(w)'
                 /\ Ending(w)' = Ending(w)
                 /\ Published(w) => Published(w)'
           /\ Finished(run[w].c) => Finished(run[w].c)'
           /\ Executed(run[w].c) => Executed(run[w].c)'
           /\ run[w].stamp <= now /\ Authorized(run[w].c, run[w].stamp)
                 => Authorized(run[w].c, run[w].stamp)'
<1> DEFINE c == run[w].c
<1>1. HasBase(w) => HasBase(w)' /\ Base(w)' = Base(w)
  BY GrowsFacts DEF SameWork, HasBase, Base
<1>2. ASSUME HasBase(w), HasPrev(w)
      PROVE  /\ HasPrev(w)'
             /\ run[w].prev # 0 => Prev(w)' = Prev(w)
             /\ StartEvent(w)' = StartEvent(w)
             /\ Sound(w) => Sound(w)'
             /\ Ending(w)' = Ending(w)
             /\ Published(w) => Published(w)'
  <2>1. Base(w)' = Base(w)
    BY <1>1, <1>2
  <2>2. run[w].prev # 0 => run[w].prev \in DOMAIN batches'[c] /\ Prev(w)' = Prev(w)
    BY <1>2, GrowsFacts DEF SameWork, HasPrev, Prev
  <2>3. HasPrev(w)'
    BY <1>2, <2>1, <2>2 DEF SameWork, HasPrev, Prev, Resumes
  <2>4. Attempt(w)' = Attempt(w) /\ DoneBefore(w)' = DoneBefore(w)
    BY <2>2 DEF SameWork, Attempt, DoneBefore
  <2>5. \A o \in Order : Remaining(w, o)' = Remaining(w, o)
    BY <2>1, <2>2, <2>4 DEF SameWork, Remaining, Already
  <2>6. StartEvent(w)' = StartEvent(w) /\ EndingId(w)' = EndingId(w)
    BY <2>1, <2>4 DEF SameWork, StartEvent, EndingId
  <2>7. Ending(w)' = Ending(w)
    BY <2>1, <2>6 DEF SameWork, Ending
  <2>8. Sound(w) => Sound(w)'
    BY <2>5 DEF SameWork, Sound, Fillable, Nothing
  <2>9. Published(w) => Published(w)'
    BY <2>7, GrowsFacts DEF SameWork, Published
  <2> QED BY <2>2, <2>3, <2>6, <2>7, <2>8, <2>9 DEF Grows
<1>3. ASSUME NEW d, d = run[w].c, Finished(d)
      PROVE  Finished(d)'
  BY <1>3, GrowsFacts DEF Finished
<1>4. ASSUME NEW d, d = run[w].c, Executed(d)
      PROVE  Executed(d)'
  BY <1>4, GrowsFacts DEF Executed
<1>5. ASSUME NEW d, NEW at, d = run[w].c, at = run[w].stamp, at <= now, Authorized(d, at)
      PROVE  Authorized(d, at)'
  BY <1>5, AuthorizedStays DEF Types, RunRecord
<1>6. Finished(run[w].c) => Finished(run[w].c)'
  BY <1>3 DEF SameWork, Finished
<1>7. Executed(run[w].c) => Executed(run[w].c)'
  BY <1>4 DEF SameWork, Executed
<1>8. run[w].stamp <= now /\ Authorized(run[w].c, run[w].stamp)
         => Authorized(run[w].c, run[w].stamp)'
  BY <1>5 DEF SameWork, Authorized
<1> QED BY <1>1, <1>2, <1>6, <1>7, <1>8


LEMMA BaseStays ==
    ASSUME Types, Types', Grows, NEW w \in Worker, run'[w].base = run[w].base
    PROVE  /\ HasBase(w) => HasBase(w)'
           /\ run[w].base \in 0 .. Len(portfolio) => run'[w].base \in 0 .. Len(portfolio')
<1>1. Len(portfolio) \in Nat /\ Len(portfolio') \in Nat
  BY LenProperties DEF Types
<1> QED BY <1>1, GrowsFacts DEF HasBase

\* A worker that takes no step finds its locals as sound as before.
LEMMA OthersStay ==
    ASSUME Types, Types', Grows, NEW w \in Worker, run'[w] = run[w], Local(w)
    PROVE  Local(w)'
<1>1. SameWork(w)
  BY DEF SameWork
<1>2. run'[w].stamp <= now'
  BY DEF Types, LeaseTypeOK, RunRecord, Grows, Local
<1>3. /\ run'[w].base \in 0 .. Len(portfolio')
      /\ HasBase(w) => HasBase(w)'
  BY BaseStays DEF Local
<1>4. CASE run[w].c \in Construction
  <2>1. /\ HasBase(w) /\ HasPrev(w) =>
              /\ HasPrev(w)'
              /\ StartEvent(w)' = StartEvent(w)
              /\ Sound(w) => Sound(w)'
              /\ Published(w) => Published(w)'
        /\ Finished(run[w].c) => Finished(run[w].c)'
        /\ Executed(run[w].c) => Executed(run[w].c)'
        /\ Authorized(run[w].c, run[w].stamp) => Authorized(run[w].c, run[w].stamp)'
    BY <1>1, <1>4, WorkStays DEF Local
  <2> QED BY <1>2, <1>3, <1>4, <2>1 DEF Local, Grows, Reading, Resuming, Filling
<1>5. CASE run[w].c \notin Construction
  <2>1. run[w].pc \notin Working /\ run[w].exit # "completed"
    BY <1>5 DEF Local
  <2> QED BY <1>2, <1>3, <2>1 DEF Local, Reading, Resuming, Filling, Working, LeasedControl
<1> QED BY <1>4, <1>5

-----------------------------------------------------------------------------
(* Types.                                                                  *)

LEMMA IdleIsTyped ==
    /\ Idle \in RunRecord
    /\ Idle.pc = "idle" /\ Idle.c = 0 /\ Idle.stamp = 0 /\ Idle.leased = FALSE
    /\ Idle.base = 0 /\ Idle.prev = 0 /\ Idle.exit = "none"
  BY DEF Idle, RunRecord, NoOutcome, Outcome, Nothing, Amounts, Control, Exits

LEMMA KeepIsTyped ==
    ASSUME Types, NEW w \in Worker, NEW there \in Control, NEW result \in Exits
    PROVE  /\ Keep(w, there, result) \in RunRecord
           /\ Keep(w, there, result).pc = there /\ Keep(w, there, result).exit = result
           /\ Keep(w, there, result).c = run[w].c /\ Keep(w, there, result).base = 0
           /\ Keep(w, there, result).stamp = run[w].stamp /\ Keep(w, there, result).prev = 0
<1>1. run[w] \in RunRecord
  BY DEF Types
<1> QED BY <1>1 DEF Keep, Idle, RunRecord, NoOutcome, Outcome, Nothing, Amounts

\* What a step of a worker does to the locals.
LEMMA GotoIs ==
    ASSUME Types, NEW w \in Worker, NEW there \in Control, Goto(w, there)
    PROVE  /\ run' \in [Worker -> RunRecord]
           /\ run'[w].pc = there /\ SameWork(w) /\ run'[w].exit = run[w].exit
           /\ \A v \in Worker \ {w} : run'[v] = run[v]
<1>1. run[w] \in RunRecord /\ run \in [Worker -> RunRecord]
  BY DEF Types
<1>2. run' = [run EXCEPT ![w] = [run[w] EXCEPT !.pc = there]]
  BY DEF Goto
<1>3. [run[w] EXCEPT !.pc = there] \in RunRecord
  BY <1>1 DEF RunRecord
<1> QED BY <1>1, <1>2, <1>3 DEF SameWork, RunRecord

LEMMA LeaveIs ==
    ASSUME Types, NEW w \in Worker, Leave(w)
    PROVE  /\ run' \in [Worker -> RunRecord] /\ run'[w] = Idle
           /\ \A v \in Worker \ {w} : run'[v] = run[v]
  BY IdleIsTyped DEF Types, Leave

LEMMA KeepIs ==
    ASSUME Types, NEW w \in Worker, NEW there \in Control, NEW result \in Exits,
           run' = [run EXCEPT ![w] = Keep(w, there, result)]
    PROVE  /\ run' \in [Worker -> RunRecord] /\ run'[w] = Keep(w, there, result)
           /\ \A v \in Worker \ {w} : run'[v] = run[v]
  BY KeepIsTyped DEF Types

LEMMA ExitIs ==
    ASSUME Types, NEW w \in Worker, NEW result \in Exits, Exit(w, result)
    PROVE  /\ run' \in [Worker -> RunRecord]
           /\ run'[w] = Idle \/ run'[w] = Keep(w, "publish", result)
           /\ \A v \in Worker \ {w} : run'[v] = run[v]
<1>1. "publish" \in Control
  BY DEF Control
<1> QED BY <1>1, IdleIsTyped, KeepIsTyped DEF Types, Exit

LEMMA LeaseTypes ==
    ASSUME Types, NEW w \in Worker, NEW c \in Construction,
           \/ Acquire(w, c) \/ RenewRow(w, c) \/ RenewThread(w, c) \/ ReleaseLease(w, c)
           \/ LoseGrant(w) \/ Tick \/ UNCHANGED leaseVars
    PROVE  LeaseTypeOK' /\ now <= now'
<1>1. LeaseDuration \in Nat /\ LeaseTypeOK
  BY PaperLeaseAssumption DEF Types
<1>2. CASE Acquire(w, c)
  BY <1>1, <1>2 DEF Acquire, LeaseTypeOK, Row
<1>3. ASSUME RenewRow(w, c) PROVE LeaseTypeOK' /\ now <= now'
  BY <1>1, <1>3 DEF RenewRow, LeaseTypeOK, Row
<1>4. CASE RenewThread(w, c)
  <2>1. CASE RenewRow(w, c)
    BY <1>3, <2>1
  <2>2. CASE lost' = [lost EXCEPT ![w] = TRUE] /\ UNCHANGED <<now, lease, grant, issued>>
    BY <1>1, <2>2 DEF LeaseTypeOK
  <2> QED BY <1>4, <2>1, <2>2 DEF RenewThread
<1>5. CASE ReleaseLease(w, c)
  BY <1>1, <1>5 DEF ReleaseLease, DropRow, NoRow, NoGrant, LeaseTypeOK, Row
<1>6. CASE LoseGrant(w)
  BY <1>1, <1>6 DEF LoseGrant, NoGrant, LeaseTypeOK, Row
<1>7. CASE Tick
  BY <1>1, <1>7 DEF Tick, LeaseTypeOK, Row
<1>8. CASE UNCHANGED leaseVars
  BY <1>1, <1>8 DEF leaseVars, LeaseTypeOK
<1> QED BY <1>2, <1>3, <1>4, <1>5, <1>6, <1>7, <1>8

-----------------------------------------------------------------------------
(* The values an attempt computes from its locals.                         *)

LEMMA Locating ==
    ASSUME PaperInv, NEW w \in Worker
    PROVE  /\ run[w] \in RunRecord /\ Local(w)
           /\ run[w].stamp \in Nat /\ run[w].outcome \in Outcome
           /\ HasBase(w) => Base(w) \in Snapshot
           /\ run[w].c \in Construction /\ HasPrev(w) /\ run[w].prev # 0
                => Prev(w) \in BatchRecord /\ Prev(w).attempt = run[w].prev
           /\ run[w].c \in Construction /\ HasPrev(w)
                => /\ Attempt(w) = run[w].prev + 1 /\ Attempt(w) \in Nat \ {0}
                   /\ DoneBefore(w) \subseteq Order
                   /\ \A o \in Order : Already(w, o) \in Nat
<1>1. run[w] \in RunRecord /\ Local(w)
  BY DEF PaperInv, Types
<1>2. HasBase(w) => Base(w) \in Snapshot
  BY LenProperties, ElementOfSeq DEF PaperInv, Types, HasBase, Base
<1>3. ASSUME run[w].c \in Construction, HasPrev(w), run[w].prev # 0
      PROVE  Prev(w) \in BatchRecord /\ Prev(w).attempt = run[w].prev
  <2>1. batches[run[w].c] \in Seq(BatchRecord)
    BY <1>3 DEF PaperInv, Types
  <2>2. Prev(w) \in BatchRecord
    BY <1>3, <2>1, LenProperties, ElementOfSeq DEF HasPrev, Prev
  <2>3. Prev(w).attempt = run[w].prev
    BY <1>3 DEF PaperInv, StoreInv, AttemptsChain, HasPrev, Prev
  <2> QED BY <2>2, <2>3
<1>4. ASSUME run[w].c \in Construction, HasPrev(w)
      PROVE  /\ Attempt(w) = run[w].prev + 1 /\ Attempt(w) \in Nat \ {0}
             /\ DoneBefore(w) \subseteq Order
             /\ \A o \in Order : Already(w, o) \in Nat
  <2>1. CASE run[w].prev = 0
    BY <2>1 DEF Attempt, DoneBefore, Already
  <2>2. CASE run[w].prev # 0
    BY <1>1, <1>3, <1>4, <2>2 DEF RunRecord, Attempt, DoneBefore, Already, BatchRecord, Amounts
  <2> QED BY <2>1, <2>2
<1> QED BY <1>1, <1>2, <1>3, <1>4 DEF RunRecord

LEMMA EndingIs ==
    ASSUME PaperInv, NEW w \in Worker, run[w].pc \in {"append", "record"}
    PROVE  /\ Ending(w) \in Snapshot
           /\ Ending(w).id = EndingId(w) /\ EndingId(w) \in Seq(Nat)
           /\ \A o \in Order : Ending(w).filled[run[w].c][o] =
                 Base(w).filled[run[w].c][o] + run[w].outcome.got[o]
           /\ \A c \in Construction \ {run[w].c} : Ending(w).filled[c] = Base(w).filled[c]
           /\ Ending(w).nav = run[w].outcome.nav
<1>1. run[w].c \in Construction /\ HasBase(w) /\ HasPrev(w) /\ Sound(w)
  BY Locating DEF Local, Reading, Resuming, Working, LeasedControl
<1>2. /\ Base(w) \in Snapshot /\ run[w].outcome \in Outcome /\ run[w].stamp \in Nat
      /\ Attempt(w) \in Nat
  BY <1>1, Locating
<1>3. EndingId(w) \in Seq(Nat)
  BY <1>2, AppendProperties DEF EndingId, Snapshot
<1>4. /\ Base(w).filled \in [Construction -> [Order -> Nat]]
      /\ run[w].outcome.got \in [Order -> Nat] /\ run[w].outcome.nav \in Nav
  BY <1>1, <1>2 DEF Snapshot, Outcome, Amounts, Sound
<1> DEFINE more == [o \in Order |-> Base(w).filled[run[w].c][o] + run[w].outcome.got[o]]
<1>5. more \in [Order -> Nat]
  BY <1>1, <1>4
<1> DEFINE full == [Base(w).filled EXCEPT ![run[w].c] = more]
<1>6. Ending(w) = [id |-> EndingId(w), filled |-> full, nav |-> run[w].outcome.nav,
                   at |-> run[w].stamp]
  BY DEF Ending
<1> HIDE DEF more
<1>7. full \in [Construction -> Amounts]
  BY <1>4, <1>5 DEF Amounts
<1>9. Ending(w).filled = full
  BY <1>6
<1>8. Ending(w) \in Snapshot
  <2> HIDE DEF full
  <2> QED BY <1>2, <1>3, <1>4, <1>6, <1>7 DEF Snapshot
<1>10. Ending(w).filled[run[w].c] = more
  BY <1>1, <1>4, <1>9
<1>11. \A o \in Order : Ending(w).filled[run[w].c][o] =
                 Base(w).filled[run[w].c][o] + run[w].outcome.got[o]
  BY <1>10 DEF more
<1>12. \A c \in Construction \ {run[w].c} : Ending(w).filled[c] = Base(w).filled[c]
  BY <1>4, <1>9
<1>13. Ending(w).id = EndingId(w) /\ Ending(w).nav = run[w].outcome.nav
  BY <1>6
<1> QED BY <1>3, <1>8, <1>11, <1>12, <1>13

\* The snapshot an attempt fills upon contains what was recorded before it and
\* nothing else: the prior record names it, or the start event of the first
\* attempt does.
LEMMA InStep ==
    ASSUME PaperInv, NEW w \in Worker, run[w].pc \in Filling
    PROVE  \A o \in Order : Base(w).filled[run[w].c][o] = Already(w, o)
<1> DEFINE c == run[w].c
<1>1. /\ c \in Construction /\ HasBase(w) /\ HasPrev(w) /\ StartEvent(w) \in started
      /\ Base(w) \in Snapshot
  BY Locating DEF Local, Reading, Resuming, Filling, Working, LeasedControl
<1>2. CASE run[w].prev # 0
  <2>1. run[w].prev \in DOMAIN batches[c] /\ Prev(w).ending = Base(w).id
    BY <1>1, <1>2 DEF HasPrev, Resumes, Prev
  <2>2. Prev(w) \in ToSet(batches[c])
    BY <2>1 DEF ToSet, Prev
  <2>3. \E s \in ToSet(portfolio) : s.id = Prev(w).ending /\ s.filled[c] = Prev(w).filled
    BY <1>1, <2>2 DEF PaperInv, StoreInv, BatchesArePublished
  <2>4. PICK k \in DOMAIN portfolio :
          portfolio[k].id = Base(w).id /\ portfolio[k].filled[c] = Prev(w).filled
    BY <2>1, <2>3 DEF ToSet
  <2>5. portfolio[k] = Base(w)
    BY <1>1, <2>4 DEF PaperInv, StoreInv, UniqueIds, HasBase, Base
  <2> QED BY <1>2, <2>4, <2>5 DEF Already
<1>3. CASE run[w].prev = 0
  <2>1. CASE Base(w).filled[c] = Nothing
    BY <1>3, <2>1 DEF Already, Nothing
  <2>2. CASE Base(w).filled[c] # Nothing
    <3>1. Begun(c)
      BY <1>1, <2>2 DEF PaperInv, StoreInv, FirstFills, HasBase, Base
    <3>2. PICK e \in started, j \in DOMAIN portfolio :
            /\ e.c = c /\ e.attempt = 1
            /\ portfolio[j].id = e.base /\ portfolio[j].filled[c] = Nothing
      BY <3>1 DEF Begun
    <3>3. e = StartEvent(w)
      BY <1>1, <1>3, <3>2 DEF PaperInv, StoreInv, OneBase, StartEvent, Attempt
    <3>4. portfolio[j] = Base(w)
      BY <1>1, <3>2, <3>3 DEF PaperInv, StoreInv, UniqueIds, StartEvent, HasBase, Base
    <3> QED BY <2>2, <3>2, <3>4
  <2> QED BY <2>1, <2>2
<1> QED BY <1>2, <1>3

\* What a record says of an attempt.
LEMMA BatchIs ==
    ASSUME PaperInv, NEW w \in Worker, At(w, "record")
    PROVE  /\ Batch(w) \in BatchRecord
           /\ Batch(w).attempt = run[w].prev + 1 /\ Batch(w).base = Base(w).id
           /\ Batch(w).ending = EndingId(w) /\ Batch(w).at = run[w].stamp
           /\ Batch(w).status = BatchStatus(w)
           /\ Batch(w).status = "completed" <=> Batch(w).done = Order
           /\ \E s \in ToSet(portfolio) : s.id = Batch(w).ending /\ s.filled[run[w].c] = Batch(w).filled
<1>1. /\ run[w].c \in Construction /\ HasBase(w) /\ HasPrev(w) /\ Sound(w) /\ Published(w)
      /\ run[w].pc \in Filling
  BY Locating DEF At, Local, Reading, Resuming, Filling, Working, LeasedControl
<1>2. /\ Base(w) \in Snapshot /\ run[w].outcome \in Outcome /\ run[w].stamp \in Nat
      /\ Attempt(w) = run[w].prev + 1 /\ Attempt(w) \in Nat \ {0} /\ DoneBefore(w) \subseteq Order
      /\ \A o \in Order : Already(w, o) \in Nat
  BY <1>1, Locating
<1>3. EndingId(w) \in Seq(Nat) /\ Ending(w) \in Snapshot /\ Ending(w).id = EndingId(w)
  BY EndingIs DEF At
<1>4. Filled(w) \in Amounts
  BY <1>2 DEF Filled, Outcome, Amounts
<1>5. Done(w) \subseteq Order
  BY <1>2 DEF Done
<1>6. /\ BatchStatus(w) \in {"completed", "partial", "held"}
      /\ BatchStatus(w) = "completed" <=> Done(w) = Order
  BY DEF BatchStatus
<1>7. /\ Batch(w) \in BatchRecord /\ Batch(w).filled = Filled(w)
      /\ Batch(w).attempt = run[w].prev + 1 /\ Batch(w).base = Base(w).id
      /\ Batch(w).ending = EndingId(w) /\ Batch(w).at = run[w].stamp
      /\ Batch(w).status = BatchStatus(w) /\ Batch(w).done = Done(w)
  BY <1>2, <1>3, <1>4, <1>5, <1>6 DEF Batch, BatchRecord, Snapshot
<1>8. \E s \in ToSet(portfolio) : s.id = EndingId(w) /\ s.filled[run[w].c] = Filled(w)
  <2>1. CASE run[w].outcome.fresh
    <3>1. Ending(w) \in ToSet(portfolio)
      BY <1>1, <2>1 DEF Published
    <3>2. \A o \in Order : Ending(w).filled[run[w].c][o] = Filled(w)[o]
      BY <1>1, EndingIs, InStep DEF At, Filled
    <3>3. Ending(w).filled[run[w].c] \in [Order -> Nat]
      BY <1>1, <1>3 DEF Snapshot, Amounts
    <3>4. Ending(w).filled[run[w].c] = Filled(w)
      BY <1>4, <3>2, <3>3 DEF Amounts
    <3> QED BY <1>3, <3>1, <3>4
  <2>2. CASE ~run[w].outcome.fresh
    <3>1. EndingId(w) = Base(w).id /\ Base(w) \in ToSet(portfolio)
      BY <1>1, <2>2 DEF EndingId, HasBase, Base, ToSet
    <3>2. \A o \in Order : Filled(w)[o] = Already(w, o)
      BY <1>1, <1>2, <2>2 DEF Sound, Nothing, Filled
    <3>3. Base(w).filled[run[w].c] \in [Order -> Nat]
      BY <1>1, <1>2 DEF Snapshot, Amounts
    <3>4. Base(w).filled[run[w].c] = Filled(w)
      BY <1>1, <1>4, <3>2, <3>3, InStep DEF Amounts
    <3> QED BY <3>1, <3>4
  <2> QED BY <2>1, <2>2
<1> QED BY <1>6, <1>7, <1>8

-----------------------------------------------------------------------------
(* Every step writes values of the types, and stores only grow.            *)

LEMMA ApprovalTypes ==
    ASSUME Types, NEW c \in Construction, NEW state \in {"approved", "stopped", "executed"},
           NEW by \in {"policy", "human", "executor"}, NEW at \in Nat,
           AppendApproval(c, state, by, at)
    PROVE  /\ approvals' \in [Construction -> Seq(Approval)]
           /\ \A d \in Construction : d # c => approvals'[d] = approvals[d]
           /\ \E e \in Approval :
                 /\ e.state = state /\ e.at = at
                 /\ \/ e \in ToSet(approvals[c]) /\ approvals'[c] = approvals[c]
                    \/ approvals'[c] = Append(approvals[c], e)
<1> DEFINE e == [state |-> state, by |-> by, at |-> at, expires |-> at + ApprovalTTL]
<1>1. e \in Approval /\ e.state = state /\ e.at = at
  BY PaperAssumption DEF Approval
<1>2. approvals' = IF e \in ToSet(approvals[c]) THEN approvals
                   ELSE [approvals EXCEPT ![c] = Append(@, e)]
  BY DEF AppendApproval
<1> HIDE DEF e
<1>3. approvals[c] \in Seq(Approval) /\ approvals \in [Construction -> Seq(Approval)]
  BY DEF Types
<1>4. Append(approvals[c], e) \in Seq(Approval)
  BY <1>1, <1>3, AppendProperties
<1>5. CASE e \in ToSet(approvals[c])
  BY <1>1, <1>2, <1>3, <1>5
<1>6. CASE e \notin ToSet(approvals[c])
  <2>1. approvals' = [approvals EXCEPT ![c] = Append(approvals[c], e)]
    BY <1>2, <1>6
  <2> QED BY <1>1, <1>3, <1>4, <2>1
<1> QED BY <1>5, <1>6

LEMMA ApprovalGrows ==
    ASSUME Types, NEW c \in Construction, NEW state \in {"approved", "stopped", "executed"},
           NEW by \in {"policy", "human", "executor"}, NEW at \in Nat,
           AppendApproval(c, state, by, at), state = "stopped" => at = now
    PROVE  \A d \in Construction :
              /\ Extends(approvals'[d], approvals[d])
              /\ \A k \in Len(approvals[d]) + 1 .. Len(approvals'[d]) :
                    approvals'[d][k].state = "stopped" => approvals'[d][k].at >= now
<1> SUFFICES ASSUME NEW d \in Construction
             PROVE  /\ Extends(approvals'[d], approvals[d])
                    /\ \A k \in Len(approvals[d]) + 1 .. Len(approvals'[d]) :
                          approvals'[d][k].state = "stopped" => approvals'[d][k].at >= now
  OBVIOUS
<1>1. approvals[d] \in Seq(Approval) /\ Len(approvals[d]) \in Nat /\ now \in Nat
  BY LenProperties DEF Types, LeaseTypeOK
<1>2. CASE approvals'[d] = approvals[d]
  BY <1>1, <1>2 DEF Extends
<1>3. CASE approvals'[d] # approvals[d]
  <2>1. d = c
    BY <1>3, ApprovalTypes
  <2>2. PICK e \in Approval : e.state = state /\ e.at = at
                              /\ approvals'[d] = Append(approvals[d], e)
    BY <1>3, <2>1, ApprovalTypes
  <2>3. /\ Extends(approvals'[d], approvals[d])
        /\ Len(approvals'[d]) = Len(approvals[d]) + 1
        /\ approvals'[d][Len(approvals[d]) + 1] = e
    BY <1>1, <2>2, AppendFacts
  <2> QED BY <1>1, <2>2, <2>3
<1> QED BY <1>2, <1>3

\* A new snapshot comes last.
LEMMA SnapshotGrows ==
    ASSUME Types, NEW s \in Snapshot, AppendSnapshot(s)
    PROVE  /\ portfolio' \in Seq(Snapshot) /\ portfolio' # <<>>
           /\ Extends(portfolio', portfolio)
           /\ s \in ToSet(portfolio')
           /\ \A k \in DOMAIN portfolio' : portfolio'[k] # s => k \in DOMAIN portfolio
           /\ \A k \in DOMAIN portfolio' \ DOMAIN portfolio :
                 k = Len(portfolio) + 1 /\ portfolio'[k] = s /\ s \notin ToSet(portfolio)
<1>1. /\ portfolio \in Seq(Snapshot) /\ portfolio # <<>> /\ Len(portfolio) \in Nat
      /\ DOMAIN portfolio = 1 .. Len(portfolio)
  BY LenProperties DEF Types
<1>2. CASE s \in ToSet(portfolio)
  BY <1>1, <1>2 DEF AppendSnapshot, Extends
<1>3. CASE s \notin ToSet(portfolio)
  <2>1. portfolio' = Append(portfolio, s)
    BY <1>3 DEF AppendSnapshot
  <2>2. /\ portfolio' \in Seq(Snapshot) /\ portfolio' # <<>> /\ Extends(portfolio', portfolio)
        /\ DOMAIN portfolio' = 1 .. Len(portfolio) + 1
        /\ portfolio'[Len(portfolio) + 1] = s
    BY <1>1, <2>1, AppendFacts
  <2>3. s \in ToSet(portfolio')
    BY <1>1, <2>2 DEF ToSet
  <2> QED BY <1>1, <1>3, <2>2, <2>3
<1> QED BY <1>2, <1>3

\* A new record comes last.
LEMMA RecordGrows ==
    ASSUME Types, NEW c \in Construction, NEW b \in BatchRecord,
           batches' = IF b \in ToSet(batches[c]) THEN batches
                      ELSE [batches EXCEPT ![c] = Append(@, b)]
    PROVE  /\ batches' \in [Construction -> Seq(BatchRecord)]
           /\ \A d \in Construction : d # c => batches'[d] = batches[d]
           /\ \A d \in Construction : Extends(batches'[d], batches[d])
           /\ \/ b \in ToSet(batches[c]) /\ batches'[c] = batches[c]
              \/ /\ Len(batches'[c]) = Len(batches[c]) + 1
                 /\ DOMAIN batches'[c] = 1 .. Len(batches[c]) + 1
                 /\ batches'[c][Len(batches[c]) + 1] = b
           /\ b \in ToSet(batches'[c])
<1>1. /\ batches \in [Construction -> Seq(BatchRecord)]
      /\ \A d \in Construction : batches[d] \in Seq(BatchRecord) /\ Len(batches[d]) \in Nat
  BY LenProperties DEF Types
<1>2. CASE b \in ToSet(batches[c])
  BY <1>1, <1>2 DEF Extends
<1>3. CASE b \notin ToSet(batches[c])
  <2>1. batches' = [batches EXCEPT ![c] = Append(batches[c], b)]
    BY <1>3
  <2>2. /\ Append(batches[c], b) \in Seq(BatchRecord)
        /\ Len(Append(batches[c], b)) = Len(batches[c]) + 1
        /\ DOMAIN Append(batches[c], b) = 1 .. Len(batches[c]) + 1
        /\ Append(batches[c], b)[Len(batches[c]) + 1] = b
        /\ Extends(Append(batches[c], b), batches[c])
    BY <1>1, AppendFacts
  <2>3. batches'[c] = Append(batches[c], b) /\ \A d \in Construction : d # c => batches'[d] = batches[d]
    BY <1>1, <2>1
  <2>4. batches' \in [Construction -> Seq(BatchRecord)]
    BY <1>1, <2>1, <2>2
  <2>5. \A d \in Construction : Extends(batches'[d], batches[d])
    BY <1>1, <2>2, <2>3 DEF Extends
  <2>6. b \in ToSet(batches'[c])
    BY <1>1, <2>2, <2>3 DEF ToSet
  <2> QED BY <2>2, <2>3, <2>4, <2>5, <2>6
<1> QED BY <1>2, <1>3

\* Steps that write no store but the leases.
LEMMA QuietTypes ==
    ASSUME Types, UNCHANGED stores, LeaseTypeOK', now <= now', run' \in [Worker -> RunRecord],
           marks' \in 0 .. MaxMarks, humans' \in 0 .. MaxHuman, faults' \in 0 .. MaxFaults
    PROVE  Types' /\ Grows
<1>1. Types'
  BY DEF Types, stores
<1>2. /\ portfolio \in Seq(Snapshot) /\ Len(portfolio) \in Nat
      /\ \A c \in Construction : Len(batches[c]) \in Nat /\ Len(approvals[c]) \in Nat
  BY LenProperties DEF Types
<1>3. Grows
  BY <1>2 DEF Grows, Extends, stores
<1> QED BY <1>1, <1>3

\* Only the locals of this worker change, and the stores hold what they held.
Typed(w) ==
    /\ Types' /\ Grows
    /\ \A v \in Worker \ {w} : run'[v] = run[v]

LEMMA BoundsTyped ==
    ASSUME Types, UNCHANGED bounds
    PROVE  marks' \in 0 .. MaxMarks /\ humans' \in 0 .. MaxHuman /\ faults' \in 0 .. MaxFaults
  BY DEF Types, bounds

LEMMA RuntimeTypes ==
    ASSUME PaperInv, NEW w \in Worker,
           \/ Authorize(w) \/ CheckStatus(w) \/ AcquireLease(w) \/ Publish(w) \/ Release(w)
           \/ Renew(w)
    PROVE  Typed(w)
<1>1. Types /\ Local(w) /\ UNCHANGED <<stores, bounds>>
  BY DEF PaperInv, Authorize, CheckStatus, AcquireLease, Publish, Release, Renew
<1>2. {"approve", "check", "lease", "require", "write", "release"} \subseteq Control
  BY DEF Control
<1>3. CASE Authorize(w)
  <2>1. Leave(w) \/ Goto(w, "check") \/ Goto(w, "approve")
    BY <1>3 DEF Authorize, AfterLatest
  <2>2. run[w].c \in Construction
    BY <1>1, <1>3 DEF Authorize, At, Local, Working
  <2>3. LeaseTypeOK' /\ now <= now'
    BY <1>1, <1>3, <2>2, LeaseTypes DEF Authorize
  <2> QED BY <1>1, <1>2, <2>1, <2>3, LeaveIs, GotoIs, BoundsTyped, QuietTypes DEF Typed
<1>4. CASE CheckStatus(w)
  <2>1. Leave(w) \/ Goto(w, "lease")
    BY <1>4 DEF CheckStatus
  <2>2. run[w].c \in Construction
    BY <1>1, <1>4 DEF CheckStatus, At, Local, Working
  <2>3. LeaseTypeOK' /\ now <= now'
    BY <1>1, <1>4, <2>2, LeaseTypes DEF CheckStatus
  <2> QED BY <1>1, <1>2, <2>1, <2>3, LeaveIs, GotoIs, BoundsTyped, QuietTypes DEF Typed
<1>5. CASE AcquireLease(w)
  <2>1. run[w].c \in Construction
    BY <1>1, <1>5 DEF AcquireLease, At, Local, Working
  <2>2. LeaseTypeOK' /\ now <= now'
    BY <1>1, <1>5, <2>1, LeaseTypes DEF AcquireLease
  <2>3. CASE Leave(w)
    BY <1>1, <2>2, <2>3, LeaveIs, BoundsTyped, QuietTypes DEF Typed
  <2>4. CASE run' = [run EXCEPT ![w].pc = "require", ![w].leased = TRUE]
    <3> DEFINE next == [run[w] EXCEPT !.pc = "require", !.leased = TRUE]
    <3>1. next \in RunRecord
      BY <1>1, <1>2 DEF Types, RunRecord
    <3>2. run' = [run EXCEPT ![w] = next]
      BY <2>4
    <3> HIDE DEF next
    <3>3. run' \in [Worker -> RunRecord] /\ \A v \in Worker \ {w} : run'[v] = run[v]
      BY <1>1, <3>1, <3>2 DEF Types
    <3> QED BY <1>1, <2>2, <3>3, BoundsTyped, QuietTypes DEF Typed
  <2> QED BY <1>5, <2>3, <2>4 DEF AcquireLease
<1>6. CASE Publish(w)
  <2>1. Goto(w, "write") \/ Goto(w, "release")
    BY <1>6 DEF Publish
  <2>2. run[w].c \in Construction
    BY <1>1, <1>6 DEF Publish, At, Local, Working, LeasedControl
  <2>3. LeaseTypeOK' /\ now <= now'
    BY <1>1, <1>6, <2>2, LeaseTypes DEF Publish, AssertOwned
  <2> QED BY <1>1, <1>2, <2>1, <2>3, GotoIs, BoundsTyped, QuietTypes DEF Typed
<1>7. CASE Release(w)
  <2>1. run[w].c \in Construction
    BY <1>1, <1>7 DEF Release, At, Local, Working, LeasedControl
  <2>2. LeaseTypeOK' /\ now <= now'
    BY <1>1, <1>7, <2>1, LeaseTypes DEF Release
  <2> QED BY <1>1, <1>7, <2>2, LeaveIs, BoundsTyped, QuietTypes DEF Release, Typed
<1>8. CASE Renew(w)
  <2>1. RenewThread(w, run[w].c) /\ UNCHANGED run /\ run[w].c \in Construction
    BY <1>8 DEF Renew, PaperInv, LeaseInv, RunShape, GoodRun, Working
  <2>2. LeaseTypeOK' /\ now <= now'
    BY <1>1, <2>1, LeaseTypes
  <2> QED BY <1>1, <2>1, <2>2, BoundsTyped, QuietTypes DEF Types, Typed
<1> QED BY <1>3, <1>4, <1>5, <1>6, <1>7, <1>8

LEMMA ReadingTypes ==
    ASSUME PaperInv, NEW w \in Worker,
           Require(w) \/ ReadPortfolio(w) \/ ReadBatch(w) \/ Fill(w) \/ RunnerFails(w)
    PROVE  Typed(w)
<1>1. Types /\ Local(w) /\ run[w] \in RunRecord /\ UNCHANGED <<leaseVars, stores, bounds>>
  BY DEF PaperInv, Types, Require, ReadPortfolio, ReadBatch, Fill, RunnerFails
<1>2. LeaseTypeOK' /\ now <= now'
  BY <1>1 DEF Types, LeaseTypeOK, leaseVars
<1>3. /\ {"read", "batch", "start", "append", "record", "conclude"} \subseteq Control
      /\ {"none", "blocked"} \subseteq Exits
  BY DEF Control, Exits
<1>4. ASSUME run' \in [Worker -> RunRecord], \A v \in Worker \ {w} : run'[v] = run[v]
      PROVE  Typed(w)
  BY <1>1, <1>2, <1>4, BoundsTyped, QuietTypes DEF Typed
<1>5. ASSUME NEW next \in RunRecord, run' = [run EXCEPT ![w] = next] PROVE Typed(w)
  BY <1>1, <1>4, <1>5 DEF Types
<1>6. CASE Exit(w, "blocked")
  BY <1>1, <1>3, <1>4, <1>6, ExitIs
<1>7. CASE Require(w)
  BY <1>1, <1>3, <1>4, <1>6, <1>7, GotoIs DEF Require
<1>8. CASE ReadPortfolio(w)
  <2>1. CASE run' = [run EXCEPT ![w].pc = "batch", ![w].base = Len(portfolio)]
    <3>1. [run[w] EXCEPT !.pc = "batch", !.base = Len(portfolio)] \in RunRecord
      BY <1>1, <1>3, LenProperties DEF Types, RunRecord
    <3> QED BY <1>5, <2>1, <3>1
  <2> QED BY <1>6, <1>8, <2>1 DEF ReadPortfolio
<1>9. CASE ReadBatch(w)
  <2> DEFINE n == Len(batches[run[w].c])
  <2>1. n \in Nat
    BY <1>1, <1>9, LenProperties DEF ReadBatch, At, Local, Types, Working, LeasedControl
  <2>2. CASE run' = [run EXCEPT ![w] = Keep(w, "conclude", "none")]
    BY <1>1, <1>3, <1>4, <2>2, KeepIs
  <2>3. CASE run' = [run EXCEPT ![w].pc = "start", ![w].prev = n]
    <3>1. [run[w] EXCEPT !.pc = "start", !.prev = n] \in RunRecord
      BY <1>1, <1>3, <2>1 DEF RunRecord
    <3> QED BY <1>5, <2>3, <3>1
  <2> QED BY <1>6, <1>9, <2>2, <2>3 DEF ReadBatch
<1>10. CASE Fill(w)
  <2>1. HasBase(w) /\ Base(w) \in Snapshot
    BY <1>10, Locating DEF Fill, At, Local, Reading
  <2>2. PICK n \in Nav, got \in [Order -> 0 .. Base(w).nav], fresh \in BOOLEAN :
          run' = [run EXCEPT ![w].pc = IF fresh THEN "append" ELSE "record",
                             ![w].outcome = [fresh |-> fresh, got |-> got, nav |-> n]]
    BY <1>10 DEF Fill
  <2> DEFINE there == IF fresh THEN "append" ELSE "record"
             outcome == [fresh |-> fresh, got |-> got, nav |-> n]
  <2>3. outcome \in Outcome /\ there \in Control
    <3>1. Base(w).nav \in Nat /\ n \in Nat
      BY <2>1, PaperAssumption DEF Snapshot
    <3>2. got \in Amounts
      BY <3>1 DEF Amounts
    <3> QED BY <1>3, <3>1, <3>2 DEF Outcome
  <2>4. run' = [run EXCEPT ![w] = [run[w] EXCEPT !.pc = there, !.outcome = outcome]]
    BY <2>2
  <2> HIDE DEF there, outcome
  <2>5. [run[w] EXCEPT !.pc = there, !.outcome = outcome] \in RunRecord
    BY <1>1, <2>3 DEF RunRecord
  <2> QED BY <1>5, <2>4, <2>5
<1>11. CASE RunnerFails(w)
  BY <1>6, <1>11 DEF RunnerFails
<1> QED BY <1>7, <1>8, <1>9, <1>10, <1>11

\* Where a worker is when it writes.
LEMMA WritingWorker ==
    ASSUME PaperInv, NEW w \in Worker, run[w].pc \in LeasedControl \cup {"approve"}
    PROVE  /\ Types /\ Local(w) /\ run[w] \in RunRecord /\ run[w].c \in Construction
           /\ run[w].stamp \in Nat /\ now \in Nat /\ run[w].stamp <= now
           /\ run[w].exit \in Exits
<1>1. Types /\ Local(w) /\ run[w] \in RunRecord
  BY DEF PaperInv, Types
<1> QED BY <1>1 DEF Types, LeaseTypeOK, RunRecord, Local, Working

LEMMA WritingTypes ==
    ASSUME PaperInv, NEW w \in Worker,
           \/ Approve(w) \/ StartAttempt(w) \/ AppendEnding(w) \/ Record(w) \/ Conclude(w)
           \/ WriteStatus(w)
    PROVE  Typed(w)
<1>1. /\ Types /\ Local(w) /\ run[w] \in RunRecord /\ run[w].c \in Construction
      /\ run[w].stamp \in Nat /\ run[w].exit \in Exits /\ UNCHANGED <<leaseVars, bounds>>
  BY WritingWorker DEF LeasedControl, Approve, StartAttempt, AppendEnding, Record, Conclude,
     WriteStatus, At
<1>2. LeaseTypeOK' /\ now <= now'
  BY <1>1 DEF Types, LeaseTypeOK, leaseVars
<1>3. /\ {"check", "fill", "record", "conclude", "release"} \subseteq Control
      /\ {"none", "blocked", "held", "completed"} \subseteq Exits
  BY DEF Control, Exits
<1>4. /\ portfolio \in Seq(Snapshot) /\ Len(portfolio) \in Nat
      /\ \A c \in Construction : Len(batches[c]) \in Nat /\ Len(approvals[c]) \in Nat
  BY <1>1, LenProperties DEF Types
<1>5. CASE Approve(w)
  <2>1. /\ approvals' \in [Construction -> Seq(Approval)]
        /\ \A c \in Construction :
              /\ Extends(approvals'[c], approvals[c])
              /\ \A k \in Len(approvals[c]) + 1 .. Len(approvals'[c]) :
                    approvals'[c][k].state = "stopped" => approvals'[c][k].at >= now
    BY <1>1, <1>5, ApprovalTypes, ApprovalGrows DEF Approve
  <2>2. run' \in [Worker -> RunRecord] /\ \A v \in Worker \ {w} : run'[v] = run[v]
    BY <1>1, <1>3, <1>5, GotoIs DEF Approve
  <2>3. UNCHANGED <<portfolio, started, batches, status>>
    BY <1>5 DEF Approve
  <2>4. Types'
    BY <1>1, <1>2, <2>1, <2>2, <2>3, BoundsTyped DEF Types
  <2> QED BY <1>2, <1>4, <2>1, <2>2, <2>3, <2>4 DEF Typed, Grows, Extends
<1>6. CASE Conclude(w)
  <2>1. /\ approvals' \in [Construction -> Seq(Approval)]
        /\ \A c \in Construction :
              /\ Extends(approvals'[c], approvals[c])
              /\ \A k \in Len(approvals[c]) + 1 .. Len(approvals'[c]) :
                    approvals'[c][k].state = "stopped" => approvals'[c][k].at >= now
    BY <1>1, <1>6, ApprovalTypes, ApprovalGrows DEF Conclude
  <2>2. run' \in [Worker -> RunRecord] /\ \A v \in Worker \ {w} : run'[v] = run[v]
    BY <1>1, <1>3, <1>6, ExitIs DEF Conclude
  <2>3. UNCHANGED <<portfolio, started, batches, status>>
    BY <1>6 DEF Conclude
  <2>4. Types'
    BY <1>1, <1>2, <2>1, <2>2, <2>3, BoundsTyped DEF Types
  <2> QED BY <1>2, <1>4, <2>1, <2>2, <2>3, <2>4 DEF Typed, Grows, Extends
<1>7. CASE StartAttempt(w)
  <2>1. run' \in [Worker -> RunRecord] /\ \A v \in Worker \ {w} : run'[v] = run[v]
    BY <1>1, <1>3, <1>7, ExitIs, GotoIs DEF StartAttempt
  <2>2. StartEvent(w) \in StartRecord
    <3>1. HasBase(w) /\ HasPrev(w) /\ Attempt(w) <= MaxAttempts
      BY <1>1, <1>7 DEF StartAttempt, At, Local, Reading, Resuming
    <3>2. Attempt(w) \in 1 .. MaxAttempts /\ Base(w).id \in Seq(Nat)
      BY <1>1, <3>1, Locating, PaperAssumption DEF Snapshot
    <3> QED BY <1>1, <3>2 DEF StartEvent, StartRecord
  <2>3. started' \subseteq StartRecord /\ started \subseteq started'
    BY <1>1, <1>7, <2>2 DEF StartAttempt, Types
  <2>4. UNCHANGED <<portfolio, batches, approvals, status>>
    BY <1>7 DEF StartAttempt
  <2>5. Types'
    BY <1>1, <1>2, <2>1, <2>3, <2>4, BoundsTyped DEF Types
  <2> QED BY <1>2, <1>4, <2>1, <2>3, <2>4, <2>5 DEF Typed, Grows, Extends
<1>8. CASE AppendEnding(w)
  <2>1. run' \in [Worker -> RunRecord] /\ \A v \in Worker \ {w} : run'[v] = run[v]
    BY <1>1, <1>3, <1>8, ExitIs, GotoIs DEF AppendEnding
  <2>2. Ending(w) \in Snapshot
    BY <1>8, EndingIs DEF AppendEnding, At
  <2>3. portfolio' \in Seq(Snapshot) /\ portfolio' # <<>> /\ Extends(portfolio', portfolio)
    BY <1>1, <1>4, <1>8, <2>2, SnapshotGrows DEF AppendEnding, Types, Extends
  <2>4. UNCHANGED <<started, batches, approvals, status>>
    BY <1>8 DEF AppendEnding
  <2>5. Types'
    BY <1>1, <1>2, <2>1, <2>3, <2>4, BoundsTyped DEF Types
  <2> QED BY <1>2, <1>4, <2>1, <2>3, <2>4, <2>5 DEF Typed, Grows, Extends
<1>9. CASE Record(w)
  <2>1. run' \in [Worker -> RunRecord] /\ \A v \in Worker \ {w} : run'[v] = run[v]
    BY <1>1, <1>3, <1>9, ExitIs, KeepIs DEF Record
  <2>2. Batch(w) \in BatchRecord
    BY <1>9, BatchIs DEF Record
  <2>3. /\ batches' \in [Construction -> Seq(BatchRecord)]
        /\ \A c \in Construction : Extends(batches'[c], batches[c])
    <3>1. CASE batches' = IF Batch(w) \in ToSet(batches[run[w].c]) THEN batches
                          ELSE [batches EXCEPT ![run[w].c] = Append(@, Batch(w))]
      BY <1>1, <2>2, <3>1, RecordGrows
    <3>2. CASE UNCHANGED batches
      BY <1>1, <1>4, <3>2 DEF Types, Extends
    <3> QED BY <1>9, <3>1, <3>2 DEF Record
  <2>4. UNCHANGED <<portfolio, started, approvals, status>>
    BY <1>9 DEF Record
  <2>5. Types'
    BY <1>1, <1>2, <2>1, <2>3, <2>4, BoundsTyped DEF Types
  <2> QED BY <1>2, <1>4, <2>1, <2>3, <2>4, <2>5 DEF Typed, Grows, Extends
<1>10. CASE WriteStatus(w)
  <2>1. run' \in [Worker -> RunRecord] /\ \A v \in Worker \ {w} : run'[v] = run[v]
    BY <1>1, <1>3, <1>10, GotoIs DEF WriteStatus
  <2>2. /\ status' = [status EXCEPT ![run[w].c] = [state |-> run[w].exit, at |-> run[w].stamp]]
        /\ UNCHANGED <<portfolio, started, batches, approvals>>
    BY <1>10 DEF WriteStatus
  <2>3. status' \in [Construction -> [state : Exits, at : Nat]]
    BY <1>1, <2>2 DEF Types
  <2>4. Types'
    BY <1>1, <1>2, <2>1, <2>2, <2>3, BoundsTyped DEF Types
  <2> QED BY <1>2, <1>4, <2>1, <2>2, <2>4 DEF Typed, Grows, Extends
<1> QED BY <1>5, <1>6, <1>7, <1>8, <1>9, <1>10

LEMMA CallerTypes ==
    ASSUME PaperInv, NEW w \in Worker,
           \/ DatabaseError(w) \/ Crash(w) \/ BeginMark(w) \/ AppendMark(w)
           \/ \E c \in Construction : Begin(w, c) \/ BeginCommand(w, c)
    PROVE  Typed(w)
<1>1. Types /\ Local(w) /\ run[w] \in RunRecord /\ run \in [Worker -> RunRecord] /\ now \in Nat
  BY DEF PaperInv, Types, LeaseTypeOK
<1>2. {"release", "authorize", "require", "mark"} \subseteq Control /\ "none" \in Exits
  BY DEF Control, Exits
<1>3. marks \in Nat /\ faults \in Nat /\ MaxMarks \in Nat /\ MaxFaults \in Nat
  BY <1>1, PaperAssumption DEF Types
<1>4. ASSUME UNCHANGED leaseVars PROVE LeaseTypeOK' /\ now <= now'
  BY <1>1, <1>4 DEF Types, LeaseTypeOK, leaseVars
<1>5. CASE DatabaseError(w)
  <2>1. run' = [run EXCEPT ![w] = Idle] \/ run' = [run EXCEPT ![w] = Keep(w, "release", "none")]
    BY <1>5 DEF DatabaseError
  <2>2. run' \in [Worker -> RunRecord] /\ \A v \in Worker \ {w} : run'[v] = run[v]
    BY <1>1, <1>2, <2>1, KeepIs, LeaveIs DEF Leave
  <2>3. /\ marks' \in 0 .. MaxMarks /\ humans' \in 0 .. MaxHuman /\ faults' \in 0 .. MaxFaults
        /\ UNCHANGED <<leaseVars, stores>>
    BY <1>1, <1>3, <1>5 DEF DatabaseError, Types
  <2> QED BY <1>1, <1>4, <2>2, <2>3, QuietTypes DEF Typed
<1>6. CASE Crash(w)
  <2>1. LeaseTypeOK' /\ now <= now'
    BY <1>1, <1>6 DEF Crash, LoseGrant, Types, LeaseTypeOK, NoGrant, Row
  <2>2. /\ marks' \in 0 .. MaxMarks /\ humans' \in 0 .. MaxHuman /\ faults' \in 0 .. MaxFaults
        /\ UNCHANGED stores
    BY <1>1, <1>3, <1>6 DEF Crash, Types
  <2> QED BY <1>1, <1>6, <2>1, <2>2, LeaveIs, QuietTypes DEF Crash, Typed
<1>7. CASE BeginMark(w)
  <2> DEFINE next == [Idle EXCEPT !.pc = "mark", !.stamp = now, !.base = Len(portfolio),
                                  !.prev = marks + 1]
  <2>1. next \in RunRecord
    <3>1. Len(portfolio) \in Nat /\ marks + 1 \in Nat
      BY <1>1, <1>3, LenProperties DEF Types
    <3> QED BY <1>1, <1>2, <3>1, IdleIsTyped DEF RunRecord
  <2>2. run' = [run EXCEPT ![w] = next]
    BY <1>7 DEF BeginMark
  <2> HIDE DEF next
  <2>3. run' \in [Worker -> RunRecord] /\ \A v \in Worker \ {w} : run'[v] = run[v]
    BY <1>1, <2>1, <2>2
  <2>4. /\ marks' \in 0 .. MaxMarks /\ humans' \in 0 .. MaxHuman /\ faults' \in 0 .. MaxFaults
        /\ UNCHANGED <<leaseVars, stores>>
    BY <1>1, <1>3, <1>7 DEF BeginMark, Types
  <2> QED BY <1>1, <1>4, <2>3, <2>4, QuietTypes DEF Typed
<1>8. CASE AppendMark(w)
  <2>1. HasBase(w) /\ Base(w) \in Snapshot
    BY <1>8, Locating DEF AppendMark, At, Local
  <2>2. PICK n \in Nav : AppendSnapshot(Marked(w, n))
    BY <1>8 DEF AppendMark
  <2>3. Marked(w, n) \in Snapshot
    <3>1. <<0, run[w].prev>> \in Seq(Nat) /\ run[w].stamp \in Nat
      BY <1>1 DEF RunRecord
    <3> QED BY <2>1, <3>1 DEF Marked, Snapshot
  <2>4. portfolio' \in Seq(Snapshot) /\ portfolio' # <<>> /\ Extends(portfolio', portfolio)
    BY <1>1, <2>2, <2>3, SnapshotGrows
  <2>5. run' \in [Worker -> RunRecord] /\ \A v \in Worker \ {w} : run'[v] = run[v]
    BY <1>1, <1>8, LeaveIs DEF AppendMark
  <2>6. UNCHANGED <<leaseVars, started, batches, approvals, status, bounds>>
    BY <1>8 DEF AppendMark
  <2>7. LeaseTypeOK' /\ now <= now'
    BY <1>4, <2>6
  <2>8. Types'
    BY <1>1, <2>4, <2>5, <2>6, <2>7, BoundsTyped DEF Types
  <2>9. \A c \in Construction : Len(batches[c]) \in Nat /\ Len(approvals[c]) \in Nat
    BY <1>1, LenProperties DEF Types
  <2> QED BY <2>4, <2>5, <2>6, <2>7, <2>8, <2>9 DEF Typed, Grows, Extends
<1>9. ASSUME NEW c \in Construction, NEW there \in {"authorize", "require"},
             run' = [run EXCEPT ![w] = [Idle EXCEPT !.pc = there, !.c = c, !.stamp = now]],
             UNCHANGED <<leaseVars, stores, bounds>>
      PROVE  Typed(w)
  <2> DEFINE next == [Idle EXCEPT !.pc = there, !.c = c, !.stamp = now]
  <2>1. next \in RunRecord
    BY <1>1, <1>2, IdleIsTyped DEF RunRecord
  <2>2. run' = [run EXCEPT ![w] = next]
    BY <1>9
  <2> HIDE DEF next
  <2>3. run' \in [Worker -> RunRecord] /\ \A v \in Worker \ {w} : run'[v] = run[v]
    BY <1>1, <2>1, <2>2
  <2> QED BY <1>1, <1>4, <1>9, <2>3, BoundsTyped, QuietTypes DEF Typed
<1>10. CASE \E c \in Construction : Begin(w, c) \/ BeginCommand(w, c)
  BY <1>9, <1>10 DEF Begin, BeginCommand
<1> QED BY <1>5, <1>6, <1>7, <1>8, <1>10

LEMMA OutsideTypes ==
    ASSUME PaperInv,
           Clock \/ UNCHANGED vars
               \/ (\E c \in Construction : Human(c, "approved") \/ Human(c, "stopped"))
    PROVE  Types' /\ Grows /\ UNCHANGED run
<1>1. Types /\ now \in Nat
  BY DEF PaperInv, Types, LeaseTypeOK
<1>2. CASE Clock
  <2>1. UNCHANGED <<stores, run, bounds>> /\ LeaseTypeOK' /\ now <= now'
    BY <1>1, <1>2 DEF Clock, Tick, Types, LeaseTypeOK
  <2> QED BY <1>1, <2>1, BoundsTyped, QuietTypes DEF Types
<1>3. CASE UNCHANGED vars
  <2>1. UNCHANGED <<stores, run, bounds>> /\ LeaseTypeOK' /\ now <= now'
    BY <1>1, <1>3 DEF vars, leaseVars, Types, LeaseTypeOK
  <2> QED BY <1>1, <2>1, BoundsTyped, QuietTypes DEF Types
<1>4. ASSUME NEW c \in Construction, NEW state \in {"approved", "stopped"}, Human(c, state)
      PROVE  Types' /\ Grows /\ UNCHANGED run
  <2>1. AppendApproval(c, state, "human", now)
    BY <1>4 DEF Human
  <2>2. /\ approvals' \in [Construction -> Seq(Approval)]
        /\ \A d \in Construction :
              /\ Extends(approvals'[d], approvals[d])
              /\ \A k \in Len(approvals[d]) + 1 .. Len(approvals'[d]) :
                    approvals'[d][k].state = "stopped" => approvals'[d][k].at >= now
    BY <1>1, <2>1, ApprovalTypes, ApprovalGrows
  <2>3. /\ UNCHANGED <<leaseVars, portfolio, started, batches, status, run, marks, faults>>
        /\ humans' \in 0 .. MaxHuman
    BY <1>1, <1>4, PaperAssumption DEF Human, Types
  <2>4. LeaseTypeOK' /\ now <= now'
    BY <1>1, <2>3 DEF Types, LeaseTypeOK, leaseVars
  <2>5. Types'
    BY <1>1, <2>2, <2>3, <2>4 DEF Types
  <2>6. Len(portfolio) \in Nat /\ \A d \in Construction : Len(batches[d]) \in Nat
    BY <1>1, LenProperties DEF Types
  <2> QED BY <2>2, <2>3, <2>4, <2>5, <2>6 DEF Grows, Extends
<1> QED BY <1>2, <1>3, <1>4

-----------------------------------------------------------------------------
(* What the stores say of each other survives every write.                 *)

LEMMA RecordedTypes ==
    ASSUME Types
    PROVE  \A c \in Construction : \A b \in ToSet(batches[c]) : b \in BatchRecord /\ b.at \in Nat
<1> SUFFICES ASSUME NEW c \in Construction, NEW n \in DOMAIN batches[c]
             PROVE  batches[c][n] \in BatchRecord /\ batches[c][n].at \in Nat
  BY DEF ToSet
<1>1. batches[c] \in Seq(BatchRecord)
  BY DEF Types
<1>2. batches[c][n] \in BatchRecord
  BY <1>1, LenProperties, ElementOfSeq
<1> QED BY <1>2 DEF BatchRecord

LEMMA PastStays ==
    ASSUME PaperInv, Types', Grows, UNCHANGED batches
    PROVE  RecordedInThePast'
<1>1. \A c \in Construction : \A b \in ToSet(batches[c]) : b.at \in Nat /\ b.at <= now
  BY RecordedTypes DEF PaperInv, StoreInv, RecordedInThePast
<1>2. now \in Nat /\ now' \in Nat /\ now <= now'
  BY DEF PaperInv, Types, LeaseTypeOK, Grows
<1> QED BY <1>1, <1>2 DEF RecordedInThePast

LEMMA StoresSame ==
    ASSUME PaperInv, Types', Grows, UNCHANGED stores
    PROVE  StoreInv'
<1>1. RecordedInThePast'
  BY PastStays DEF stores
<1>2. /\ UniqueIds' /\ OneBase' /\ FirstFills' /\ BatchesArePublished' /\ AttemptsChain'
      /\ OrdersFilledOnce'
  BY DEF PaperInv, StoreInv, stores, UniqueIds, OneBase, FirstFills, Begun, BatchesArePublished,
     AttemptsChain, OrdersFilledOnce
<1>3. Concluded' /\ AttemptsAreApproved'
  BY DEF PaperInv, StoreInv, stores, Concluded, Executed, Finished, AttemptsAreApproved
<1> QED BY <1>1, <1>2, <1>3 DEF StoreInv

\* Approvals are appended in the order of their instants as far as stops go, and
\* a conclusion comes after the record it reports.
LEMMA ApprovalStore ==
    ASSUME PaperInv, Types', Grows, NEW c \in Construction,
           NEW state \in {"approved", "stopped", "executed"},
           NEW by \in {"policy", "human", "executor"}, NEW at \in Nat,
           AppendApproval(c, state, by, at), state = "executed" => Finished(c),
           UNCHANGED <<portfolio, started, batches, status>>
    PROVE  StoreInv' /\ (state = "executed" => Executed(c)')
<1> USE DEF PaperInv, StoreInv
<1>1. RecordedInThePast'
  BY PastStays
<1>2. /\ UniqueIds' /\ OneBase' /\ FirstFills' /\ BatchesArePublished' /\ AttemptsChain'
      /\ OrdersFilledOnce'
  BY DEF UniqueIds, OneBase, FirstFills, Begun, BatchesArePublished, AttemptsChain, OrdersFilledOnce
<1>3. PICK e \in Approval :
        /\ e.state = state /\ e.at = at
        /\ \/ e \in ToSet(approvals[c]) /\ approvals'[c] = approvals[c]
           \/ approvals'[c] = Append(approvals[c], e)
  BY ApprovalTypes
<1>4. /\ e \in ToSet(approvals'[c])
      /\ \A f \in ToSet(approvals'[c]) : f = e \/ f \in ToSet(approvals[c])
  <2>1. CASE approvals'[c] = Append(approvals[c], e)
    <3>1. approvals[c] \in Seq(Approval) /\ Len(approvals[c]) \in Nat
          /\ DOMAIN approvals[c] = 1 .. Len(approvals[c])
      BY LenProperties DEF Types
    <3>2. /\ DOMAIN approvals'[c] = 1 .. Len(approvals[c]) + 1
          /\ \A i \in 1 .. Len(approvals[c]) : approvals'[c][i] = approvals[c][i]
          /\ approvals'[c][Len(approvals[c]) + 1] = e
      BY <2>1, <3>1, AppendFacts
    <3>3. \A i \in 1 .. Len(approvals[c]) + 1 : i \in 1 .. Len(approvals[c]) \/ i = Len(approvals[c]) + 1
      BY <3>1
    <3>4. Len(approvals[c]) + 1 \in DOMAIN approvals'[c]
      BY <3>1, <3>2
    <3> QED BY <3>1, <3>2, <3>3, <3>4 DEF ToSet
  <2> QED BY <1>3, <2>1
<1>5. ASSUME NEW d \in Construction
      PROVE  /\ Executed(d) => Executed(d)'
             /\ Executed(d)' => Executed(d) \/ (d = c /\ state = "executed")
             /\ Finished(d)' <=> Finished(d)
  <2>1. Executed(d) => Executed(d)'
    BY GrowsFacts DEF Executed
  <2>2. Executed(d)' => Executed(d) \/ (d = c /\ state = "executed")
    <3>1. CASE d = c
      BY <1>3, <1>4, <3>1 DEF Executed
    <3>2. CASE d # c
      BY <3>2, ApprovalTypes DEF Executed
    <3> QED BY <3>1, <3>2
  <2> QED BY <2>1, <2>2 DEF Finished
<1>6. Concluded'
  BY <1>5 DEF Concluded
<1>7. AttemptsAreApproved'
  <2> SUFFICES ASSUME NEW d \in Construction, NEW b \in ToSet(batches[d])
               PROVE  Authorized(d, b.at)'
    BY DEF AttemptsAreApproved, Authorized
  <2>1. b.at \in Nat /\ b.at <= now
    BY RecordedTypes DEF RecordedInThePast
  <2>2. ASSUME NEW t, t = b.at PROVE Authorized(d, t)'
    BY <2>1, <2>2, AuthorizedStays DEF AttemptsAreApproved, Authorized
  <2> QED BY <2>2 DEF Authorized
<1>8. state = "executed" => Executed(c)'
  BY <1>3, <1>4 DEF Executed
<1> QED BY <1>1, <1>2, <1>6, <1>7, <1>8

\* Two start events of one number do not name different snapshots.
LEMMA StartStore ==
    ASSUME PaperInv, NEW w \in Worker, StartAttempt(w), Typed(w)
    PROVE  StoreInv'
<1> USE DEF PaperInv, StoreInv
<1>1. /\ UNCHANGED <<portfolio, batches, approvals, status>>
      /\ started \subseteq started'
      /\ \A e \in started' \ started : e = StartEvent(w) /\ ~StartConflicts(w)
  BY DEF StartAttempt
<1>2. RecordedInThePast'
  BY <1>1, PastStays DEF Typed
<1>3. UniqueIds' /\ BatchesArePublished' /\ AttemptsChain' /\ OrdersFilledOnce'
  BY <1>1 DEF UniqueIds, BatchesArePublished, AttemptsChain, OrdersFilledOnce
<1>4. Concluded' /\ AttemptsAreApproved'
  BY <1>1 DEF Concluded, Executed, Finished, AttemptsAreApproved
<1>5. FirstFills'
  <2>1. \A c \in Construction : Begun(c) => Begun(c)'
    BY <1>1 DEF Begun
  <2> QED BY <1>1, <2>1 DEF FirstFills
<1>6. OneBase'
  <2> SUFFICES ASSUME NEW d \in started', NEW e \in started', d.c = e.c, d.attempt = e.attempt
               PROVE  d = e
    BY DEF OneBase
  <2>1. d \in StartRecord /\ e \in StartRecord
    BY DEF Typed, Types
  <2>2. ASSUME NEW f \in started, ~StartConflicts(w), f.c = StartEvent(w).c,
               f.attempt = StartEvent(w).attempt
        PROVE  f = StartEvent(w)
    <3>1. f.base = Base(w).id
      BY <2>2 DEF StartConflicts, StartEvent
    <3>2. f \in StartRecord
      BY <2>2 DEF Types
    <3>3. f = [c |-> f.c, attempt |-> f.attempt, base |-> f.base]
      BY <3>2 DEF StartRecord
    <3> QED BY <2>2, <3>1, <3>3 DEF StartEvent
  <2> QED BY <1>1, <2>2 DEF OneBase
<1> QED BY <1>2, <1>3, <1>4, <1>5, <1>6

LEMMA StatusStore ==
    ASSUME PaperInv, NEW w \in Worker, WriteStatus(w), Typed(w)
    PROVE  StoreInv'
<1> USE DEF PaperInv, StoreInv
<1>1. /\ UNCHANGED <<portfolio, started, batches, approvals>>
      /\ status' = [status EXCEPT ![run[w].c] = [state |-> run[w].exit, at |-> run[w].stamp]]
      /\ status \in [Construction -> [state : Exits, at : Nat]]
      /\ run[w].exit = "completed" => Executed(run[w].c)
  BY DEF WriteStatus, Types, Local
<1>2. RecordedInThePast'
  BY <1>1, PastStays DEF Typed
<1>3. /\ UniqueIds' /\ OneBase' /\ FirstFills' /\ BatchesArePublished' /\ AttemptsChain'
      /\ OrdersFilledOnce' /\ AttemptsAreApproved'
  BY <1>1 DEF UniqueIds, OneBase, FirstFills, Begun, BatchesArePublished, AttemptsChain,
     OrdersFilledOnce, AttemptsAreApproved
<1>4. \A c \in Construction : status'[c].state = "completed" => Executed(c)
  BY <1>1 DEF Concluded
<1>5. Concluded'
  BY <1>1, <1>4 DEF Concluded, Executed, Finished
<1> QED BY <1>2, <1>3, <1>5

\* A new snapshot with an identifier and fills of its own.
LEMMA PortfolioStore ==
    ASSUME PaperInv, Types', Grows, NEW s \in Snapshot, AppendSnapshot(s),
           UNCHANGED <<started, batches, approvals, status>>,
           \A k \in DOMAIN portfolio : portfolio[k].id = s.id => portfolio[k] = s,
           \A c \in Construction : s.filled[c] # Nothing => Begun(c),
           \A c \in Construction, o \in Order :
              \E j \in DOMAIN portfolio : s.filled[c][o] <= portfolio[j].nav
    PROVE  StoreInv'
<1> USE DEF PaperInv, StoreInv
<1>1. RecordedInThePast'
  BY PastStays
<1>2. OneBase' /\ AttemptsChain'
  BY DEF OneBase, AttemptsChain
<1>3. Concluded' /\ AttemptsAreApproved'
  BY DEF Concluded, Executed, Finished, AttemptsAreApproved
<1>4. /\ DOMAIN portfolio \subseteq DOMAIN portfolio'
      /\ \A k \in DOMAIN portfolio : portfolio'[k] = portfolio[k]
      /\ ToSet(portfolio) \subseteq ToSet(portfolio')
  BY GrowsFacts
<1>5. \A k \in DOMAIN portfolio' \ DOMAIN portfolio :
         k = Len(portfolio) + 1 /\ portfolio'[k] = s /\ s \notin ToSet(portfolio)
  BY SnapshotGrows
<1>6. UniqueIds'
  <2> SUFFICES ASSUME NEW j \in DOMAIN portfolio', NEW k \in DOMAIN portfolio',
                      portfolio'[j].id = portfolio'[k].id
               PROVE  j = k
    BY DEF UniqueIds
  <2>1. \A i \in DOMAIN portfolio : portfolio[i].id = s.id => s \in ToSet(portfolio)
    BY DEF ToSet
  <2> QED BY <1>4, <1>5, <2>1 DEF UniqueIds
<1>7. FirstFills'
  <2>1. \A c \in Construction : Begun(c) => Begun(c)'
    BY <1>4 DEF Begun
  <2>2. ASSUME NEW c \in Construction, NEW k \in DOMAIN portfolio', portfolio'[k].filled[c] # Nothing
        PROVE  Begun(c)
    BY <1>4, <1>5, <2>2 DEF FirstFills
  <2> QED BY <2>1, <2>2 DEF FirstFills
<1>8. BatchesArePublished'
  BY <1>4 DEF BatchesArePublished
<1>9. OrdersFilledOnce'
  <2> SUFFICES ASSUME NEW k \in DOMAIN portfolio', NEW c \in Construction, NEW o \in Order
               PROVE  \E j \in DOMAIN portfolio' : portfolio'[k].filled[c][o] <= portfolio'[j].nav
    BY DEF OrdersFilledOnce
  <2>1. \E j \in DOMAIN portfolio : portfolio'[k].filled[c][o] <= portfolio[j].nav
    BY <1>4, <1>5 DEF OrdersFilledOnce
  <2> QED BY <1>4, <2>1
<1> QED BY <1>1, <1>2, <1>3, <1>6, <1>7, <1>8, <1>9

\* An ending rests on the first attempt of its construction, and asks for no
\* more than the snapshot it began with justifies.
LEMMA EndingStore ==
    ASSUME PaperInv, NEW w \in Worker, AppendEnding(w), Typed(w)
    PROVE  StoreInv'
<1> USE DEF PaperInv
<1>1. /\ run[w].c \in Construction /\ HasBase(w) /\ HasPrev(w) /\ Sound(w)
      /\ StartEvent(w) \in started /\ run[w].pc \in Filling
  BY DEF AppendEnding, At, Local, Reading, Resuming, Filling, Working, LeasedControl
<1>2. UNCHANGED <<started, batches, approvals, status>>
  BY DEF AppendEnding
<1>3. CASE UNCHANGED portfolio
  BY <1>2, <1>3, StoresSame DEF stores, Typed
<1>4. CASE ~SnapshotConflicts(Ending(w)) /\ AppendSnapshot(Ending(w))
  <2>1. Ending(w) \in Snapshot
    BY EndingIs DEF AppendEnding, At
  <2>2. \A k \in DOMAIN portfolio : portfolio[k].id = Ending(w).id => portfolio[k] = Ending(w)
    BY <1>4 DEF SnapshotConflicts
  <2>3. /\ Base(w) \in Snapshot /\ Base(w).nav \in Nat /\ run[w].outcome \in Outcome
        /\ \A o \in Order : Already(w, o) \in Nat
    BY <1>1, Locating, PaperAssumption DEF Snapshot
  <2>4. Begun(run[w].c)
    <3>1. CASE run[w].prev # 0
      <4>1. batches[run[w].c] # <<>>
        BY <1>1, <3>1 DEF HasPrev
      <4> QED BY <1>1, <4>1 DEF StoreInv, FirstFills
    <3>2. CASE run[w].prev = 0
      <4>1. \A o \in Order : Base(w).filled[run[w].c][o] = 0
        BY <1>1, <3>2, InStep DEF Already
      <4>2. Base(w).filled[run[w].c] = Nothing
        BY <1>1, <2>3, <4>1 DEF Nothing, Snapshot, Amounts
      <4> QED BY <1>1, <3>2, <4>2 DEF Begun, StartEvent, Attempt, HasBase, Base
    <3> QED BY <3>1, <3>2
  <2>5. ASSUME NEW c \in Construction, Ending(w).filled[c] # Nothing PROVE Begun(c)
    <3>1. CASE c = run[w].c
      BY <2>4, <3>1
    <3>2. CASE c # run[w].c
      BY <1>1, <2>5, <3>2, EndingIs DEF AppendEnding, At, StoreInv, FirstFills, HasBase, Base
    <3> QED BY <3>1, <3>2
  <2>6. ASSUME NEW c \in Construction, NEW o \in Order
        PROVE  \E j \in DOMAIN portfolio : Ending(w).filled[c][o] <= portfolio[j].nav
    <3>1. \E j \in DOMAIN portfolio : Base(w).filled[c][o] <= portfolio[j].nav
      BY <1>1 DEF StoreInv, OrdersFilledOnce, HasBase, Base
    <3>2. CASE c # run[w].c
      BY <3>1, <3>2, EndingIs DEF AppendEnding, At
    <3>3. CASE c = run[w].c
      <4>1. /\ Ending(w).filled[c][o] = Base(w).filled[c][o] + run[w].outcome.got[o]
            /\ Base(w).filled[c][o] = Already(w, o)
        BY <1>1, <3>3, EndingIs, InStep DEF AppendEnding, At
      <4>2. run[w].outcome.got[o] \in Nat /\ run[w].outcome.got[o] <= Remaining(w, o)
        BY <1>1, <2>3 DEF Sound, Fillable, Outcome, Amounts
      <4>3. CASE Remaining(w, o) = 0
        BY <2>3, <3>1, <4>1, <4>2, <4>3
      <4>4. CASE Remaining(w, o) = Base(w).nav - Already(w, o)
        <5>1. Ending(w).filled[c][o] <= Base(w).nav
          BY <2>3, <4>1, <4>2, <4>4
        <5> QED BY <1>1, <5>1 DEF HasBase, Base
      <4> QED BY <4>3, <4>4 DEF Remaining
    <3> QED BY <3>2, <3>3
  <2> QED BY <1>2, <1>4, <2>1, <2>2, <2>5, <2>6, PortfolioStore DEF Typed
<1> QED BY <1>3, <1>4 DEF AppendEnding

LEMMA MarkStore ==
    ASSUME PaperInv, NEW w \in Worker, AppendMark(w), Typed(w)
    PROVE  StoreInv'
<1> USE DEF PaperInv
<1>1. HasBase(w) /\ Base(w) \in Snapshot /\ run[w] \in RunRecord
  BY Locating DEF AppendMark, At, Local
<1>2. PICK n \in Nav : AppendSnapshot(Marked(w, n))
  BY DEF AppendMark
<1>3. /\ Marked(w, n) \in Snapshot /\ Marked(w, n).id = <<0, run[w].prev>>
      /\ Marked(w, n).filled = Base(w).filled
  <2>1. <<0, run[w].prev>> \in Seq(Nat) /\ run[w].stamp \in Nat
    BY <1>1 DEF RunRecord
  <2> QED BY <1>1, <2>1 DEF Marked, Snapshot
<1>4. \A k \in DOMAIN portfolio : portfolio[k].id # Marked(w, n).id
  BY <1>3 DEF Marks, AppendMark
<1>5. \A c \in Construction : Marked(w, n).filled[c] # Nothing => Begun(c)
  BY <1>1, <1>3 DEF StoreInv, FirstFills, HasBase, Base
<1>6. \A c \in Construction, o \in Order :
         \E j \in DOMAIN portfolio : Marked(w, n).filled[c][o] <= portfolio[j].nav
  BY <1>1, <1>3 DEF StoreInv, OrdersFilledOnce, HasBase, Base
<1> QED BY <1>2, <1>3, <1>4, <1>5, <1>6, PortfolioStore DEF Typed, AppendMark

-----------------------------------------------------------------------------
(* Records.                                                                *)

\* A record is appended right after the one its attempt has read, or it is there
\* already: another record of the same number would be a conflict.
LEMMA RecordPlace ==
    ASSUME PaperInv, NEW w \in Worker, Record(w), Typed(w)
    PROVE  /\ \A c \in Construction : c # run[w].c => batches'[c] = batches[c]
           /\ \/ UNCHANGED batches
              \/ /\ Len(batches[run[w].c]) = run[w].prev
                 /\ DOMAIN batches[run[w].c] = 1 .. run[w].prev
                 /\ DOMAIN batches'[run[w].c] = 1 .. run[w].prev + 1
                 /\ batches'[run[w].c][run[w].prev + 1] = Batch(w)
           /\ ~RecordConflicts(w) => Batch(w) \in ToSet(batches'[run[w].c])
<1> USE DEF PaperInv
<1> DEFINE c == run[w].c
<1>1. /\ c \in Construction /\ HasPrev(w) /\ run[w] \in RunRecord
      /\ batches \in [Construction -> Seq(BatchRecord)]
  BY DEF Record, At, Local, Reading, Resuming, Working, LeasedControl, Types
<1>2. Batch(w) \in BatchRecord /\ Batch(w).attempt = run[w].prev + 1 /\ Attempt(w) = run[w].prev + 1
  BY <1>1, BatchIs, Locating DEF Record
<1>3. CASE RecordConflicts(w)
  BY <1>3 DEF Record
<1>4. CASE ~RecordConflicts(w)
  <2>1. batches' = IF Batch(w) \in ToSet(batches[c]) THEN batches
                   ELSE [batches EXCEPT ![c] = Append(@, Batch(w))]
    BY <1>4 DEF Record
  <2>2. /\ \A d \in Construction : d # c => batches'[d] = batches[d]
        /\ \/ Batch(w) \in ToSet(batches[c])
           \/ /\ Len(batches'[c]) = Len(batches[c]) + 1
              /\ DOMAIN batches'[c] = 1 .. Len(batches[c]) + 1
              /\ batches'[c][Len(batches[c]) + 1] = Batch(w)
        /\ Batch(w) \in ToSet(batches'[c])
    BY <1>1, <1>2, <2>1, RecordGrows
  <2>3. CASE Batch(w) \in ToSet(batches[c])
    BY <2>1, <2>2, <2>3
  <2>4. CASE Batch(w) \notin ToSet(batches[c])
    <3>1. DOMAIN batches[c] = 1 .. Len(batches[c]) /\ Len(batches[c]) \in Nat
      BY <1>1, LenProperties
    <3>2. run[w].prev <= Len(batches[c]) /\ run[w].prev \in Nat
      BY <1>1, <3>1 DEF HasPrev, RunRecord
    <3>3. run[w].prev + 1 \notin DOMAIN batches[c]
      <4> SUFFICES ASSUME run[w].prev + 1 \in DOMAIN batches[c] PROVE FALSE
        OBVIOUS
      <4>1. batches[c][run[w].prev + 1].attempt = run[w].prev + 1
        BY <1>1 DEF StoreInv, AttemptsChain
      <4>2. batches[c][run[w].prev + 1] \in ToSet(batches[c])
        BY DEF ToSet
      <4> QED BY <1>2, <1>4, <2>4, <4>1, <4>2 DEF RecordConflicts
    <3>4. Len(batches[c]) = run[w].prev
      BY <3>1, <3>2, <3>3
    <3> QED BY <2>2, <2>4, <3>1, <3>4
  <2> QED BY <2>3, <2>4
<1> QED BY <1>3, <1>4

LEMMA RecordStore ==
    ASSUME PaperInv, NEW w \in Worker, Record(w), Typed(w)
    PROVE  StoreInv'
<1> USE DEF PaperInv
<1> DEFINE c == run[w].c
           last == run[w].prev + 1
<1>1. UNCHANGED <<portfolio, started, approvals, status>>
  BY DEF Record
<1>2. CASE UNCHANGED batches
  BY <1>1, <1>2, StoresSame DEF stores, Typed
<1>3. CASE ~UNCHANGED batches
  <2>1. /\ c \in Construction /\ HasBase(w) /\ HasPrev(w) /\ run[w] \in RunRecord
        /\ run[w].stamp <= now /\ run[w].prev \in Nat
        /\ Authorized(c, run[w].stamp)
    BY DEF Record, At, Local, Reading, Resuming, Working, LeasedControl, Types, RunRecord
  <2>2. /\ \A d \in Construction : d # c => batches'[d] = batches[d]
        /\ DOMAIN batches[c] = 1 .. run[w].prev
        /\ DOMAIN batches'[c] = 1 .. last
        /\ batches'[c][last] = Batch(w)
    BY <1>3, RecordPlace
  <2>3. \A d \in Construction : /\ DOMAIN batches[d] \subseteq DOMAIN batches'[d]
                                /\ \A n \in DOMAIN batches[d] : batches'[d][n] = batches[d][n]
    BY GrowsFacts DEF Typed
  <2>4. ASSUME NEW d \in Construction, NEW n \in DOMAIN batches'[d]
        PROVE  \/ n \in DOMAIN batches[d] /\ batches'[d][n] = batches[d][n]
               \/ d = c /\ n = last /\ batches'[d][n] = Batch(w)
    BY <2>1, <2>2, <2>3
  <2>5. /\ Batch(w).attempt = last /\ Batch(w).base = Base(w).id /\ Batch(w).at = run[w].stamp
        /\ Batch(w).status = "completed" => Batch(w).done = Order
        /\ \E s \in ToSet(portfolio) : s.id = Batch(w).ending /\ s.filled[c] = Batch(w).filled
    BY BatchIs DEF Record
  <2>6. \A d \in Construction : \A b \in ToSet(batches'[d]) :
           b \in ToSet(batches[d]) \/ (d = c /\ b = Batch(w))
    BY <2>4 DEF ToSet
  <2>7. UniqueIds' /\ OneBase' /\ OrdersFilledOnce'
    BY <1>1 DEF StoreInv, UniqueIds, OneBase, OrdersFilledOnce
  <2>8. AttemptsChain'
    <3> SUFFICES ASSUME NEW d \in Construction, NEW n \in DOMAIN batches'[d]
                 PROVE  /\ batches'[d][n].attempt = n
                        /\ n > 1 => /\ batches'[d][n].base = batches'[d][n - 1].ending
                                    /\ batches'[d][n - 1].status # "completed"
      BY DEF AttemptsChain
    <3>1. CASE n \in DOMAIN batches[d] /\ batches'[d][n] = batches[d][n]
      <4>1. n > 1 => n - 1 \in DOMAIN batches[d]
        <5>1. batches[d] \in Seq(BatchRecord)
          BY DEF Types
        <5> QED BY <3>1, <5>1, LenProperties
      <4> QED BY <2>3, <3>1, <4>1 DEF StoreInv, AttemptsChain
    <3>2. CASE d = c /\ n = last /\ batches'[d][n] = Batch(w)
      <4>1. n > 1 => /\ run[w].prev # 0 /\ n - 1 = run[w].prev
                     /\ run[w].prev \in DOMAIN batches[c]
        BY <2>1, <3>2 DEF HasPrev
      <4>2. n > 1 => batches'[c][run[w].prev] = Prev(w)
        BY <2>1, <2>3, <4>1 DEF Prev
      <4> QED BY <2>1, <2>5, <3>2, <4>1, <4>2 DEF HasPrev, Resumes, Prev
    <3> QED BY <2>4, <3>1, <3>2
  <2>9. BatchesArePublished'
    BY <1>1, <2>5, <2>6 DEF StoreInv, BatchesArePublished
  <2>10. AttemptsAreApproved'
    <3> SUFFICES ASSUME NEW d \in Construction, NEW b \in ToSet(batches'[d])
                 PROVE  Authorized(d, b.at)'
      BY DEF AttemptsAreApproved, Authorized
    <3>1. Authorized(d, b.at)
      <4>1. CASE b \in ToSet(batches[d])
        BY <4>1 DEF StoreInv, AttemptsAreApproved, Authorized
      <4>2. CASE d = c /\ b = Batch(w)
        BY <2>1, <2>5, <4>2
      <4> QED BY <2>6, <4>1, <4>2
    <3> QED BY <1>1, <3>1 DEF Authorized
  <2>11. RecordedInThePast'
    <3>1. \A b \in ToSet(batches[c]) : b.at <= now
      BY <2>1 DEF StoreInv, RecordedInThePast
    <3>2. UNCHANGED now
      BY DEF Record, leaseVars
    <3> QED BY <2>1, <2>5, <2>6, <3>2 DEF StoreInv, RecordedInThePast
  <2>12. Concluded'
    <3>1. \A d \in Construction : Finished(d) => Finished(d)'
      BY <2>3 DEF Finished
    <3>2. \A d \in Construction : \A n \in DOMAIN batches'[d] :
             batches'[d][n].status = "completed" => batches'[d][n].done = Order
      BY <2>4, <2>5 DEF StoreInv, Concluded
    <3> QED BY <1>1, <3>1, <3>2 DEF StoreInv, Concluded, Executed
  <2>13. FirstFills'
    <3>1. \A d \in Construction : Begun(d) <=> Begun(d)'
      BY <1>1 DEF Begun
    <3>2. Begun(c)
      <4>1. CASE run[w].prev # 0
        <5>1. batches[c] # <<>>
          BY <2>1, <4>1 DEF HasPrev
        <5> QED BY <2>1, <5>1 DEF StoreInv, FirstFills
      <4>2. CASE run[w].prev = 0
        <5>1. run[w].pc \in Filling /\ StartEvent(w) \in started /\ Base(w) \in Snapshot
          BY <2>1, Locating DEF Record, At, Local, Filling
        <5>2. \A o \in Order : Base(w).filled[c][o] = 0
          BY <4>2, <5>1, InStep DEF Already
        <5>3. Base(w).filled[c] = Nothing
          BY <2>1, <5>1, <5>2 DEF Nothing, Snapshot, Amounts
        <5> QED BY <2>1, <4>2, <5>1, <5>3 DEF Begun, StartEvent, Attempt, HasBase, Base
      <4> QED BY <4>1, <4>2
    <3> QED BY <1>1, <2>2, <3>1, <3>2 DEF StoreInv, FirstFills
  <2> QED BY <2>7, <2>8, <2>9, <2>10, <2>11, <2>12, <2>13 DEF StoreInv
<1> QED BY <1>2, <1>3

-----------------------------------------------------------------------------
(* Identifiers of marks.                                                   *)

\* Attempts are numbered from one: no ending has the identifier of a mark.
LEMMA EndingIsNoMark ==
    ASSUME NEW b \in Seq(Nat), NEW a \in Nat \ {0}, b # << 0 >>
    PROVE  /\ Append(b, a) # <<>> /\ Append(b, a) # << 0 >>
           /\ \A m : Append(b, a) # <<0, m>>
           /\ Append(b, a)[1] = 0 => b # <<>> /\ b[1] = 0 /\ Append(b, a)[2] = b[2]
<1>1. /\ Len(b) \in Nat /\ DOMAIN b = 1 .. Len(b) /\ b \in [1 .. Len(b) -> Nat]
      /\ Append(b, a) # <<>> /\ Len(Append(b, a)) = Len(b) + 1
      /\ \A i \in 1 .. Len(b) : Append(b, a)[i] = b[i]
      /\ Append(b, a)[Len(b) + 1] = a
  BY LenProperties, AppendProperties
<1>2. Len(b) = 1 => b[1] # 0
  <2> SUFFICES ASSUME Len(b) = 1, b[1] = 0 PROVE FALSE
    OBVIOUS
  <2>1. DOMAIN b = DOMAIN << 0 >> /\ \A i \in DOMAIN b : b[i] = << 0 >>[i]
    BY <1>1
  <2> QED BY <1>1, <2>1
<1>3. CASE Len(b) = 0
  BY <1>1, <1>3
<1>4. CASE Len(b) = 1
  <2> DEFINE e == Append(b, a)
  <2>1. e[1] # 0 /\ e # <<>>
    BY <1>1, <1>2, <1>4
  <2> HIDE DEF e
  <2>2. e # << 0 >> /\ \A m : e # <<0, m>>
    BY <2>1
  <2> QED BY <2>1, <2>2 DEF e
<1>5. CASE Len(b) >= 2
  BY <1>1, <1>5
<1> QED BY <1>1, <1>3, <1>4, <1>5

LEMMA IdTypes ==
    ASSUME Types
    PROVE  \A k \in DOMAIN portfolio : portfolio[k].id \in Seq(Nat)
<1>1. \A k \in DOMAIN portfolio : portfolio[k] \in Snapshot
  BY LenProperties, ElementOfSeq DEF Types
<1> QED BY <1>1 DEF Snapshot

LEMMA MarksQuiet ==
    ASSUME PaperInv, UNCHANGED <<portfolio, marks>>,
           \A v \in Worker : run'[v] = run[v] \/ run'[v].pc # "mark"
    PROVE  Marks'
  BY DEF PaperInv, Marks, At

LEMMA MarksEnding ==
    ASSUME PaperInv, NEW w \in Worker, AppendEnding(w), Typed(w)
    PROVE  Marks'
<1>1. \A v \in Worker : run'[v] = run[v] \/ run'[v].pc # "mark"
  <2>1. Types /\ "record" \in Control /\ "blocked" \in Exits /\ "publish" \in Control
    BY DEF PaperInv, Control, Exits
  <2>2. run'[w].pc # "mark"
    BY <2>1, ExitIs, GotoIs, IdleIsTyped, KeepIsTyped DEF AppendEnding
  <2> QED BY <2>2 DEF Typed
<1>2. UNCHANGED marks
  BY DEF AppendEnding, bounds
<1>3. CASE UNCHANGED portfolio
  BY <1>1, <1>2, <1>3, MarksQuiet
<1>4. CASE AppendSnapshot(Ending(w))
  <2>1. /\ HasBase(w) /\ HasPrev(w) /\ run[w].outcome.fresh /\ run[w].c \in Construction
        /\ Types /\ Marks
    BY DEF PaperInv, AppendEnding, At, Local, Reading, Resuming, Working, LeasedControl
  <2>2. /\ Base(w).id \in Seq(Nat) /\ Attempt(w) \in Nat \ {0}
    BY <2>1, Locating DEF Snapshot
  <2>3. /\ Ending(w) \in Snapshot /\ Ending(w).id = Append(Base(w).id, Attempt(w))
    BY <2>1, EndingIs DEF AppendEnding, At, EndingId
  <2>4. /\ Base(w).id # << 0 >>
        /\ Base(w).id # <<>> /\ Base(w).id[1] = 0 => Base(w).id[2] <= marks
    BY <2>1 DEF Marks, HasBase, Base
  <2>5. /\ Ending(w).id # << 0 >>
        /\ \A m : Ending(w).id # <<0, m>>
        /\ Ending(w).id[1] = 0 => Ending(w).id[2] <= marks
    BY <2>2, <2>3, <2>4, EndingIsNoMark
  <2>6. \A k \in DOMAIN portfolio' :
           (k \in DOMAIN portfolio /\ portfolio'[k] = portfolio[k]) \/ portfolio'[k] = Ending(w)
    BY <1>4, <2>1, <2>3, SnapshotGrows, GrowsFacts DEF Typed
  <2> QED BY <1>1, <1>2, <2>1, <2>5, <2>6 DEF Marks, At
<1> QED BY <1>3, <1>4 DEF AppendEnding

LEMMA MarksAppend ==
    ASSUME PaperInv, NEW w \in Worker, AppendMark(w), Typed(w)
    PROVE  Marks'
<1>1. Types /\ Marks /\ Local(w) /\ HasBase(w) /\ Base(w) \in Snapshot /\ run[w] \in RunRecord
  BY Locating DEF PaperInv, AppendMark, At, Local
<1>2. PICK n \in Nav : AppendSnapshot(Marked(w, n))
  BY DEF AppendMark
<1>3. Marked(w, n) \in Snapshot /\ Marked(w, n).id = <<0, run[w].prev>>
  <2>1. <<0, run[w].prev>> \in Seq(Nat) /\ run[w].stamp \in Nat
    BY <1>1 DEF RunRecord
  <2> QED BY <1>1, <2>1 DEF Marked, Snapshot
<1>4. \A k \in DOMAIN portfolio' :
         (k \in DOMAIN portfolio /\ portfolio'[k] = portfolio[k]) \/ portfolio'[k] = Marked(w, n)
  BY <1>1, <1>2, <1>3, SnapshotGrows, GrowsFacts DEF Typed
<1>5. run'[w].pc # "mark" /\ UNCHANGED marks
  BY <1>1, LeaveIs, IdleIsTyped DEF AppendMark, bounds
<1>6. run[w].prev \in 1 .. marks /\ \A v \in Worker : At(v, "mark") /\ v # w => run[v].prev # run[w].prev
  BY <1>1 DEF Marks, AppendMark
<1>7. \A v \in Worker : At(v, "mark")' => v # w /\ At(v, "mark") /\ run'[v] = run[v]
  BY <1>5 DEF At, Typed
<1> DEFINE id == Marked(w, n).id
<1>8. id # << 0 >> /\ id[2] = run[w].prev /\ run[w].prev <= marks
  BY <1>1, <1>3, <1>6 DEF RunRecord
<1>9. \A k \in DOMAIN portfolio' :
         /\ portfolio'[k].id # << 0 >>
         /\ portfolio'[k].id # <<>> /\ portfolio'[k].id[1] = 0 => portfolio'[k].id[2] <= marks'
  BY <1>1, <1>4, <1>5, <1>8 DEF Marks
<1>10. ASSUME NEW v \in Worker, At(v, "mark")'
       PROVE  /\ run'[v].prev \in 1 .. marks'
              /\ \A k \in DOMAIN portfolio' : portfolio'[k].id # <<0, run'[v].prev>>
              /\ \A u \in Worker : At(u, "mark")' /\ run'[u].prev = run'[v].prev => u = v
  <2>1. v # w /\ At(v, "mark") /\ run'[v] = run[v] /\ run[v].prev # run[w].prev
    BY <1>6, <1>7, <1>10
  <2>2. id # <<0, run[v].prev>>
    BY <1>8, <2>1
  <2>3. \A k \in DOMAIN portfolio' : portfolio'[k].id # <<0, run'[v].prev>>
    BY <1>1, <1>4, <2>1, <2>2 DEF Marks
  <2>4. \A u \in Worker : At(u, "mark")' /\ run'[u].prev = run'[v].prev => u = v
    BY <1>1, <1>7, <2>1 DEF Marks
  <2> QED BY <1>1, <1>5, <2>1, <2>3, <2>4 DEF Marks
<1> QED BY <1>9, <1>10 DEF Marks

LEMMA MarksBegin ==
    ASSUME PaperInv, NEW w \in Worker, BeginMark(w), Typed(w)
    PROVE  Marks'
<1>1. Types /\ Marks /\ marks \in Nat
  BY PaperAssumption DEF PaperInv, Types
<1>2. UNCHANGED portfolio /\ marks' = marks + 1
  BY DEF BeginMark, stores
<1>3. run'[w].prev = marks + 1
  BY <1>1 DEF BeginMark, Types, RunRecord, Idle
<1>4. \A k \in DOMAIN portfolio :
         /\ portfolio[k].id # <<0, marks + 1>>
         /\ portfolio[k].id # <<>> /\ portfolio[k].id[1] = 0 => portfolio[k].id[2] <= marks + 1
  <2> SUFFICES ASSUME NEW k \in DOMAIN portfolio
               PROVE  /\ portfolio[k].id # <<0, marks + 1>>
                      /\ portfolio[k].id # <<>> /\ portfolio[k].id[1] = 0
                            => portfolio[k].id[2] <= marks + 1
    OBVIOUS
  <2>1. /\ portfolio[k].id \in Seq(Nat) /\ portfolio[k].id # << 0 >>
        /\ portfolio[k].id # <<>> /\ portfolio[k].id[1] = 0 => portfolio[k].id[2] <= marks
    BY <1>1, IdTypes DEF Marks
  <2>2. portfolio[k].id # <<>> /\ portfolio[k].id[1] = 0 => portfolio[k].id[2] \in Nat
    <3>1. ASSUME NEW b \in Seq(Nat), b # <<>>, b[1] = 0, b # << 0 >> PROVE b[2] \in Nat
      <4>1. Len(b) \in Nat \ {0} /\ DOMAIN b = 1 .. Len(b)
        BY <3>1, LenProperties, EmptySeq
      <4>2. Len(b) # 1
        <5> SUFFICES ASSUME Len(b) = 1 PROVE FALSE
          OBVIOUS
        <5>1. DOMAIN b = DOMAIN << 0 >> /\ \A i \in DOMAIN b : b[i] = << 0 >>[i]
          BY <3>1, <4>1
        <5> QED BY <3>1, <5>1
      <4> QED BY <3>1, <4>1, <4>2, ElementOfSeq
    <3> QED BY <2>1, <3>1
  <2> QED BY <1>1, <2>1, <2>2
<1>5. \A v \in Worker : At(v, "mark")' => v = w \/ (At(v, "mark") /\ run'[v] = run[v])
  BY DEF At, Typed
<1>6. \A v \in Worker : At(v, "mark") => run[v].prev \in 1 .. marks
  BY <1>1 DEF Marks
<1>7. /\ \A k \in DOMAIN portfolio' : portfolio'[k].id # << 0 >>
      /\ \A k \in DOMAIN portfolio' :
            portfolio'[k].id # <<>> /\ portfolio'[k].id[1] = 0 => portfolio'[k].id[2] <= marks'
  BY <1>1, <1>2, <1>4 DEF Marks
<1>8. ASSUME NEW u \in Worker, At(u, "mark")'
      PROVE  /\ run'[u].prev \in 1 .. marks'
             /\ \A k \in DOMAIN portfolio' : portfolio'[k].id # <<0, run'[u].prev>>
             /\ \A v \in Worker : At(v, "mark")' /\ run'[v].prev = run'[u].prev => v = u
  <2>1. ~At(w, "mark")
    BY DEF BeginMark, At
  <2>2. CASE u = w
    BY <1>1, <1>2, <1>3, <1>4, <1>5, <1>6, <2>2
  <2>3. CASE u # w
    <3>1. At(u, "mark") /\ run'[u] = run[u]
      BY <1>5, <1>8, <2>3
    <3> QED BY <1>1, <1>2, <1>3, <1>5, <1>6, <3>1 DEF Marks
  <2> QED BY <2>2, <2>3
<1> QED BY <1>7, <1>8 DEF Marks, At

-----------------------------------------------------------------------------
(* What a worker has read, after a step of its own.                        *)

LEMMA LocalIdle ==
    ASSUME Types', NEW w \in Worker, run'[w] = Idle
    PROVE  Local(w)'
<1>1. now' \in Nat /\ Len(portfolio') \in Nat
  BY LenProperties DEF Types, LeaseTypeOK
<1> QED BY <1>1, IdleIsTyped DEF Local, Working, LeasedControl, Reading, Resuming, Filling

LEMMA LocalKeep ==
    ASSUME PaperInv, NEW w \in Worker, Typed(w), run[w].c \in Construction,
           NEW there \in {"publish", "release", "conclude"}, NEW result \in Exits,
           run'[w] = Keep(w, there, result),
           there = "conclude" => \A d : d = run[w].c => Finished(d)',
           result = "completed" => \A d : d = run[w].c => Executed(d)'
    PROVE  Local(w)'
<1>1. /\ now \in Nat /\ now' \in Nat /\ now <= now' /\ Len(portfolio') \in Nat
      /\ Types /\ run[w].stamp \in Nat /\ run[w].stamp <= now
  BY LenProperties DEF PaperInv, Typed, Types, LeaseTypeOK, Grows, RunRecord, Local
<1>2. there \in Control
  BY DEF Control
<1>3. /\ run'[w].pc = there /\ run'[w].exit = result /\ run'[w].c = run[w].c
      /\ run'[w].base = 0 /\ run'[w].stamp = run[w].stamp /\ run'[w].prev = 0
  BY <1>1, <1>2, KeepIsTyped
<1>4. there = "conclude" => Finished(run[w].c)'
  BY <1>3 DEF Finished
<1>5. result = "completed" => Executed(run[w].c)'
  BY <1>3 DEF Executed
<1> QED BY <1>1, <1>3, <1>4, <1>5 DEF Local, Working, LeasedControl, Reading, Resuming, Filling

LEMMA LocalExit ==
    ASSUME PaperInv, NEW w \in Worker, Typed(w), run[w].c \in Construction,
           NEW result \in Exits, Exit(w, result),
           result = "completed" => \A d : d = run[w].c => Executed(d)'
    PROVE  Local(w)'
<1>1. run'[w] = Idle \/ run'[w] = Keep(w, "publish", result)
  BY ExitIs DEF PaperInv
<1> QED BY <1>1, LocalIdle, LocalKeep DEF Typed

\* The worker goes on with the locals it has.
LEMMA LocalGoes ==
    ASSUME PaperInv, NEW w \in Worker, Typed(w), SameWork(w), run[w].c \in Construction,
           run'[w].exit = run[w].exit,
           run'[w].pc \in Working \ {"conclude"},
           run'[w].pc \in Reading => Authorized(run[w].c, run[w].stamp),
           run'[w].pc \in Reading \ {"read"} => HasBase(w),
           run'[w].pc \in Resuming => HasPrev(w),
           run'[w].pc \notin Resuming => run[w].prev = 0,
           run'[w].pc \in Filling => StartEvent(w) \in started',
           run'[w].pc \in {"append", "record"} => Sound(w),
           run'[w].pc = "append" => run[w].outcome.fresh,
           run'[w].pc = "record" /\ run[w].outcome.fresh => Ending(w) \in ToSet(portfolio')
    PROVE  Local(w)'
<1>1. /\ Types /\ Types' /\ Grows /\ Local(w)
      /\ now \in Nat /\ now' \in Nat /\ now <= now' /\ run[w].stamp \in Nat /\ run[w].stamp <= now
  BY DEF PaperInv, Typed, Types, LeaseTypeOK, Grows, RunRecord, Local
<1>2. /\ HasBase(w) => HasBase(w)'
      /\ HasBase(w) /\ HasPrev(w) =>
            /\ HasPrev(w)' /\ StartEvent(w)' = StartEvent(w) /\ Ending(w)' = Ending(w)
            /\ Sound(w) => Sound(w)'
      /\ Executed(run[w].c) => Executed(run[w].c)'
      /\ Authorized(run[w].c, run[w].stamp) => Authorized(run[w].c, run[w].stamp)'
  BY <1>1, WorkStays
<1>3. run'[w].base \in 0 .. Len(portfolio')
  BY <1>1, BaseStays DEF SameWork, Local
<1>4. /\ run'[w].stamp <= now' /\ run'[w].c \in Construction
      /\ run'[w].pc \in Reading => Authorized(run[w].c, run[w].stamp)'
      /\ run'[w].pc \in (Reading \cup {"mark"}) \ {"read"} => HasBase(w)'
      /\ run'[w].pc \in Resuming => HasPrev(w)'
      /\ run'[w].pc \notin Resuming \cup {"mark"} => run'[w].prev = 0
  BY <1>1, <1>2 DEF SameWork, Working, LeasedControl, Reading, Resuming
<1>5. run'[w].pc \in Filling => StartEvent(w)' \in started'
  BY <1>2 DEF Reading, Resuming, Filling
<1>6. /\ run'[w].pc \in {"append", "record"} => Sound(w)'
      /\ run'[w].pc = "append" => run'[w].outcome.fresh
      /\ run'[w].pc = "record" => Published(w)'
  BY <1>2 DEF SameWork, Reading, Resuming, Published
<1>7. run'[w].exit = "completed" => Executed(run[w].c)'
  BY <1>1, <1>2 DEF Local
<1> QED BY <1>3, <1>4, <1>5, <1>6, <1>7 DEF Local

LEMMA RuntimeLocal ==
    ASSUME PaperInv, NEW w \in Worker, Typed(w),
           \/ Authorize(w) \/ Approve(w) \/ CheckStatus(w) \/ AcquireLease(w) \/ Publish(w)
           \/ WriteStatus(w) \/ Release(w)
    PROVE  Local(w)'
<1>1. /\ Types /\ Local(w) /\ run[w].c \in Construction /\ run[w].prev = 0
      /\ run[w].pc \notin {"idle", "mark"}
  BY DEF PaperInv, Authorize, Approve, CheckStatus, AcquireLease, Publish, WriteStatus, Release,
     At, Local, Working, LeasedControl, Resuming
<1>2. ASSUME NEW there \in {"approve", "check", "lease", "require", "write", "release"},
             run'[w].pc = there, SameWork(w), run'[w].exit = run[w].exit
      PROVE  Local(w)'
  BY <1>1, <1>2, LocalGoes DEF Working, LeasedControl, Reading, Resuming, Filling
<1>3. ASSUME NEW there \in {"approve", "check", "lease", "require", "write", "release"},
             Goto(w, there)
      PROVE  Local(w)'
  <2>1. there \in Control
    BY DEF Control
  <2> QED BY <1>1, <1>2, <1>3, <2>1, GotoIs
<1>4. CASE Leave(w)
  BY <1>1, <1>4, LeaveIs, LocalIdle DEF Typed
<1>5. CASE AcquireLease(w)
  <2>1. CASE run' = [run EXCEPT ![w].pc = "require", ![w].leased = TRUE]
    <3>1. run'[w].pc = "require" /\ SameWork(w) /\ run'[w].exit = run[w].exit
      BY <1>1, <2>1 DEF Types, RunRecord, SameWork
    <3> QED BY <1>2, <3>1
  <2> QED BY <1>4, <1>5, <2>1 DEF AcquireLease
<1>6. CASE Authorize(w)
  BY <1>3, <1>4, <1>6 DEF Authorize, AfterLatest
<1>7. CASE CheckStatus(w) \/ Approve(w)
  BY <1>3, <1>4, <1>7 DEF CheckStatus, Approve
<1>8. CASE Publish(w) \/ WriteStatus(w) \/ Release(w)
  BY <1>3, <1>4, <1>8 DEF Publish, WriteStatus, Release
<1> QED BY <1>5, <1>6, <1>7, <1>8

LEMMA ActiveIsAuthorized ==
    ASSUME Types, NEW c \in Construction, NEW at, ActiveAt(c, at)
    PROVE  Authorized(c, at)
<1>1. approvals[c] \in Seq(Approval) /\ approvals[c] # <<>>
  BY DEF Types, ActiveAt, LatestState
<1>2. Len(approvals[c]) \in DOMAIN approvals[c] /\ Len(approvals[c]) \in Nat
  BY <1>1, LenProperties, EmptySeq
<1>3. /\ approvals[c][Len(approvals[c])].state = "approved"
      /\ approvals[c][Len(approvals[c])].at <= at
      /\ at < approvals[c][Len(approvals[c])].expires
  BY <1>1 DEF ActiveAt, LatestState, Last
<1> QED BY <1>2, <1>3 DEF Authorized

LEMMA RunnerWorks ==
    ASSUME PaperInv, NEW w \in Worker,
           \/ Require(w) \/ ReadPortfolio(w) \/ ReadBatch(w) \/ StartAttempt(w) \/ Fill(w)
           \/ RunnerFails(w) \/ AppendEnding(w) \/ Record(w) \/ Conclude(w)
    PROVE  /\ Types /\ Local(w) /\ run[w].c \in Construction /\ run[w] \in RunRecord
           /\ "blocked" \in Exits /\ "none" \in Exits /\ "completed" \in Exits /\ "held" \in Exits
  BY DEF PaperInv, Types, Require, ReadPortfolio, ReadBatch, StartAttempt, Fill, RunnerFails,
     AppendEnding, Record, Conclude, At, Local, Working, LeasedControl, Exits

LEMMA ReadingLocal ==
    ASSUME PaperInv, NEW w \in Worker, Typed(w),
           Require(w) \/ ReadPortfolio(w) \/ ReadBatch(w) \/ RunnerFails(w)
    PROVE  Local(w)'
<1>1. /\ Types /\ Local(w) /\ run[w].c \in Construction /\ run[w] \in RunRecord
      /\ "blocked" \in Exits /\ "none" \in Exits
  BY RunnerWorks
<1>2. CASE Exit(w, "blocked")
  BY <1>1, <1>2, LocalExit
<1>3. /\ Authorized(run[w].c, run[w].stamp) => \A d, t : d = run[w].c /\ t = run[w].stamp => Authorized(d, t)'
      /\ run[w].stamp <= now' /\ UNCHANGED stores
  <2>1. UNCHANGED <<now, stores>>
    BY DEF Require, ReadPortfolio, ReadBatch, RunnerFails, leaseVars
  <2> QED BY <1>1, <2>1 DEF Local, Authorized, stores
<1>4. CASE Require(w)
  <2>1. CASE ActiveAt(run[w].c, run[w].stamp) /\ Goto(w, "read")
    <3>1. Authorized(run[w].c, run[w].stamp) /\ run[w].prev = 0
      BY <1>1, <1>4, <2>1, ActiveIsAuthorized DEF Require, At, Local, Resuming
    <3>2. "read" \in Control
      BY DEF Control
    <3>3. run'[w].pc = "read" /\ SameWork(w) /\ run'[w].exit = run[w].exit
      BY <1>1, <2>1, <3>2, GotoIs
    <3> QED BY <1>1, <3>1, <3>3, LocalGoes DEF Working, LeasedControl, Reading, Resuming, Filling
  <2> QED BY <1>2, <1>4, <2>1 DEF Require
<1>5. CASE ReadPortfolio(w)
  <2>1. CASE run' = [run EXCEPT ![w].pc = "batch", ![w].base = Len(portfolio)]
    <3>1. /\ run'[w].pc = "batch" /\ run'[w].base = Len(portfolio) /\ run'[w].c = run[w].c
          /\ run'[w].stamp = run[w].stamp /\ run'[w].prev = run[w].prev
          /\ run'[w].exit = run[w].exit
      BY <1>1, <2>1 DEF Types, RunRecord
    <3>2. /\ Authorized(run[w].c, run[w].stamp) /\ run[w].prev = 0
          /\ run[w].exit = "completed" => Executed(run[w].c)
      BY <1>1, <1>5 DEF ReadPortfolio, At, Local, Reading, Resuming
    <3>3. Len(portfolio') \in DOMAIN portfolio' /\ Len(portfolio') \in Nat
      BY LenProperties, EmptySeq DEF Typed, Types
    <3>4. HasBase(w)' /\ run'[w].base \in 0 .. Len(portfolio')
      BY <1>3, <3>1, <3>3 DEF HasBase, stores
    <3>5. run'[w].exit = "completed" => Executed(run[w].c)'
      BY <1>3, <3>1, <3>2 DEF Executed, stores
    <3>6. Authorized(run[w].c, run[w].stamp)'
      BY <1>3, <3>1, <3>2 DEF Authorized
    <3> QED BY <1>1, <1>3, <3>1, <3>2, <3>4, <3>5, <3>6
            DEF Local, Working, LeasedControl, Reading, Resuming, Filling
  <2> QED BY <1>2, <1>5, <2>1 DEF ReadPortfolio
<1>6. CASE ReadBatch(w)
  <2> DEFINE n == Len(batches[run[w].c])
  <2>1. n \in Nat /\ DOMAIN batches[run[w].c] = 1 .. n
    BY <1>1, LenProperties DEF Types
  <2>2. CASE /\ n > 0 /\ batches[run[w].c][n].status = "completed"
             /\ run' = [run EXCEPT ![w] = Keep(w, "conclude", "none")]
    <3>1. \A d : d = run[w].c => Finished(d)'
      BY <1>3, <2>1, <2>2 DEF Finished, stores
    <3>2. run'[w] = Keep(w, "conclude", "none")
      BY <1>1, <2>2 DEF Types
    <3> QED BY <1>1, <3>1, <3>2, LocalKeep
  <2>3. CASE /\ n > 0 => batches[run[w].c][n].status # "completed" /\ Resumes(w, n)
             /\ run' = [run EXCEPT ![w].pc = "start", ![w].prev = n]
    <3>1. /\ run'[w].pc = "start" /\ run'[w].base = run[w].base /\ run'[w].c = run[w].c
          /\ run'[w].stamp = run[w].stamp /\ run'[w].prev = n
          /\ run'[w].exit = run[w].exit
      BY <1>1, <2>3 DEF Types, RunRecord
    <3>2. /\ Authorized(run[w].c, run[w].stamp) /\ HasBase(w)
          /\ run[w].base \in 0 .. Len(portfolio)
          /\ run[w].exit = "completed" => Executed(run[w].c)
      BY <1>1, <1>6 DEF ReadBatch, At, Local, Reading, Resuming
    <3>3. HasBase(w)' /\ Base(w)' = Base(w) /\ run'[w].base \in 0 .. Len(portfolio')
      BY <1>3, <3>1, <3>2 DEF HasBase, Base, stores
    <3>4. HasPrev(w)'
      BY <1>3, <2>1, <2>3, <3>1, <3>3 DEF HasPrev, Prev, Resumes, stores
    <3>5. run'[w].exit = "completed" => Executed(run[w].c)'
      BY <1>3, <3>1, <3>2 DEF Executed, stores
    <3>6. Authorized(run[w].c, run[w].stamp)'
      BY <1>3, <3>1, <3>2 DEF Authorized
    <3> QED BY <1>1, <1>3, <3>1, <3>3, <3>4, <3>5, <3>6
            DEF Local, Working, LeasedControl, Reading, Resuming, Filling
  <2> QED BY <1>2, <1>6, <2>1, <2>2, <2>3 DEF ReadBatch
<1> QED BY <1>2, <1>4, <1>5, <1>6 DEF RunnerFails

LEMMA FillLocal ==
    ASSUME PaperInv, NEW w \in Worker, Typed(w), Fill(w)
    PROVE  Local(w)'
<1>1. /\ Types /\ Local(w) /\ run[w].c \in Construction /\ run[w] \in RunRecord
      /\ UNCHANGED <<now, stores>>
  BY RunnerWorks DEF Fill, leaseVars
<1>2. /\ HasBase(w) /\ HasPrev(w) /\ StartEvent(w) \in started
      /\ Authorized(run[w].c, run[w].stamp)
      /\ run[w].exit = "completed" => Executed(run[w].c)
      /\ Base(w) \in Snapshot
  BY <1>1, Locating DEF Fill, At, Local, Reading, Resuming, Filling
<1>3. PICK n \in Nav, got \in [Order -> 0 .. Base(w).nav], fresh \in BOOLEAN :
        /\ Fillable(w, got) /\ fresh = (\E o \in Order : got[o] > 0)
        /\ run' = [run EXCEPT ![w].pc = IF fresh THEN "append" ELSE "record",
                              ![w].outcome = [fresh |-> fresh, got |-> got, nav |-> n]]
  BY DEF Fill
<1>4. /\ run'[w].pc = IF fresh THEN "append" ELSE "record"
      /\ run'[w].base = run[w].base /\ run'[w].c = run[w].c
      /\ run'[w].stamp = run[w].stamp /\ run'[w].prev = run[w].prev
      /\ run'[w].exit = run[w].exit
      /\ run'[w].outcome.fresh = fresh /\ run'[w].outcome.got = got
      /\ run'[w].outcome.nav = n
  BY <1>1, <1>3 DEF Types, RunRecord
<1>5. fresh <=> got # Nothing
  <2>1. \A o \in Order : got[o] \in Nat
    BY <1>2, <1>3, PaperAssumption DEF Snapshot
  <2> QED BY <1>3, <2>1 DEF Nothing
<1>6. HasBase(w)' /\ Base(w)' = Base(w) /\ run'[w].base \in 0 .. Len(portfolio')
  BY <1>1, <1>2, <1>4 DEF HasBase, Base, stores, Local
<1>7. run[w].prev # 0 => Prev(w)' = Prev(w)
  BY <1>1, <1>4 DEF Prev, stores
<1>8. HasPrev(w)'
  BY <1>1, <1>2, <1>4, <1>6, <1>7 DEF HasPrev, Prev, Resumes, stores
<1>9. Attempt(w)' = Attempt(w) /\ DoneBefore(w)' = DoneBefore(w)
  BY <1>4, <1>7 DEF Attempt, DoneBefore
<1>10. StartEvent(w)' = StartEvent(w) /\ started' = started
  BY <1>1, <1>4, <1>6, <1>9 DEF StartEvent, stores
<1>11. \A o \in Order : Remaining(w, o)' = Remaining(w, o)
  BY <1>4, <1>6, <1>7, <1>9 DEF Remaining, Already
<1>12. Sound(w)'
  BY <1>3, <1>4, <1>5, <1>11 DEF Sound, Fillable, Nothing
<1>13. run'[w].exit = "completed" => Executed(run[w].c)'
  BY <1>1, <1>2, <1>4 DEF Executed, stores
<1>14. Authorized(run[w].c, run[w].stamp)'
  BY <1>1, <1>2, <1>4 DEF Authorized, stores
<1>15. run'[w].pc = "record" => Published(w)'
  <2>1. CASE fresh
    BY <1>4, <2>1
  <2>2. CASE ~fresh
    <3>1. ~run'[w].outcome.fresh
      BY <1>4, <2>2
    <3> QED BY <3>1 DEF Published
  <2> QED BY <2>1, <2>2
<1>16. run'[w].pc = "append" => run'[w].outcome.fresh
  <2>1. CASE fresh
    BY <1>4, <2>1
  <2>2. CASE ~fresh
    BY <1>4, <2>2
  <2> QED BY <2>1, <2>2
<1>17. run'[w].stamp <= now' /\ run'[w].pc \in {"append", "record"}
  BY <1>1, <1>4 DEF Local
<1> QED BY <1>1, <1>2, <1>4, <1>6, <1>8, <1>10, <1>12, <1>13, <1>14, <1>15, <1>16, <1>17
        DEF Local, Working, LeasedControl, Reading, Resuming, Filling

LEMMA WritingLocal ==
    ASSUME PaperInv, NEW w \in Worker, Typed(w), StoreInv',
           StartAttempt(w) \/ AppendEnding(w) \/ Record(w) \/ Conclude(w)
    PROVE  Local(w)'
<1>1. /\ Types /\ Local(w) /\ run[w].c \in Construction /\ run[w] \in RunRecord
      /\ "blocked" \in Exits /\ "none" \in Exits /\ "completed" \in Exits /\ "held" \in Exits
  BY RunnerWorks
<1>2. CASE Exit(w, "blocked") \/ Exit(w, "held")
  BY <1>1, <1>2, LocalExit
<1>3. {"fill", "record"} \subseteq Control
  BY DEF Control
<1>4. CASE StartAttempt(w)
  <2>1. CASE started' = started \cup {StartEvent(w)} /\ Goto(w, "fill")
    <3>1. run'[w].pc = "fill" /\ SameWork(w) /\ run'[w].exit = run[w].exit
      BY <1>1, <1>3, <2>1, GotoIs
    <3>2. HasBase(w) /\ HasPrev(w) /\ Authorized(run[w].c, run[w].stamp)
      BY <1>1, <1>4 DEF StartAttempt, At, Local, Reading, Resuming
    <3> QED BY <1>1, <2>1, <3>1, <3>2, LocalGoes DEF Working, LeasedControl, Reading, Resuming, Filling
  <2> QED BY <1>2, <1>4, <2>1 DEF StartAttempt
<1>5. CASE AppendEnding(w)
  <2>1. CASE AppendSnapshot(Ending(w)) /\ Goto(w, "record")
    <3>1. run'[w].pc = "record" /\ SameWork(w) /\ run'[w].exit = run[w].exit
      BY <1>1, <1>3, <2>1, GotoIs
    <3>2. /\ HasBase(w) /\ HasPrev(w) /\ Authorized(run[w].c, run[w].stamp)
          /\ StartEvent(w) \in started /\ Sound(w)
      BY <1>1, <1>5 DEF AppendEnding, At, Local, Reading, Resuming, Filling
    <3>3. Ending(w) \in ToSet(portfolio') /\ StartEvent(w) \in started'
      BY <1>1, <1>5, <2>1, <3>2, EndingIs, SnapshotGrows DEF AppendEnding, At
    <3> QED BY <1>1, <3>1, <3>2, <3>3, LocalGoes DEF Working, LeasedControl, Reading, Resuming, Filling
  <2> QED BY <1>2, <1>5, <2>1 DEF AppendEnding
<1>6. CASE Record(w)
  <2>1. CASE ~RecordConflicts(w) /\ Succeeds(w) /\ run' = [run EXCEPT ![w] = Keep(w, "conclude", "none")]
    <3>1. Batch(w) \in ToSet(batches'[run[w].c]) /\ Batch(w).status = "completed"
      BY <1>6, <2>1, RecordPlace, BatchIs DEF Succeeds, Record
    <3>2. \A d : d = run[w].c => Finished(d)'
      BY <3>1 DEF Finished, ToSet
    <3>3. run'[w] = Keep(w, "conclude", "none")
      BY <1>1, <2>1 DEF Types
    <3> QED BY <1>1, <3>2, <3>3, LocalKeep
  <2> QED BY <1>2, <1>6, <2>1 DEF Record
<1>7. CASE Conclude(w)
  <2>1. /\ AppendApproval(run[w].c, "executed", "executor", run[w].stamp)
        /\ Exit(w, "completed") /\ run[w].stamp \in Nat
        /\ UNCHANGED <<portfolio, started, batches, status>>
        /\ Finished(run[w].c)
    BY <1>1, <1>7 DEF Conclude, At, Local, RunRecord
  <2>2. \A d : d = run[w].c => Executed(d)'
    BY <1>1, <2>1, ApprovalStore DEF Typed
  <2> QED BY <1>1, <2>1, <2>2, LocalExit
<1> QED BY <1>4, <1>5, <1>6, <1>7

LEMMA CallerLocal ==
    ASSUME PaperInv, NEW w \in Worker, Typed(w),
           \/ DatabaseError(w) \/ Crash(w) \/ BeginMark(w) \/ AppendMark(w)
           \/ \E c \in Construction : Begin(w, c) \/ BeginCommand(w, c)
    PROVE  Local(w)'
<1>1. Types /\ Local(w) /\ now \in Nat /\ run \in [Worker -> RunRecord]
  BY DEF PaperInv, Types, LeaseTypeOK
<1>2. CASE Leave(w)
  BY <1>1, <1>2, LeaveIs, LocalIdle DEF Typed
<1>3. CASE DatabaseError(w)
  <2>1. CASE run' = [run EXCEPT ![w] = Keep(w, "release", "none")]
    <3>1. run[w].c \in Construction /\ "none" \in Exits
      BY <1>1, <1>3 DEF DatabaseError, Local, Working, LeasedControl, Exits
    <3>2. run'[w] = Keep(w, "release", "none")
      BY <1>1, <2>1
    <3> QED BY <3>1, <3>2, LocalKeep
  <2> QED BY <1>2, <1>3, <2>1 DEF DatabaseError, Leave
<1>4. CASE BeginMark(w)
  <2>1. /\ run'[w].pc = "mark" /\ run'[w].stamp = now /\ run'[w].base = Len(portfolio)
        /\ run'[w].exit = "none" /\ now' = now /\ portfolio' = portfolio
    BY <1>1, <1>4, IdleIsTyped DEF BeginMark, RunRecord, leaseVars, stores
  <2>2. Len(portfolio) \in DOMAIN portfolio /\ Len(portfolio) \in Nat
    BY <1>1, LenProperties, EmptySeq DEF Types
  <2>3. HasBase(w)' /\ run'[w].base \in 0 .. Len(portfolio') /\ run'[w].stamp <= now'
    BY <1>1, <2>1, <2>2 DEF HasBase
  <2> QED BY <2>1, <2>3 DEF Local, Working, LeasedControl, Reading, Resuming, Filling
<1>5. ASSUME NEW c \in Construction, NEW there \in {"authorize", "require"},
             run' = [run EXCEPT ![w] = [Idle EXCEPT !.pc = there, !.c = c, !.stamp = now]],
             UNCHANGED leaseVars
      PROVE  Local(w)'
  <2>1. /\ run'[w].pc = there /\ run'[w].stamp = now /\ run'[w].base = 0 /\ run'[w].prev = 0
        /\ run'[w].exit = "none" /\ now' = now /\ run'[w].c = c
    BY <1>1, <1>5, IdleIsTyped DEF RunRecord, leaseVars
  <2>2. Len(portfolio') \in Nat
    BY LenProperties DEF Typed, Types
  <2> QED BY <1>1, <2>1, <2>2 DEF Local, Working, LeasedControl, Reading, Resuming, Filling
<1>6. CASE \E c \in Construction : Begin(w, c) \/ BeginCommand(w, c)
  BY <1>5, <1>6 DEF Begin, BeginCommand
<1> QED BY <1>2, <1>3, <1>4, <1>6 DEF Crash, AppendMark

-----------------------------------------------------------------------------
(* The invariant.                                                          *)

\* Only AppendEnding among the steps of an attempt publishes a snapshot, and
\* none of them becomes a mark.
LEMMA StepMarks ==
    ASSUME PaperInv, NEW w \in Worker, Typed(w), Step(w)
    PROVE  Marks'
<1>1. Types /\ run[w] \in RunRecord
  BY DEF PaperInv, Types
<1>2. CASE AppendEnding(w)
  BY <1>2, MarksEnding
<1>3. CASE ~AppendEnding(w)
  <2>1. UNCHANGED <<portfolio, marks>>
    BY <1>3 DEF Step, Authorize, Approve, CheckStatus, AcquireLease, Require, ReadPortfolio,
                ReadBatch, StartAttempt, Fill, RunnerFails, Record, Conclude, Publish,
                WriteStatus, Release, stores, bounds
  <2>2. Idle.pc = "idle" /\ \A there, result : Keep(w, there, result).pc = there
    BY DEF Idle, Keep
  <2>3. ASSUME NEW result, Exit(w, result) PROVE run'[w].pc # "mark"
    BY <1>1, <2>2, <2>3 DEF Exit, Types
  <2>4. ASSUME Leave(w) PROVE run'[w].pc # "mark"
    BY <1>1, <2>2, <2>4 DEF Leave, Types
  <2>5. ASSUME NEW there, Goto(w, there) PROVE run'[w].pc = there
    BY <1>1, <2>5 DEF Goto, Types, RunRecord
  <2>6. run'[w].pc # "mark"
    <3>1. CASE Authorize(w) \/ Approve(w) \/ CheckStatus(w) \/ Publish(w) \/ WriteStatus(w)
                  \/ Release(w)
      BY <2>4, <2>5, <3>1 DEF Authorize, Approve, CheckStatus, Publish, WriteStatus, Release,
                              AfterLatest
    <3>2. CASE AcquireLease(w)
      BY <1>1, <2>4, <3>2 DEF AcquireLease, Types, RunRecord
    <3>3. CASE Require(w) \/ RunnerFails(w) \/ StartAttempt(w) \/ Conclude(w)
      BY <2>3, <2>5, <3>3 DEF Require, RunnerFails, StartAttempt, Conclude
    <3>4. CASE ReadPortfolio(w) \/ ReadBatch(w)
      BY <1>1, <2>2, <2>3, <3>4 DEF ReadPortfolio, ReadBatch, Types, RunRecord
    <3>5. CASE Fill(w)
      <4>1. PICK fresh, outcome :
              run' = [run EXCEPT ![w].pc = IF fresh THEN "append" ELSE "record",
                                 ![w].outcome = outcome]
        BY <3>5 DEF Fill
      <4> QED BY <1>1, <4>1 DEF Types, RunRecord
    <3>6. CASE Record(w)
      BY <1>1, <2>2, <2>3, <3>6 DEF Record, Types, RunRecord
    <3> QED BY <1>3, <3>1, <3>2, <3>3, <3>4, <3>5, <3>6 DEF Step
  <2> QED BY <2>1, <2>6, MarksQuiet DEF Typed
<1> QED BY <1>2, <1>3

LEMMA StepStore ==
    ASSUME PaperInv, NEW w \in Worker, Typed(w), Step(w)
    PROVE  StoreInv'
<1>1. Types' /\ Grows
  BY DEF Typed
<1>2. CASE \/ Authorize(w) \/ CheckStatus(w) \/ AcquireLease(w) \/ Require(w)
           \/ ReadPortfolio(w) \/ ReadBatch(w) \/ Fill(w) \/ RunnerFails(w) \/ Publish(w)
           \/ Release(w)
  <2>1. UNCHANGED stores
    BY <1>2 DEF Authorize, CheckStatus, AcquireLease, Require, ReadPortfolio, ReadBatch, Fill,
                RunnerFails, Publish, Release
  <2> QED BY <1>1, <2>1, StoresSame
<1>3. CASE Approve(w)
  <2>1. run[w].c \in Construction /\ run[w].stamp \in Nat
    BY <1>3, WritingWorker DEF Approve, At
  <2> QED BY <1>1, <1>3, <2>1, ApprovalStore DEF Approve
<1>4. CASE Conclude(w)
  <2>1. run[w].c \in Construction /\ run[w].stamp \in Nat /\ Local(w)
    BY <1>4, WritingWorker DEF Conclude, At, LeasedControl
  <2>2. Finished(run[w].c)
    BY <1>4, <2>1 DEF Conclude, At, Local
  <2> QED BY <1>1, <1>4, <2>1, <2>2, ApprovalStore DEF Conclude
<1>5. CASE StartAttempt(w) \/ AppendEnding(w) \/ Record(w) \/ WriteStatus(w)
  BY <1>5, StartStore, EndingStore, RecordStore, StatusStore
<1> QED BY <1>2, <1>3, <1>4, <1>5 DEF Step

\* A step of an attempt.
LEMMA AttemptStep ==
    ASSUME PaperInv, NEW w \in Worker, Step(w)
    PROVE  Types' /\ StoreInv' /\ Marks' /\ \A v \in Worker : Local(v)'
<1>1. Typed(w)
  BY RuntimeTypes, ReadingTypes, WritingTypes DEF Step
<1>2. StoreInv'
  BY <1>1, StepStore
<1>3. Marks'
  BY <1>1, StepMarks
<1>4. Local(w)'
  BY <1>1, <1>2, RuntimeLocal, ReadingLocal, FillLocal, WritingLocal DEF Step
<1>5. ASSUME NEW v \in Worker, v # w PROVE Local(v)'
  BY <1>1, <1>5, OthersStay DEF Typed, PaperInv
<1> QED BY <1>1, <1>2, <1>3, <1>4, <1>5 DEF Typed

\* Faults, callers and marks.
LEMMA WorkerStep ==
    ASSUME PaperInv, NEW w \in Worker,
           \/ DatabaseError(w) \/ Crash(w) \/ BeginMark(w) \/ AppendMark(w)
           \/ \E c \in Construction : Begin(w, c) \/ BeginCommand(w, c)
    PROVE  Types' /\ StoreInv' /\ Marks' /\ \A v \in Worker : Local(v)'
<1>1. Typed(w)
  BY CallerTypes
<1>2. Local(w)'
  BY <1>1, CallerLocal
<1>3. ASSUME NEW v \in Worker, v # w PROVE Local(v)'
  BY <1>1, <1>3, OthersStay DEF Typed, PaperInv
<1>4. CASE AppendMark(w)
  BY <1>1, <1>2, <1>3, <1>4, MarkStore, MarksAppend DEF Typed
<1>5. CASE ~AppendMark(w)
  <2>1. UNCHANGED stores
    BY <1>5 DEF DatabaseError, Crash, BeginMark, Begin, BeginCommand
  <2>2. StoreInv'
    BY <1>1, <2>1, StoresSame DEF Typed
  <2>3. Marks'
    <3>1. CASE BeginMark(w)
      BY <1>1, <3>1, MarksBegin
    <3>2. CASE ~BeginMark(w)
      <4>1. Types /\ UNCHANGED <<portfolio, marks>>
        BY <1>5, <2>1, <3>2 DEF PaperInv, DatabaseError, Crash, Begin, BeginCommand, stores, bounds
      <4>2. Idle.pc = "idle" /\ \A there, result : Keep(w, there, result).pc = there
        BY DEF Idle, Keep
      <4>3. run'[w].pc # "mark"
        <5>1. CASE DatabaseError(w) \/ Crash(w)
          BY <4>1, <4>2, <5>1 DEF DatabaseError, Crash, Leave, Types
        <5>2. CASE \E c \in Construction : Begin(w, c) \/ BeginCommand(w, c)
          BY <4>1, <5>2 DEF Begin, BeginCommand, Types, Idle
        <5> QED BY <1>5, <3>2, <5>1, <5>2
      <4> QED BY <1>1, <4>1, <4>3, MarksQuiet DEF Typed
    <3> QED BY <3>1, <3>2
  <2> QED BY <1>1, <1>2, <1>3, <2>2, <2>3 DEF Typed
<1> QED BY <1>4, <1>5

\* The renewing thread, the clock, people, and nothing at all.
LEMMA OutsideHolds ==
    ASSUME PaperInv,
           \/ Clock \/ UNCHANGED vars
           \/ \E w \in Worker : Renew(w)
           \/ \E c \in Construction : Human(c, "approved") \/ Human(c, "stopped")
    PROVE  Types' /\ StoreInv' /\ Marks' /\ \A v \in Worker : Local(v)'
<1>1. Types' /\ Grows /\ UNCHANGED run
  <2>1. CASE \E w \in Worker : Renew(w)
    BY <2>1, RuntimeTypes DEF Typed, Renew
  <2>2. CASE ~\E w \in Worker : Renew(w)
    BY <2>2, OutsideTypes
  <2> QED BY <2>1, <2>2
<1>2. UNCHANGED <<portfolio, marks, started, batches, status>>
  BY DEF Clock, Renew, Human, vars, stores, bounds
<1>3. Marks'
  BY <1>1, <1>2, MarksQuiet
<1>4. \A v \in Worker : Local(v)'
  BY <1>1, OthersStay DEF PaperInv
<1>5. StoreInv'
  <2>1. CASE UNCHANGED approvals
    <3>1. UNCHANGED stores
      BY <1>2, <2>1 DEF stores
    <3> QED BY <1>1, <3>1, StoresSame
  <2>2. CASE ~UNCHANGED approvals
    <3>1. PICK c \in Construction : Human(c, "approved") \/ Human(c, "stopped")
      BY <2>2 DEF Clock, Renew, vars, stores
    <3>2. now \in Nat
      BY DEF PaperInv, Types, LeaseTypeOK
    <3> QED BY <1>1, <1>2, <3>1, <3>2, ApprovalStore DEF Human
  <2> QED BY <2>1, <2>2
<1> QED BY <1>1, <1>3, <1>4, <1>5

LEMMA PaperInvStep == PaperInv /\ [Next]_vars => PaperInv'
<1> SUFFICES ASSUME PaperInv, [Next]_vars PROVE PaperInv'
  OBVIOUS
<1>1. LeaseInv'
  BY LeaseInvStep DEF PaperInv
<1>2. Types' /\ StoreInv' /\ Marks' /\ \A v \in Worker : Local(v)'
  <2>1. CASE \E w \in Worker : Step(w)
    BY <2>1, AttemptStep
  <2>2. CASE \E w \in Worker :
               \/ DatabaseError(w) \/ Crash(w) \/ BeginMark(w) \/ AppendMark(w)
               \/ \E c \in Construction : Begin(w, c) \/ BeginCommand(w, c)
    BY <2>2, WorkerStep
  <2>3. CASE \/ Clock \/ UNCHANGED vars
             \/ \E w \in Worker : Renew(w)
             \/ \E c \in Construction : Human(c, "approved") \/ Human(c, "stopped")
    BY <2>3, OutsideHolds
  <2> QED BY <2>1, <2>2, <2>3 DEF Next
<1> QED BY <1>1, <1>2 DEF PaperInv

LEMMA InitPaperInv == Init => PaperInv
<1> SUFFICES ASSUME Init PROVE PaperInv
  OBVIOUS
<1> DEFINE first == [id |-> <<>>, filled |-> [c \in Construction |-> Nothing],
                     nav |-> InitialNav, at |-> 0]
<1>1. LeaseInv
  BY InitHolds
<1>2. /\ portfolio = <<first>> /\ started = {}
      /\ batches = [c \in Construction |-> <<>>]
      /\ approvals = [c \in Construction |-> <<>>]
      /\ status = [c \in Construction |-> [state |-> "none", at |-> 0]]
      /\ run = [w \in Worker |-> Idle]
      /\ marks = 0 /\ humans = 0 /\ faults = 0
  BY DEF Init
<1>3. /\ first \in Snapshot /\ first.id = <<>> /\ first.nav = InitialNav
      /\ first.filled = [c \in Construction |-> Nothing]
  <2>1. Nothing \in Amounts
    BY DEF Nothing, Amounts
  <2>2. InitialNav \in Nav
    BY PaperAssumption
  <2>3. <<>> \in Seq(Nat)
    BY EmptySeq
  <2> QED BY <2>1, <2>2, <2>3 DEF Snapshot
<1> HIDE DEF first
<1>4. /\ portfolio \in Seq(Snapshot) /\ portfolio # <<>>
      /\ DOMAIN portfolio = {1} /\ portfolio[1] = first /\ Len(portfolio) = 1
  BY <1>2, <1>3
<1>5. LeaseTypeOK
  BY DEF Init, LeaseInit, LeaseTypeOK, NoRow, NoGrant, Row
<1>6. Types
  <2>1. /\ batches \in [Construction -> Seq(BatchRecord)]
        /\ approvals \in [Construction -> Seq(Approval)]
    BY <1>2, EmptySeq
  <2>2. status \in [Construction -> [state : Exits, at : Nat]]
    BY <1>2 DEF Exits
  <2>3. run \in [Worker -> RunRecord]
    BY <1>2, IdleIsTyped
  <2> QED BY <1>2, <1>4, <1>5, <2>1, <2>2, <2>3, PaperAssumption DEF Types
<1>7. \A c \in Construction :
         /\ DOMAIN batches[c] = {} /\ ToSet(batches[c]) = {} /\ batches[c] = <<>>
         /\ ToSet(approvals[c]) = {}
  BY <1>2, EmptySeq DEF ToSet
<1>8. StoreInv
  <2>1. UniqueIds /\ OneBase
    BY <1>2, <1>4 DEF UniqueIds, OneBase
  <2>2. FirstFills
    BY <1>3, <1>4, <1>7 DEF FirstFills
  <2>3. Concluded
    BY <1>2, <1>7 DEF Concluded, Executed
  <2>4. BatchesArePublished /\ AttemptsChain /\ AttemptsAreApproved /\ RecordedInThePast
    BY <1>7 DEF BatchesArePublished, AttemptsChain, AttemptsAreApproved, RecordedInThePast
  <2>5. OrdersFilledOnce
    <3>1. InitialNav \in Nat
      BY PaperAssumption
    <3>2. \A c \in Construction, o \in Order : first.filled[c][o] = 0
      BY <1>3 DEF Nothing
    <3> QED BY <1>3, <1>4, <3>1, <3>2 DEF OrdersFilledOnce
  <2> QED BY <2>1, <2>2, <2>3, <2>4, <2>5 DEF StoreInv
<1>9. Marks
  <2>1. \A w \in Worker : run[w].pc = "idle"
    BY <1>2, IdleIsTyped
  <2>2. <<>> # << 0 >>
    BY EmptySeq
  <2> QED BY <1>3, <1>4, <2>1, <2>2 DEF Marks, At
<1>10. ASSUME NEW w \in Worker PROVE Local(w)
  <2>1. run[w] = Idle /\ now = 0
    BY <1>2 DEF Init, LeaseInit
  <2> QED BY <1>4, <2>1, IdleIsTyped DEF Local, Working, LeasedControl, Reading, Resuming, Filling
<1> QED BY <1>1, <1>6, <1>8, <1>9, <1>10 DEF PaperInv

LEMMA PaperInvariant == Spec => []PaperInv
  BY InitPaperInv, PaperInvStep, PTL DEF Spec

-----------------------------------------------------------------------------
(* The theorems.                                                           *)

\* Every store of the paper executor and every local of an attempt keeps its
\* type, and a worker remembers only snapshots and batches that exist.
THEOREM PaperTypes == Spec => []PaperTypeOK
<1>1. PaperInv => PaperTypeOK
  <2> SUFFICES ASSUME PaperInv PROVE PaperTypeOK
    OBVIOUS
  <2>1. Types /\ \A w \in Worker : Local(w)
    BY DEF PaperInv
  <2>2. \A e \in started : e.c \in Construction /\ e.attempt \in 1 .. MaxAttempts
    BY <2>1 DEF Types, StartRecord
  <2>3. ASSUME NEW w \in Worker
        PROVE  /\ run[w].pc \in Control /\ run[w].exit \in Exits
               /\ run[w].c \in Construction \cup {0}
               /\ run[w].base \in 0 .. Len(portfolio)
               /\ run[w].outcome \in Outcome
               /\ run[w].prev # 0 /\ ~At(w, "mark") => run[w].prev \in DOMAIN batches[run[w].c]
    <3>1. run[w] \in RunRecord /\ Local(w)
      BY <2>1 DEF Types
    <3>2. run[w].prev # 0 /\ ~At(w, "mark") => run[w].pc \in Resuming
      BY <3>1 DEF Local, At
    <3>3. run[w].pc \in Resuming => HasPrev(w)
      BY <3>1 DEF Local
    <3> QED BY <3>1, <3>2, <3>3 DEF RunRecord, Local, HasPrev
  <2> QED BY <2>1, <2>2, <2>3 DEF PaperTypeOK, Types
<1> QED BY PaperInvariant, <1>1, PTL

\* No order is filled beyond the largest request the portfolio has justified,
\* although portfolio and events are written apart and workers overlap.
THEOREM NoOrderOverfilled == Spec => []OrdersFilledOnce
<1>1. PaperInv => OrdersFilledOnce
  BY DEF PaperInv, StoreInv
<1> QED BY PaperInvariant, <1>1, PTL

\* Every recorded attempt rests on a published snapshot with exactly the fills
\* it reports, whoever appended the snapshot.
THEOREM RecordsArePublished == Spec => []BatchesArePublished
<1>1. PaperInv => BatchesArePublished
  BY DEF PaperInv, StoreInv
<1> QED BY PaperInvariant, <1>1, PTL

\* The recorded attempts of a construction are numbered without gaps, each
\* begins with the snapshot the one before it ended with, and none follows a
\* completed one: the events make up for the lease nobody checks any more.
THEOREM AttemptsAreChained == Spec => []AttemptsChain
<1>1. PaperInv => AttemptsChain
  BY DEF PaperInv, StoreInv
<1> QED BY PaperInvariant, <1>1, PTL

\* A status file says "completed" only of an execution that was concluded, and
\* only what filled every order in its last recorded attempt is concluded.
THEOREM ReportsAreTrue == Spec => []ReportsFollowExecution
<1>1. PaperInv => ReportsFollowExecution
  <2> SUFFICES ASSUME PaperInv, NEW c \in Construction
               PROVE  /\ status[c].state = "completed" => Executed(c)
                      /\ Executed(c) => batches[c] # <<>> /\ Last(batches[c]).done = Order
    BY DEF ReportsFollowExecution, Executed
  <2>1. Types /\ Concluded /\ AttemptsChain
    BY DEF PaperInv, StoreInv
  <2>2. status[c].state = "completed" => Executed(c)
    BY <2>1 DEF Concluded
  <2>3. ASSUME Executed(c) PROVE batches[c] # <<>> /\ Last(batches[c]).done = Order
    <3>1. PICK n \in DOMAIN batches[c] : batches[c][n].status = "completed"
      BY <2>1, <2>3 DEF Concluded, Finished
    <3>2. DOMAIN batches[c] = 1 .. Len(batches[c]) /\ Len(batches[c]) \in Nat
      BY <2>1, LenProperties DEF Types
    <3>3. n = Len(batches[c])
      <4>1. CASE n + 1 \in DOMAIN batches[c]
        <5>1. n + 1 > 1 /\ (n + 1) - 1 = n
          BY <3>2
        <5>2. batches[c][n].status # "completed"
          BY <2>1, <4>1, <5>1 DEF AttemptsChain
        <5> QED BY <3>1, <5>2
      <4>2. CASE n + 1 \notin DOMAIN batches[c]
        BY <3>2, <4>2
      <4> QED BY <4>1, <4>2
    <3>4. batches[c][n].done = Order
      BY <2>1, <3>1 DEF Concluded
    <3>5. batches[c] # <<>>
      BY <3>1, EmptySeq
    <3> QED BY <3>3, <3>4, <3>5 DEF Last
  <2> QED BY <2>2, <2>3
<1> QED BY PaperInvariant, <1>1, PTL

\* Every recorded attempt rests on an approval of its instant that no stop of
\* an earlier instant had ended: an approval is read once, long before the
\* record is written.
THEOREM RecordsAreApproved == Spec => []AttemptsAreApproved
<1>1. PaperInv => AttemptsAreApproved
  BY DEF PaperInv, StoreInv
<1> QED BY PaperInvariant, <1>1, PTL

-----------------------------------------------------------------------------
(* One process: no fill is dropped, and at one price the ledger is kept.   *)

OneProcess == \A v, w \in Worker : v = w
OnePrice == Nav = {InitialNav}

\* Identifiers form a tree that grows at the end of the portfolio.
Rooted ==
    \A k \in DOMAIN portfolio :
        \/ portfolio[k].id = <<>>
        \/ \E m \in Nat : portfolio[k].id = <<0, m>>
        \/ \E j \in 1 .. k - 1 : \E a \in Nat \ {0} :
              portfolio[k].id = Append(portfolio[j].id, a)

\* A trade counts as done when it has everything it asks for.
DoneFilled ==
    \A c \in Construction : \A b \in ToSet(batches[c]) : \A o \in b.done :
        b.filled[o] = InitialNav

\* Nobody has appended anything since the worker looked.
Follows(w) ==
    /\ run[w].pc \in {"batch", "start", "fill", "append", "mark"} => run[w].base = Len(portfolio)
    /\ run[w].pc \in Resuming => run[w].prev = Len(batches[run[w].c])
    /\ run[w].pc = "record" => Last(portfolio).filled[run[w].c] = Filled(w)

FollowInv == PaperInv /\ Rooted /\ \A w \in Worker : Follows(w)
LedgerInv == FollowInv /\ DoneFilled

LEMMA AppendLength ==
    ASSUME NEW p \in Seq(Nat), NEW a \in Nat
    PROVE  /\ Len(p) \in Nat /\ Len(Append(p, a)) = Len(p) + 1
           /\ \A i \in 1 .. Len(p) : Append(p, a)[i] = p[i]
  BY AppendProperties, LenProperties

\* What an identifier continues can be read from it.
LEMMA AppendIsInjective ==
    ASSUME NEW p \in Seq(Nat), NEW q \in Seq(Nat), NEW a \in Nat, NEW b \in Nat,
           Append(p, a) = Append(q, b)
    PROVE  p = q
<1>1. /\ Len(p) \in Nat /\ Len(q) \in Nat
      /\ Len(Append(p, a)) = Len(p) + 1 /\ Len(Append(q, b)) = Len(q) + 1
      /\ \A i \in 1 .. Len(p) : Append(p, a)[i] = p[i]
      /\ \A i \in 1 .. Len(q) : Append(q, b)[i] = q[i]
  BY AppendLength
<1>2. Len(p) = Len(q) /\ \A i \in 1 .. Len(p) : p[i] = q[i]
  BY <1>1
<1> QED BY <1>2, SeqEqual

\* The ending of an attempt at the tail of the portfolio is new.
LEMMA EndingIsNew ==
    ASSUME PaperInv, Rooted, NEW w \in Worker, At(w, "append"), run[w].base = Len(portfolio)
    PROVE  Ending(w) \notin ToSet(portfolio)
<1> SUFFICES ASSUME NEW k \in DOMAIN portfolio, portfolio[k] = Ending(w) PROVE FALSE
  BY DEF ToSet
<1>1. /\ Types /\ Marks /\ UniqueIds /\ Local(w)
      /\ run[w].c \in Construction /\ HasBase(w) /\ HasPrev(w) /\ run[w].outcome.fresh
  BY DEF PaperInv, StoreInv, At, Local, Reading, Resuming, Filling, Working, LeasedControl
<1>2. Attempt(w) \in Nat \ {0} /\ Base(w) \in Snapshot
  BY <1>1, Locating
<1>3. Base(w).id \in Seq(Nat) /\ Base(w).id # << 0 >>
  BY <1>1, <1>2 DEF Snapshot, Marks, HasBase, Base
<1>4. portfolio[k].id = Append(Base(w).id, Attempt(w))
  BY <1>1, EndingIs DEF At, EndingId
<1>5. portfolio[k].id # <<>> /\ \A m : portfolio[k].id # <<0, m>>
  BY <1>2, <1>3, <1>4, EndingIsNoMark
<1>6. PICK j \in 1 .. k - 1, a \in Nat \ {0} : portfolio[k].id = Append(portfolio[j].id, a)
  BY <1>5 DEF Rooted
<1>7. /\ DOMAIN portfolio = 1 .. Len(portfolio) /\ Len(portfolio) \in Nat
      /\ j \in DOMAIN portfolio /\ j < Len(portfolio)
  BY <1>1, LenProperties DEF Types
<1>8. portfolio[j].id \in Seq(Nat)
  BY <1>1, <1>7, IdTypes
<1>9. portfolio[j].id = Base(w).id
  BY <1>2, <1>3, <1>4, <1>6, <1>8, AppendIsInjective
<1> QED BY <1>1, <1>7, <1>9 DEF UniqueIds, HasBase, Base

LEMMA RootedGrows ==
    ASSUME Types, Rooted, NEW s \in Snapshot, AppendSnapshot(s),
           \/ \E m \in Nat : s.id = <<0, m>>
           \/ \E j \in DOMAIN portfolio : \E a \in Nat \ {0} : s.id = Append(portfolio[j].id, a)
    PROVE  Rooted'
<1>1. /\ portfolio \in Seq(Snapshot) /\ Len(portfolio) \in Nat
      /\ DOMAIN portfolio = 1 .. Len(portfolio)
  BY LenProperties DEF Types
<1>2. CASE s \in ToSet(portfolio)
  BY <1>2 DEF AppendSnapshot, Rooted
<1>3. CASE s \notin ToSet(portfolio)
  <2>1. /\ DOMAIN portfolio' = 1 .. Len(portfolio) + 1
        /\ \A i \in 1 .. Len(portfolio) : portfolio'[i] = portfolio[i]
        /\ portfolio'[Len(portfolio) + 1] = s
    BY <1>1, <1>3, AppendFacts DEF AppendSnapshot
  <2>2. ASSUME NEW k \in DOMAIN portfolio'
        PROVE  \/ portfolio'[k].id = <<>>
               \/ \E m \in Nat : portfolio'[k].id = <<0, m>>
               \/ \E j \in 1 .. k - 1 : \E a \in Nat \ {0} :
                     portfolio'[k].id = Append(portfolio'[j].id, a)
    <3>1. CASE k \in DOMAIN portfolio
      <4>1. portfolio'[k] = portfolio[k] /\ \A j \in 1 .. k - 1 : portfolio'[j] = portfolio[j]
        BY <1>1, <2>1, <3>1
      <4> QED BY <3>1, <4>1 DEF Rooted
    <3>2. CASE k = Len(portfolio) + 1
      <4>1. portfolio'[k].id = s.id /\ 1 .. k - 1 = DOMAIN portfolio
        BY <1>1, <2>1, <3>2
      <4>2. \A j \in 1 .. k - 1 : portfolio'[j].id = portfolio[j].id
        BY <1>1, <2>1, <4>1
      <4> QED BY <4>1, <4>2
    <3> QED BY <1>1, <2>1, <3>1, <3>2
  <2> QED BY <2>2 DEF Rooted
<1> QED BY <1>2, <1>3

\* The tail of a portfolio to which something new was appended.
LEMMA NewTail ==
    ASSUME Types, NEW s \in Snapshot, AppendSnapshot(s), s \notin ToSet(portfolio)
    PROVE  Last(portfolio') = s
  BY AppendFacts DEF AppendSnapshot, Types, Last

\* At the tail of the portfolio, the amounts filled are the recorded ones, and
\* those of the ending are the ones the record will report.
LEMMA TailAmounts ==
    ASSUME FollowInv, NEW w \in Worker, run[w].pc \in {"fill", "append"}
    PROVE  /\ run[w].c \in Construction /\ HasBase(w) /\ HasPrev(w) /\ Types
           /\ Base(w) = Last(portfolio) /\ Base(w) \in Snapshot
           /\ \A o \in Order : Base(w).filled[run[w].c][o] = Already(w, o)
           /\ Base(w).filled[run[w].c] \in Amounts
           /\ run[w].prev = Len(batches[run[w].c])
<1>1. /\ Types /\ Local(w) /\ Follows(w) /\ PaperInv
      /\ run[w].c \in Construction /\ HasBase(w) /\ HasPrev(w)
  BY DEF FollowInv, PaperInv, Local, Reading, Resuming, Filling, Working, LeasedControl
<1>2. run[w].base = Len(portfolio) /\ run[w].prev = Len(batches[run[w].c])
  BY <1>1 DEF Follows, Resuming
<1>3. Base(w) \in Snapshot
  BY <1>1, Locating
<1>4. \A o \in Order : Base(w).filled[run[w].c][o] = Already(w, o)
  BY <1>1, InStep DEF Filling
<1> QED BY <1>1, <1>2, <1>3, <1>4 DEF Base, Last, Snapshot

-----------------------------------------------------------------------------
(* The stronger invariant.                                                 *)

LEMMA FollowsOutside ==
    ASSUME NEW w \in Worker,
           run'[w].pc \notin {"batch", "start", "fill", "append", "record", "mark"}
    PROVE  Follows(w)'
  BY DEF Follows, Resuming

LEMMA FollowsReading ==
    ASSUME FollowInv, NEW w \in Worker, ReadPortfolio(w) \/ ReadBatch(w) \/ StartAttempt(w)
    PROVE  Follows(w)'
<1>1. /\ Types /\ run[w] \in RunRecord /\ Follows(w) /\ UNCHANGED <<portfolio, batches>>
  BY DEF FollowInv, PaperInv, Types, ReadPortfolio, ReadBatch, StartAttempt, stores
<1>2. Idle.pc = "idle" /\ \A there, result : Keep(w, there, result).pc = there
  BY DEF Idle, Keep
<1>3. ASSUME NEW result, Exit(w, result) PROVE Follows(w)'
  <2>1. run'[w].pc \in {"idle", "publish"}
    BY <1>1, <1>2, <1>3 DEF Exit, Types
  <2> QED BY <2>1, FollowsOutside
<1>4. CASE ReadPortfolio(w)
  <2>1. CASE run' = [run EXCEPT ![w].pc = "batch", ![w].base = Len(portfolio)]
    <3>1. run'[w].pc = "batch" /\ run'[w].base = Len(portfolio)
      BY <1>1, <2>1 DEF Types, RunRecord
    <3> QED BY <1>1, <3>1 DEF Follows, Resuming
  <2> QED BY <1>3, <1>4, <2>1 DEF ReadPortfolio
<1>5. CASE ReadBatch(w)
  <2> DEFINE n == Len(batches[run[w].c])
  <2>1. CASE run' = [run EXCEPT ![w] = Keep(w, "conclude", "none")]
    <3>1. run'[w].pc = "conclude"
      BY <1>1, <1>2, <2>1 DEF Types
    <3> QED BY <3>1, FollowsOutside
  <2>2. CASE run' = [run EXCEPT ![w].pc = "start", ![w].prev = n]
    <3>1. /\ run'[w].pc = "start" /\ run'[w].base = run[w].base /\ run'[w].c = run[w].c
          /\ run'[w].prev = n
      BY <1>1, <2>2 DEF Types, RunRecord
    <3> QED BY <1>1, <1>5, <3>1 DEF Follows, Resuming, ReadBatch, At
  <2> QED BY <1>3, <1>5, <2>1, <2>2 DEF ReadBatch
<1>6. CASE StartAttempt(w)
  <2>1. CASE Goto(w, "fill")
    <3>1. /\ run'[w].pc = "fill" /\ run'[w].base = run[w].base /\ run'[w].c = run[w].c
          /\ run'[w].prev = run[w].prev
      BY <1>1, <2>1 DEF Goto, Types, RunRecord
    <3> QED BY <1>1, <1>6, <3>1 DEF Follows, Resuming, StartAttempt, At
  <2> QED BY <1>3, <1>6, <2>1 DEF StartAttempt
<1> QED BY <1>4, <1>5, <1>6

LEMMA FollowsFill ==
    ASSUME FollowInv, NEW w \in Worker, Fill(w)
    PROVE  Follows(w)'
<1>1. /\ run[w].pc = "fill" /\ Follows(w) /\ run[w] \in RunRecord
      /\ UNCHANGED <<portfolio, batches>>
  BY DEF FollowInv, PaperInv, Types, Fill, At, stores
<1>2. PICK n \in Nav, got \in [Order -> 0 .. Base(w).nav], fresh \in BOOLEAN :
        /\ fresh = (\E o \in Order : got[o] > 0)
        /\ run' = [run EXCEPT ![w].pc = IF fresh THEN "append" ELSE "record",
                              ![w].outcome = [fresh |-> fresh, got |-> got, nav |-> n]]
  BY DEF Fill
<1>3. /\ run'[w].pc = IF fresh THEN "append" ELSE "record"
      /\ run'[w].base = run[w].base /\ run'[w].c = run[w].c /\ run'[w].prev = run[w].prev
      /\ run'[w].outcome.got = got
  BY <1>1, <1>2, TailAmounts DEF Types, RunRecord
<1>4. run[w].base = Len(portfolio) /\ run[w].prev = Len(batches[run[w].c])
  BY <1>1 DEF Follows, Resuming
<1>5. CASE fresh
  <2>1. run'[w].pc = "append"
    BY <1>3, <1>5
  <2> QED BY <1>1, <1>3, <1>4, <2>1 DEF Follows
<1>6. CASE ~fresh
  <2>1. run'[w].pc = "record"
    BY <1>3, <1>6
  <2>2. /\ Types /\ Base(w) = Last(portfolio) /\ Base(w).filled[run[w].c] \in Amounts
        /\ Base(w).nav \in Nat
        /\ \A o \in Order : Base(w).filled[run[w].c][o] = Already(w, o)
    BY <1>1, TailAmounts, PaperAssumption DEF Snapshot
  <2>3. \A o \in Order : got[o] = 0
    BY <1>2, <1>6, <2>2
  <2>4. \A o \in Order : Already(w, o)' = Already(w, o)
    BY <1>1, <1>3 DEF Already, Prev
  <2>5. Filled(w)' = [o \in Order |-> Already(w, o)' + got[o]]
    BY <1>3 DEF Filled
  <2>6. \A o \in Order : Already(w, o)' + got[o] = Base(w).filled[run[w].c][o]
    BY <2>2, <2>3, <2>4 DEF Amounts
  <2>7. Filled(w)' = Base(w).filled[run[w].c]
    BY <2>2, <2>5, <2>6 DEF Amounts
  <2> QED BY <1>1, <1>3, <1>4, <2>1, <2>2, <2>7 DEF Follows
<1> QED BY <1>5, <1>6

LEMMA FollowsEnding ==
    ASSUME FollowInv, NEW w \in Worker, AppendEnding(w), Typed(w)
    PROVE  Follows(w)'
<1>1. /\ run[w].pc = "append" /\ run[w] \in RunRecord /\ Rooted /\ PaperInv
      /\ run[w].base = Len(portfolio) /\ run[w].prev = Len(batches[run[w].c])
      /\ UNCHANGED batches
  BY DEF FollowInv, PaperInv, Types, AppendEnding, At, Follows, Resuming
<1>2. Idle.pc = "idle" /\ \A there, result : Keep(w, there, result).pc = there
  BY DEF Idle, Keep
<1>3. CASE Exit(w, "blocked")
  <2>1. run'[w].pc \in {"idle", "publish"}
    BY <1>1, <1>2, <1>3, TailAmounts DEF Exit, Types
  <2> QED BY <2>1, FollowsOutside
<1>4. CASE AppendSnapshot(Ending(w)) /\ Goto(w, "record")
  <2>1. /\ run'[w].pc = "record" /\ run'[w].c = run[w].c /\ run'[w].prev = run[w].prev
        /\ run'[w].outcome = run[w].outcome
    BY <1>1, <1>4, TailAmounts DEF Goto, Types, RunRecord
  <2>2. Ending(w) \in Snapshot /\ Ending(w) \notin ToSet(portfolio)
    BY <1>1, EndingIs, EndingIsNew DEF At
  <2>3. Last(portfolio') = Ending(w)
    BY <1>4, <2>2, TailAmounts, <1>1, NewTail
  <2>4. Filled(w)' = Filled(w)
    BY <1>1, <2>1 DEF Filled, Already, Prev
  <2>5. \A o \in Order : Ending(w).filled[run[w].c][o] = Filled(w)[o]
    BY <1>1, TailAmounts, EndingIs DEF Filled
  <2>6. Ending(w).filled[run[w].c] = Filled(w)
    BY <1>1, <2>2, <2>5, TailAmounts DEF Snapshot, Amounts, Filled
  <2> QED BY <1>1, <2>1, <2>3, <2>4, <2>6 DEF Follows
<1> QED BY <1>3, <1>4 DEF AppendEnding

\* The other steps of a worker leave the runner, or do not enter it.
LEMMA FollowsAside ==
    ASSUME FollowInv, NEW w \in Worker,
           \/ Authorize(w) \/ Approve(w) \/ CheckStatus(w) \/ AcquireLease(w) \/ Require(w)
           \/ RunnerFails(w) \/ Record(w) \/ Conclude(w) \/ Publish(w) \/ WriteStatus(w)
           \/ Release(w) \/ DatabaseError(w) \/ Crash(w) \/ AppendMark(w)
           \/ \E c \in Construction : Begin(w, c) \/ BeginCommand(w, c)
    PROVE  Follows(w)'
<1>1. run \in [Worker -> RunRecord]
  BY DEF FollowInv, PaperInv, Types
<1>2. Idle.pc = "idle" /\ \A there, result : Keep(w, there, result).pc = there
  BY DEF Idle, Keep
<1>3. ASSUME NEW result, Exit(w, result) PROVE run'[w].pc \in {"idle", "publish"}
  BY <1>1, <1>2, <1>3 DEF Exit
<1>4. ASSUME Leave(w) PROVE run'[w].pc = "idle"
  BY <1>1, <1>2, <1>4 DEF Leave
<1>5. ASSUME NEW there, Goto(w, there) PROVE run'[w].pc = there
  BY <1>1, <1>5 DEF Goto, RunRecord
<1>6. run'[w].pc \notin {"batch", "start", "fill", "append", "record", "mark"}
  <2>1. CASE Authorize(w) \/ Approve(w) \/ CheckStatus(w) \/ Publish(w) \/ WriteStatus(w)
                \/ Release(w) \/ Crash(w) \/ AppendMark(w)
    BY <1>4, <1>5, <2>1 DEF Authorize, Approve, CheckStatus, Publish, WriteStatus, Release,
                            AfterLatest, Crash, AppendMark
  <2>2. CASE AcquireLease(w)
    BY <1>1, <1>4, <2>2 DEF AcquireLease, RunRecord
  <2>3. CASE Require(w) \/ RunnerFails(w) \/ Conclude(w)
    BY <1>3, <1>5, <2>3 DEF Require, RunnerFails, Conclude
  <2>4. CASE Record(w)
    BY <1>1, <1>2, <1>3, <2>4 DEF Record
  <2>5. CASE DatabaseError(w)
    BY <1>1, <1>2, <2>5 DEF DatabaseError
  <2>6. CASE \E c \in Construction : Begin(w, c) \/ BeginCommand(w, c)
    BY <1>1, <2>6 DEF Begin, BeginCommand, Idle
  <2> QED BY <2>1, <2>2, <2>3, <2>4, <2>5, <2>6
<1> QED BY <1>6, FollowsOutside

LEMMA FollowsBegin ==
    ASSUME FollowInv, NEW w \in Worker, BeginMark(w)
    PROVE  Follows(w)'
<1>1. run \in [Worker -> RunRecord] /\ UNCHANGED portfolio
  BY DEF FollowInv, PaperInv, Types, BeginMark, stores
<1>2. run'[w].pc = "mark" /\ run'[w].base = Len(portfolio)
  BY <1>1 DEF BeginMark, Idle
<1> QED BY <1>1, <1>2 DEF Follows, Resuming

LEMMA RootedEnding ==
    ASSUME FollowInv, NEW w \in Worker, AppendEnding(w)
    PROVE  Rooted'
<1>1. /\ run[w].pc = "append" /\ Rooted /\ PaperInv /\ Local(w)
  BY DEF FollowInv, PaperInv, AppendEnding, At
<1>2. CASE UNCHANGED portfolio
  BY <1>1, <1>2 DEF Rooted
<1>3. CASE AppendSnapshot(Ending(w))
  <2>1. Ending(w) \in Snapshot /\ Ending(w).id = EndingId(w)
    BY <1>1, EndingIs
  <2>2. Attempt(w) \in Nat \ {0} /\ HasBase(w) /\ Types
    BY <1>1, TailAmounts, Locating
  <2>3. Ending(w).id = Append(portfolio[run[w].base].id, Attempt(w))
    BY <1>1, <2>1 DEF Local, EndingId, Base
  <2> QED BY <1>1, <1>3, <2>1, <2>2, <2>3, RootedGrows DEF HasBase
<1> QED BY <1>2, <1>3 DEF AppendEnding

\* Holdings at new prices are the same holdings.
LEMMA MarkIs ==
    ASSUME FollowInv, NEW w \in Worker, At(w, "mark"), NEW n \in Nav
    PROVE  /\ Types /\ Marked(w, n) \in Snapshot
           /\ Marked(w, n).filled = Last(portfolio).filled
           /\ Marked(w, n).id = <<0, run[w].prev>> /\ run[w].prev \in Nat
<1>1. /\ Types /\ PaperInv /\ Local(w) /\ HasBase(w) /\ run[w] \in RunRecord
      /\ run[w].base = Len(portfolio)
  BY DEF FollowInv, PaperInv, Types, At, Local, Follows
<1>2. Base(w) \in Snapshot /\ Base(w) = Last(portfolio)
  BY <1>1, Locating DEF Base, Last
<1>3. run[w].prev \in Nat /\ run[w].stamp \in Nat
  BY <1>1 DEF RunRecord
<1>4. <<0, run[w].prev>> \in Seq(Nat)
  BY <1>3
<1>5. Marked(w, n) \in Snapshot
  BY <1>2, <1>3, <1>4 DEF Marked, Snapshot
<1>6. Marked(w, n).filled = Last(portfolio).filled /\ Marked(w, n).id = <<0, run[w].prev>>
  BY <1>2 DEF Marked, Snapshot
<1> QED BY <1>1, <1>3, <1>5, <1>6

LEMMA RootedMark ==
    ASSUME FollowInv, NEW w \in Worker, AppendMark(w)
    PROVE  Rooted'
<1>1. PICK n \in Nav : AppendSnapshot(Marked(w, n))
  BY DEF AppendMark
<1> QED BY <1>1, MarkIs, RootedGrows DEF AppendMark, FollowInv

LEMMA FollowStep ==
    ASSUME FollowInv, NEW w \in Worker, Step(w)
    PROVE  Rooted' /\ Follows(w)'
<1>1. Typed(w)
  BY RuntimeTypes, ReadingTypes, WritingTypes DEF Step, FollowInv
<1>2. Follows(w)'
  BY <1>1, FollowsReading, FollowsFill, FollowsEnding, FollowsAside DEF Step
<1>3. CASE AppendEnding(w)
  BY <1>2, <1>3, RootedEnding
<1>4. CASE ~AppendEnding(w)
  <2>1. UNCHANGED portfolio
    BY <1>4 DEF Step, Authorize, Approve, CheckStatus, AcquireLease, Require, ReadPortfolio,
                ReadBatch, StartAttempt, Fill, RunnerFails, Record, Conclude, Publish,
                WriteStatus, Release, stores
  <2> QED BY <1>2, <2>1 DEF FollowInv, Rooted
<1> QED BY <1>3, <1>4

LEMMA FollowWorker ==
    ASSUME FollowInv, NEW w \in Worker,
           \/ DatabaseError(w) \/ Crash(w) \/ BeginMark(w) \/ AppendMark(w)
           \/ \E c \in Construction : Begin(w, c) \/ BeginCommand(w, c)
    PROVE  Rooted' /\ Follows(w)'
<1>1. Follows(w)'
  BY FollowsAside, FollowsBegin
<1>2. CASE AppendMark(w)
  BY <1>1, <1>2, RootedMark
<1>3. CASE ~AppendMark(w)
  <2>1. UNCHANGED portfolio
    BY <1>3 DEF DatabaseError, Crash, BeginMark, Begin, BeginCommand, stores
  <2> QED BY <1>1, <2>1 DEF FollowInv, Rooted
<1> QED BY <1>2, <1>3

LEMMA FollowOutside ==
    ASSUME FollowInv,
           \/ Clock \/ UNCHANGED vars
           \/ \E w \in Worker : Renew(w)
           \/ \E c \in Construction : Human(c, "approved") \/ Human(c, "stopped")
    PROVE  Rooted' /\ \A w \in Worker : Follows(w)'
<1>1. UNCHANGED <<portfolio, batches, run>>
  BY DEF Clock, Renew, Human, vars, stores
<1>2. \A w \in Worker : Filled(w)' = Filled(w)
  BY <1>1 DEF Filled, Already, Prev
<1> QED BY <1>1, <1>2 DEF FollowInv, Rooted, Follows

LEMMA FollowInvStep == OneProcess /\ FollowInv /\ [Next]_vars => FollowInv'
<1> SUFFICES ASSUME OneProcess, FollowInv, [Next]_vars PROVE FollowInv'
  OBVIOUS
<1>1. PaperInv'
  BY PaperInvStep DEF FollowInv
<1>2. Rooted' /\ \A w \in Worker : Follows(w)'
  <2>1. CASE \E w \in Worker : Step(w)
    BY <2>1, FollowStep DEF OneProcess
  <2>2. CASE \E w \in Worker :
               \/ DatabaseError(w) \/ Crash(w) \/ BeginMark(w) \/ AppendMark(w)
               \/ \E c \in Construction : Begin(w, c) \/ BeginCommand(w, c)
    BY <2>2, FollowWorker DEF OneProcess
  <2>3. CASE \/ Clock \/ UNCHANGED vars
             \/ \E w \in Worker : Renew(w)
             \/ \E c \in Construction : Human(c, "approved") \/ Human(c, "stopped")
    BY <2>3, FollowOutside
  <2> QED BY <2>1, <2>2, <2>3 DEF Next
<1> QED BY <1>1, <1>2 DEF FollowInv

LEMMA InitFollowInv == Init => FollowInv
<1> SUFFICES ASSUME Init PROVE FollowInv
  OBVIOUS
<1>1. PaperInv
  BY InitPaperInv
<1>2. Rooted
  <2> DEFINE first == [id |-> <<>>, filled |-> [c \in Construction |-> Nothing],
                       nav |-> InitialNav, at |-> 0]
  <2>1. portfolio = <<first>> /\ first.id = <<>>
    BY DEF Init
  <2> HIDE DEF first
  <2>2. DOMAIN portfolio = {1} /\ portfolio[1] = first
    BY <2>1
  <2> QED BY <2>1, <2>2 DEF Rooted
<1>3. \A w \in Worker : Follows(w)
  <2>1. \A w \in Worker : run[w] = Idle
    BY DEF Init
  <2> QED BY <2>1, IdleIsTyped DEF Follows, Resuming
<1> QED BY <1>1, <1>2, <1>3 DEF FollowInv

-----------------------------------------------------------------------------
(* No fill is dropped.                                                     *)

\* What an attempt or a mark appends has the fills of the tail.
LEMMA TailGrows ==
    ASSUME FollowInv, NEW w \in Worker, Step(w) \/ AppendMark(w)
    PROVE  \A c \in Construction, o \in Order :
              Last(portfolio').filled[c][o] >= Last(portfolio).filled[c][o]
<1>1. PaperInv /\ Rooted /\ Types
  BY DEF FollowInv, PaperInv
<1>2. Last(portfolio) \in Snapshot
  BY <1>1, LenProperties, EmptySeq, ElementOfSeq DEF Types, Last
<1>3. \A c \in Construction, o \in Order : Last(portfolio).filled[c][o] \in Nat
  BY <1>2 DEF Snapshot, Amounts
<1>4. CASE Last(portfolio').filled = Last(portfolio).filled
  BY <1>3, <1>4
<1>5. CASE AppendMark(w)
  <2>1. PICK n \in Nav : AppendSnapshot(Marked(w, n))
    BY <1>5 DEF AppendMark
  <2>2. Marked(w, n) \in Snapshot /\ Marked(w, n).filled = Last(portfolio).filled
    BY <1>5, MarkIs DEF AppendMark
  <2>3. CASE Marked(w, n) \in ToSet(portfolio)
    BY <1>4, <2>1, <2>3 DEF AppendSnapshot
  <2>4. CASE Marked(w, n) \notin ToSet(portfolio)
    BY <1>1, <1>4, <2>1, <2>2, <2>4, NewTail
  <2> QED BY <2>3, <2>4
<1>6. CASE AppendEnding(w) /\ AppendSnapshot(Ending(w))
  <2>1. run[w].pc = "append" /\ run[w].base = Len(portfolio)
    BY <1>6 DEF AppendEnding, At, FollowInv, Follows
  <2>2. /\ Ending(w) \in Snapshot /\ Ending(w) \notin ToSet(portfolio)
        /\ \A o \in Order : Ending(w).filled[run[w].c][o] =
              Base(w).filled[run[w].c][o] + run[w].outcome.got[o]
        /\ \A c \in Construction \ {run[w].c} : Ending(w).filled[c] = Base(w).filled[c]
        /\ run[w].outcome \in Outcome
    BY <1>1, <2>1, EndingIs, EndingIsNew, Locating DEF At
  <2>3. Last(portfolio') = Ending(w) /\ Base(w) = Last(portfolio)
    BY <1>1, <1>6, <2>1, <2>2, NewTail, TailAmounts
  <2>4. \A o \in Order : run[w].outcome.got[o] \in Nat
    BY <2>2 DEF Outcome, Amounts
  <2>5. ASSUME NEW c \in Construction, NEW o \in Order
        PROVE  Last(portfolio').filled[c][o] >= Last(portfolio).filled[c][o]
    <3>1. CASE c = run[w].c
      BY <1>3, <2>2, <2>3, <2>4, <3>1
    <3>2. CASE c # run[w].c
      BY <1>3, <2>2, <2>3, <3>2
    <3> QED BY <3>1, <3>2
  <2> QED BY <2>5
<1>7. CASE Step(w) /\ ~(AppendEnding(w) /\ AppendSnapshot(Ending(w)))
  <2>1. UNCHANGED portfolio
    BY <1>7 DEF Step, Authorize, Approve, CheckStatus, AcquireLease, Require, ReadPortfolio,
                ReadBatch, StartAttempt, Fill, RunnerFails, AppendEnding, Record, Conclude,
                Publish, WriteStatus, Release, stores
  <2> QED BY <1>4, <2>1
<1> QED BY <1>5, <1>6, <1>7

\* One process never drops a fill from the canonical portfolio, whatever the
\* prices, crashes, database errors and marks: it takes the overlap of two.
THEOREM OneProcessDropsNoFill ==
    ASSUME OneProcess
    PROVE  Spec => NoFillDropped
<1>1. FollowInv /\ [Next]_vars => FollowInv'
  BY FollowInvStep
<1>2. FollowInv /\ [Next]_vars =>
         [\A c \in Construction, o \in Order :
             Last(portfolio').filled[c][o] >= Last(portfolio).filled[c][o]]_vars
  <2> SUFFICES ASSUME FollowInv, Next
               PROVE  \A c \in Construction, o \in Order :
                         Last(portfolio').filled[c][o] >= Last(portfolio).filled[c][o]
    OBVIOUS
  <2>1. CASE \E w \in Worker : Step(w) \/ AppendMark(w)
    BY <2>1, TailGrows
  <2>2. CASE ~\E w \in Worker : Step(w) \/ AppendMark(w)
    <3>1. UNCHANGED portfolio
      BY <2>2 DEF Next, Clock, Renew, DatabaseError, Crash, BeginMark, Begin, BeginCommand,
                  Human, stores
    <3>2. Types
      BY DEF FollowInv, PaperInv
    <3>3. Last(portfolio) \in Snapshot
      BY <3>2, LenProperties, EmptySeq, ElementOfSeq DEF Types, Last
    <3> QED BY <3>1, <3>3 DEF Snapshot, Amounts
  <2> QED BY <2>1, <2>2
<1> QED BY InitFollowInv, <1>1, <1>2, PTL DEF Spec, NoFillDropped

-----------------------------------------------------------------------------
(* At one price, what is done is filled.                                   *)

\* What is done when an attempt is recorded has everything it asked for.
LEMMA DoneRecord ==
    ASSUME OnePrice, LedgerInv, NEW w \in Worker, Record(w), Typed(w)
    PROVE  DoneFilled'
<1>1. /\ PaperInv /\ Types /\ Types' /\ DoneFilled /\ OrdersFilledOnce
      /\ At(w, "record") /\ HasBase(w) /\ HasPrev(w) /\ Sound(w) /\ run[w].c \in Construction
  BY DEF LedgerInv, FollowInv, PaperInv, StoreInv, Record, Typed, At, Local, Reading, Resuming, Working,
         LeasedControl
<1>2. /\ Base(w) \in Snapshot /\ Base(w).nav = InitialNav /\ InitialNav \in Nat
      /\ \A o \in Order : Already(w, o) \in Nat /\ run[w].outcome.got[o] \in Nat
  <2>1. Base(w) \in Snapshot /\ \A o \in Order : Already(w, o) \in Nat
    BY <1>1, Locating
  <2>2. run[w].outcome \in Outcome
    BY <1>1, Locating
  <2> QED BY <2>1, <2>2, PaperAssumption DEF OnePrice, Snapshot, Outcome, Amounts
<1>3. ASSUME NEW o \in Order PROVE Already(w, o) <= InitialNav
  <2>1. Already(w, o) = Base(w).filled[run[w].c][o]
    BY <1>1, InStep DEF At, Filling
  <2>2. PICK j \in DOMAIN portfolio : Base(w).filled[run[w].c][o] <= portfolio[j].nav
    BY <1>1 DEF OrdersFilledOnce, HasBase, Base
  <2>3. portfolio[j] \in Snapshot
    BY <1>1, ElementOfSeq DEF Types
  <2> QED BY <2>1, <2>2, <2>3 DEF OnePrice, Snapshot
<1>4. ASSUME NEW o \in DoneBefore(w) PROVE o \in Order /\ Already(w, o) = InitialNav
  <2>1. run[w].prev # 0 /\ o \in Prev(w).done
    BY <1>4 DEF DoneBefore
  <2>2. Prev(w) \in ToSet(batches[run[w].c])
    BY <1>1, <2>1 DEF HasPrev, Prev, ToSet
  <2>3. Prev(w).filled[o] = InitialNav
    BY <1>1, <2>1, <2>2 DEF DoneFilled
  <2>4. o \in Order
    BY <1>1, <1>4, Locating
  <2> QED BY <2>1, <2>3, <2>4 DEF Already
<1>5. \A o \in Done(w) : o \in Order /\ Filled(w)[o] = InitialNav
  <2> SUFFICES ASSUME NEW o \in Done(w) PROVE o \in Order /\ Filled(w)[o] = InitialNav
    OBVIOUS
  <2>1. o \in Order /\ (o \in DoneBefore(w) \/ Remaining(w, o) = run[w].outcome.got[o])
    BY <1>4 DEF Done
  <2>2. run[w].outcome.got[o] <= Remaining(w, o)
    BY <1>1, <2>1 DEF Sound, Fillable
  <2>3. Already(w, o) + run[w].outcome.got[o] = InitialNav
    <3>1. CASE o \in DoneBefore(w)
      <4>1. Remaining(w, o) = 0
        BY <3>1 DEF Remaining
      <4> QED BY <1>2, <1>4, <2>1, <2>2, <3>1, <4>1
    <3>2. CASE o \notin DoneBefore(w)
      BY <1>2, <1>3, <2>1, <3>2 DEF Remaining
    <3> QED BY <3>1, <3>2
  <2> QED BY <2>1, <2>3 DEF Filled
<1>6. ASSUME NEW c \in Construction, NEW b \in ToSet(batches'[c]), NEW o \in b.done
      PROVE  b.filled[o] = InitialNav
  <2>1. b \in ToSet(batches[c]) \/ b = Batch(w)
    <3>1. CASE batches'[c] = batches[c]
      BY <1>6, <3>1
    <3>2. CASE c = run[w].c /\ ~UNCHANGED batches
      <4> DEFINE n == run[w].prev
      <4>1. /\ DOMAIN batches[c] = 1 .. n /\ DOMAIN batches'[c] = 1 .. n + 1
            /\ batches'[c][n + 1] = Batch(w)
        BY <1>1, <3>2, RecordPlace
      <4>2. n \in Nat /\ Extends(batches'[c], batches[c]) /\ Len(batches[c]) = n
        BY <1>1, <3>2, RecordPlace DEF Typed, Grows, Types, RunRecord
      <4>3. \A k \in DOMAIN batches'[c] :
               k = n + 1 \/ (k \in DOMAIN batches[c] /\ batches'[c][k] = batches[c][k])
        BY <4>1, <4>2 DEF Extends
      <4>4. PICK k \in DOMAIN batches'[c] : batches'[c][k] = b
        BY <1>6 DEF ToSet
      <4> QED BY <4>1, <4>3, <4>4 DEF ToSet
    <3> QED BY <1>1, <3>1, <3>2, RecordPlace
  <2>2. CASE b \in ToSet(batches[c])
    BY <1>1, <2>2, <1>6 DEF DoneFilled
  <2>3. CASE b = Batch(w)
    BY <1>5, <1>6, <2>3 DEF Batch
  <2> QED BY <2>1, <2>2, <2>3
<1> QED BY <1>6 DEF DoneFilled

LEMMA LedgerInvStep == OneProcess /\ OnePrice /\ LedgerInv /\ [Next]_vars => LedgerInv'
<1> SUFFICES ASSUME OneProcess, OnePrice, LedgerInv, [Next]_vars PROVE LedgerInv'
  OBVIOUS
<1>1. FollowInv'
  BY FollowInvStep DEF LedgerInv
<1>2. CASE \E w \in Worker : Record(w)
  <2>1. PICK w \in Worker : Record(w)
    BY <1>2
  <2>2. Typed(w)
    BY <2>1, WritingTypes DEF LedgerInv, FollowInv
  <2> QED BY <1>1, <2>1, <2>2, DoneRecord DEF LedgerInv
<1>3. CASE ~\E w \in Worker : Record(w)
  <2>1. UNCHANGED batches
    BY <1>3 DEF Next, Step, Authorize, Approve, CheckStatus, AcquireLease, Require,
                ReadPortfolio, ReadBatch, StartAttempt, Fill, RunnerFails, AppendEnding,
                Conclude, Publish, WriteStatus, Release, Clock, Renew, DatabaseError, Crash,
                BeginMark, AppendMark, Begin, BeginCommand, Human, stores, vars
  <2> QED BY <1>1, <2>1 DEF LedgerInv, DoneFilled
<1> QED BY <1>2, <1>3

LEMMA InitLedgerInv == Init => LedgerInv
<1> SUFFICES ASSUME Init PROVE LedgerInv
  OBVIOUS
<1>1. \A c \in Construction : ToSet(batches[c]) = {}
  BY EmptySeq DEF Init, ToSet
<1> QED BY <1>1, InitFollowInv DEF LedgerInv, DoneFilled

-----------------------------------------------------------------------------
(* The refinement.                                                         *)

\* Who has been executed, as the ledger sees it.
Conclusions == {c \in Construction : \E e \in ToSet(approvals[c]) : e.state = "executed"}

LEMMA LedgerStutters ==
    ASSUME UNCHANGED <<portfolio, batches>>, Conclusions' = Conclusions
    PROVE  UNCHANGED Ledger!ledger
  BY DEF Conclusions, Ledger!ledger

\* Only "executed" events conclude anything.
LEMMA ApprovalConcludes ==
    ASSUME Types, NEW c \in Construction, NEW state \in {"approved", "stopped", "executed"},
           NEW by \in {"policy", "human", "executor"}, NEW at \in Nat,
           AppendApproval(c, state, by, at)
    PROVE  IF state = "executed" THEN Conclusions' = Conclusions \cup {c}
                                 ELSE Conclusions' = Conclusions
<1>1. /\ approvals' \in [Construction -> Seq(Approval)]
      /\ \A d \in Construction : d # c => approvals'[d] = approvals[d]
  BY ApprovalTypes
<1>2. PICK e \in Approval :
        /\ e.state = state
        /\ \/ e \in ToSet(approvals[c]) /\ approvals'[c] = approvals[c]
           \/ approvals'[c] = Append(approvals[c], e)
  BY ApprovalTypes
<1>3. ToSet(approvals'[c]) = ToSet(approvals[c]) \cup {e}
  <2>1. CASE e \in ToSet(approvals[c]) /\ approvals'[c] = approvals[c]
    BY <2>1
  <2>2. CASE approvals'[c] = Append(approvals[c], e)
    <3>1. approvals[c] \in Seq(Approval)
      BY DEF Types
    <3>2. /\ DOMAIN Append(approvals[c], e) = 1 .. Len(approvals[c]) + 1
          /\ \A i \in 1 .. Len(approvals[c]) : Append(approvals[c], e)[i] = approvals[c][i]
          /\ Append(approvals[c], e)[Len(approvals[c]) + 1] = e
      BY <3>1, AppendFacts
    <3>3. DOMAIN approvals[c] = 1 .. Len(approvals[c]) /\ Len(approvals[c]) \in Nat
      BY <3>1, LenProperties
    <3>4. \A i \in 1 .. Len(approvals[c]) + 1 :
             i \in 1 .. Len(approvals[c]) \/ i = Len(approvals[c]) + 1
      BY <3>3
    <3>5. \A x \in ToSet(approvals'[c]) : x \in ToSet(approvals[c]) \cup {e}
      BY <2>2, <3>2, <3>3, <3>4 DEF ToSet
    <3>6. \A x \in ToSet(approvals[c]) \cup {e} : x \in ToSet(approvals'[c])
      <4>1. \A i \in 1 .. Len(approvals[c]) : i \in 1 .. Len(approvals[c]) + 1
        BY <3>3
      <4>2. Len(approvals[c]) + 1 \in 1 .. Len(approvals[c]) + 1
        BY <3>3
      <4> QED BY <2>2, <3>2, <3>3, <4>1, <4>2 DEF ToSet
    <3> QED BY <3>5, <3>6
  <2> QED BY <1>2, <2>1, <2>2
<1>4. \A d \in Construction : d \in Conclusions' <=>
         d \in Conclusions \/ (d = c /\ state = "executed")
  <2> SUFFICES ASSUME NEW d \in Construction
               PROVE  d \in Conclusions' <=> d \in Conclusions \/ (d = c /\ state = "executed")
    OBVIOUS
  <2>1. CASE d = c
    BY <1>2, <1>3, <2>1 DEF Conclusions
  <2>2. CASE d # c
    BY <1>1, <2>2 DEF Conclusions
  <2> QED BY <2>1, <2>2
<1>5. Conclusions \subseteq Construction /\ Conclusions' \subseteq Construction
  BY DEF Conclusions
<1> QED BY <1>4, <1>5

\* An ending publishes fills of one construction on top of the recorded ones.
LEMMA EndingFills ==
    ASSUME OnePrice, LedgerInv, StoreInv', NEW w \in Worker, AppendEnding(w), Typed(w),
           AppendSnapshot(Ending(w))
    PROVE  Ledger!Fill(run[w].c)
<1> DEFINE c == run[w].c
           amounts == Ending(w).filled[c]
<1>1. /\ run[w].pc = "append" /\ PaperInv /\ Rooted /\ Types' /\ UNCHANGED <<batches, approvals>>
      /\ run[w].base = Len(portfolio)
  BY DEF AppendEnding, At, LedgerInv, FollowInv, Typed, Follows
<1>2. /\ c \in Construction /\ HasPrev(w) /\ Types
      /\ Base(w) = Last(portfolio) /\ Base(w) \in Snapshot
      /\ \A o \in Order : Base(w).filled[c][o] = Already(w, o)
      /\ Base(w).filled[c] \in Amounts
      /\ run[w].prev = Len(batches[c])
  BY <1>1, TailAmounts DEF LedgerInv
<1>3. /\ Ending(w) \in Snapshot /\ Ending(w) \notin ToSet(portfolio)
      /\ \A o \in Order : amounts[o] = Base(w).filled[c][o] + run[w].outcome.got[o]
      /\ \A d \in Construction \ {c} : Ending(w).filled[d] = Base(w).filled[d]
  BY <1>1, EndingIs, EndingIsNew DEF At
<1>4. Last(portfolio') = Ending(w)
  BY <1>2, <1>3, NewTail
<1>5. Last(portfolio').filled = [Last(portfolio).filled EXCEPT ![c] = amounts]
  BY <1>2, <1>3, <1>4 DEF Snapshot
<1>6. amounts \in [Order -> 0 .. InitialNav]
  <2>1. portfolio' \in Seq(Snapshot) /\ Ending(w) \in ToSet(portfolio')
    BY <1>1, <1>2, <1>3, SnapshotGrows
  <2>2. PICK k \in DOMAIN portfolio' : portfolio'[k] = Ending(w)
    BY <2>1 DEF ToSet
  <2>3. ASSUME NEW o \in Order PROVE amounts[o] <= InitialNav
    <3>1. PICK j \in DOMAIN portfolio' : amounts[o] <= portfolio'[j].nav
      BY <1>2, <2>2 DEF StoreInv, OrdersFilledOnce
    <3>2. portfolio'[j] \in Snapshot
      BY <2>1, ElementOfSeq
    <3> QED BY <3>1, <3>2 DEF OnePrice, Snapshot
  <2>4. amounts \in [Order -> Nat] /\ InitialNav \in Nat
    BY <1>2, <1>3, PaperAssumption DEF Snapshot, Amounts
  <2> QED BY <2>3, <2>4
<1>7. \A o \in Order : amounts[o] >= Last(portfolio).filled[c][o]
  <2>1. \A o \in Order : run[w].outcome.got[o] \in Nat
    BY <1>1, Locating DEF Outcome, Amounts
  <2>2. \A o \in Order : Base(w).filled[c][o] \in Nat
    BY <1>2 DEF Amounts
  <2> QED BY <1>2, <1>3, <2>1, <2>2
<1>8. (IF batches[c] = <<>> THEN Nothing ELSE Last(batches[c]).filled) = Last(portfolio).filled[c]
  <2>1. /\ batches[c] \in Seq(BatchRecord) /\ Len(batches[c]) \in Nat
        /\ batches[c] = <<>> <=> Len(batches[c]) = 0
    BY <1>2, LenProperties, EmptySeq DEF Types
  <2>2. CASE batches[c] = <<>>
    BY <1>2, <2>1, <2>2 DEF Already, Nothing, Amounts
  <2>3. CASE batches[c] # <<>>
    <3>1. run[w].prev # 0 /\ Last(batches[c]) = Prev(w) /\ Prev(w).filled \in Amounts
      BY <1>1, <1>2, <2>1, <2>3, Locating DEF Last, Prev, BatchRecord
    <3> QED BY <1>2, <2>3, <3>1 DEF Already, Amounts
  <2> QED BY <2>2, <2>3
<1>9. ~\E e \in ToSet(approvals[c]) : e.state = "executed"
  <2> SUFFICES ASSUME Executed(c) PROVE FALSE
    BY DEF Executed
  <2>1. PICK n \in DOMAIN batches[c] : batches[c][n].status = "completed"
    BY <1>1, <1>2 DEF PaperInv, StoreInv, Concluded, Finished
  <2>2. DOMAIN batches[c] = 1 .. Len(batches[c]) /\ Len(batches[c]) \in Nat
    BY <1>2, LenProperties DEF Types
  <2>3. run[w].prev # 0 /\ n # run[w].prev
    BY <1>2, <2>1, <2>2 DEF HasPrev, Prev
  <2>4. n + 1 \in DOMAIN batches[c] /\ n + 1 > 1 /\ (n + 1) - 1 = n
    BY <1>2, <2>2, <2>3
  <2>5. batches[c][n].status # "completed"
    BY <1>1, <1>2, <2>4 DEF PaperInv, StoreInv, AttemptsChain
  <2> QED BY <2>1, <2>5
<1> HIDE DEF amounts
<1>10. UNCHANGED <<[d \in Construction |->
                      IF batches[d] = <<>> THEN Nothing ELSE Last(batches[d]).filled],
                   {d \in Construction : \E e \in ToSet(approvals[d]) : e.state = "executed"}>>
  BY <1>1
<1> QED BY <1>2, <1>5, <1>6, <1>7, <1>8, <1>9, <1>10 DEF Ledger!Fill

\* A record reports what the portfolio holds.
LEMMA RecordRecords ==
    ASSUME LedgerInv, NEW w \in Worker, Record(w), Typed(w)
    PROVE  Ledger!Record(run[w].c) \/ UNCHANGED Ledger!ledger
<1> DEFINE c == run[w].c
<1>1. /\ run[w].pc = "record" /\ PaperInv /\ Types /\ Types' /\ c \in Construction
      /\ Last(portfolio).filled[c] = Filled(w) /\ UNCHANGED <<portfolio, approvals>>
  BY DEF LedgerInv, FollowInv, PaperInv, Typed, Record, At, Follows, Local, Working, LeasedControl
<1>2. Conclusions' = Conclusions
  BY <1>1 DEF Conclusions
<1>3. CASE UNCHANGED batches
  BY <1>1, <1>2, <1>3, LedgerStutters
<1>4. CASE ~UNCHANGED batches
  <2>1. /\ \A d \in Construction : d # c => batches'[d] = batches[d]
        /\ DOMAIN batches'[c] = 1 .. run[w].prev + 1
        /\ batches'[c][run[w].prev + 1] = Batch(w)
    BY <1>1, <1>4, RecordPlace
  <2>2. batches'[c] \in Seq(BatchRecord) /\ run[w].prev \in Nat
    BY <1>1 DEF Types, RunRecord
  <2>3. Len(batches'[c]) = run[w].prev + 1 /\ batches'[c] # <<>>
    <3>1. DOMAIN batches'[c] = 1 .. Len(batches'[c]) /\ Len(batches'[c]) \in Nat
      BY <2>2, LenProperties
    <3>2. Len(batches'[c]) = run[w].prev + 1
      BY <2>1, <2>2, <3>1
    <3> QED BY <2>2, <3>2, EmptySeq
  <2>4. Last(batches'[c]).filled = Last(portfolio).filled[c]
    BY <1>1, <2>1, <2>3 DEF Last, Batch
  <2>5. [d \in Construction |-> IF batches'[d] = <<>> THEN Nothing ELSE Last(batches'[d]).filled]
          = [[d \in Construction |-> IF batches[d] = <<>> THEN Nothing ELSE Last(batches[d]).filled]
               EXCEPT ![c] = Last(portfolio).filled[c]]
    BY <2>1, <2>3, <2>4
  <2> QED BY <1>1, <2>5 DEF Ledger!Record
<1> QED BY <1>3, <1>4

\* What is concluded is filled and recorded.
LEMMA ConcludeExecutes ==
    ASSUME OnePrice, LedgerInv, NEW w \in Worker, Conclude(w)
    PROVE  Ledger!Execute(run[w].c)
<1> DEFINE c == run[w].c
<1>1. /\ PaperInv /\ Types /\ DoneFilled /\ Finished(c) /\ c \in Construction
      /\ run[w].stamp \in Nat /\ UNCHANGED <<portfolio, batches>>
      /\ AppendApproval(c, "executed", "executor", run[w].stamp)
  BY DEF LedgerInv, FollowInv, PaperInv, Types, RunRecord, Conclude, At, Local, Working, LeasedControl
<1>2. Conclusions' = Conclusions \cup {c}
  BY <1>1, ApprovalConcludes
<1>3. PICK n \in DOMAIN batches[c] : batches[c][n].status = "completed"
  BY <1>1 DEF Finished
<1>4. DOMAIN batches[c] = 1 .. Len(batches[c]) /\ Len(batches[c]) \in Nat
  BY <1>1, LenProperties DEF Types
<1>5. n = Len(batches[c])
  <2>1. CASE n + 1 \in DOMAIN batches[c]
    <3>1. n + 1 > 1 /\ (n + 1) - 1 = n
      BY <1>4
    <3>2. batches[c][n].status # "completed"
      BY <1>1, <2>1, <3>1 DEF PaperInv, StoreInv, AttemptsChain
    <3> QED BY <1>3, <3>2
  <2>2. CASE n + 1 \notin DOMAIN batches[c]
    BY <1>4, <2>2
  <2> QED BY <2>1, <2>2
<1>6. batches[c][n].done = Order
  BY <1>1, <1>3 DEF PaperInv, StoreInv, Concluded
<1>7. batches[c] # <<>> /\ \A o \in Order : Last(batches[c]).filled[o] = InitialNav
  <2>1. batches[c] # <<>>
    BY <1>3, EmptySeq
  <2>2. batches[c][n] \in ToSet(batches[c])
    BY DEF ToSet
  <2> QED BY <1>1, <1>5, <1>6, <2>1, <2>2 DEF DoneFilled, Last
<1> QED BY <1>1, <1>2, <1>7 DEF Ledger!Execute, Conclusions

LEMMA LedgerSimulates ==
    ASSUME OnePrice, LedgerInv, LedgerInv', [Next]_vars
    PROVE  [Ledger!Next]_(Ledger!ledger)
<1>1. Types /\ PaperInv /\ now \in Nat
  BY DEF LedgerInv, FollowInv, PaperInv, Types, LeaseTypeOK
<1>2. ASSUME NEW w \in Worker, Step(w) PROVE [Ledger!Next]_(Ledger!ledger)
  <2>1. Typed(w) /\ StoreInv'
    BY <1>1, <1>2, RuntimeTypes, ReadingTypes, WritingTypes DEF Step, LedgerInv, FollowInv, PaperInv
  <2>2. run[w].pc \in {"append", "record", "conclude"} => run[w].c \in Construction
    BY <1>1 DEF PaperInv, Local, Working, LeasedControl
  <2>3. CASE AppendEnding(w)
    <3>1. CASE AppendSnapshot(Ending(w))
      BY <2>1, <2>2, <2>3, <3>1, EndingFills DEF Ledger!Next, AppendEnding, At
    <3>2. CASE ~AppendSnapshot(Ending(w))
      <4>1. UNCHANGED <<portfolio, batches, approvals>>
        BY <2>3, <3>2 DEF AppendEnding
      <4> QED BY <4>1, LedgerStutters DEF Conclusions
    <3> QED BY <3>1, <3>2
  <2>4. CASE Record(w)
    <3>1. run[w].c \in Construction
      BY <2>2, <2>4 DEF Record, At
    <3>2. Ledger!Record(run[w].c) \/ UNCHANGED Ledger!ledger
      BY <2>1, <2>4, RecordRecords
    <3> QED BY <3>1, <3>2 DEF Ledger!Next, Ledger!Record
  <2>5. CASE Conclude(w)
    <3>1. run[w].c \in Construction
      BY <2>2, <2>5 DEF Conclude, At
    <3>2. Ledger!Execute(run[w].c)
      BY <2>5, ConcludeExecutes
    <3> QED BY <3>1, <3>2 DEF Ledger!Next, Ledger!Execute
  <2>6. CASE Approve(w)
    <3>1. run[w].c \in Construction /\ run[w].stamp \in Nat
      BY <1>1, <2>6, WritingWorker DEF Approve, At
    <3>2. Conclusions' = Conclusions
      BY <1>1, <2>6, <3>1, ApprovalConcludes DEF Approve
    <3> QED BY <2>6, <3>2, LedgerStutters DEF Approve
  <2>7. CASE ~AppendEnding(w) /\ ~Record(w) /\ ~Conclude(w) /\ ~Approve(w)
    <3>1. UNCHANGED <<portfolio, batches, approvals>>
      BY <1>2, <2>7 DEF Step, Authorize, CheckStatus, AcquireLease, Require, ReadPortfolio,
                        ReadBatch, StartAttempt, Fill, RunnerFails, Publish, WriteStatus,
                        Release, stores
    <3> QED BY <3>1, LedgerStutters DEF Conclusions
  <2> QED BY <2>3, <2>4, <2>5, <2>6, <2>7
<1>3. ASSUME NEW w \in Worker, AppendMark(w) PROVE UNCHANGED Ledger!ledger
  <2>1. PICK n \in Nav : AppendSnapshot(Marked(w, n))
    BY <1>3 DEF AppendMark
  <2>2. /\ Marked(w, n) \in Snapshot /\ Marked(w, n).filled = Last(portfolio).filled
    BY <1>3, MarkIs DEF AppendMark, LedgerInv
  <2>3. Last(portfolio').filled = Last(portfolio).filled
    <3>1. CASE Marked(w, n) \in ToSet(portfolio)
      BY <2>1, <3>1 DEF AppendSnapshot
    <3>2. CASE Marked(w, n) \notin ToSet(portfolio)
      BY <1>1, <2>1, <2>2, <3>2, NewTail
    <3> QED BY <3>1, <3>2
  <2> QED BY <1>3, <2>3 DEF AppendMark, Ledger!ledger
<1>4. ASSUME NEW c \in Construction, NEW state \in {"approved", "stopped"}, Human(c, state)
      PROVE  UNCHANGED Ledger!ledger
  <2>1. Conclusions' = Conclusions
    BY <1>1, <1>4, ApprovalConcludes DEF Human
  <2> QED BY <1>4, <2>1, LedgerStutters DEF Human
<1>5. CASE \/ Clock \/ UNCHANGED vars
           \/ \E w \in Worker :
                \/ Renew(w) \/ DatabaseError(w) \/ Crash(w) \/ BeginMark(w)
                \/ \E c \in Construction : Begin(w, c) \/ BeginCommand(w, c)
  <2>1. UNCHANGED <<portfolio, batches, approvals>>
    BY <1>5 DEF Clock, Renew, DatabaseError, Crash, BeginMark, Begin, BeginCommand, vars, stores
  <2> QED BY <2>1, LedgerStutters DEF Conclusions
<1> QED BY <1>2, <1>3, <1>4, <1>5 DEF Next

LEMMA LedgerStarts == Init => Ledger!Init
<1> SUFFICES ASSUME Init PROVE Ledger!Init
  OBVIOUS
<1> DEFINE first == [id |-> <<>>, filled |-> [c \in Construction |-> Nothing],
                     nav |-> InitialNav, at |-> 0]
<1>1. portfolio = <<first>> /\ first.filled = [c \in Construction |-> Nothing]
  BY DEF Init
<1> HIDE DEF first
<1>2. Last(portfolio) = first
  BY <1>1 DEF Last
<1>3. \A c \in Construction : batches[c] = <<>> /\ approvals[c] = <<>>
  BY DEF Init
<1>4. \A c \in Construction : ToSet(approvals[c]) = {}
  BY <1>3, EmptySeq DEF ToSet
<1> QED BY <1>1, <1>2, <1>3, <1>4 DEF Ledger!Init, Ledger!None, Nothing

\* One process at a constant price keeps the ledger, whatever crashes, database
\* errors and marks interrupt its attempts and whether or not they take a lease:
\* a fill is made only on top of the recorded ones, a record reports what the
\* portfolio holds, and what is concluded is filled and recorded completely.
THEOREM OneProcessKeepsLedger ==
    ASSUME OneProcess, OnePrice
    PROVE  Spec => ImplementsLedger
<1>1. LedgerInv /\ [Next]_vars => LedgerInv'
  BY LedgerInvStep
<1>2. LedgerInv /\ LedgerInv' /\ [Next]_vars => [Ledger!Next]_(Ledger!ledger)
  BY LedgerSimulates
<1> QED BY InitLedgerInv, LedgerStarts, <1>1, <1>2, PTL DEF Spec, ImplementsLedger, Ledger!Spec
=============================================================================
