---------------------------- MODULE PaperLeases ----------------------------
(***************************************************************************)
(* The lease on one exact paper construction, as kept by                   *)
(* SQLitePaperExecutionLeaseStore in operations/paper_execution_leases.py  *)
(* and maintained by _MaintainedExecutionLease in                          *)
(* paper_execution_runtime.py.  A row exists only while a lease is held:   *)
(* release() deletes it.  Every acquisition runs under a fresh owner       *)
(* identifier (process number and uuid4), here the next natural number.    *)
(***************************************************************************)
EXTENDS Integers

CONSTANTS
    Worker,         \* processes that execute constructions
    Construction,   \* constructions, by the hash of their payload
    LeaseDuration,  \* lease_seconds, in clock ticks
    MaxTime,        \* bound: last instant of the clock
    MaxGrants       \* bound: no attempt begins after so many acquisitions

ASSUME PaperLeaseAssumption ==
    /\ LeaseDuration \in Nat \ {0}
    /\ MaxTime \in Nat /\ MaxGrants \in Nat

VARIABLES
    now,      \* the clock of the host
    lease,    \* construction -> its row in paper_execution_leases
    grant,    \* worker -> the grant in its _MaintainedExecutionLease
    lost,     \* worker -> its renewing thread has stored an error and ended
    issued    \* owner identifiers drawn so far

leaseVars == <<now, lease, grant, lost, issued>>

NoRow == [owner |-> 0, token |-> 0, expires |-> 0]
Row == [owner : Nat, token : Nat, expires : Nat]
NoGrant == [owner |-> 0, token |-> 0, expires |-> 0]

LeaseTypeOK ==
    /\ now \in Nat
    /\ lease \in [Construction -> Row]
    /\ grant \in [Worker -> Row]
    /\ lost \in [Worker -> BOOLEAN]
    /\ issued \in Nat

LeaseInit ==
    /\ now = 0
    /\ lease = [c \in Construction |-> NoRow]
    /\ grant = [w \in Worker |-> NoGrant]
    /\ lost = [w \in Worker |-> FALSE]
    /\ issued = 0

-----------------------------------------------------------------------------
\* A row of another owner is respected until it expires.
Held(c) == lease[c].owner # 0 /\ lease[c].expires > now

Acquire(w, c) ==
    /\ ~Held(c)
    /\ LET row == [owner |-> issued + 1, token |-> lease[c].token + 1,
                   expires |-> now + LeaseDuration]
       IN  /\ lease' = [lease EXCEPT ![c] = row]
           /\ grant' = [grant EXCEPT ![w] = row]
    /\ issued' = issued + 1
    /\ lost' = [lost EXCEPT ![w] = FALSE]
    /\ UNCHANGED now

\* The row a grant names, whether or not it has expired.
OwnRow(w, c) ==
    /\ grant[w].owner # 0
    /\ lease[c].owner = grant[w].owner
    /\ lease[c].token = grant[w].token

\* The row may still be renewed at the very instant it expires.
Renewable(w, c) == OwnRow(w, c) /\ lease[c].expires >= now

RenewRow(w, c) ==
    /\ lease' = [lease EXCEPT ![c].expires = now + LeaseDuration]
    /\ grant' = [grant EXCEPT ![w].expires = now + LeaseDuration]
    /\ UNCHANGED <<now, lost, issued>>

\* One round of the renewing thread; it ends at its first error.
RenewThread(w, c) ==
    /\ grant[w].owner # 0
    /\ ~lost[w]
    /\ IF Renewable(w, c)
       THEN RenewRow(w, c)
       ELSE /\ lost' = [lost EXCEPT ![w] = TRUE]
            /\ UNCHANGED <<now, lease, grant, issued>>

\* assert_owned(): the grant is renewed once more, unless the thread gave up.
AssertOwned(w, c) == ~lost[w] /\ Renewable(w, c) /\ RenewRow(w, c)
NotOwned(w, c) == lost[w] \/ ~Renewable(w, c)

\* Mutant: the row is deleted whoever owns it.
DropRowUnqualified(w, c) == lease' = [lease EXCEPT ![c] = NoRow]

\* Only the row of this grant is deleted, expired or not.
DropRow(w, c) == lease' = [lease EXCEPT ![c] = IF OwnRow(w, c) THEN NoRow ELSE @]

ReleaseLease(w, c) ==
    /\ DropRow(w, c)
    /\ grant' = [grant EXCEPT ![w] = NoGrant]
    /\ lost' = [lost EXCEPT ![w] = FALSE]
    /\ UNCHANGED <<now, issued>>

\* The process dies: the row stays behind, and expires.
LoseGrant(w) ==
    /\ grant' = [grant EXCEPT ![w] = NoGrant]
    /\ lost' = [lost EXCEPT ![w] = FALSE]
    /\ UNCHANGED <<now, lease, issued>>

Tick == now < MaxTime /\ now' = now + 1 /\ UNCHANGED <<lease, grant, lost, issued>>
=============================================================================
