---------------------------- MODULE PaperLedger ----------------------------
(***************************************************************************)
(* What a client of the paper executor may count on: the orders of a       *)
(* construction are filled step by step up to the request, a fill is made  *)
(* only on top of what was recorded, and an execution is concluded once,   *)
(* when everything it asks for is filled and recorded.                     *)
(***************************************************************************)
EXTENDS Naturals

CONSTANTS Construction, Order, Request

VARIABLES
    filled,    \* amounts filled in the canonical portfolio
    recorded,  \* amounts the execution events report
    executed   \* constructions concluded

ledger == <<filled, recorded, executed>>

None == [c \in Construction |-> [o \in Order |-> 0]]

Init == filled = None /\ recorded = None /\ executed = {}

\* New fills go to the orders of one construction.
Fill(c) ==
    /\ recorded[c] = filled[c]
    /\ c \notin executed
    /\ \E amounts \in [Order -> 0 .. Request] :
        /\ \A o \in Order : amounts[o] >= filled[c][o]
        /\ filled' = [filled EXCEPT ![c] = amounts]
    /\ UNCHANGED <<recorded, executed>>

Record(c) ==
    /\ recorded' = [recorded EXCEPT ![c] = filled[c]]
    /\ UNCHANGED <<filled, executed>>

Execute(c) ==
    /\ \A o \in Order : recorded[c][o] = Request
    /\ executed' = executed \cup {c}
    /\ UNCHANGED <<filled, recorded>>

Next == \E c \in Construction : Fill(c) \/ Record(c) \/ Execute(c)

Spec == Init /\ [][Next]_ledger
=============================================================================
