------------------------ MODULE SequentialOperation ------------------------
(***************************************************************************)
(* What a daily operation promises, whoever runs it and however often the  *)
(* process running it is replaced: its history is the history of one       *)
(* worker that attempts the stages one after another, closes an attempt at *)
(* most once, never exceeds the attempt limit, and ends once.              *)
(***************************************************************************)
EXTENDS Integers

CONSTANTS NStages, MaxAttempts

Stage == 1 .. NStages

VARIABLES
    tries,     \* stage -> attempts started
    attempt,   \* stage -> state of its latest attempt
    outcome    \* "running", "completed" or "failed"

vars == <<tries, attempt, outcome>>

Init ==
    /\ tries = [s \in Stage |-> 0]
    /\ attempt = [s \in Stage |-> "none"]
    /\ outcome = "running"

Reached(s) == outcome = "running" /\ \A t \in 1 .. s - 1 : attempt[t] = "done"

Start(s) ==
    /\ Reached(s)
    /\ attempt[s] # "done"
    /\ tries[s] < MaxAttempts
    /\ tries' = [tries EXCEPT ![s] = @ + 1]
    /\ attempt' = [attempt EXCEPT ![s] = "open"]
    /\ UNCHANGED outcome

Close(s) ==
    /\ Reached(s)
    /\ attempt[s] = "open"
    /\ \E r \in {"done", "failed"} : attempt' = [attempt EXCEPT ![s] = r]
    /\ UNCHANGED <<tries, outcome>>

Complete ==
    /\ outcome = "running"
    /\ \A s \in Stage : attempt[s] = "done"
    /\ outcome' = "completed"
    /\ UNCHANGED <<tries, attempt>>

\* The stage that cannot go on has failed, or has no attempt left.
GiveUp(s) ==
    /\ Reached(s)
    /\ attempt[s] = "failed" \/ (attempt[s] = "open" /\ tries[s] = MaxAttempts)
    /\ outcome' = "failed"
    /\ UNCHANGED <<tries, attempt>>

Next == Complete \/ \E s \in Stage : Start(s) \/ Close(s) \/ GiveUp(s)

Spec == Init /\ [][Next]_vars
=============================================================================
