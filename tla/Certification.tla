---------------------------- MODULE Certification ----------------------------
(***************************************************************************)
(* The certification graph of comprehensive discovery: a supervisor        *)
(* (operations/dag_native_comprehensive_supervision.py) runs every node in *)
(* a process of its own, which starts the provider-facing lane of the node *)
(* as a further process of its group.  Nodes that qualified stay on disk;  *)
(* retryable failures are run again before the deadline                    *)
(* (operations/retryable_certification_node_requeue.py); and a supervisor  *)
(* that dies is followed by another one after the processes on the journal *)
(* have been reaped (operations/comprehensive_descendant_reaper.py).       *)
(***************************************************************************)
EXTENDS Integers, FiniteSets

CONSTANTS
    Node,         \* the nodes of one release and decision epoch
    Provider,     \* provider groups
    Groups,       \* provider_groups of a node
    Needs,        \* dependencies of a node
    Rank,         \* order of deadline, priority and identifier
    Capacity,     \* provider capacity
    WorkerLimit,  \* _worker_count
    NoNode,       \* stands for "no node at hand"
    MaxFaults     \* bound: deaths, exceptions, failed writes and launches

ASSUME CertificationConstants ==
    /\ NoNode \notin Node
    /\ Groups \in [Node -> (SUBSET Provider) \ {{}}]  \* _provider_groups names one at least
    /\ Needs \in [Node -> SUBSET Node]
    /\ Rank \in [Node -> Nat]
    /\ Capacity \in [Provider -> Nat \ {0}]
    /\ WorkerLimit \in Nat \ {0} /\ MaxFaults \in Nat

Verdict == {"none", "qualified", "failed", "retryable"}

VARIABLES
    record,     \* durable: the file of each node
    manifest,   \* durable: the verdicts in latest.json
    journal,    \* durable: runtime-latest.json, how a running node is known:
                \* by its process alone or also as the leader of its group
    child,      \* the process of a node and its lane
    msg,        \* the result a process has sent
    orphan,     \* nodes whose process outlived the supervisor, until reaped
    stray,      \* nodes with a lane that nobody supervises or can reap
    late,       \* the deadline of the nodes has passed
    stale,      \* the epoch has no time left for a restart
    pc, pending, running, result, failures, free,  \* the locals of the run
    ready,      \* running nodes whose readiness message was read
    todo, cur, submitted, completed,               \* of one round of its loop
    torn,       \* history: a lease was returned while its node was running
    faults

disk == <<record, manifest, journal>>
tree == <<child, msg, orphan, stray>>
time == <<late, stale>>
round == <<todo, cur, submitted, completed>>
run == <<pending, running, result, failures, free, ready>>
vars == <<disk, tree, time, pc, run, round, torn, faults>>

Nothing(x) == [n \in Node |-> x]

Init ==
    /\ record = Nothing("none") /\ manifest = Nothing("none") /\ journal = Nothing("none")
    /\ child = Nothing("none") /\ msg = Nothing("none")
    /\ orphan = {} /\ stray = {}
    /\ late = FALSE /\ stale = FALSE
    /\ pc = "load"
    /\ pending = {} /\ running = {} /\ result = Nothing("none") /\ failures = {}
    /\ free = Capacity /\ ready = {}
    /\ todo = {} /\ cur = NoNode /\ submitted = FALSE /\ completed = FALSE
    /\ torn = FALSE /\ faults = 0

Fault == faults < MaxFaults /\ faults' = faults + 1

\* _publish_runtime_journal: every running node without a result, with what is
\* known of its group.
Journal(nodes) ==
    [n \in Node |-> IF n \notin nodes \/ result[n] # "none" THEN "none"
                   ELSE IF n \in ready THEN "group" ELSE "alone"]

Qualified == {n \in Node : result[n] = "qualified"}
-----------------------------------------------------------------------------
(* The process of a node: it becomes the leader of a group, says that it   *)
(* is ready, starts the lane, waits for it and sends the result.           *)

ChildReady(n) ==
    /\ child[n] = "starting" /\ child' = [child EXCEPT ![n] = "lane"]
    /\ UNCHANGED <<disk, msg, orphan, stray, time, pc, run, round, torn, faults>>

LaneEnds(n) ==
    /\ child[n] = "lane" /\ child' = [child EXCEPT ![n] = "sent"]
    /\ \E verdict \in {"qualified", "failed", "retryable"} :
        msg' = [msg EXCEPT ![n] = verdict]
    /\ UNCHANGED <<disk, orphan, stray, time, pc, run, round, torn, faults>>

ChildExits(n) ==
    /\ child[n] = "sent" /\ child' = [child EXCEPT ![n] = "exited"]
    /\ UNCHANGED <<disk, msg, orphan, stray, time, pc, run, round, torn, faults>>

\* The process dies without a result; the lane dies with it or goes on alone.
ChildDies(n) ==
    /\ child[n] \in {"starting", "lane"} /\ child' = [child EXCEPT ![n] = "exited"]
    /\ stray' \in {stray} \cup (IF child[n] = "lane" THEN {stray \cup {n}} ELSE {})
    /\ Fault
    /\ UNCHANGED <<disk, msg, orphan, time, pc, run, round, torn>>

\* A lane without a supervisor comes to its end.
LaneFades(n) ==
    /\ n \in orphan \cup stray
    /\ orphan' = orphan \ {n} /\ stray' = stray \ {n}
    /\ UNCHANGED <<disk, child, msg, time, pc, run, round, torn, faults>>

\* _stop_process: the group when it is known, the process alone otherwise.  A
\* lane that has started in the meantime is then left behind.  A lane here is one
\* that stays in the session of its node; what a lane runs in a session of its
\* own (operations/supervised_component_execution.py) no signal to the group
\* reaches, and no step here speaks of it.
Survivors(nodes) == {n \in nodes : child[n] = "lane" /\ n \notin ready}

\* The run is over, by an exception or because the process is gone.
Forget ==
    /\ pending' = {} /\ running' = {} /\ result' = Nothing("none") /\ failures' = {}
    /\ free' = Capacity /\ ready' = {} /\ torn' = FALSE
    /\ todo' = {} /\ cur' = NoNode /\ submitted' = FALSE /\ completed' = FALSE
    /\ child' = Nothing("none") /\ msg' = Nothing("none")

\* The finally clause stops the running nodes and returns their leases.  A lease
\* too many raises there as well, and the nodes that are left go on.
Abort(nodes, lanes) ==
    /\ pc' = "failed"
    /\ \E left \in SUBSET nodes :
        /\ left # {} => torn
        /\ orphan' = orphan \cup {n \in left : child[n] \in {"starting", "lane"}}
        /\ stray' = stray \cup lanes \cup Survivors(nodes \ left)
    /\ Forget
-----------------------------------------------------------------------------
(* submit_ready.                                                           *)

\* Mutant of Load: what qualified in an earlier run is not reused.
LoadNothing ==
    /\ pc = "load" /\ pc' = "submit"
    /\ pending' = Node
    /\ result' = Nothing("none")
    /\ failures' = {} /\ free' = Capacity
    /\ journal' = Nothing("none")
    /\ submitted' = FALSE /\ completed' = FALSE
    /\ UNCHANGED <<record, manifest, tree, time, running, ready, todo, cur, torn, faults>>

\* Nodes whose file says qualified are results of this run; the journal starts
\* without running nodes.
Load ==
    /\ pc = "load" /\ pc' = "submit"
    /\ pending' = {n \in Node : record[n] # "qualified"}
    /\ result' = [n \in Node |-> IF record[n] = "qualified" THEN "qualified" ELSE "none"]
    /\ failures' = {} /\ free' = Capacity
    /\ journal' = Nothing("none")
    /\ submitted' = FALSE /\ completed' = FALSE
    /\ UNCHANGED <<record, manifest, tree, time, running, ready, todo, cur, torn, faults>>

\* Ready nodes for which every provider has a lease left and there is a worker.
Launchable ==
    {n \in pending :
        /\ Needs[n] \subseteq Qualified \ failures
        /\ Cardinality(running) < WorkerLimit
        /\ \A p \in Groups[n] : free[p] > 0}

Return(n) == [p \in Provider |-> IF p \in Groups[n] THEN free[p] + 1 ELSE free[p]]

Failed(nodes, verdict) ==
    /\ record' = [n \in Node |-> IF n \in nodes THEN verdict ELSE record[n]]
    /\ result' = [n \in Node |-> IF n \in nodes THEN verdict ELSE result[n]]
    /\ failures' = failures \cup nodes

\* The first node in order is launched, before the journal says so.
Launch(n) ==
    /\ pc = "submit" /\ n \in Launchable
    /\ \A m \in Launchable : Rank[n] <= Rank[m]
    /\ pending' = pending \ {n}
    /\ submitted' = TRUE
    /\ \/ /\ free' = [p \in Provider |-> IF p \in Groups[n] THEN free[p] - 1 ELSE free[p]]
          /\ running' = running \cup {n}
          /\ child' = [child EXCEPT ![n] = "starting"]
          /\ msg' = [msg EXCEPT ![n] = "none"]
          /\ pc' = "journal" /\ cur' = n
          /\ UNCHANGED <<record, result, failures, journal, faults>>
       \/ \* The node cannot be pickled or spawned: its lease is returned.
          /\ Fault
          /\ Failed({n}, "failed")
          /\ journal' = Journal(running)
          /\ UNCHANGED <<free, running, child, msg, pc, cur>>
    /\ UNCHANGED <<manifest, orphan, stray, time, ready, todo, completed, torn>>

WriteJournal ==
    /\ pc = "journal" /\ pc' = "submit"
    /\ journal' = Journal(running)
    /\ cur' = NoNode
    /\ UNCHANGED <<record, manifest, tree, time, run, todo, submitted, completed, torn, faults>>

\* The journal cannot be written: the lease is returned and the node has failed,
\* but it stays among the running nodes.  A second journal follows, unless that
\* or the record of the failure cannot be written either.
JournalFails ==
    /\ pc = "journal" /\ Fault
    /\ \/ /\ pc' = "submit"
          /\ free' = Return(cur)
          /\ Failed({cur}, "failed")
          /\ journal' = Journal(running \ {cur})
          /\ cur' = NoNode /\ torn' = TRUE
          /\ UNCHANGED <<tree, pending, running, ready, todo, submitted, completed>>
       \/ /\ record' \in {record, [record EXCEPT ![cur] = "failed"]}
          /\ Abort(running, {})
          /\ UNCHANGED journal
    /\ UNCHANGED <<manifest, time>>

EndSubmit ==
    /\ pc = "submit" /\ Launchable = {} /\ pc' = "poll"
    /\ todo' = running
    /\ UNCHANGED <<disk, tree, time, run, cur, submitted, completed, torn, faults>>
-----------------------------------------------------------------------------
(* The round of polls, and the end of a round.                             *)

\* Mutant of Overdrawn: a lease too many is not noticed.
NeverOverdrawn(n) == FALSE

\* A bounded semaphore refuses a lease that was returned before.
Overdrawn(n) == \E p \in Groups[n] : free[p] = Capacity[p]

\* The lease is returned, the verdict is written and the journal follows.
Settle(n, verdict, lanes) ==
    \/ /\ Overdrawn(n)
       /\ Abort(running \ {n}, lanes)
       /\ UNCHANGED <<disk, faults>>
    \/ /\ ~Overdrawn(n)
       /\ running' = running \ {n} /\ ready' = ready \ {n}
       /\ free' = Return(n)
       /\ child' = [child EXCEPT ![n] = "none"] /\ msg' = [msg EXCEPT ![n] = "none"]
       /\ record' = [record EXCEPT ![n] = verdict]
       /\ result' = [result EXCEPT ![n] = verdict]
       /\ failures' = IF verdict = "qualified" THEN failures ELSE failures \cup {n}
       /\ journal' = [Journal(running) EXCEPT ![n] = "none"]
       /\ todo' = todo \ {n} /\ completed' = TRUE
       /\ pc' = "poll" /\ cur' = NoNode
       /\ stray' = stray \cup lanes
       /\ UNCHANGED <<manifest, orphan, pending, submitted, torn, faults>>

\* The readiness message is read; nothing else is looked at in this round.
PollReady(n) ==
    /\ pc = "poll" /\ n \in todo \ ready
    /\ child[n] = "lane" \/ msg[n] # "none"
    /\ ready' = ready \cup {n} /\ todo' = todo \ {n}
    /\ UNCHANGED <<disk, tree, time, pc, pending, running, result, failures, free,
                   cur, submitted, completed, torn, faults>>

\* A result is read and the process joined; one that does not end has failed.
PollResult(n) ==
    /\ pc = "poll" /\ n \in todo \cap ready /\ msg[n] # "none"
    /\ \E verdict \in {msg[n]} \cup (IF child[n] = "sent" THEN {"failed"} ELSE {}) :
        Settle(n, verdict, {})
    /\ UNCHANGED time

\* The pipe ends without a result.
PollEnd(n) ==
    /\ pc = "poll" /\ n \in todo /\ child[n] = "exited" /\ msg[n] = "none"
    /\ Settle(n, "failed", {})
    /\ UNCHANGED time

PollEmpty(n) ==
    /\ pc = "poll" /\ n \in todo
    /\ child[n] = IF n \in ready THEN "lane" ELSE "starting"
    /\ pc' = "check" /\ cur' = n
    /\ UNCHANGED <<disk, tree, time, run, todo, submitted, completed, torn, faults>>

\* The pipe was empty; by now the process may have sent a result and be gone.
CheckAlive ==
    /\ pc = "check"
    /\ \/ /\ child[cur] = "exited"
          /\ Settle(cur, "failed", {})
       \/ /\ child[cur] # "exited"
          /\ todo' = todo \ {cur} /\ cur' = NoNode /\ pc' = "poll"
          /\ UNCHANGED <<disk, tree, run, submitted, completed, torn, faults>>
    /\ UNCHANGED time

\* Mutant of TimesOut: the process is not stopped.
TimesOutOnly(n) ==
    /\ pc = "check" /\ cur = n
    /\ running' = running \ {n} /\ ready' = ready \ {n}
    /\ free' = Return(n)
    /\ record' = [record EXCEPT ![n] = "failed"]
    /\ result' = [result EXCEPT ![n] = "failed"]
    /\ failures' = failures \cup {n}
    /\ journal' = [Journal(running) EXCEPT ![n] = "none"]
    /\ todo' = todo \ {n} /\ completed' = TRUE
    /\ pc' = "poll" /\ cur' = NoNode
    /\ UNCHANGED <<manifest, tree, time, pending, submitted, torn, faults>>

\* No readiness, no progress for too long, or the absolute cap: the process is
\* stopped, and what it has sent since the pipe was read is not looked at.
TimesOut(n) ==
    /\ pc = "check" /\ cur = n
    /\ Settle(n, "failed", Survivors({n}))
    /\ UNCHANGED time

\* Mutant of Stuck: a node that has just been settled does not count.
StuckEarly == running = {} /\ pending # {} /\ ~submitted

\* Nothing runs, nothing could be launched, and nothing came to its end.
Stuck == running = {} /\ pending # {} /\ ~submitted /\ ~completed

EndRound ==
    /\ pc = "poll" /\ todo = {}
    /\ \/ /\ Stuck
          /\ Failed(pending, "failed")
          /\ pending' = {} /\ journal' = Nothing("none")
          /\ pc' = "finish"
       \/ /\ ~Stuck
          /\ pc' = IF pending \cup running = {} THEN "finish" ELSE "submit"
          /\ UNCHANGED <<record, result, failures, pending, journal>>
    /\ submitted' = FALSE /\ completed' = FALSE
    /\ UNCHANGED <<manifest, tree, time, running, free, ready, todo, cur, torn, faults>>
-----------------------------------------------------------------------------
(* The manifest, the requeue, deaths and restarts.                         *)

\* Mutant of FailedNodes: only failures without a retry hint count.
FailedForGood(verdicts) == {n \in Node : verdicts[n] = "failed"}

FailedNodes(verdicts) == {n \in Node : verdicts[n] \in {"failed", "retryable"}}

Finish ==
    /\ pc = "finish"
    /\ manifest' = result
    /\ journal' = Nothing("none")
    /\ pc' = IF FailedNodes(result) = {} THEN "certified" ELSE "requeue"
    /\ Forget
    /\ UNCHANGED <<record, orphan, stray, time, faults>>

\* Mutant of Requeue: the deadline is not looked at.
RequeueLate ==
    /\ pc = "requeue"
    /\ pc' = IF \A n \in FailedNodes(manifest) : manifest[n] = "retryable" THEN "load" ELSE "failed"
    /\ UNCHANGED <<disk, tree, time, run, round, torn, faults>>

\* The graph is run again after the latest of the retry hints, if every failure
\* has one and they all lie before the deadline.
Requeue ==
    /\ pc = "requeue"
    /\ \/ /\ ~late /\ \A n \in FailedNodes(manifest) : manifest[n] = "retryable"
          /\ pc' = "load"
       \/ pc' = "failed"
    /\ UNCHANGED <<disk, tree, time, run, round, torn, faults>>

\* A write of the run raises: the running nodes are stopped and the stage fails.
Raise ==
    /\ pc \in {"load", "submit", "poll", "check", "finish"}
    /\ Fault
    /\ Abort(running, {})
    /\ UNCHANGED <<disk, time>>

\* The supervisor is killed, or terminated because the epoch is stale.  A process
\* that was starting ends at its broken pipe; the others go on without it.
Crash ==
    /\ pc \notin {"certified", "failed", "down", "reaped"}
    /\ Fault \/ (stale /\ UNCHANGED faults)
    /\ pc' = "down"
    /\ orphan' = {n \in Node : child[n] = "lane"}
    /\ Forget
    /\ UNCHANGED <<disk, stray, time>>

\* reap_stale_comprehensive_descendants: of the orphans on the journal the group
\* is killed if the journal knows it, and the process without its lane if not.
Reap ==
    /\ pc = "down" \/ (pc = "failed" /\ orphan # {})
    /\ pc' = IF pc = "down" THEN "reaped" ELSE pc
    /\ stray' = stray \cup {n \in orphan : journal[n] # "group"}
    /\ orphan' = {}
    /\ UNCHANGED <<disk, child, msg, time, run, round, torn, faults>>

\* The coordinator starts the stage again while the epoch has time left.
Restart ==
    /\ pc = "reaped" /\ pc' = IF stale THEN "failed" ELSE "load"
    /\ UNCHANGED <<disk, tree, time, run, round, torn, faults>>

TimePasses ==
    /\ \/ ~late /\ late' = TRUE /\ UNCHANGED stale
       \/ ~stale /\ stale' = TRUE /\ UNCHANGED late
    /\ UNCHANGED <<disk, tree, pc, run, round, torn, faults>>

Supervise ==
    \/ Load \/ WriteJournal \/ EndSubmit \/ CheckAlive \/ EndRound
    \/ Finish \/ Requeue \/ Reap \/ Restart
    \/ \E n \in Node : Launch(n) \/ PollReady(n) \/ PollResult(n) \/ PollEnd(n) \/ PollEmpty(n)

Next ==
    \/ Supervise \/ JournalFails \/ Raise \/ Crash \/ TimePasses
    \/ \E n \in Node : \/ ChildReady(n) \/ LaneEnds(n) \/ ChildExits(n) \/ ChildDies(n)
                       \/ LaneFades(n) \/ TimesOut(n)

\* The supervisor goes on and is started again after a death; the deadline comes;
\* and a node that neither answers nor ends runs out of its budget.  Nothing is
\* assumed of the nodes themselves.
Spec ==
    /\ Init /\ [][Next]_vars
    /\ WF_vars(Supervise) /\ WF_vars(TimePasses)
    /\ \A n \in Node : SF_vars(TimesOut(n))
-----------------------------------------------------------------------------
(* What the graph promises.                                                *)

Label == {"load", "submit", "journal", "poll", "check", "finish", "requeue",
          "certified", "failed", "down", "reaped"}

\* Types of the files, of the processes and of the locals of the run.
CertificationTypeOK ==
    /\ record \in [Node -> Verdict] /\ manifest \in [Node -> Verdict]
    /\ journal \in [Node -> {"none", "alone", "group"}]
    /\ child \in [Node -> {"none", "starting", "lane", "sent", "exited"}]
    /\ msg \in [Node -> Verdict]
    /\ orphan \subseteq Node /\ stray \subseteq Node
    /\ late \in BOOLEAN /\ stale \in BOOLEAN /\ pc \in Label
    /\ pending \subseteq Node /\ running \subseteq Node /\ result \in [Node -> Verdict]
    /\ failures \subseteq Node /\ ready \subseteq Node
    /\ free \in [Provider -> Nat] /\ \A p \in Provider : free[p] <= Capacity[p]
    /\ todo \subseteq Node /\ cur \in Node \cup {NoNode}
    /\ submitted \in BOOLEAN /\ completed \in BOOLEAN /\ torn \in BOOLEAN
    /\ faults \in 0..MaxFaults

\* Work that qualified is never repeated and never lost: neither a later failure
\* of another node nor a requeue, a death of the supervisor or a failed write
\* launches the node again or replaces its file.
QualifiedIsKept ==
    [][\A n \in Node : record[n] = "qualified" =>
        record'[n] = "qualified" /\ child'[n] \in {child[n], "none"}]_vars

\* A node is given up without having run only if one of its dependencies did not
\* qualify: never because a lease was still out when the round ended.
BlockedOnlyByFailure ==
    [][\A n \in pending : pc = "poll" /\ result'[n] = "failed" => Needs[n] \ Qualified # {}]_vars

\* The graph is certified only with every node qualified on disk, and the manifest
\* says of no node that it qualified before its file does.
CertifiedIsQualified ==
    /\ pc = "certified" => \A n \in Node : record[n] = "qualified"
    /\ \A n \in Node : manifest[n] = "qualified" => record[n] = "qualified"

Live(n) == child[n] \in {"starting", "lane", "sent"}

\* The node processes of the supervisor stay within the number of workers, and
\* within the capacity of every provider until a failed journal returns the lease
\* of a running node: a lease comes back only after the process it stands for has
\* been stopped.  Lanes left behind by a node or by a dead supervisor hold no
\* lease and are not counted.
LanesWithinBudget ==
    /\ Cardinality({n \in Node : Live(n)}) <= WorkerLimit
    /\ ~torn => \A p \in Provider :
                    Cardinality({n \in Node : Live(n) /\ p \in Groups[n]}) <= Capacity[p]

\* The run of the graph comes to its end whatever the nodes do: they hang, die,
\* or ask for a retry again and again.
RunEnds == <>(pc \in {"certified", "failed"})

\* Lanes on the journal of a supervisor that died are gone before the stage starts
\* again ("so no later attempt can overlap them", run_stage_isolated_evidence_
\* pipeline.py:765).  The code does not keep it: the journal is written right after
\* the launch, when the group of the node is not known yet, and perhaps never again.
JournaledAreReaped ==
    [][pc = "down" /\ pc' = "reaped" =>
        \A n \in orphan : journal[n] # "none" => n \notin stray']_vars
=============================================================================
