--------------------------- MODULE FailureDetector ---------------------------
(***************************************************************************)
(* The failure detector of src/communication/failure_detector.py on every  *)
(* node, with the heartbeats of src/nodes/base_node.py that feed it and    *)
(* the hash ring that the queue node keeps by its callbacks.               *)
(*                                                                         *)
(* A change to DEAD is told to the ring inside the check that finds it; a  *)
(* change to ALIVE is told by a task of its own, which runs later: other   *)
(* heartbeats and checks may come before it.                               *)
(***************************************************************************)
EXTENDS Naturals, Sequences

CONSTANTS
    Node,
    Silent,     \* bound: the peers of each node whose heartbeats may not come
    SuspectThreshold, DeadThreshold,
    MaxTasks    \* bound: callbacks of a node that wait to run

VARIABLES
    status,     \* per node and peer: NodeState.status
    missed,     \* per node and peer: NodeState.missed_heartbeats
    tasks,      \* per node: the callbacks to ALIVE that wait to run
    ring        \* per node: ConsistentHash.nodes

vars == <<status, missed, tasks, ring>>

NodeStatus == {"alive", "suspected", "dead"}

\* A callback: the peer that is back, and what it was taken for before.
Callback == [peer : Node, old : NodeStatus]

\* A detector has no entry for its own node; here it is one that never changes.
AllAlive == [p \in Node |-> "alive"]
NoneMissed == [p \in Node |-> 0]

Init ==
    /\ status = [n \in Node |-> AllAlive]
    /\ missed = [n \in Node |-> NoneMissed]
    /\ tasks = [n \in Node |-> <<>>]
    /\ ring = [n \in Node |-> Node]

-----------------------------------------------------------------------------
\* _check_nodes, of one peer: its status once `seen` heartbeats are missed.
StatusAfter(old, before, seen) ==
    IF seen <= before THEN old
    ELSE IF seen >= DeadThreshold THEN "dead"
    ELSE IF seen >= SuspectThreshold THEN "suspected"
    ELSE old

\* _check_nodes: the time since the last heartbeat of a peer only grows until
\* the next one; it is counted up to DeadThreshold. Nothing in the loop waits,
\* nor does the callback, which takes the dead off the ring.
CheckNodes(n) ==
    \E seen \in [Silent[n] -> 0 .. DeadThreshold] :
        /\ \A p \in Silent[n] : seen[p] >= missed[n][p]
        /\ missed' = [missed EXCEPT ![n] =
               [p \in Node |-> IF p \in Silent[n] THEN seen[p] ELSE @[p]]]
        /\ status' = [status EXCEPT ![n] =
               [p \in Node |-> IF p \in Silent[n]
                               THEN StatusAfter(@[p], missed[n][p], seen[p]) ELSE @[p]]]
        /\ ring' = [ring EXCEPT ![n] = @ \ {p \in Silent[n] :
               status[n][p] # "dead" /\ status'[n][p] = "dead"}]
        /\ UNCHANGED tasks

\* Mutant of OldStatus: the status is read after it was set.
StatusNow(n, p) == "alive"

\* The status that record_heartbeat hands to the callback.
OldStatus(n, p) == status[n][p]

\* record_heartbeat: a heartbeat of p arrives at n, on time or late.
RecordHeartbeat(n, p) ==
    /\ missed' = [missed EXCEPT ![n][p] = 0]
    /\ status' = [status EXCEPT ![n][p] = "alive"]
    /\ IF status[n][p] = "alive" THEN UNCHANGED tasks
       ELSE /\ Len(tasks[n]) < MaxTasks
            /\ tasks' = [tasks EXCEPT ![n] =
                   Append(@, [peer |-> p, old |-> OldStatus(n, p)])]
    /\ UNCHANGED ring

\* _on_node_status_change, to ALIVE
RunTask(n) ==
    /\ tasks[n] # <<>>
    /\ tasks' = [tasks EXCEPT ![n] = Tail(@)]
    /\ ring' = IF Head(tasks[n]).old = "dead"
               THEN [ring EXCEPT ![n] = @ \cup {Head(tasks[n]).peer}]
               ELSE ring
    /\ UNCHANGED <<status, missed>>

\* The process of n starts again.
Restart(n) ==
    /\ status' = [status EXCEPT ![n] = AllAlive]
    /\ missed' = [missed EXCEPT ![n] = NoneMissed]
    /\ tasks' = [tasks EXCEPT ![n] = <<>>]
    /\ ring' = [ring EXCEPT ![n] = Node]

\* What a detector does by itself.
Detect(n) ==
    \/ CheckNodes(n)
    \/ \E p \in Silent[n] : RecordHeartbeat(n, p)
    \/ RunTask(n)

Next == \E n \in Node : Detect(n) \/ Restart(n)

Spec == Init /\ [][Next]_vars

-----------------------------------------------------------------------------
TypeOK ==
    /\ status \in [Node -> [Node -> NodeStatus]]
    /\ missed \in [Node -> [Node -> 0 .. DeadThreshold]]
    /\ tasks \in [Node -> Seq(Callback)]
    /\ \A n \in Node : Len(tasks[n]) <= MaxTasks
    /\ ring \in [Node -> SUBSET Node]

Returns(n, p) == \E i \in DOMAIN tasks[n] : tasks[n][i] = [peer |-> p, old |-> "dead"]

\* In whatever order checks, heartbeats and callbacks come, a peer that is not
\* taken for dead is on the ring, or a callback that puts it there waits to
\* run; and a node never takes itself off its ring. (A dead peer may be on
\* the ring: when a callback to ALIVE runs after the next check found it dead.)
LiveNodesStay ==
    \A n \in Node :
        /\ n \in ring[n]
        /\ \A p \in Node \ {n} : p \in ring[n] \/ status[n][p] = "dead" \/ Returns(n, p)
=============================================================================
