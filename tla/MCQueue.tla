------------------------------ MODULE MCQueue ------------------------------
(* Values for the constants of Queue: three nodes with two points each on   *)
(* a small circle, and the scopes of the runs.                              *)
EXTENDS Queue

CONSTANTS n1, n2, n3, m1, m2

MCNode == {n1, n2, n3}
MCMessage == {m1, m2}
MCKey == MCMessage \cup {QueueName}

MCPoints == [n \in MCNode |-> IF n = n1 THEN {1, 8} ELSE IF n = n2 THEN {3, 10} ELSE {5, 6}]

\* m1 goes to n1 and n2, or without n2 to n1 and n3; m2 to n3 and n1; who
\* consumes is sent to n3.
MCHash == [k \in MCKey |-> IF k = m1 THEN 0 ELSE IF k = m2 THEN 4 ELSE 5]

ASSUME WalkFindsNearest

\* consume asks the node of the queue's name (queue_node.py:366), publish puts a
\* message on the nodes of its id (queue_node.py:263): here m1 is not where a
\* client that consumes is sent to, although no node fails.
ASSUME ConsumeLooksElsewhere ==
    \E m \in MCMessage :
        NodeForKey(QueueName, MCNode) \notin NodesForKey(m, MCNode, ReplicationFactor)

\* Only n1 loses sight of a node, and only of n2.
MCSilent == [n \in MCNode |-> IF n = n1 THEN {n2} ELSE {}]

\* Scope: of the detector of n1 the queue reads the ring only. It goes on from
\* the two states that stand for the two rings, and the detector moves only
\* between the calls, while somebody may still read its ring.
Settled == tasks[n1] = <<>> /\ status[n1][n2] = IF n2 \in ring[n1] THEN "alive" ELSE "dead"

DetectorApart ==
    IF <<queues, calls, late, asked, faults>>' = <<queues, calls, late, asked, faults>>
    THEN asked < MaxCalls /\ \A i \in Call : calls[i] = NoCall
    ELSE Settled

\* Scope: m2 is published last, once, and at n1.
SecondMessage ==
    \A i \in Call, n \in Node, m \in Message :
        Publish(i, n, m) => rings[m2] = {} /\ (m = m2 => n = n1)
=============================================================================
