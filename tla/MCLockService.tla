--------------------------- MODULE MCLockService ---------------------------
(* Values for the constants of LockService: three nodes and two clients.     *)
(* No definition tells calls apart.                                          *)
EXTENDS LockService, TLC

CONSTANTS n1, n2, n3, c1, c2

Symmetry == Permutations(Call)

\* Commands some log has or had.
Logged ==
    UNION {{tail[n][j] : j \in DOMAIN tail[n]} : n \in Node}
    \cup {agreed[j] : j \in DOMAIN agreed}

\* Of a call that is over, its command if a log has it, and whether it was a
\* release that failed: no step and no property reads more of it.
CallsInView ==
    LET logged == Logged
    IN  [i \in Call |->
            IF ~Used(i) \/ calls[i].stage # "done" THEN calls[i]
            ELSE [command |-> IF i \in logged
                              THEN <<calls[i].op, calls[i].client, calls[i].type>>
                              ELSE <<>>,
                  failed |-> IF calls[i].op = "release" /\ calls[i].told # "released"
                             THEN <<calls[i].client, calls[i].resource>> ELSE <<>>]]

\* Whom n3 takes for leader, nobody asks it.
View == <<CallsInView, held, pending_requests, locks, wait_for_graph, leaders,
          newest, current_leader[n1], current_leader[n2], tail, agreed,
          last_applied, elections, restarts>>

\* Scope: exclusive locks; LockTable's own runs have both types.
ExclusiveOnly ==
    \A i \in Call : Used(i)' => calls'[i].type = Exclusive

\* Scope: n1 is the first leader, and leads when the first client asks; n1 and
\* n2 are asked and lead, n2 is asked from the second election on, n1 may restart
\* as the leader, n3 only votes and stores; c2 asks n1 for the lock once.
Roles ==
    /\ elections = 0 => leaders' = {n1}
    /\ n3 \notin leaders'
    /\ restarts' # restarts => elections = 1 /\ leaders' = {}
    /\ \A i, j \in Call :
           /\ Used(i)' => calls'[i].at # n3
           /\ ~Used(i) /\ Used(i)' /\ calls'[i].at = n2 => elections = 2
           /\ Used(i)' /\ calls'[i].client = c2
              /\ Used(j)' /\ calls'[j].client = c2
              => i = j /\ calls'[i].op = "acquire"
           /\ ~Used(i) /\ Used(i)' /\ calls'[i].client = c2
              => calls'[i].at = n1

\* Scope: a leader falls when there is a newer one, or at a restart.
FallsToNewer == leaders' = leaders \/ newest' # Nil \/ restarts' # restarts

\* Scope: a node executes a command while it is a leader; one that becomes
\* leader has all of them to execute still.
ExecutesAsLeader ==
    \A n \in Node : last_applied'[n] > last_applied[n] => n \in leaders
=============================================================================
