----------------------------- MODULE LockService -----------------------------
(***************************************************************************)
(* The calls that src/nodes/lock_manager.py serves: acquire_lock and       *)
(* release_lock on any node, forwarded to the leader, proposed to the Raft *)
(* log, answered through the futures of pending_requests.  The commands    *)
(* act on a lock table per node, whose operators are LockTable's.          *)
(*                                                                         *)
(* Of Raft there is what the calls meet: a sequence of agreed commands     *)
(* that every node executes in order, the commands a node has in its log   *)
(* beyond the agreed ones, and who takes itself, or is taken, for leader.  *)
(***************************************************************************)
EXTENDS Integers, Sequences, FiniteSets, SequencesExt

CONSTANTS
    Node,
    Client,
    Resource,
    Call,               \* identities of calls; each is used once
    Shared, Exclusive,  \* LockType
    Nil,
    MaxElections,       \* bound: elections
    MaxRestarts         \* bound: restarts of nodes

ASSUME TypeAssumption == Shared # Exclusive
ASSUME BoundsAssumption == {MaxElections, MaxRestarts} \subseteq Nat

VARIABLES
    calls,              \* the calls: parameters, and how far they are
    held,               \* history: what clients hold, by what they were told
    pending_requests,   \* per node: the calls whose futures it keeps
    locks,              \* per node: LockManager.locks
    wait_for_graph,     \* per node: DeadlockDetector.wait_for_graph
    leaders,            \* the nodes in state LEADER
    newest,             \* the leader of the highest term, if it has not fallen
    current_leader,     \* per node: RaftNode.current_leader
    tail,               \* per node: the log beyond what is agreed
    agreed,             \* the agreed commands, in order
    last_applied,       \* per node: how many of them it executed
    elections, restarts \* how many there were

service == <<calls, held, pending_requests, locks, wait_for_graph>>
raft == <<leaders, newest, current_leader, tail, agreed, last_applied>>
vars == <<service, raft, elections, restarts>>

\* The operators on a lock table; its variables play no part in them.
Table == INSTANCE LockTable WITH
    MaxWaiting <- 0, locks <- <<>>, wait_for_graph <- <<>>, grants <- {}

\* What a call can be answered: a LockStatus, or the error of a failed handler.
Status == {"acquired", "released", "denied", "timeout", "deadlock", "error"}

ASSUME NilAssumption == Nil \notin Node \cup Status

\* at: the node that works on the call. forwarded: it came there from another
\* node. result: the value of its future. told: what the client was told.
CallRecord ==
    [op : {"acquire", "release"}, client : Client, resource : Resource,
     type : {Shared, Exclusive}, at : Node, forwarded : BOOLEAN,
     stage : {"sent", "proposing", "waiting", "done"},
     result : Status \cup {Nil}, told : Status \cup {Nil}]

Unused == [stage |-> "unused"]

Used(i) == calls[i] # Unused

Open(i) == Used(i) /\ calls[i].told = Nil

NoLocks == [r \in {} |-> Nil]
NoWaits == [c \in Client |-> {}]

Init ==
    /\ calls = [i \in Call |-> Unused]
    /\ held = {}
    /\ pending_requests = [n \in Node |-> {}]
    /\ locks = [n \in Node |-> NoLocks]
    /\ wait_for_graph = [n \in Node |-> NoWaits]
    /\ leaders = {}
    /\ newest = Nil
    /\ current_leader = [n \in Node |-> Nil]
    /\ tail = [n \in Node |-> <<>>]
    /\ agreed = <<>>
    /\ last_applied = [n \in Node |-> 0]
    /\ elections = 0
    /\ restarts = 0

-----------------------------------------------------------------------------
(* Answers *)

\* The handler of call i ends; its answer reaches the client if somebody
\* still waits for it.
Answered(i, status) ==
    [calls[i] EXCEPT !.stage = "done", !.told = IF @ = Nil THEN status ELSE @]

\* What a handler that breaks off looks like to the client, or to the node that
\* forwarded the call.
Failure(i) == IF calls[i].forwarded THEN "denied" ELSE "error"

\* What the clients hold once the calls are cs: a client holds what it was
\* told it acquired.
HeldAfter(cs) ==
    held \cup {<<cs[i].client, cs[i].resource>> :
                  i \in {j \in Call : Open(j) /\ cs[j].told = "acquired"}}

Answer(i, status) ==
    /\ calls' = [calls EXCEPT ![i] = Answered(i, status)]
    /\ held' = HeldAfter(calls')

-----------------------------------------------------------------------------
(* acquire_lock, release_lock *)

AskedFor(c, r) ==
    \E i \in Call :
        Used(i) /\ calls[i].op = "acquire" /\ calls[i].client = c /\ calls[i].resource = r

\* A client asks some node, one call at a time. It does not ask for what it
\* holds; it releases what it asked for before, told ACQUIRED or not, and does
\* not hold it any more from then on.
Ask(i, op, c, r, type, n) ==
    /\ ~Used(i)
    /\ \A j \in Call : Open(j) => calls[j].client # c
    /\ IF op = "acquire" THEN <<c, r>> \notin held ELSE AskedFor(c, r)
    /\ calls' = [calls EXCEPT ![i] =
           [op |-> op, client |-> c, resource |-> r, type |-> type, at |-> n,
            forwarded |-> FALSE, stage |-> "sent", result |-> Nil, told |-> Nil]]
    /\ held' = IF op = "release" THEN held \ {<<c, r>>} ELSE held
    /\ UNCHANGED <<pending_requests, locks, wait_for_graph, raft, elections, restarts>>

\* The leader keeps a future and appends the command to its log.
Propose(i) ==
    LET n == calls[i].at IN
    /\ Used(i) /\ calls[i].stage = "sent"
    /\ n \in leaders
    /\ calls' = [calls EXCEPT ![i].stage = "proposing"]
    /\ pending_requests' = IF calls[i].op = "acquire"
                           THEN [pending_requests EXCEPT ![n] = @ \cup {i}]
                           ELSE pending_requests
    /\ tail' = [tail EXCEPT ![n] = Append(@, i)]
    /\ UNCHANGED <<held, locks, wait_for_graph, leaders, newest, current_leader,
                   agreed, last_applied, elections, restarts>>

\* Another node sends the call to the leader it last heard of: itself, when it
\* was the leader and has not heard of another one since.
Forward(i) ==
    LET n == calls[i].at IN
    /\ Used(i) /\ calls[i].stage = "sent"
    /\ n \notin leaders
    /\ current_leader[n] # Nil
    /\ calls' = [calls EXCEPT ![i] =
           [@ EXCEPT !.at = current_leader[n], !.forwarded = TRUE]]
    /\ UNCHANGED <<held, pending_requests, locks, wait_for_graph, raft,
                   elections, restarts>>

DenyWithoutLeader(i) ==
    /\ Used(i) /\ calls[i].stage = "sent"
    /\ calls[i].at \notin leaders
    /\ current_leader[calls[i].at] = Nil
    /\ Answer(i, "denied")
    /\ UNCHANGED <<pending_requests, locks, wait_for_graph, raft, elections, restarts>>

\* Mutant of Returned: an acquire is answered like a release.
ReturnedAlways(op) == IF op = "release" THEN "released" ELSE "acquired"

\* What the return of propose tells about a command: an acquire waits for more.
Returned(op) == IF op = "release" THEN "released" ELSE Nil

\* propose returns: the round of AppendEntries is over, whatever came of it.
ProposeEnds(i) ==
    /\ Used(i) /\ calls[i].stage = "proposing"
    /\ IF Returned(calls[i].op) # Nil THEN Answer(i, Returned(calls[i].op))
       ELSE /\ calls' = [calls EXCEPT ![i].stage = "waiting"]
            /\ UNCHANGED held
    /\ UNCHANGED <<pending_requests, locks, wait_for_graph, raft, elections, restarts>>

\* The node was deposed during the round: leader_state is None, and the answer
\* of a peer raises an error.
ProposeRaises(i) ==
    /\ Used(i) /\ calls[i].stage = "proposing"
    /\ calls[i].at \notin leaders
    /\ Answer(i, Failure(i))
    /\ UNCHANGED <<pending_requests, locks, wait_for_graph, raft, elections, restarts>>

\* The call goes on with what its future was given.
Resume(i) ==
    /\ Used(i) /\ calls[i].stage = "waiting"
    /\ calls[i].result # Nil
    /\ Answer(i, calls[i].result)
    /\ UNCHANGED <<pending_requests, locks, wait_for_graph, raft, elections, restarts>>

\* Mutant of Without: the future of a call that timed out is kept.
WithFuture(n, i) == pending_requests

\* pending_requests.pop
Without(n, i) == [pending_requests EXCEPT ![n] = @ \ {i}]

TimeOut(i) ==
    /\ Used(i) /\ calls[i].stage = "waiting"
    /\ calls[i].result = Nil
    /\ Answer(i, "timeout")
    /\ pending_requests' = Without(calls[i].at, i)
    /\ UNCHANGED <<locks, wait_for_graph, raft, elections, restarts>>

\* The node that forwarded the call waits five seconds for the answer. The call
\* goes on where it is, or is lost on the way there.
ForwardFails(i) ==
    /\ Open(i) /\ calls[i].forwarded
    /\ \/ calls' = [calls EXCEPT ![i].told = "denied"]
       \/ /\ calls[i].stage = "sent"
          /\ calls' = [calls EXCEPT ![i] = Answered(i, "denied")]
    /\ UNCHANGED <<held, pending_requests, locks, wait_for_graph, raft,
                   elections, restarts>>

-----------------------------------------------------------------------------
(* _apply_command *)

\* Mutant of Resolves: whatever the status is, it is the call's answer.
ResolvesAll(status) == TRUE

\* Nothing is told to a request that is queued, then or when it is served.
Resolves(status) == status \in {"acquired", "deadlock"}

\* Node n executes the next agreed command.
Apply(n) ==
    /\ last_applied[n] < Len(agreed)
    /\ last_applied' = [last_applied EXCEPT ![n] = @ + 1]
    /\ LET i == agreed[last_applied[n] + 1]
           c == calls[i].client
           r == calls[i].resource
           type == calls[i].type
           ls == locks[n]
           g == wait_for_graph[n]
           status == Table!AcquireStatus(ls, g, c, r, type)
           resolved == /\ calls[i].op = "acquire"
                       /\ i \in pending_requests[n]
                       /\ Resolves(status)
       IN  /\ CASE calls[i].op = "acquire" ->
                     /\ locks' = [locks EXCEPT ![n] =
                            Table!LocksAfterAcquire(ls, g, c, r, type)]
                     /\ wait_for_graph' = [wait_for_graph EXCEPT ![n] =
                            Table!GraphAfterAcquire(ls, g, c, r, type)]
                [] calls[i].op = "release" /\ Table!Holds(ls, c, r) ->
                     /\ locks' = [locks EXCEPT ![n] =
                            Table!LocksAfterRelease(ls, c, r)]
                     /\ wait_for_graph' = [wait_for_graph EXCEPT ![n] =
                            Table!GraphAfterRelease(ls, g, c, r)]
                [] OTHER -> UNCHANGED <<locks, wait_for_graph>>
           /\ pending_requests' = IF resolved THEN Without(n, i)
                                  ELSE pending_requests
           /\ calls' = IF resolved THEN [calls EXCEPT ![i].result = status]
                       ELSE calls
    /\ UNCHANGED <<held, leaders, newest, current_leader, tail, agreed,
                   elections, restarts>>

-----------------------------------------------------------------------------
(* Raft, as the calls meet it *)

Majority(ns) == 2 * Cardinality(ns) > Cardinality(Node)

\* A node does not vote for one that lacks commands of its log.
Refuses(m, n) == tail[m] # tail[n] /\ IsPrefix(tail[n], tail[m])

Elect(n) ==
    /\ elections < MaxElections
    /\ n \notin leaders
    /\ Majority({m \in Node : ~Refuses(m, n)})
    /\ elections' = elections + 1
    /\ leaders' = leaders \cup {n}
    /\ newest' = n
    /\ current_leader' = [current_leader EXCEPT ![n] = n]
    /\ UNCHANGED <<service, tail, agreed, last_applied, restarts>>

\* Mutant of Deposed: only the calls that wait for their future are denied.
DeposedWaiting(n) ==
    [i \in Call |-> IF i \in pending_requests[n] /\ calls[i].stage = "waiting"
                    THEN [calls[i] EXCEPT !.result = "denied"] ELSE calls[i]]

\* _on_lose_leadership
Deposed(n) ==
    [i \in Call |-> IF i \in pending_requests[n]
                    THEN [calls[i] EXCEPT !.result = "denied"] ELSE calls[i]]

\* A leader hears of a higher term. It still takes itself for current_leader.
StepDown(n) ==
    /\ n \in leaders
    /\ leaders' = leaders \ {n}
    /\ newest' = IF newest = n THEN Nil ELSE newest
    /\ calls' = Deposed(n)
    /\ pending_requests' = [pending_requests EXCEPT ![n] = {}]
    /\ UNCHANGED <<held, locks, wait_for_graph, current_leader, tail, agreed,
                   last_applied, elections, restarts>>

\* A follower hears from the newest leader. It knows the leader from then on,
\* and takes over its log, unless the check of what precedes the entries refuses
\* them: then it knows the leader without its log.
Follow(n) ==
    /\ n \notin leaders
    /\ newest # Nil
    /\ current_leader' = [current_leader EXCEPT ![n] = newest]
    /\ tail' \in {tail, [tail EXCEPT ![n] = tail[newest]]}
    /\ UNCHANGED <<service, leaders, newest, agreed, last_applied, elections, restarts>>

\* The newest leader's next command is on a majority. A log that has another
\* command in its place will lose it and what follows it.
Agree ==
    /\ newest # Nil
    /\ tail[newest] # <<>>
    /\ LET i == Head(tail[newest])
           same == {n \in Node : tail[n] # <<>> /\ Head(tail[n]) = i}
       IN  /\ Majority(same)
           /\ agreed' = Append(agreed, i)
           /\ tail' = [n \in Node |-> IF n \in same THEN Tail(tail[n]) ELSE <<>>]
    /\ UNCHANGED <<service, leaders, newest, current_leader, last_applied,
                   elections, restarts>>

\* The log is on disk; the table, the futures and the calls are not.
Restart(n) ==
    /\ restarts < MaxRestarts
    /\ restarts' = restarts + 1
    /\ calls' = [i \in Call |-> IF Used(i) /\ calls[i].at = n
                                THEN Answered(i, Failure(i)) ELSE calls[i]]
    /\ pending_requests' = [pending_requests EXCEPT ![n] = {}]
    /\ locks' = [locks EXCEPT ![n] = NoLocks]
    /\ wait_for_graph' = [wait_for_graph EXCEPT ![n] = NoWaits]
    /\ last_applied' = [last_applied EXCEPT ![n] = 0]
    /\ leaders' = leaders \ {n}
    /\ newest' = IF newest = n THEN Nil ELSE newest
    /\ current_leader' = [current_leader EXCEPT ![n] = Nil]
    /\ UNCHANGED <<held, tail, agreed, elections>>

Next ==
    \/ \E i \in Call, c \in Client, r \in Resource, n \in Node :
        \/ \E type \in Table!LockType : Ask(i, "acquire", c, r, type, n)
        \/ Ask(i, "release", c, r, Exclusive, n)
    \/ \E i \in Call :
        \/ Propose(i) \/ Forward(i) \/ DenyWithoutLeader(i)
        \/ ProposeEnds(i) \/ ProposeRaises(i)
        \/ Resume(i) \/ TimeOut(i) \/ ForwardFails(i)
    \/ \E n \in Node : Apply(n) \/ Elect(n) \/ StepDown(n) \/ Follow(n) \/ Restart(n)
    \/ Agree

Spec == Init /\ [][Next]_vars

-----------------------------------------------------------------------------
(* Safety *)

\* Every variable holds what the code keeps in it; no client is told WAITING.
TypeOK ==
    /\ calls \in [Call -> {Unused} \cup CallRecord]
    /\ held \subseteq Client \X Resource
    /\ pending_requests \in [Node -> SUBSET Call]
    /\ \A n \in Node :
        /\ DOMAIN locks[n] \subseteq Resource
        /\ \A r \in DOMAIN locks[n] : locks[n][r] \in Table!Lock
    /\ wait_for_graph \in [Node -> Table!Graph]
    /\ leaders \subseteq Node
    /\ newest \in leaders \cup {Nil}
    /\ current_leader \in [Node -> Node \cup {Nil}]
    /\ tail \in [Node -> Seq(Call)]
    /\ agreed \in Seq(Call)
    /\ \A n \in Node : last_applied[n] \in 0..Len(agreed)
    /\ elections \in 0..MaxElections
    /\ restarts \in 0..MaxRestarts

\* pending_requests holds the futures of the calls in progress on the node
\* that nobody has answered yet, and no other: none is lost, none is left over.
PendingAreAwaited ==
    \A n \in Node : pending_requests[n] =
        {i \in Call : /\ Used(i)
                      /\ calls[i].op = "acquire"
                      /\ calls[i].at = n
                      /\ calls[i].stage \in {"proposing", "waiting"}
                      /\ calls[i].result = Nil}

\* No call waits for its future on a node that is not a leader any more.
NobodyWaitsAtFollowers ==
    \A i \in Call :
        Used(i) /\ calls[i].stage = "waiting" /\ calls[i].result = Nil
            => calls[i].at \in leaders

\* A release that its client was told has failed may be executed yet.
FailedRelease(c, r) ==
    \E i \in Call :
        /\ Used(i)
        /\ calls[i].op = "release"
        /\ calls[i].client = c
        /\ calls[i].resource = r
        /\ calls[i].told \in {"denied", "error"}

\* What a client was told it acquired, and did not ask to release since, it
\* holds in the table of every node that is up to date, over changes of the
\* leader, timeouts and restarts, and although earlier calls of it may still be
\* in progress; the exception is an earlier release that was answered a failure.
HeldIsHeld ==
    \A x \in held : \A n \in Node :
        last_applied[n] = Len(agreed) =>
            Table!Holds(locks[n], x[1], x[2]) \/ FailedRelease(x[1], x[2])

\* "request diteruskan ke leader Raft yang kemudian mereplikasi log entry ke
\* follower sebelum memberikan respons" (report.md): a release that was answered
\* RELEASED is agreed, or in the log of the leader that goes on.
ReleasedIsKept ==
    \A i \in Call :
        Used(i) /\ calls[i].told = "released" /\ newest # Nil =>
            \E j \in DOMAIN (agreed \o tail[newest]) : (agreed \o tail[newest])[j] = i
=============================================================================
