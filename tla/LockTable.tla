------------------------------ MODULE LockTable ------------------------------
(***************************************************************************)
(* The state machine that src/nodes/lock_manager.py replicates: the table  *)
(* of locks, the wait-for graph of DeadlockDetector, and the two commands  *)
(* of _apply_command.  Commands reach it from the Raft log, one at a time  *)
(* and in any order the clients and the leaders produce, so every command  *)
(* is possible in every state.                                             *)
(***************************************************************************)
EXTENDS Integers, Sequences

CONSTANTS
    Client,             \* client ids
    Resource,           \* resource ids
    Shared, Exclusive,  \* LockType
    MaxWaiting          \* bound: no request joins a longer queue

ASSUME LockTypeAssumption == Shared # Exclusive
ASSUME WaitingAssumption == MaxWaiting \in Nat

VARIABLES
    locks,              \* LockManager.locks: only the resources in use
    wait_for_graph,     \* waiter -> the holders it waits for
    grants              \* history: what clients were told and did not release

vars == <<locks, wait_for_graph, grants>>

LockType == {Shared, Exclusive}

Request == [client_id : Client, lock_type : LockType]

Lock == [lock_type : LockType, holders : SUBSET Client, waiting : Seq(Request)]

Graph == [Client -> SUBSET Client]

-----------------------------------------------------------------------------
(* DeadlockDetector *)

AddWait(g, waiter, holders) ==
    [g EXCEPT ![waiter] = @ \cup (holders \ {waiter})]

\* remove_wait, for every client of cs.
RemoveWaits(g, cs) == [c \in Client |-> IF c \in cs THEN {} ELSE g[c]]

\* Mutant of RemoveHolder: the waits for a holder that left are kept.
KeepHolder(g, holder) == g

RemoveHolder(g, holder) == [c \in Client |-> g[c] \ {holder}]

\* detect_cycle(start): the search from start meets a node of its own path,
\* that is, a walk from start never has to end.
HasCycle(g, start) ==
    \E S \in SUBSET Client :
        /\ start \in S
        /\ \A c \in S : g[c] \cap S # {}

-----------------------------------------------------------------------------
(* The dictionary of locks *)

Put(ls, r, l) ==
    [x \in DOMAIN ls \cup {r} |-> IF x = r THEN l ELSE ls[x]]

Remove(ls, r) == [x \in DOMAIN ls \ {r} |-> ls[x]]

\* The lock _apply_acquire works on: a fresh one if the resource has none.
Entry(ls, r, type) ==
    IF r \in DOMAIN ls THEN ls[r]
    ELSE [lock_type |-> type, holders |-> {}, waiting |-> <<>>]

-----------------------------------------------------------------------------
(* _apply_acquire *)

\* Mutant of CanAcquire: a shared request joins a lock of either type.
SharedJoinsAny(l, c, type) ==
    \/ l.holders = {}
    \/ type = Shared
    \/ c \in l.holders

CanAcquire(l, c, type) ==
    \/ l.holders = {}
    \/ l.lock_type = Shared /\ type = Shared
    \/ c \in l.holders

\* Mutant of AcquireStatus: nobody looks for a cycle.
StatusWithoutSearch(ls, g, c, r, type) ==
    IF CanAcquire(Entry(ls, r, type), c, type) THEN "acquired" ELSE "waiting"

AcquireStatus(ls, g, c, r, type) ==
    LET l == Entry(ls, r, type) IN
    IF CanAcquire(l, c, type) THEN "acquired"
    ELSE IF HasCycle(AddWait(g, c, l.holders), c) THEN "deadlock"
    ELSE "waiting"

\* Mutant of Grant: the new holder replaces the others.
GrantAlone(l, c, type) ==
    [l EXCEPT !.lock_type = IF l.holders = {} THEN type ELSE @,
              !.holders = {c}]

\* The type changes only when the lock had no holder: a holder that asks for
\* the other type is told ACQUIRED and the lock stays what it was.
Grant(l, c, type) ==
    [l EXCEPT !.lock_type = IF l.holders = {} THEN type ELSE @,
              !.holders = @ \cup {c}]

LocksAfterAcquire(ls, g, c, r, type) ==
    LET l == Entry(ls, r, type)
        status == AcquireStatus(ls, g, c, r, type)
    IN  CASE status = "acquired" -> Put(ls, r, Grant(l, c, type))
          [] status = "waiting" ->
                Put(ls, r, [l EXCEPT !.waiting =
                    Append(@, [client_id |-> c, lock_type |-> type])])
          [] status = "deadlock" -> ls

GraphAfterAcquire(ls, g, c, r, type) ==
    IF AcquireStatus(ls, g, c, r, type) = "waiting"
    THEN AddWait(g, c, Entry(ls, r, type).holders)
    ELSE RemoveWaits(g, {c})

-----------------------------------------------------------------------------
(* _apply_release and _process_waiting *)

\* Where the run of shared requests at the head of a queue ends.
Stops(w) == {i \in 1 .. Len(w) : w[i].lock_type = Exclusive} \cup {Len(w) + 1}

RunEnd(w) == CHOOSE i \in Stops(w) : \A j \in Stops(w) : i <= j

\* Mutant of Served: one request at a time, shared ones too.
ServedSingly(w) == 1

\* How many requests _process_waiting takes: one exclusive, or the whole run.
Served(w) == IF w[1].lock_type = Exclusive THEN 1 ELSE RunEnd(w) - 1

\* Mutant of ServedClients: the requests themselves become holders.
ServedRequests(w) == {w[i] : i \in 1 .. Served(w)}

ServedClients(w) == {w[i].client_id : i \in 1 .. Served(w)}

ProcessWaiting(l) ==
    [lock_type |-> l.waiting[1].lock_type,
     holders   |-> l.holders \cup ServedClients(l.waiting),
     waiting   |-> SubSeq(l.waiting, Served(l.waiting) + 1, Len(l.waiting))]

\* Mutant of PassesOn: the holders are looked at before the release.
PassesOnEarly(l, c) == l.holders = {} /\ l.waiting # <<>>

\* The last holder leaves and somebody waits.
PassesOn(l, c) == l.holders = {c} /\ l.waiting # <<>>

LockAfterRelease(l, c) ==
    LET left == [l EXCEPT !.holders = @ \ {c}] IN
    IF PassesOn(l, c) THEN ProcessWaiting(left) ELSE left

LocksAfterRelease(ls, c, r) ==
    LET l == LockAfterRelease(ls[r], c) IN
    IF l.holders = {} /\ l.waiting = <<>> THEN Remove(ls, r) ELSE Put(ls, r, l)

\* remove_holder forgets who waits for c, on this resource and on others.
GraphAfterRelease(ls, g, c, r) ==
    RemoveWaits(RemoveHolder(g, c),
        IF PassesOn(ls[r], c) THEN ServedClients(ls[r].waiting) ELSE {})

Holds(ls, c, r) == r \in DOMAIN ls /\ c \in ls[r].holders

-----------------------------------------------------------------------------
Init ==
    /\ locks = [r \in {} |-> [lock_type |-> Shared, holders |-> {}, waiting |-> <<>>]]
    /\ wait_for_graph = [c \in Client |-> {}]
    /\ grants = {}

\* The only kind of grant that leaves the lock in another mode than was asked
\* for: a holder of a shared lock asks for an exclusive one.
Upgrade(ls, c, r, type) ==
    type = Exclusive /\ Holds(ls, c, r) /\ ls[r].lock_type = Shared

Acquire(c, r, type) ==
    LET status == AcquireStatus(locks, wait_for_graph, c, r, type) IN
    /\ status = "waiting" => Len(Entry(locks, r, type).waiting) < MaxWaiting
    /\ locks' = LocksAfterAcquire(locks, wait_for_graph, c, r, type)
    /\ wait_for_graph' = GraphAfterAcquire(locks, wait_for_graph, c, r, type)
    /\ grants' = IF status = "acquired"
                 THEN grants \cup {[client_id |-> c, resource_id |-> r,
                                    lock_type |-> type,
                                    upgrade |-> Upgrade(locks, c, r, type)]}
                 ELSE grants

\* A release by who does not hold the lock is answered RELEASED and changes
\* nothing.
Release(c, r) ==
    /\ Holds(locks, c, r)
    /\ locks' = LocksAfterRelease(locks, c, r)
    /\ wait_for_graph' = GraphAfterRelease(locks, wait_for_graph, c, r)
    /\ grants' = {x \in grants : x.client_id # c \/ x.resource_id # r}

Next ==
    \E c \in Client, r \in Resource :
        \/ \E type \in LockType : Acquire(c, r, type)
        \/ Release(c, r)

Spec == Init /\ [][Next]_vars

-----------------------------------------------------------------------------
(* Safety *)

Grants ==
    [client_id : Client, resource_id : Resource, lock_type : LockType,
     upgrade : BOOLEAN]

\* Every variable has the type the code gives it.
TypeOK ==
    /\ DOMAIN locks \subseteq Resource
    /\ \A r \in DOMAIN locks : locks[r] \in Lock
    /\ wait_for_graph \in Graph
    /\ grants \subseteq Grants

\* A lock in exclusive mode has one holder, whatever repeated requests and
\* hand-overs from the queue made it so, and who was told ACQUIRED for an
\* exclusive lock has it in that mode until its release, unless it was told so
\* as a holder of the lock in shared mode.
WriterAlone ==
    /\ \A r \in DOMAIN locks :
         locks[r].lock_type = Exclusive => \E c \in Client : locks[r].holders = {c}
    /\ \A x \in grants : x.lock_type = Exclusive /\ ~x.upgrade =>
         /\ Holds(locks, x.client_id, x.resource_id)
         /\ locks[x.resource_id].lock_type = Exclusive

\* "Exclusive Locks: Single writer [with] exclusive access" of report.md: who
\* was told ACQUIRED for an exclusive lock is the only holder until its release.
ExclusiveAccess ==
    \A x \in grants : x.lock_type = Exclusive =>
        /\ Holds(locks, x.client_id, x.resource_id)
        /\ locks[x.resource_id].holders = {x.client_id}

\* No lost wakeup: a lock in the table has a holder, so that somebody's
\* release will serve its queue (only the release that empties holders does).
NoLostWakeup == \A r \in DOMAIN locks : locks[r].holders # {}

\* The request at the head of a queue waits for a reason: whoever is served
\* from it takes everybody who could be served with it.
HeadConflicts ==
    \A r \in DOMAIN locks :
        locks[r].lock_type = Shared /\ locks[r].waiting # <<>>
            => locks[r].waiting[1].lock_type = Exclusive

\* A client that was told ACQUIRED holds the lock until it releases it.
GrantsHeld == \A x \in grants : Holds(locks, x.client_id, x.resource_id)

\* Whom a client really waits for: the holders of what it is queued on.
Queued(ls, c, r) ==
    \E i \in DOMAIN ls[r].waiting : ls[r].waiting[i].client_id = c

RealWaits(ls) ==
    [c \in Client |->
        {h \in Client \ {c} :
            \E r \in DOMAIN ls : Queued(ls, c, r) /\ h \in ls[r].holders}]

\* The detector's graph holds no wait that is over: remove_wait and
\* remove_holder leave nothing stale behind.
WaitsReal == \A c \in Client : wait_for_graph[c] \subseteq RealWaits(locks)[c]

\* Refusing the request that would close a cycle keeps the graph free of them,
\* so a cycle found from the requester is always the requester's own.
WaitsAcyclic == \A c \in Client : ~HasCycle(wait_for_graph, c)

\* No false alarm: a request answered DEADLOCK would really have joined a
\* circle of clients that wait for each other.
NoFalseDeadlock ==
    \A c \in Client, r \in Resource, type \in LockType :
        AcquireStatus(locks, wait_for_graph, c, r, type) = "deadlock"
            => HasCycle(AddWait(RealWaits(locks), c, Entry(locks, r, type).holders), c)

\* "Deadlock Detection" of report.md, checked at every lock request: clients
\* never wait for each other in a circle.
DeadlocksDetected == \A c \in Client : ~HasCycle(RealWaits(locks), c)
=============================================================================
