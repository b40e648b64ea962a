-------------------------------- MODULE Cache --------------------------------
(***************************************************************************)
(* The replicated cache of src/nodes/cache_node.py: an LRU cache and a     *)
(* version counter per key on every node, reads that ask the peers one by  *)
(* one, and writes that first broadcast an invalidation.  Calls run        *)
(* concurrently, on one node too: a call is suspended while it waits for   *)
(* its RPCs, and whatever else the node does happens in between.           *)
(***************************************************************************)
EXTENDS Integers, Sequences, FiniteSets, SequencesExt

CONSTANTS
    Cluster,        \* the nodes, in the order of the configuration
    Key,
    Call,           \* slots for the read and write calls in progress
    MaxSize,        \* CacheConfig.max_size
    MaxVersion,     \* bound: writes of a key that a node starts
    MaxLate,        \* bound: requests that outlive their sender's timeout
    MaxRestarts     \* bound: restarts of nodes

ASSUME ClusterAssumption == Cluster \in Seq(Range(Cluster)) /\ IsInjective(Cluster)
ASSUME SizeAssumption == MaxSize \in Nat \ {0}
ASSUME BoundsAssumption == {MaxVersion, MaxLate, MaxRestarts} \subseteq Nat

VARIABLES
    cache,          \* LRUCache.cache of every node, least recently used first
    versions,       \* CacheNode.versions
    calls,          \* the local variables of the calls in progress
    late,           \* requests to handle whose senders do not wait any more
    written,        \* history: the highest version each node gave a key
    restarts        \* how many restarts there were

vars == <<cache, versions, calls, late, written, restarts>>

Node == Range(Cluster)

State == {"modified", "exclusive", "shared", "invalid"}

\* What a client wrote, told by the node that took it and the restarts there had
\* been: with key and version that names one write, as the counters of a node
\* start again with it.
Value == [node : Node, run : Nat]

Entry == [key : Key, value : Value, state : State, version : Nat]

Idle == [op |-> "idle"]

NoAnswer == [status |-> "none"]
Missing == [status |-> "missing"]
Answers == {NoAnswer, Missing} \cup [status : {"found"}, entry : Entry]

\* peers: the nodes still to ask, the one asked now first. answer: what it
\* answered, and nothing before that.
Reading == [op : {"read"}, node : Node, key : Key, peers : Seq(Node),
            answer : Answers]

\* version: what the invalidation carries. waiting: the peers whose RPC is on.
Writing == [op : {"write"}, node : Node, key : Key, version : Nat,
            waiting : SUBSET Node]

Request == [type : {"read", "invalidate"}, to : Node, key : Key, version : Nat]

-----------------------------------------------------------------------------
(* LRUCache, on the sequence of entries of a node *)

Cached(s, k) == \E i \in DOMAIN s : s[i].key = k

Position(s, k) == CHOOSE i \in DOMAIN s : s[i].key = k

EntryOf(s, k) == s[Position(s, k)]

Without(s, k) == IF Cached(s, k) THEN RemoveAt(s, Position(s, k)) ELSE s

Valid(s, k) == Cached(s, k) /\ EntryOf(s, k).state # "invalid"

\* get: the entry becomes the most recently used one.
Touch(s, k) == IF Cached(s, k) THEN Append(Without(s, k), EntryOf(s, k)) ELSE s

\* get, then a new state for the entry.
Mark(s, k, state) ==
    IF Cached(s, k)
    THEN Append(Without(s, k), [EntryOf(s, k) EXCEPT !.state = state])
    ELSE s

\* _evict: the oldest entry that is not modified, or else the oldest one.
Victim(s) ==
    LET clean == {i \in DOMAIN s : s[i].state # "modified"}
    IN  IF clean = {} THEN 1 ELSE CHOOSE i \in clean : \A j \in clean : i <= j

\* Mutant of Evicted: one entry more than max_size fits.
EvictedLate(s) == IF Len(s) > MaxSize THEN RemoveAt(s, Victim(s)) ELSE s

Evicted(s) == IF Len(s) >= MaxSize THEN RemoveAt(s, Victim(s)) ELSE s

\* Mutant of Put: an entry that is there is refreshed, not replaced.
PutIfAbsent(s, e) ==
    IF Cached(s, e.key) THEN Touch(s, e.key) ELSE Append(Evicted(s), e)

Put(s, e) ==
    IF Cached(s, e.key) THEN Append(Without(s, e.key), e)
    ELSE Append(Evicted(s), e)

-----------------------------------------------------------------------------
(* MESIProtocol *)

\* Mutant of OnBusRead: a modified copy stays modified.
OnBusReadKeeps(e) == e.state

\* on_bus_read: whoever holds the value shares it from now on.
OnBusRead(e) == IF e.state = "invalid" THEN "invalid" ELSE "shared"

OnBusWrite == "invalid"

OnLocalWrite == "modified"

-----------------------------------------------------------------------------

OtherNodes(n) == RemoveAt(Cluster, CHOOSE i \in DOMAIN Cluster : Cluster[i] = n)

Init ==
    /\ cache = [n \in Node |-> <<>>]
    /\ versions = [n \in Node |-> [k \in Key |-> 0]]
    /\ calls = [c \in Call |-> Idle]
    /\ late = {}
    /\ written = [n \in Node |-> [k \in Key |-> 0]]
    /\ restarts = 0

\* The caller's transport gives up. The request is lost, or it was handled and
\* the answer is lost, or the peer will handle it later.
GivesUp(m) ==
    \/ UNCHANGED late
    \/ Cardinality(late) < MaxLate /\ late' = late \cup {m}

-----------------------------------------------------------------------------
(* read *)

\* A hit ends at once; a miss asks the first peer, if there is one.
StartRead(c, n, k) ==
    /\ calls[c] = Idle
    /\ cache' = [cache EXCEPT ![n] = Touch(@, k)]
    /\ calls' = [calls EXCEPT ![c] =
           IF Valid(cache[n], k) \/ OtherNodes(n) = <<>> THEN Idle
           ELSE [op |-> "read", node |-> n, key |-> k,
                 peers |-> OtherNodes(n), answer |-> NoAnswer]]
    /\ UNCHANGED <<versions, late, written, restarts>>

\* Mutant of Answer: the version is the counter of the node that answers.
AnswerWithCounter(n, k) ==
    IF ~Valid(cache[n], k) THEN Missing
    ELSE LET e == EntryOf(cache[n], k)
         IN  [status |-> "found",
             entry |-> [e EXCEPT !.state = OnBusRead(e),
                                   !.version = versions[n][k]]]

\* The response of _handle_cache_read.
Answer(n, k) ==
    IF ~Valid(cache[n], k) THEN Missing
    ELSE LET e == EntryOf(cache[n], k)
         IN  [status |-> "found",
             entry |-> [e EXCEPT !.state = OnBusRead(e)]]

\* What _handle_cache_read does to the cache of node n.
AfterBusRead(n, k) ==
    IF Valid(cache[n], k)
    THEN Mark(cache[n], k, OnBusRead(EntryOf(cache[n], k)))
    ELSE Touch(cache[n], k)

HandleRead(c) ==
    /\ calls[c].op = "read"
    /\ calls[c].answer = NoAnswer
    /\ LET p == Head(calls[c].peers)
           k == calls[c].key
       IN  /\ calls' = [calls EXCEPT ![c].answer = Answer(p, k)]
           /\ cache' = [cache EXCEPT ![p] = AfterBusRead(p, k)]
    /\ UNCHANGED <<versions, late, written, restarts>>

\* The loop goes on with the next peer, or the read returns None.
AskNext(call) ==
    IF Len(call.peers) = 1 THEN Idle
    ELSE [call EXCEPT !.peers = Tail(@), !.answer = NoAnswer]

\* The peer does not have the value, or its answer does not arrive in time.
ReadOn(c) ==
    /\ calls[c].op = "read"
    /\ calls' = [calls EXCEPT ![c] = AskNext(@)]
    /\ IF calls[c].answer = NoAnswer
       THEN GivesUp([type |-> "read", to |-> Head(calls[c].peers),
                     key |-> calls[c].key, version |-> 0])
       ELSE UNCHANGED late
    /\ UNCHANGED <<cache, versions, written, restarts>>

\* The answer replaces whatever the cache holds for the key by now.
Fill(c) ==
    /\ calls[c].op = "read"
    /\ calls[c].answer.status = "found"
    /\ LET e == calls[c].answer.entry
           state == IF e.state = "shared" THEN "shared" ELSE "exclusive"
       IN  cache' = [cache EXCEPT ![calls[c].node] =
                        Put(@, [e EXCEPT !.state = state])]
    /\ calls' = [calls EXCEPT ![c] = Idle]
    /\ UNCHANGED <<versions, late, written, restarts>>

-----------------------------------------------------------------------------
(* write *)

\* Bound: a node takes at most MaxVersion versions of a key.
MayWrite(n, k) ==
    versions[n][k] + Cardinality({c \in Call : /\ calls[c].op = "write"
                                               /\ calls[c].node = n
                                               /\ calls[c].key = k}) < MaxVersion

\* _broadcast_invalidate carries the version the node has so far.
StartWrite(c, n, k) ==
    /\ calls[c] = Idle
    /\ MayWrite(n, k)
    /\ cache' = [cache EXCEPT ![n] = Touch(@, k)]
    /\ calls' = [calls EXCEPT ![c] =
           [op |-> "write", node |-> n, key |-> k, version |-> versions[n][k],
            waiting |-> Node \ {n}]]
    /\ UNCHANGED <<versions, late, written, restarts>>

\* Mutant of AfterBusWrite: an equal version invalidates too.
BusWriteAnyway(n, k, version) ==
    IF Cached(cache[n], k) /\ version >= EntryOf(cache[n], k).version
    THEN Mark(cache[n], k, OnBusWrite)
    ELSE Touch(cache[n], k)

\* What _handle_cache_invalidate does to the cache of node n.
AfterBusWrite(n, k, version) ==
    IF Cached(cache[n], k) /\ version > EntryOf(cache[n], k).version
    THEN Mark(cache[n], k, OnBusWrite)
    ELSE Touch(cache[n], k)

\* The answer is empty, so that the handling of the request and the end of the
\* RPC are one step.
HandleInvalidate(c, p) ==
    /\ calls[c].op = "write"
    /\ p \in calls[c].waiting
    /\ calls' = [calls EXCEPT ![c].waiting = @ \ {p}]
    /\ cache' = [cache EXCEPT ![p] =
           AfterBusWrite(p, calls[c].key, calls[c].version)]
    /\ UNCHANGED <<versions, late, written, restarts>>

InvalidateFails(c, p) ==
    /\ calls[c].op = "write"
    /\ p \in calls[c].waiting
    /\ calls' = [calls EXCEPT ![c].waiting = @ \ {p}]
    /\ GivesUp([type |-> "invalidate", to |-> p, key |-> calls[c].key,
                version |-> calls[c].version])
    /\ UNCHANGED <<cache, versions, written, restarts>>

\* The counter is read after the broadcast: another write may have moved it.
NewVersion(call) == versions[call.node][call.key] + 1

FinishWrite(c) ==
    /\ calls[c].op = "write"
    /\ calls[c].waiting = {}
    /\ LET n == calls[c].node
           k == calls[c].key
           v == NewVersion(calls[c])
       IN  /\ versions' = [versions EXCEPT ![n][k] = v]
           /\ written' = [written EXCEPT ![n][k] = IF v > @ THEN v ELSE @]
           /\ cache' = [cache EXCEPT ![n] =
                  Put(@, [key |-> k, value |-> [node |-> n, run |-> restarts],
                          state |-> OnLocalWrite, version |-> v])]
    /\ calls' = [calls EXCEPT ![c] = Idle]
    /\ UNCHANGED <<late, restarts>>

-----------------------------------------------------------------------------

\* A request is handled after its sender gave up; nobody reads the answer.
HandleLate(m) ==
    /\ m \in late
    /\ late' = late \ {m}
    /\ cache' = [cache EXCEPT ![m.to] =
           IF m.type = "read" THEN AfterBusRead(m.to, m.key)
           ELSE AfterBusWrite(m.to, m.key, m.version)]
    /\ UNCHANGED <<versions, calls, written, restarts>>

\* invalidate: the client's DELETE, on this node only.
Invalidate(n, k) ==
    /\ Cached(cache[n], k)
    /\ cache' = [cache EXCEPT ![n] = Mark(@, k, "invalid")]
    /\ UNCHANGED <<versions, calls, late, written, restarts>>

\* A node starts again: nothing of the cache is on disk.
Restart(n) ==
    /\ restarts < MaxRestarts
    /\ restarts' = restarts + 1
    /\ cache' = [cache EXCEPT ![n] = <<>>]
    /\ versions' = [versions EXCEPT ![n] = [k \in Key |-> 0]]
    /\ calls' = [c \in Call |->
           IF calls[c] # Idle /\ calls[c].node = n THEN Idle ELSE calls[c]]
    /\ late' = {m \in late : m.to # n}
    /\ UNCHANGED written

Next ==
    \/ \E c \in Call, n \in Node, k \in Key :
           StartRead(c, n, k) \/ StartWrite(c, n, k)
    \/ \E c \in Call : HandleRead(c) \/ ReadOn(c) \/ Fill(c)
    \/ \E c \in Call, p \in Node :
           HandleInvalidate(c, p) \/ InvalidateFails(c, p)
    \/ \E c \in Call : FinishWrite(c)
    \/ \E m \in late : HandleLate(m)
    \/ \E n \in Node, k \in Key : Invalidate(n, k)
    \/ \E n \in Node : Restart(n)

Spec == Init /\ [][Next]_vars

-----------------------------------------------------------------------------
(* Properties *)

\* Every variable holds what the code keeps in it; a cache has room for
\* max_size entries and one entry per key.
TypeOK ==
    /\ cache \in [Node -> Seq(Entry)]
    /\ \A n \in Node :
        /\ Len(cache[n]) <= MaxSize
        /\ \A i, j \in DOMAIN cache[n] :
               cache[n][i].key = cache[n][j].key => i = j
    /\ versions \in [Node -> [Key -> Nat]]
    /\ calls \in [Call -> {Idle} \cup Reading \cup Writing]
    /\ late \subseteq Request
    /\ written \in [Node -> [Key -> Nat]]
    /\ restarts \in 0..MaxRestarts

Copies(n) == {cache[n][i] : i \in DOMAIN cache[n]}

\* A modified entry is the newest write of its node: of two writes that overlap
\* the one with the later version stays, whichever began first, and nothing
\* that a peer answered ever passes for a local write.
ModifiedIsNewest ==
    \A n \in Node : \A e \in Copies(n) :
        e.state = "modified" =>
            e.value.node = n /\ e.version = versions[n][e.key]

\* Whatever copy a node holds, also one that travelled over several nodes, is
\* a write with the version its writer gave it.
CopiesAreWrites ==
    \A n \in Node : \A e \in Copies(n) :
        e.version \in 1..written[e.value.node][e.key]

SameWrite(d, e) == d.key = e.key /\ d.value = e.value /\ d.version = e.version

\* Modified says that nobody else has the value (report.md's table of states): as
\* long as a copy is modified, no other node holds a copy of that same write, and
\* none is on its way to a node that asked for it.
ModifiedIsUnshared ==
    \A n \in Node : \A e \in Copies(n) : e.state = "modified" =>
        /\ \A m \in Node \ {n} : \A d \in Copies(m) : ~SameWrite(d, e)
        /\ \A c \in Call :
               calls[c].op = "read" /\ calls[c].answer.status = "found" =>
                   ~SameWrite(calls[c].answer.entry, e)

\* A message invalidates a copy only for a newer write: when a copy turns
\* invalid without a DELETE on its node, another node has given the key a
\* higher version than the copy has, however late the message comes.
InvalidatedByNewer ==
    [][\A n \in Node : \A k \in Key :
          /\ Valid(cache[n], k)
          /\ Cached(cache[n], k)'
          /\ ~Valid(cache[n], k)'
          /\ ~Invalidate(n, k)
          => \E m \in Node \ {n} : written[m][k] > EntryOf(cache[n], k).version]_vars

\* What the table of states says of Modified: the copy is the only one in the
\* system that is modified (report.md).
OneModified ==
    \A m, n \in Node : \A d \in Copies(m), e \in Copies(n) :
        d.key = e.key /\ d.state = "modified" /\ e.state = "modified" => m = n
=============================================================================
