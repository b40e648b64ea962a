# pynchronize in TLA+

This directory specifies pynchronize: a distributed lock manager on Raft, a
replicated cache and a distributed queue, in Python on asyncio. It holds TLA+
modules, the TLC configurations that check them, and theorems with proofs for
TLAPS. The reference is the code; where a document says something else, that is
a finding (below). Paths are relative to the repository, `raft.py:301` stands
for `src/consensus/raft.py` line 301, and so on.

    tlc -config LockTable.cfg MCLockTable       # a run
    tlapm LockTableProofs.tla                   # the proofs of a module

`PROJECT.json` lists the runs, the source lines of every definition, the
hazards, and for every property a mutation of the model that violates it.

## The system

A node is one process with one event loop (`main.py`). It runs a lock manager
with a Raft node inside, a queue node and a cache node. Between two awaits a
handler or task is atomic; at an await everything else of the node may run.

| component | state | operations | depends on |
|---|---|---|---|
| Raft (`raft.py`) | saved: `current_term`, `voted_for`, `log`; volatile: `state`, `commit_index`, `last_applied`, `leader_state`, `current_leader` | election loop, heartbeat task, `propose`, the two RPC handlers, `_try_commit`, `_apply_committed`, `_save_state`, `_load_state` | transport |
| Lock table (`lock_manager.py:29-81, 137-254`) | `locks`, `wait_for_graph` | `_apply_acquire`, `_apply_release`, `_process_waiting`, `detect_cycle` | commands from Raft |
| Lock service (`lock_manager.py:83-135, 256-376`) | `pending_requests` | `acquire_lock`, `release_lock`, forwarding, `on_lose_leadership` | Raft, lock table, transport |
| Cache (`cache_node.py`) | LRU `cache`, `versions` | `read`, `write`, `invalidate`, three message handlers | transport |
| Hash ring, message store, queue (`queue_node.py`) | `ring`, `messages`, `in_flight`, files | `publish`, `consume`, `ack`, redelivery loop | failure detector, transport |
| Failure detector (`failure_detector.py:23-121`) | missed heartbeats and status per node | `record_heartbeat`, check loop, status callbacks | base node |
| Phi accrual detector (`failure_detector.py:123-242`) | arrival intervals | `heartbeat`, `phi` | used by nothing |
| Base node (`base_node.py`) | running flag, tasks | start, stop, heartbeat task | transport, failure detector |
| Transport (`message_passing.py`) | handler table | `send` (HTTP POST, 5 s), `broadcast`, dispatch | - |
| REST front end (`main.py`) | - | passes requests on | all nodes |
| Configuration, metrics (`utils/`) | - | environment, Prometheus counters | - |

How they interact. A client asks any node for a lock; a node that does not lead
sends the request on to the node it last heard of as leader. The leader puts a
future into `pending_requests` and a command into the Raft log. `propose` sends
the log to the peers one after the other and then counts `match_index`; every
node hands committed commands to `_apply_command`, which changes the lock table
and resolves the future, if the node has it. The loss of leadership resolves all
futures with DENIED. The cache and the queue use no consensus; they send
messages to their peers and go on whatever comes of them.

What makes it hard:

* A task reads state, waits for an RPC, and goes on with what it read. The
  election counts its votes when the slowest peer has answered or timed out; a
  replication round reads `leader_state` again after each answer; a cache write
  takes its version after its broadcast; a cache read stores a peer's answer over
  what the cache holds by then.
* `send` gives up after five seconds and returns None. The request may have been
  lost, the answer may have been lost, or the peer may handle the request later,
  after newer requests or in another term. The transport does not resend, so
  nothing arrives twice.
* Heartbeat task and `propose` calls of one leader send to the same peer at the
  same time.
* The process may end anywhere, between two saves of one handler or inside one.
* Calls, timeouts, deposition and execution of one command come in any order.

What makes each component correct:

* Raft: one leader per term, one vote per term and node, logs that agree, no
  committed entry lost or replaced, all nodes apply one sequence in order, what
  a lasting leader accepts gets committed.
* Lock table: an exclusive lock has one holder (who is told so is not always that
  holder, finding 6); a lock in use has a holder and
  its queue starts with a request that conflicts with it; who was granted a lock
  holds it until release; waits in the graph are real and without a circle; an
  answer DEADLOCK is right, and a deadlock is found.
* Lock service: a future is kept exactly while a call waits for it; nobody waits
  where no answer can come; what a client is told is so in the replicated table.
* Cache: bounded, one entry per key; modified means the node's own newest write, of
  which nobody else has a copy; a copy is always a write with its version; an
  invalidation means a write of another node with a higher version.
* Hash ring: the lookup finds the nodes that come first after the key, and a node
  that leaves takes only its own keys with it.
* Queue: the file of a node holds what the node would still deliver, so that a
  restart forgets nothing; a copy that was acknowledged comes back only when its
  message is published anew; what waits on a node with a consumer is handed to the
  handler again until it is acknowledged; what an ack that every node answered has
  settled waits nowhere, and nothing that begins afterwards takes it. That a message
  can be consumed at all is not so (after the findings).
* Failure detector: whatever the order of checks, heartbeats and status tasks, a
  peer that is not taken for dead gets back on the ring.

## Modules

    ReplicatedLog <--refines-- Raft            MCRaft         RaftProofs <-- RaftAckProofs
                                                                         <-- RaftSafetyProofs
    DetectCycle <--EXTENDS-- MCLockTable
    LockTable <--INSTANCE-- LockService        MCLockTable    LockTableProofs
                                               MCLockService  LockServiceProofs
    Cache                                      MCCache        CacheProofs
    DurableQueue <--refines-- Queue            MCQueue        QueueProofs
    Ring, MessageStore <--EXTENDS-- Queue
    FailureDetector <--INSTANCE-- Queue
    Extrema: least and greatest elements of finite sets of numbers, for the proofs

### Raft

One action per stretch of code between two awaits.

* `StartElection` is `_start_election` up to its broadcast. `election[s]` holds
  the local variables until the answers are in: the request's fields, the peers
  whose RPC is on, and who granted. `AnswerVote` and `VoteRpcFails` end an RPC;
  `BecomeLeader` and `LoseElection` are the rest of the method, which runs when
  no RPC is left, whatever happened to term and state in between (the guard `Won`
  has the code's condition on the state).
* `SendHeartbeat` and `Propose` start `_send_append_entries` in a task; `sender`
  holds for each task the peer it is at, its request, and the answer when there
  is one. `AcceptReply`, `RejectReply`, `StepDownOnReply`, `AbandonRound` and
  `AppendRpcFails` resume it; after the last peer comes `_try_commit` with
  `_apply_committed`, inside the same step. The loop visits the peers in the
  order of the configuration, so `Cluster` is a sequence.
* `HandleRequestVote` and `HandleAppendEntries` never wait. They are part of the
  step in which a request meets its receiver: `AnswerVote`, `AnswerAppend` when
  the sender still waits, `AnswerStrayVote`, `AnswerStrayAppend` when it does not.
  That the answer is on its way is told by `resp`.
* `stray` is a bag of the requests nobody waits for any more. They are handled at
  any time or never. Nothing duplicates a request.
* `Restart` is a crash between steps. `CrashInHandler` is one after `_step_down`
  saved the new term and before the handler's own save, in the handler of any request:
  `CrashOnVote` and `CrashOnAppend` of one whose sender waits and gets no answer
  (`resp` is `Lost`, and the task goes on by `AppendRpcFails`), `CrashOnStray` of one
  nobody waits for. A handler saves nowhere else, so a crash at another point of it is a
  `Restart` before or after. `CrashInSave`, in `TornNext` only, is a crash inside the
  save of `_start_election`.
* `applied` is what the node handed to `command_handler` since it started;
  `last_applied` is its length. `votes`, `elections` and `chosen` are history.

`ReplicatedLog` is what the lock manager expects of it: a sequence that grows, of
which every node applies a prefix in order, from the start again after a
restart. `ImplementsReplicatedLog` instantiates it with what leaders committed.

### LockTable

The commands of `_apply_command` on `locks` and `wait_for_graph`: `Acquire` and
`Release`, possible in every state in any order, because the log may hold any
order. `LocksAfterAcquire`, `GraphAfterAcquire`, `LocksAfterRelease` and
`GraphAfterRelease` are functions of the two tables, so that LockService can use
them for the table of each node. `HasCycle` states what the depth-first search
of `detect_cycle` decides: a circle can be reached from the client that asks, that is, there
is a set of clients with the asking one in it and each waiting for another in it.
`DetectCycle` is the search itself, recursive, with who was visited and who is on the
path; the assumption `SearchDecidesHasCycle` compares the two on every graph, in every
order of the sets it goes through.
`grants` is history: what clients were told, and whether as an `Upgrade`: the one case
in which the code answers ACQUIRED and leaves the lock in another mode than was asked for.

### LockService

The calls around the lock tables of all nodes. A call has a `stage`: `sent` to a
node, `proposing` inside `propose`, `waiting` for its future, `done`. `at` is the
node that works on it and `told` what its client was told, which for a forwarded
call may come first (`ForwardFails`: DENIED after five seconds, while the call
goes on at the leader). `result` is the value of its future. Raft is reduced to
what the calls meet: `agreed`, the committed commands; `tail[n]`, what n's log has
beyond them; `leaders`, which several nodes may be at once; `newest`, the one of
the highest term; `current_leader`, also when it is out of date. A node that `Follow`s
knows the newest leader from then on (`raft.py:401`), with or without its tail, since
the check at `raft.py:410-418` may refuse the entries; `Agree` commits a command that a
majority has, `Elect` needs a majority that does not refuse for its own longer
log. An older leader's AppendEntries are left out: what they can still commit, the
newest leader has. `propose` ends, at any time, without a word on commitment,
as it does in the code.

The restriction of `Ask` is on the clients: one call at a time, no second request
for what is held, and a release only of what was asked for.

### Cache

`calls` holds the local variables of `read` and `write` calls. A read asks the
peers one by one (`HandleRead`, `ReadOn`) and stores the first answer (`Fill`). A
write broadcasts an invalidation with the version it has (`StartWrite`), waits for
all peers (`HandleInvalidate`, `InvalidateFails`), and takes the next version
(`FinishWrite`). `HandleLate` is a request handled after its sender gave up. A
cache is the sequence of its entries by time of use, so `get` moves an entry to
the end. A value is the node that wrote it and how many restarts there had been; with key and
version it names one write, since the counters of a node start again with it.
`_evict` prefers entries that are not modified; its writeback does nothing in the
code and nothing here. `EXCLUSIVE` is never the outcome of a read, because every
node that answers turns its own copy to SHARED first; `Fill` has the branch anyway.

### Queue

One queue, on all nodes. `store[n]` is the `MessageStore` of node n (module of that
name): message states, the ids of the queue in order, and the file. `Add`,
`AckMessage`, `Nack` each save; `Load` is `_load`, which keeps acknowledged messages
by id and leaves them out of the queue, so the next save drops them from the file.
`TargetNodes` and `ResponsibleNodes` look the message's id up in the ring that node n
has, `Consume` the queue's name. `Ring` describes the lookup by the distance from the
key to a node's nearest point; `Walk` is the loop of `get_nodes_for_key` over the
sorted points, and MCQueue's assumption `WalkFindsNearest` compares the two on every ring.

A call of `publish`, `ack` or `consume` does what the asked node does for itself at
once and then sends to one node after the other: `calls[i].todo` are those left, the
nearest first. `SendAnswered` has the handler in it, `SendFails` goes on without an
answer, and what was sent may be handled later (`HandleLate`), since the transport
gives up after five seconds without knowing; late requests are numbered, so that two
equal ones stay two. `loop[n]` holds the local variables of
`_consumer_loop`: the messages of the pass, and whether the handler runs or its ack is
being sent. `HandlerSucceeds` and `HandlerFails` end the handler; `Redeliver` is
`_redelivery_loop` for one message whose time is over, and may come while the handler
runs. `Restart` starts from the file, `CrashInSave` from one that cannot be read.

`rings`, `settling` and `settled` are history: by which rings a message was published,
and which acks met the message by the same ring and were answered by every node.
SettledIsOver is an action property on them: what is settled is pending nowhere, no
consume takes it, and no pass of a consumer loop that begins has it in its list. A pass
that began before goes through the list it read and looks at `in_flight` only
(`queue_node.py:326-330`): it hands a message over that was settled in the meantime, and
the run has executions in which it does.

`FailureDetector` has for each node the status and the missed heartbeats of its peers,
the tasks that `record_heartbeat` starts for a change to ALIVE, and the ring, from
which the check itself takes the dead. A heartbeat may come at any time between two
checks, or not.

`DurableQueue` is what each node's copies promise: stored is waiting until
acknowledged, acknowledged does not wait again unless published anew, a restart changes
nothing but what is remembered of acknowledgments, and a torn file may lose all.

## Runs

All clusters have three nodes, like the configuration and the compose file:
the smallest with majorities that are not everybody. A *scope* is an action or
state constraint of an MC module that leaves out behaviours, to make room for
others. Times are for two workers.

| run | instance | states | shows |
|---|---|---|---|
| raft_replication | terms to 3, logs to 2, no fault, one proposer; scopes: s1 and s2 contend, s1 first, nothing else goes on during an election, heartbeats only when a peer is behind, and in term 1 not during a client's round | 0.58 M, 30 s | LogMatching, LeaderCompleteness, ChosenOnMajority, CommittedPrefixStable and the refinement of ReplicatedLog, over two changes of the leader |
| raft_faults | terms to 2, logs to 1, 2 faults, fair; scopes: s1 and s2 contend, s1 first, the second fault is a crash of s3 in the handler of entries or of an old request, rounds start between elections, heartbeats only when they have something to bring, and in term 1 not during a client's round | 0.12 M, 80 s | TypeOK, ElectionSafety, OneVotePerTerm, LeadersAreElected, LeaderAppendOnly, ChosenOnMajority, the refinement and ProposalsCommit, with an RPC lost or late, a restart, or a crash inside the handler of any request, and a second such crash after it |
| raft_torn_save | one term, 1 fault, `TornSpec` | stops at the violation | **violates** ElectionSafety (finding 1) |
| raft_late_answer | terms to 5, logs to 2, two proposers, no fault; scopes: s1 and s2 lead in turns, what is sent in terms 1 and 2 arrives later | stops at the violation, 10 s | **violates** ChosenOnMajority (finding 2) |
| lock_table | 3 clients, 2 resources, queues to 2, both types | 0.44 M, 50 s | TypeOK, WriterAlone, NoLostWakeup, HeadConflicts, GrantsHeld, WaitsReal, WaitsAcyclic, NoFalseDeadlock |
| lock_upgrade | the same | stops at the violation | **violates** ExclusiveAccess (finding 6) |
| lock_deadlock | 2 clients, 3 resources; scope: clients that wait for one answer before they ask again | stops at the violation | **violates** DeadlocksDetected (finding 3) |
| lock_service | 2 clients, 1 resource, 3 calls, 2 elections, 1 restart; scopes below | 0.43 M, 45 s | TypeOK, PendingAreAwaited, NobodyWaitsAtFollowers, HeldIsHeld |
| lock_service_release | the same without a restart | stops at the violation | **violates** ReleasedIsKept (finding 4) |
| cache | 2 keys, room for 1 entry, 2 calls at once, versions to 2, one late request or one restart; scopes below | 1.4 M, 80 s | TypeOK, ModifiedIsNewest, CopiesAreWrites, ModifiedIsUnshared, InvalidatedByNewer |
| cache_modified | the same without faults and roles | stops at the violation | **violates** OneModified (finding 5) |
| queue | 2 messages, replication 2, 3 calls, 2 at once, 1 fault, fair; scopes below | 0.13 M, 60 s | TypeOK, FileIsCurrent, SettledIsOver, LiveNodesStay, the refinement of DurableQueue, Redelivered |

Why the bounds are enough for what the runs are about:

* Raft. Two terms give a deposed and a new leader, a vote that meets a later
  term, an election that ends in another term than it began. Three terms and
  logs of two give entries of an old term that a later leader finds on one other node,
  and brings to the rest or overwrites. They do not give the case that the rule
  `log[n].term == current_term` (`raft.py:317`) is there for, an entry of an old term
  that is on a majority and is overwritten all the same: with two leaders in turns that
  takes four. For it there is only the theorem LeadersComplete. The
  scopes of raft_replication do not order messages: requests of a deposed leader
  that were sent before an election are still handled after it.
* ChosenOnMajority, LeaderCompleteness, CommittedPrefixStable and the refinement hold in
  these runs because of the bound on terms. For every number of terms they are proved of the
  executions in which no answer is counted in a later term than it was asked for in
  (below); without that condition they are false, as raft_late_answer shows. The scopes of
  that run are the story of one execution in broad strokes, found with five terms, so that
  breadth-first search reaches it; a scope only leaves out behaviours, so the violation
  is one of Raft.tla without scopes.
* Heartbeats. A round that brings nobody anything sets next_index to what it is. In
  term 1, where all logs were empty, a heartbeat round beside a client's round
  sends the same entries to the same peers; the two kinds of round interleave freely in the
  later terms, where the logs differ.
* lock_table: three clients give two shared holders and a writer, or a circle
  of three; two resources a circle of two with a third client in a queue; queues
  of two a shared run at the head and a request behind it.
* lock_service. One resource is enough, since calls meet on one resource; the
  deadlock search has LockTable's runs. Three calls: a request, its release or
  repetition, and a second client's request. Scopes: locks are exclusive; n1 leads
  first and is where c2 asks; n1 and n2 lead and are asked, n2 from the second election on,
  n3 votes and stores; a leader
  falls when a newer one exists, or in the restart, which is n1's; a
  node executes commands while it leads, and a new leader executes all of the
  log, which finds every order of execution and deposition that a future on that
  node can tell apart. Calls that are over are reduced in the VIEW to what steps
  and properties still read, and whom n3 takes for leader is left out, since nobody asks it.
* cache: room for one entry makes every second key an eviction; k2 is written once, by
  n1 and before a restart, because all it is there for is to evict and be evicted. Roles: n1 reads
  and writes, n2 writes one key once, n3 reads, which gives two writers, a copy that
  travels from writer to reader to reader, and an invalidation behind each of them.
* raft_faults: with one entry and two terms, the first loss, delay, restart or crash falls
  at every point of one election, one proposal and one change of leader; a crash in a
  handler, also over the vote request of a candidate that waits for the answer or gave it
  up. The second fault is a crash of s3, which gives votes and stores entries and never
  leads, so that a node that missed something crashes over what it gets next. No round
  starts during an election; those of the old leader go on through it.
* queue: a circle of twelve with two points per node, on which m1 belongs to n1 and n2,
  or to n1 and n3 once n2 is off the ring, m2 to n3 and n1, and the queue's name to n3.
  n1 and n3 are asked, so calls come from a node that stores the message and from one
  that does not; n3 consumes. Only n1 loses sight of a node, and only of n2: two rings
  that differ are enough for a publish and an ack that go to different nodes. Scope
  DetectorApart: the detector of n1 moves while no call is on and more are to come,
  and the queue goes on from its settled states only, because all the queue reads of it is
  the ring; the proofs need no such scope. m2 is published last, once, at n1: it is there for
  the queue's order, for a second copy in the file and for a pass with two messages in its
  list; with two messages the limit of a pass (two) is not met. Three calls are a publish, an ack
  and one that races with either; one fault puts a late request, a restart or a torn file anywhere between.

Two runs also evaluate assumptions on all inputs of their size: lock_table
`SearchDecidesHasCycle` on the 512 graphs of three clients, queue `WalkFindsNearest` on
every ring, key and count. The queue's `ConsumeLooksElsewhere` is about its constants
(after the findings).

Deadlock is checked for the lock table and the cache, which can always go on. The Raft,
lock-service and queue runs may stop when their bounds are used up, and switch it off.

Every property has a mutant in `PROJECT.json` and in its module: a definition
with a plausible bug (a vote given twice, one vote less than a majority, conflicts
not cut, a future kept after its timeout, a version taken from before the await),
with which TLC finds the property violated.

### Fairness

`raft_faults` assumes weak
fairness of the heartbeat task waking
(`_heartbeat_loop` sleeps a bounded time), of the handling of a request whose
sender waits (an RPC ends within five seconds, one way or the other, and only
finitely many fail), and of a task resuming when its answer is there (the event
loop starves nobody). Nothing is assumed of elections, of clients, or of stray
requests. ProposalsCommit then says that an entry of a leader's own term is
committed, unless the leader is deposed or restarts; the code adds no entry at
an election, so an older entry may wait for ever for the next proposal.

`queue` assumes weak fairness of the consumer loop of each node with a consumer: it
sleeps a tenth of a second, its sends end within five, and a handler returns, one
way or the other, which is the application's to keep. And of the redelivery loop, which
runs every five seconds. Nothing is assumed of clients, nor of the network. Redelivered
says that a message among the first pending ones of such a node is handed to the handler again
and again, or stops being one of them: by an ack, or because the process lost its file.
A message behind as many that are never acknowledged as a pass takes is promised nothing.

## Findings

1. **A torn save allows two leaders in one term** (`raft.py:118`, run
   raft_torn_save). `_save_state` truncates the file before writing; `_load_state`
   takes an unreadable file for a new node. `report.md:176` promises one leader per term.
2. **An answer from an earlier term commits an entry nobody else has** (`raft.py:301`,
   raft_late_answer). `_send_append_entries` reads `leader_state` after the await and does
   not ask whether it is still in the term it sent the request in. With A, B and C: in
   term 1 A appends two entries, and its requests are slow. In term 2 B appends one. In
   term 3 A is elected again, its old rounds go on and bring both entries to C, whose answer
   is slow. In term 4 B is elected and overwrites A's log with its own. In term 5 A is
   elected with that log and appends a second entry; now C's answer arrives, position 2
   counts as acknowledged, and A commits an entry that only A has. The next
   leader need not have it. Elections take 150 to 300 ms, an answer may take five
   seconds. `report.md:85` promises that a command is committed only after it is on a majority.
3. **A release makes the detector forget other waits** (`lock_manager.py:57`,
   lock_deadlock). `remove_holder` drops the waits for a client on all resources;
   a circle through one of them is never found. `report.md:101` promises detection.
4. **RELEASED does not mean replicated** (`lock_manager.py:313`,
   lock_service_release). `propose` returns True at the end of its round whatever
   came of it; a leader change loses the release and the client holds the lock for good.
   `report.md:77` promises replication before the answer.
5. **Two nodes hold one key modified** (`cache_node.py:225`, cache_modified). The
   invalidation carries the old version and is ignored by peers with an equal one.
   `report.md:158` calls Modified exclusive.
6. **Exclusive is not always exclusive** (`lock_manager.py:165`, lock_upgrade). A holder
   of a shared lock that asks for the exclusive one is answered ACQUIRED and the lock stays
   shared: the other readers keep it, and more may join. `report.md:100` promises a single
   writer with exclusive access. WriterAlone, which holds, leaves out just these grants.

Three more facts about the code that the models have and no run violates.

* HeldIsHeld of the lock service has one exception: a forwarded release that was answered
  DENIED after five seconds is executed all the same, also when its client has acquired the
  lock again since.
* A published message may be where no consume looks (`queue_node.py:366`). `publish` places
  it by the hash of its id, `consume` asks the node of the hash of the queue's name, which
  looks into its own store only; `README.md:66-72` shows a publish followed by a
  consume. This needs no execution: `ConsumeLooksElsewhere` of MCQueue states it of the
  run's ring, on which m1 is such a message. Consumers that are
  subscribed on a node of the message get it.
* A restarted process starts its cache's counters from 0, so a version is one of its
  node's writes only together with the restart it was made after; between nodes a higher
  version says nothing about which write came later. InvalidatedByNewer means the number.

## Proofs

The proofs hold for every value of the constants; the assumptions are those of
the modules (`ASSUME`), which every run evaluates: names are different, the
bounds are natural numbers, `Cluster` lists the servers once each, Server is finite.
No theorem depends on how large a bound is.

**RaftProofs.** `TypeCorrect`: TypeOK, strengthened by LeadersReady (a leader has a
`leader_state`, which `_send_append_entries` indexes). `ElectionSafe`, `OneVote`,
`LeadersElected` follow from one invariant, `ElectionInv`, of six parts.
VotesRemembered: a vote given is not of a later term than its voter's, and if of
the same term it is in `voted_for`: what makes a second vote impossible after a restart
too. OneVotePerTerm. GrantedAreVotes: what an election has counted was given
to it. ElectionCurrent: a candidate that still waits is in the term of its election,
so the count at the end is a count for the term it will lead; without it the
late counting of `_start_election` would be a hole. WonByMajority: an election won
has the votes of a majority. LeadersAreElected. ElectionSafety follows since two
majorities of a finite set share a node (proved from FiniteSetTheorems) and that
node voted once. Steps in which nobody votes or wins are treated together (`NoVote`).

`LogsMatch`: LogMatching. That two logs match is not inductive, since requests on their
way hold pieces of logs that nobody has any more. The invariant `MatchInv` says that
there is a function F from terms to logs, the log that the leader of a term has or had
in the end, such that every log, up to any of its entries, is the beginning of F at the
term of that entry (`LogFits`); that so are the logs F itself gives; that a leader's log
is F at its term; and that the entries of every request, waited for or not, are a piece of F at
its term (`RequestFits`). F is not a variable: each step shows a new one from the old. A
proposal extends it at one term, an election sets it at a term nobody was elected in
before (ElectionsOpen, ElectedPassed), all other steps keep it. `MergeFits` is the core:
what `_handle_append_entries` makes of a log that fits and a request that fits is a log that fits,
however old the request. Two logs with the same term at a position are both F of it up
to there. `LeadersAppend` (LeaderAppendOnly): no request cuts the log of a leader, since
it comes from the leader its term elected, which is another node.

**RaftAckProofs, RaftSafetyProofs.** What is committed. `LeadersComplete`
(LeaderCompleteness), `ChosenOnMajorities` (ChosenOnMajority), `CommittedStays`
(CommittedPrefixStable) and `ImplementsLog` (the refinement of ReplicatedLog), for every
cluster, every number of terms, and every loss, delay, crash and restart. They are theorems of
`InTermSpec`, which is Spec with `[][AnswersInTerm]_vars`: whenever a success is
counted, its request was sent in the term the node is in. Of Spec alone they are false
(finding 2), so the condition is what the missing comparison at `raft.py:301` would
ensure, and nothing else: refusals and failures of earlier terms are still taken, rounds
of an earlier leadership still go on, and stray requests are still handled at any time.

The invariant has two layers, over two functions that are no variables: F, the log of the
leader of each term, as in LogsMatch, and A, how much of the log of a term's leader each
node has acknowledged to hold in that term. `AckInv` is the first layer: terms go up along logs
(LogsRise); A speaks of logs of leaders, up to the node's current term (AcksTrue); `match_index`
and the answers on their way claim no more than A (MatchAcked, RepliesAcked; this is where
AnswersInTerm is needed); and an entry that a node acknowledged in its own term is still in its
log, in the log a candidate it voted for has, and in the log of every later leader
(LogsSafe, CandidatesSafe, LeadersSafe), *or* will never be committed, because a
majority went on to later terms without acknowledging it (NeverAcked). That
alternative is what makes it inductive: an entry on a minority may be lost, and whether
it is depends on votes not yet given. `GrantedAhead` and `VoteCovers` are the core: a
vote is for a log that is at least as new, and of two such logs that fit F the newer one
has what the older one has. `CommitInv` is the second layer: what
is committed was acknowledged by a majority in the term of an entry at or behind it
(ChosenIn), so LeadersSafe gives it to all later leaders; a request's commit index
does not go beyond what its receiver has after taking it (RequestsKnown, which is why
committing up to the last entry at `raft.py:437` is sound); and what a node takes for
committed it has, and applied just that (CommitsKnown). `MatchInductive` of RaftProofs
gives both layers LogMatching.

`NodesAgree`: of what any two nodes handed to their command handlers one is an initial
segment of the other. It comes from `ImplementsLog` and a lemma on the abstract log, in
which each node applied a prefix of `chosen`.

**LockTableProofs.** The invariant is TableOK (every lock of the table has a
holder, exactly one if exclusive, and its queue begins with a conflicting request),
GraphOK (the graph is acyclic and its edges are real waits), GrantsOK. TableOK
needs the lemmas on queues (`RunEndProperties`, `ServedProperties`): what
`_process_waiting` leaves begins with a request that conflicts with whom it served.
GraphOK needs that adding edges after the search keeps the graph acyclic, that
dropping edges does, and that a release leaves no edge to somebody who no longer
holds. GrantsOK: who was told ACQUIRED holds the lock, in the mode asked for but for
the upgrade. From them: `TypeCorrect`, `ExclusiveHasOneHolder`, `QueuesAreServed`,
`HeadsAlwaysConflict`, `GrantsAreHeld`, `GraphIsSound`, `WaitsAreReal`,
`DeadlockAnswersAreReal`. `AcquireKeeps` and `ReleaseKeeps` state the steps for
any table and graph, not only for the variables.

**LockServiceProofs.** `FuturesAreAwaited` and `FollowersHaveNoWaiters`, for every
number of nodes, clients, calls, elections and restarts. PendingAreAwaited is almost
inductive; it needs that a call has no result before it is proposed, that only
an acquire waits, and that only leaders keep futures (else the error after a
deposition would leave one behind). What the tables and logs hold plays no part.
`TypeCorrect` does need it: in the logs are calls that were made, so that what a node
executes is a command. `EveryTableIsSafe` brings the two components together: on every
node, at every point of its log, table and graph satisfy the invariants of LockTable,
by `AcquireKeeps` and `ReleaseKeeps` of an instance of LockTableProofs.

`WhatIsHeldStaysHeld` is HeldIsHeld: what a client was told it acquired is its own in the
table of every node that has executed all agreed commands. The invariant, `HeldInv`, follows it
from the call to the tables. There is a sequence T, the table and graph that the first k
agreed commands make, and every node has the one of the commands it executed; a client
that holds a lock in T[p] holds it in T[k] unless a release of its own is between
(Tables). A result ACQUIRED belongs to an agreed command after which its
client holds the lock in T (ResultsTrue). For what is held there is such a position, and no log
of any node, agreed or not, has a release of it behind that (HeldCovered). That last
part needs AcquiresLast: while a request waits, every release of the lock is before it in
every log that has both. It holds since a client has one call in progress (OneOpen) and
a release that was answered RELEASED is in no `propose` any more (ReleasesTold); one that
was answered a failure may still be, which is the exception of HeldIsHeld.

**CacheProofs.** All five properties of the run, from one invariant. CachesHold: a cache
is within its size, with one line per key and lines of its type. VersionsHold: the counter of a
node is never above the highest version it wrote, over restarts too. CopiesHold: each line
is a write, a modified one at the node's counter. CallsHold and
LateHold: what travels in answers and late requests is a write, and an invalidation
carries no more than a version that another node wrote. Unshared, for
`ModifiedIsAlwaysUnshared`: a modified line has no twin in another cache or in an answer.
It needs AllGiven: every copy and answer carries a number that its writer's counter has
reached since the restart it names, so that the write that ends now, which takes the next
number, is one nobody can have a copy of yet; and that a node which answers a read has
turned its own copy to SHARED in the same step.

**QueueProofs, the ring.** `NodeForKeyIsUnique`: a key has one nearest node, since points of
different nodes differ. `MinimalRedistribution`: when a node leaves, the nodes of every
key that remain keep it, and a key that was not on it stays as it is.

**QueueProofs, the queue.** `StoresHold` (every id in a queue or a file is a message the store
knows, a message that is pending is in the queue, and the file is what the queue's last
save wrote) gives `FileIsAlwaysCurrent`, and that `Load` of the file loses nothing: the
restart step of the refinement `QueueIsDurable`. `RestHolds` types calls, loops and
detectors; the detector's part needs that a peer taken for dead has missed
DeadThreshold heartbeats, so that a check does not find it dead again while the task
that brings it back waits: `LiveNodesAlwaysStay`. `SettleInv` is behind `SettledIsAlwaysOver`:
while a message may still be settled its copies are only where the ring of the
publish puts them, and pending ones only among the nodes that the ack is still to ask. From
there on no store has it pending, and what a consume or a pass takes is pending.

Every invariant, action property and refinement that a passing run checks is
proved, those of what Raft commits under AnswersInTerm. Only model-checked:
ProposalsCommit and Redelivered stay with TLC since liveness under fairness and ENABLED
are out of the prover's reach, `SearchDecidesHasCycle` because the search is recursive,
`WalkFindsNearest` because the walk is.

## Not modelled

* Time. Timers, the 5 s limit and election timeouts are steps that may happen;
  that a split vote is unlikely, or an election slow, is not expressed.
* `_save_state` swallows its errors: the model has saves that succeed, and the torn one.
* Of the queue: counters of attempts and `get_queue_info`, which nothing depends on;
  handlers subscribed while the node runs; a second queue, which shares with the first
  no more than `in_flight` and the ring; a disk that fails.
* Of the base node: the start of its parts and the orderly stop. That one peer which
  hangs holds up the heartbeats to the others is a matter of time; the model lets any
  heartbeat be late.
* Phi accrual detector: unused, floating-point statistics.
* REST front end, configuration, metrics, HTTP and JSON: no control state. Of note:
  `main.py` starts three base nodes on the same host and port and three metrics
  collectors with the same Prometheus names.
* `CACHE_WRITE` messages and `on_local_read`, which nothing sends or calls.
* `stop` and `_on_stop`: a node that ends is one that crashes.
* Queued lock requests that are served are told nothing (`_process_waiting` resolves
  no future): the model has it so, and no property demands otherwise.

## Plan

Done, in this order: ReplicatedLog, Raft, LockTable, their proofs, Cache, LockService
and its proofs; Ring, MessageStore, FailureDetector, Queue and DurableQueue, DetectCycle;
the proofs of Ring, Queue and Cache, the tables of LockService, LogMatching; HeldIsHeld,
and what Raft commits.

Left:

1. Extend. Answers to calls under fairness in LockService. Two queues, for
   `in_flight`, which they share.
2. Prove. That a node which restarts applies the same commands again, given that none is
   replaced. What Raft commits under a weaker condition than AnswersInTerm: an answer of an
   earlier term is harmless as long as the peer and the leader keep the entries.
