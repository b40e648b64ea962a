-------------------------------- MODULE Raft --------------------------------
(***************************************************************************)
(* src/consensus/raft.py: one RaftNode per server.                         *)
(*                                                                         *)
(* A node is one asyncio program, so the code between two awaits of the    *)
(* transport is one step: an action runs from where a task resumes to      *)
(* where it next waits for an answer.  The tasks of a node are             *)
(*   - the election loop, which is inside _start_election from the         *)
(*     broadcast until every answer is in (election[s]);                   *)
(*   - the senders, each inside _send_append_entries: the leader's         *)
(*     heartbeat task and the propose() calls of its clients (sender[s]);  *)
(*   - the two RPC handlers, which never wait and are one step each.       *)
(* A request whose sender has given up (the 5 s timeout, a cancelled task, *)
(* a crash) is not gone: it may be handled later, or never (stray).        *)
(***************************************************************************)
EXTENDS Integers, Sequences, FiniteSets, Bags

CONSTANTS
    Server,         \* node ids
    Cluster,        \* config.cluster.nodes: the servers in configuration order
    Command,        \* what clients propose
    Proposer,       \* tasks of a node that may be inside propose() at once
    Heartbeat,      \* the leader's heartbeat task
    Nil,            \* Python's None
    Lost,           \* the peer crashed over the request: no answer will come
    Follower, Candidate, Leader,
    MaxTerm,        \* bound: no election is started beyond this term
    MaxLog,         \* bound: no command is proposed to a longer log
    MaxFaults       \* bound: failed RPCs, crashes

ASSUME ClusterAssumption ==
    /\ IsFiniteSet(Server)
    /\ Cluster \in [1 .. Cardinality(Server) -> Server]
    /\ \A s \in Server : \E i \in DOMAIN Cluster : Cluster[i] = s

ASSUME NameAssumption ==
    /\ Nil \notin Server
    /\ Follower # Candidate /\ Candidate # Leader /\ Leader # Follower
    /\ Heartbeat \notin Proposer

ASSUME BoundAssumption == MaxTerm \in Nat /\ MaxLog \in Nat /\ MaxFaults \in Nat

VARIABLES
    \* PersistentState: what _save_state writes
    current_term, voted_for, log,
    \* volatile state; role[s] is RaftNode.state
    role, commit_index, applied, leader_state, current_leader,
    \* tasks that wait for an answer
    election, sender,
    \* requests on the network that nobody waits for any more
    stray,
    faults,
    \* history: votes given, elections won, entries committed by a leader
    votes, elections, chosen

persistent == <<current_term, voted_for, log>>
volatile   == <<role, commit_index, applied, leader_state, current_leader>>
history    == <<votes, elections, chosen>>
vars == <<persistent, volatile, election, sender, stray, faults, history>>

Sender == Proposer \cup {Heartbeat}
Entry  == [term : Nat, cmd : Command]

Max2(a, b) == IF a > b THEN a ELSE b
Min2(a, b) == IF a < b THEN a ELSE b

Others(s) == Server \ {s}

Majority == (Cardinality(Server) \div 2) + 1

LastTerm(lg) == IF lg = <<>> THEN 0 ELSE lg[Len(lg)].term

\* prev_log_term of a request, 0 when there is no such entry.
TermAt(lg, i) == IF i \in 1 .. Len(lg) THEN lg[i].term ELSE 0

-----------------------------------------------------------------------------
(* Messages *)

VoteRequest(s, d) ==
    [type |-> "vote", src |-> s, dst |-> d, term |-> election[s].term,
     last_log_index |-> election[s].last_log_index,
     last_log_term  |-> election[s].last_log_term]

\* What the leader sends to d from the log lg: everything from next_index on.
AppendRequest(s, d, ls, lg) ==
    LET next == ls.next_index[d] IN
    [type |-> "append", src |-> s, dst |-> d, term |-> current_term[s],
     prev_log_index |-> next - 1,
     prev_log_term  |-> TermAt(lg, next - 1),
     entries        |-> SubSeq(lg, next, Len(lg)),
     leader_commit  |-> commit_index[s]]

Outstanding(s, t) == sender[s][t] # Nil /\ sender[s][t].resp = Nil

AnswerLost(s, t) == sender[s][t] # Nil /\ sender[s][t].resp = Lost

\* The requests on the network that the tasks of s still wait for.  A set: two
\* tasks that wait for equal requests leave one behind when s crashes.
Awaited(s) ==
    {sender[s][t].req : t \in {u \in Sender : Outstanding(s, u)}}
    \cup (IF election[s] = Nil THEN {}
          ELSE {VoteRequest(s, p) : p \in election[s].pending})

-----------------------------------------------------------------------------
Init ==
    /\ current_term = [s \in Server |-> 0]
    /\ voted_for = [s \in Server |-> Nil]
    /\ log = [s \in Server |-> <<>>]
    /\ role = [s \in Server |-> Follower]
    /\ commit_index = [s \in Server |-> 0]
    /\ applied = [s \in Server |-> <<>>]
    /\ leader_state = [s \in Server |-> Nil]
    /\ current_leader = [s \in Server |-> Nil]
    /\ election = [s \in Server |-> Nil]
    /\ sender = [s \in Server |-> [t \in Sender |-> Nil]]
    /\ stray = EmptyBag
    /\ faults = 0
    /\ votes = {}
    /\ elections = {}
    /\ chosen = <<>>

\* _step_down(term), which its callers run only for a higher term.
StepDown(s, term) ==
    /\ current_term' = [current_term EXCEPT ![s] = term]
    /\ voted_for' = [voted_for EXCEPT ![s] = Nil]
    /\ role' = [role EXCEPT ![s] = Follower]
    /\ leader_state' = [leader_state EXCEPT ![s] = Nil]

-----------------------------------------------------------------------------
(* Elections *)

\* The election timer of s ran out: _start_election up to its broadcast.
StartElection(s) ==
    /\ role[s] # Leader
    /\ election[s] = Nil
    /\ current_term[s] < MaxTerm
    /\ role' = [role EXCEPT ![s] = Candidate]
    /\ current_term' = [current_term EXCEPT ![s] = @ + 1]
    /\ voted_for' = [voted_for EXCEPT ![s] = s]
    /\ election' = [election EXCEPT ![s] =
            [term           |-> current_term[s] + 1,
             last_log_index |-> Len(log[s]),
             last_log_term  |-> LastTerm(log[s]),
             pending        |-> Others(s),
             granted        |-> {s}]]
    /\ votes' = votes \cup
            {[term |-> current_term[s] + 1, voter |-> s, candidate |-> s]}
    /\ UNCHANGED <<log, commit_index, applied, leader_state, current_leader,
                   sender, stray, faults, elections, chosen>>

\* Mutant of LogUpToDate: the lengths are compared and the terms are not.
LogLongEnough(m, lg) == m.last_log_index >= Len(lg)

LogUpToDate(m, lg) ==
    \/ m.last_log_term > LastTerm(lg)
    \/ m.last_log_term = LastTerm(lg) /\ m.last_log_index >= Len(lg)

\* Mutant of VoteAvailable: voted_for is not looked at.
VotesAgain(m) == m.term >= current_term[m.dst]

\* The node has not voted for someone else in the term of the request.
VoteAvailable(m) ==
    \/ m.term > current_term[m.dst]
    \/ /\ m.term = current_term[m.dst]
       /\ voted_for[m.dst] \in {Nil, m.src}

GrantsVote(m) == VoteAvailable(m) /\ LogUpToDate(m, log[m.dst])

\* _handle_request_vote, all of it; the answer is GrantsVote(m).
HandleRequestVote(m) ==
    LET d == m.dst
        higher == m.term > current_term[d]
    IN  /\ current_term' = [current_term EXCEPT ![d] = Max2(@, m.term)]
        /\ voted_for' = [voted_for EXCEPT ![d] =
                IF GrantsVote(m) THEN m.src ELSE IF higher THEN Nil ELSE @]
        /\ role' = [role EXCEPT ![d] = IF higher THEN Follower ELSE @]
        /\ leader_state' = [leader_state EXCEPT ![d] = IF higher THEN Nil ELSE @]
        /\ votes' = IF GrantsVote(m)
                    THEN votes \cup {[term |-> m.term, voter |-> d,
                                      candidate |-> m.src]}
                    ELSE votes
        /\ UNCHANGED <<log, commit_index, applied, current_leader, sender,
                       faults, elections, chosen>>

\* p handles the vote request of s, and the answer reaches s in time.
AnswerVote(s, p) ==
    /\ election[s] # Nil
    /\ p \in election[s].pending
    /\ LET m == VoteRequest(s, p) IN
         /\ HandleRequestVote(m)
         /\ election' = [election EXCEPT
                ![s].pending = @ \ {p},
                ![s].granted = IF GrantsVote(m) THEN @ \cup {p} ELSE @]
    /\ UNCHANGED stray

\* p handles a vote request whose sender no longer waits for the answer.
AnswerStrayVote(m) ==
    /\ m.type = "vote"
    /\ HandleRequestVote(m)
    /\ stray' = stray (-) SetToBag({m})
    /\ UNCHANGED election

\* The RPC to p fails: broadcast counts it as no answer.
VoteRpcFails(s, p) ==
    /\ faults < MaxFaults
    /\ election[s] # Nil
    /\ p \in election[s].pending
    /\ election' = [election EXCEPT ![s].pending = @ \ {p}]
    /\ stray' = stray (+) SetToBag({VoteRequest(s, p)})
    /\ faults' = faults + 1
    /\ UNCHANGED <<persistent, volatile, sender, history>>

\* Mutant of FreshLeaderState: next_index starts at the last entry.
StartsAtLastEntry(s) ==
    [next_index  |-> [p \in Others(s) |-> Len(log[s])],
     match_index |-> [p \in Others(s) |-> 0]]

FreshLeaderState(s) ==
    [next_index  |-> [p \in Others(s) |-> Len(log[s]) + 1],
     match_index |-> [p \in Others(s) |-> 0]]

\* Mutant of Won: the state is not looked at again after the broadcast.
WonWhateverState(s) == Cardinality(election[s].granted) >= Majority

\* The candidate has a majority, counted when the last answer is in.
Won(s) ==
    /\ Cardinality(election[s].granted) >= Majority
    /\ role[s] = Candidate

\* broadcast returned with every answer, and the votes suffice:
\* _become_leader, which also cancels the heartbeat task of an earlier term.
BecomeLeader(s) ==
    /\ election[s] # Nil
    /\ election[s].pending = {}
    /\ Won(s)
    /\ role' = [role EXCEPT ![s] = Leader]
    /\ current_leader' = [current_leader EXCEPT ![s] = s]
    /\ leader_state' = [leader_state EXCEPT ![s] = FreshLeaderState(s)]
    /\ sender' = [sender EXCEPT ![s][Heartbeat] = Nil]
    /\ stray' = IF Outstanding(s, Heartbeat)
                THEN stray (+) SetToBag({sender[s][Heartbeat].req})
                ELSE stray
    /\ election' = [election EXCEPT ![s] = Nil]
    /\ elections' = elections \cup {[term |-> election[s].term, leader |-> s]}
    /\ UNCHANGED <<persistent, commit_index, applied, faults, votes, chosen>>

\* The votes do not suffice, or s is no longer a candidate.
LoseElection(s) ==
    /\ election[s] # Nil
    /\ election[s].pending = {}
    /\ ~Won(s)
    /\ election' = [election EXCEPT ![s] = Nil]
    /\ UNCHANGED <<persistent, volatile, sender, stray, faults, history>>

-----------------------------------------------------------------------------
(* The senders *)

\* Positions of Cluster after k that hold another node than s.
PeersAfter(s, k) == {j \in DOMAIN Cluster : j > k /\ Cluster[j] # s}

NextPeer(s, k) == CHOOSE j \in PeersAfter(s, k) :
                      \A i \in PeersAfter(s, k) : j <= i

\* Mutant of Replicas: off by one, an entry is counted before it is replicated.
ReplicasBefore(s, ls, n) ==
    1 + Cardinality({p \in Others(s) : ls.match_index[p] >= n - 1})

\* Mutant of Replicas: off by one the other way.
ReplicasBeyond(s, ls, n) ==
    1 + Cardinality({p \in Others(s) : ls.match_index[p] > n})

\* Replicas known to hold position n: the leader and who acknowledged it.
Replicas(s, ls, n) == 1 + Cardinality({p \in Others(s) : ls.match_index[p] >= n})

\* Positions _try_commit may commit: of its own term, on a majority.
Committable(s, ls, lg) ==
    {n \in commit_index[s] + 1 .. Len(lg) :
        lg[n].term = current_term[s] /\ Replicas(s, ls, n) >= Majority}

CommitTarget(s, ls, lg) ==
    IF Committable(s, ls, lg) = {} THEN commit_index[s]
    ELSE CHOOSE n \in Committable(s, ls, lg) :
             \A k \in Committable(s, ls, lg) : k <= n

\* _apply_committed: hand the entries up to index n to command_handler.
Apply(s, n, lg) ==
    applied' = [applied EXCEPT
        ![s] = @ \o SubSeq(lg, Len(@) + 1, Min2(n, Len(lg)))]

TryCommit(s, ls, lg) ==
    LET n == CommitTarget(s, ls, lg) IN
    /\ commit_index' = [commit_index EXCEPT ![s] = n]
    /\ Apply(s, n, lg)
    /\ chosen' = IF n > commit_index[s] /\ n > Len(chosen)
                 THEN [i \in 1 .. n |->
                         [entry |-> lg[i],
                          at |-> IF i <= Len(chosen) THEN chosen[i].at
                                 ELSE current_term[s]]]
                 ELSE chosen

\* _send_append_entries of task t after the peer at position k: on to the next
\* peer, or _try_commit after the last.  ls and lg are the leader_state and the
\* log of s at that moment.
Continue(s, t, k, ls, lg) ==
    IF PeersAfter(s, k) # {}
    THEN LET j == NextPeer(s, k) IN
         /\ sender' = [sender EXCEPT ![s][t] =
                [at   |-> j,
                 req  |-> AppendRequest(s, Cluster[j], ls, lg),
                 resp |-> Nil]]
         /\ UNCHANGED <<commit_index, applied, chosen>>
    ELSE /\ sender' = [sender EXCEPT ![s][t] = Nil]
         /\ TryCommit(s, ls, lg)

\* The heartbeat task wakes up.
SendHeartbeat(s) ==
    /\ role[s] = Leader
    /\ sender[s][Heartbeat] = Nil
    /\ Continue(s, Heartbeat, 0, leader_state[s], log[s])
    /\ UNCHANGED <<persistent, role, leader_state, current_leader, election,
                   stray, faults, votes, elections>>

\* propose(c), up to the first answer it waits for.
Propose(s, t, c) ==
    /\ role[s] = Leader
    /\ t \in Proposer
    /\ sender[s][t] = Nil
    /\ Len(log[s]) < MaxLog
    /\ LET lg == Append(log[s], [term |-> current_term[s], cmd |-> c]) IN
         /\ log' = [log EXCEPT ![s] = lg]
         /\ Continue(s, t, 0, leader_state[s], lg)
    /\ UNCHANGED <<current_term, voted_for, role, leader_state, current_leader,
                   election, stray, faults, votes, elections>>

Answered(s, t) == sender[s][t] # Nil /\ sender[s][t].resp \notin {Nil, Lost}

\* A refusal with a higher term: _step_down, whoever s is by now.  The loop
\* goes on and fails on leader_state = None, or ends in _try_commit's return.
StepDownOnReply(s, t) ==
    /\ Answered(s, t)
    /\ ~sender[s][t].resp.success
    /\ sender[s][t].resp.term > current_term[s]
    /\ StepDown(s, sender[s][t].resp.term)
    /\ sender' = [sender EXCEPT ![s][t] = Nil]
    /\ UNCHANGED <<log, commit_index, applied, current_leader, election, stray,
                   faults, history>>

\* The answer finds s deposed: the task dies on leader_state = None.
AbandonRound(s, t) ==
    /\ Answered(s, t)
    /\ leader_state[s] = Nil
    /\ sender[s][t].resp.success \/ sender[s][t].resp.term <= current_term[s]
    /\ sender' = [sender EXCEPT ![s][t] = Nil]
    /\ UNCHANGED <<persistent, volatile, election, stray, faults, history>>

\* Success: the peer holds what the request carried.  leader_state is whatever
\* object s has now, not the one the request was built from.
AcceptReply(s, t) ==
    /\ Answered(s, t)
    /\ leader_state[s] # Nil
    /\ sender[s][t].resp.success
    /\ LET req == sender[s][t].req
           p == req.dst
           match == req.prev_log_index + Len(req.entries)
           ls == IF req.entries = <<>> THEN leader_state[s]
                 ELSE [next_index  |-> [leader_state[s].next_index
                                          EXCEPT ![p] = match + 1],
                       match_index |-> [leader_state[s].match_index
                                          EXCEPT ![p] = match]]
       IN  /\ leader_state' = [leader_state EXCEPT ![s] = ls]
           /\ Continue(s, t, sender[s][t].at, ls, log[s])
    /\ UNCHANGED <<persistent, role, current_leader, election, stray, faults,
                   votes, elections>>

\* max(1, next_idx - 1)
BackUp(req) == Max2(1, req.prev_log_index)

\* Refusal: back up by one and go on; the next round tries again.
RejectReply(s, t) ==
    /\ Answered(s, t)
    /\ leader_state[s] # Nil
    /\ ~sender[s][t].resp.success
    /\ sender[s][t].resp.term <= current_term[s]
    /\ LET req == sender[s][t].req
           ls == [leader_state[s] EXCEPT
                     !.next_index[req.dst] = BackUp(req)]
       IN  /\ leader_state' = [leader_state EXCEPT ![s] = ls]
           /\ Continue(s, t, sender[s][t].at, ls, log[s])
    /\ UNCHANGED <<persistent, role, current_leader, election, stray, faults,
                   votes, elections>>

\* send returned None: the request or its answer was lost or is late, or the
\* peer crashed over the request.
AppendRpcFails(s, t) ==
    /\ sender[s][t] # Nil
    /\ \/ AnswerLost(s, t) /\ UNCHANGED faults
       \/ ~AnswerLost(s, t) /\ faults < MaxFaults /\ faults' = faults + 1
    /\ stray' = IF Outstanding(s, t)
                THEN stray (+) SetToBag({sender[s][t].req}) ELSE stray
    /\ IF leader_state[s] = Nil
       THEN /\ sender' = [sender EXCEPT ![s][t] = Nil]
            /\ UNCHANGED <<commit_index, applied, chosen>>
       ELSE Continue(s, t, sender[s][t].at, leader_state[s], log[s])
    /\ UNCHANGED <<persistent, role, leader_state, current_leader, election,
                   votes, elections>>

-----------------------------------------------------------------------------
(* _handle_append_entries *)

\* Mutant of Consistent: the terms are not compared.
LongEnough(m, lg) == m.prev_log_index <= Len(lg)

\* The log before the entries of m is the leader's.
Consistent(m, lg) ==
    \/ m.prev_log_index = 0
    \/ /\ m.prev_log_index <= Len(lg)
       /\ lg[m.prev_log_index].term = m.prev_log_term

\* Mutant of Conflicts: only missing entries are looked for.
Missing(m, lg) == {k \in DOMAIN m.entries : m.prev_log_index + k > Len(lg)}

\* The entries of m that lg lacks or holds with another term.
Conflicts(m, lg) ==
    {k \in DOMAIN m.entries :
        \/ m.prev_log_index + k > Len(lg)
        \/ lg[m.prev_log_index + k].term # m.entries[k].term}

\* Mutant of Merge: the log is cut whether or not there is a conflict.
CutAndAppend(m, lg) == SubSeq(lg, 1, m.prev_log_index) \o m.entries

\* The loop over the entries: the log is cut at the first conflict and
\* everything from there on is taken from m.
Merge(m, lg) ==
    IF Conflicts(m, lg) = {} THEN lg
    ELSE LET k == CHOOSE k \in Conflicts(m, lg) :
                      \A j \in Conflicts(m, lg) : k <= j
         IN  SubSeq(lg, 1, m.prev_log_index + k - 1)
                \o SubSeq(m.entries, k, Len(m.entries))

AppendReply(m) ==
    [success |-> m.term >= current_term[m.dst] /\ Consistent(m, log[m.dst]),
     term    |-> Max2(current_term[m.dst], m.term)]

\* A request of an old term changes nothing.
RefuseOldLeader(m) ==
    /\ m.term < current_term[m.dst]
    /\ UNCHANGED <<persistent, volatile>>

\* The sender is the leader of this term: follow it, and take its entries and
\* its commit index if the log before them agrees.
FollowLeader(m) ==
    LET d == m.dst
        higher == m.term > current_term[d]
        lg == Merge(m, log[d])
        n == Min2(m.leader_commit, Len(lg))
    IN  /\ m.term >= current_term[d]
        /\ current_term' = [current_term EXCEPT ![d] = m.term]
        /\ voted_for' = [voted_for EXCEPT ![d] = IF higher THEN Nil ELSE @]
        /\ role' = [role EXCEPT ![d] =
                IF higher \/ @ = Candidate THEN Follower ELSE @]
        /\ leader_state' = [leader_state EXCEPT ![d] = IF higher THEN Nil ELSE @]
        /\ current_leader' = [current_leader EXCEPT ![d] = m.src]
        /\ IF Consistent(m, log[d])
           THEN /\ log' = [log EXCEPT ![d] = lg]
                /\ IF m.leader_commit > commit_index[d]
                   THEN /\ commit_index' = [commit_index EXCEPT ![d] = n]
                        /\ Apply(d, n, lg)
                   ELSE UNCHANGED <<commit_index, applied>>
           ELSE UNCHANGED <<log, commit_index, applied>>

HandleAppendEntries(m) == RefuseOldLeader(m) \/ FollowLeader(m)

\* A peer handles the request task t of s waits for.
AnswerAppend(s, t) ==
    /\ Outstanding(s, t)
    /\ LET m == sender[s][t].req IN
         /\ HandleAppendEntries(m)
         /\ sender' = [sender EXCEPT ![s][t].resp = AppendReply(m)]
    /\ UNCHANGED <<election, stray, faults, history>>

\* A peer handles a request whose sender no longer waits for the answer.
AnswerStrayAppend(m) ==
    /\ m.type = "append"
    /\ HandleAppendEntries(m)
    /\ stray' = stray (-) SetToBag({m})
    /\ UNCHANGED <<election, sender, faults, history>>

-----------------------------------------------------------------------------
(* Crashes *)

\* The process of s ends and starts again with the saved term and vote.  els
\* and snd are the elections and the senders of the others.
Reboot(s, term, vote, els, snd) ==
    /\ faults < MaxFaults
    /\ faults' = faults + 1
    /\ current_term' = [current_term EXCEPT ![s] = term]
    /\ voted_for' = [voted_for EXCEPT ![s] = vote]
    /\ role' = [role EXCEPT ![s] = Follower]
    /\ commit_index' = [commit_index EXCEPT ![s] = 0]
    /\ applied' = [applied EXCEPT ![s] = <<>>]
    /\ leader_state' = [leader_state EXCEPT ![s] = Nil]
    /\ current_leader' = [current_leader EXCEPT ![s] = Nil]
    /\ election' = [els EXCEPT ![s] = Nil]
    /\ sender' = [snd EXCEPT ![s] = [t \in Sender |-> Nil]]
    /\ UNCHANGED history

\* Mutant of Restart: the vote was not saved.
RestartForgets(s) ==
    /\ Reboot(s, current_term[s], Nil, election, sender)
    /\ stray' = stray (+) SetToBag(Awaited(s))
    /\ UNCHANGED log

\* A crash between two steps: _load_state finds what the last _save_state
\* wrote, and what s was waiting for may still arrive where it was sent.
Restart(s) ==
    /\ Reboot(s, current_term[s], voted_for[s], election, sender)
    /\ stray' = stray (+) SetToBag(Awaited(s))
    /\ UNCHANGED log

\* The crash comes inside the handler of m, between the _save_state of
\* _step_down and the one of the vote or the entries.  A handler saves nowhere
\* else: a crash at any other point of it is a Restart before or after it.
CrashInHandler(m, els, snd) ==
    /\ m.term > current_term[m.dst]
    /\ Reboot(m.dst, m.term, Nil, els, snd)
    /\ UNCHANGED log

\* p crashes over the vote request of s, which counts it as no answer.
CrashOnVote(s, p) ==
    /\ election[s] # Nil
    /\ p \in election[s].pending
    /\ CrashInHandler(VoteRequest(s, p),
                      [election EXCEPT ![s].pending = @ \ {p}], sender)
    /\ stray' = stray (+) SetToBag(Awaited(p))

\* The peer crashes over the request task t of s waits for.
CrashOnAppend(s, t) ==
    /\ Outstanding(s, t)
    /\ LET m == sender[s][t].req IN
         /\ CrashInHandler(m, election, [sender EXCEPT ![s][t].resp = Lost])
         /\ stray' = stray (+) SetToBag(Awaited(m.dst))

\* A node crashes over a request nobody waits for any more.
CrashOnStray(m) ==
    /\ CrashInHandler(m, election, sender)
    /\ stray' = (stray (-) SetToBag({m})) (+) SetToBag(Awaited(m.dst))

\* The crash comes inside _save_state itself, which truncates the file before
\* it writes: _load_state cannot read it and starts from PersistentState().
\* The save here is the one of _start_election.  Not part of Next.
CrashInSave(s) ==
    /\ role[s] # Leader
    /\ election[s] = Nil
    /\ Reboot(s, 0, Nil, election, sender)
    /\ stray' = stray (+) SetToBag(Awaited(s))
    /\ log' = [log EXCEPT ![s] = <<>>]

-----------------------------------------------------------------------------
Next ==
    \/ \E s \in Server :
        \/ StartElection(s)
        \/ BecomeLeader(s)
        \/ LoseElection(s)
        \/ SendHeartbeat(s)
        \/ Restart(s)
    \/ \E s, p \in Server :
        \/ AnswerVote(s, p)
        \/ VoteRpcFails(s, p)
        \/ CrashOnVote(s, p)
    \/ \E s \in Server, t \in Sender :
        \/ \E c \in Command : Propose(s, t, c)
        \/ StepDownOnReply(s, t)
        \/ AbandonRound(s, t)
        \/ AcceptReply(s, t)
        \/ RejectReply(s, t)
        \/ AppendRpcFails(s, t)
        \/ AnswerAppend(s, t)
        \/ CrashOnAppend(s, t)
    \/ \E m \in BagToSet(stray) :
        \/ AnswerStrayVote(m)
        \/ AnswerStrayAppend(m)
        \/ CrashOnStray(m)

Spec == Init /\ [][Next]_vars

\* The same program with saves that a crash may cut short.
TornNext == Next \/ \E s \in Server : CrashInSave(s)

TornSpec == Init /\ [][TornNext]_vars

-----------------------------------------------------------------------------
(* Types *)

VoteMsg ==
    [type : {"vote"}, src : Server, dst : Server, term : Nat,
     last_log_index : Nat, last_log_term : Nat]

AppendMsg ==
    [type : {"append"}, src : Server, dst : Server, term : Nat,
     prev_log_index : Nat, prev_log_term : Nat, entries : Seq(Entry),
     leader_commit : Nat]

Reply == [success : BOOLEAN, term : Nat]

LeaderStateType(s) ==
    [next_index  : [Others(s) -> Nat \ {0}],
     match_index : [Others(s) -> Nat]]

\* None is no leader's state, and what stands for no answer is no answer.
ASSUME NilAssumption ==
    /\ \A s \in Server : Nil \notin LeaderStateType(s)
    /\ Nil # Lost
    /\ {Nil, Lost} \cap Reply = {}

ElectionType ==
    [term : Nat, last_log_index : Nat, last_log_term : Nat,
     pending : SUBSET Server, granted : SUBSET Server]

SenderType ==
    [at : DOMAIN Cluster, req : AppendMsg, resp : Reply \cup {Nil, Lost}]

\* The part of the type invariant that elections need.
ElectionTypeOK ==
    /\ current_term \in [Server -> Nat]
    /\ voted_for \in [Server -> Server \cup {Nil}]
    /\ role \in [Server -> {Follower, Candidate, Leader}]
    /\ election \in [Server -> ElectionType \cup {Nil}]
    /\ votes \subseteq [term : Nat, voter : Server, candidate : Server]
    /\ elections \subseteq [term : Nat, leader : Server]

LogTypeOK ==
    /\ log \in [Server -> Seq(Entry)]
    /\ commit_index \in [Server -> Nat]
    /\ applied \in [Server -> Seq(Entry)]
    /\ chosen \in Seq([entry : Entry, at : Nat])

TaskTypeOK ==
    /\ leader_state = [s \in Server |-> leader_state[s]]
    /\ \A s \in Server : leader_state[s] \in LeaderStateType(s) \cup {Nil}
    /\ current_leader \in [Server -> Server \cup {Nil}]
    /\ sender \in [Server -> [Sender -> SenderType \cup {Nil}]]
    /\ DOMAIN stray \subseteq VoteMsg \cup AppendMsg
    /\ faults \in Nat

\* Every variable has the type the code gives it.
TypeOK == ElectionTypeOK /\ LogTypeOK /\ TaskTypeOK

-----------------------------------------------------------------------------
(* Safety *)

\* Election Safety: no two nodes are ever elected in one term, whatever vote
\* requests, answers, crashes and late conclusions of an election come between
\* (_start_election counts the votes long after the first was given).
ElectionSafety ==
    \A e, f \in elections : e.term = f.term => e.leader = f.leader

\* A node gives one vote per term, over restarts too: what voted_for and
\* _save_state are for.
OneVotePerTerm ==
    \A u, v \in votes :
        u.term = v.term /\ u.voter = v.voter => u.candidate = v.candidate

\* A node that acts as leader of its term was elected in that term: the count
\* of _start_election cannot be applied to a term the node moved on to.
LeadersAreElected ==
    \A s \in Server : role[s] = Leader =>
        [term |-> current_term[s], leader |-> s] \in elections

\* Log Matching: logs that agree on the term at a position agree on every
\* position up to it, though _handle_append_entries merges requests that may
\* be old, reordered or from a deposed leader.
LogMatching ==
    \A s, t \in Server :
        \A i \in 1 .. Min2(Len(log[s]), Len(log[t])) :
            log[s][i].term = log[t][i].term =>
                \A j \in 1 .. i : log[s][j] = log[t][j]

\* Leader Completeness: a leader of a later term than the one that committed
\* an entry has the entry, at its position.
LeaderCompleteness ==
    \A s \in Server : role[s] = Leader =>
        \A i \in DOMAIN chosen : chosen[i].at <= current_term[s] =>
            i <= Len(log[s]) /\ log[s][i] = chosen[i].entry

\* What a leader commits is, and stays, in the saved logs of a majority, though
\* match_index is filled from answers that come late, out of order, or from
\* rounds of an earlier leadership.
ChosenOnMajority ==
    \A i \in DOMAIN chosen :
        Cardinality({s \in Server : i <= Len(log[s]) /\ log[s][i] = chosen[i].entry})
            >= Majority

\* A log never loses or replaces an entry the node knows to be committed,
\* whatever old or reordered request _handle_append_entries cuts it for.
CommittedPrefixStable ==
    [][\A s \in Server : \A i \in 1 .. commit_index[s] :
        i <= Len(log'[s]) /\ log'[s][i] = log[s][i]]_vars

\* "Leader Append-Only" of report.md. _handle_append_entries cuts a log without a
\* look at its node's state: that it never cuts a leader's is up to elections
\* and to who still has requests on the way.
LeaderAppendOnly ==
    [][\A s \in Server : role[s] = Leader /\ role'[s] = Leader =>
        \A i \in 1 .. Len(log[s]) : i <= Len(log'[s]) /\ log'[s][i] = log[s][i]]_vars

\* The committed sequence and what each node applies of it implement the
\* abstract replicated log: nothing chosen is ever replaced, and every node
\* applies the chosen commands in order.
Abstract == INSTANCE ReplicatedLog WITH
    chosen <- [i \in DOMAIN chosen |-> chosen[i].entry]

ImplementsReplicatedLog == Abstract!Spec

-----------------------------------------------------------------------------
(* Progress *)

\* Timers fire and the network answers: every task that can go on does, and an
\* RPC that is not lost is handled.  Elections and clients owe nothing.
Fairness ==
    \A s \in Server :
        /\ WF_vars(SendHeartbeat(s))
        /\ \A t \in Sender :
            /\ WF_vars(AnswerAppend(s, t))
            /\ WF_vars(StepDownOnReply(s, t) \/ AbandonRound(s, t)
                        \/ AcceptReply(s, t) \/ RejectReply(s, t)
                        \/ (AnswerLost(s, t) /\ AppendRpcFails(s, t)))

FairSpec == Spec /\ Fairness

\* What a leader accepts from a client (propose returned True) it commits,
\* unless it is deposed or restarted first: lost and late answers only delay it.
ProposalsCommit ==
    \A s \in Server, n \in 1 .. MaxLog :
        (/\ role[s] = Leader
         /\ n <= Len(log[s])
         /\ log[s][n].term = current_term[s])
        ~> (commit_index[s] >= n \/ role[s] # Leader)
=============================================================================
