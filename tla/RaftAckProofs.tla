--------------------------- MODULE RaftAckProofs ---------------------------
(***************************************************************************)
(* What leaders of Raft may count on: which entries a node acknowledged in *)
(* which term, and why a leader of a later term has every entry that a     *)
(* majority acknowledged.  It holds of the executions in which no answer   *)
(* is counted in a later term than it was asked for in (AnswersInTerm).    *)
(***************************************************************************)
EXTENDS RaftProofs

-----------------------------------------------------------------------------
(* The condition *)

\* What a task counts as acknowledged was sent in the term the node is in.
\* raft.py:301 does not see to it: leader_state is read after the answer, and may
\* be that of a later term in which the node is leader again.
AnswersInTerm ==
    \A s \in Server, t \in Sender :
        AcceptReply(s, t) => sender[s][t].req.term = current_term[s]

-----------------------------------------------------------------------------
(* What is acknowledged *)

\* A gives for every node and term how much of the log of that term's leader
\* the node acknowledged to hold.
Acks == [Server -> [Nat -> Nat]]

\* An entry of term T is at position i; if lg fits, all before it is the
\* beginning of the log of that term's leader.
Has(lg, T, i) == i \in 1 .. Len(lg) /\ lg[i].term = T

\* Never will a majority have acknowledged the log of term T up to i: nodes
\* that did not are in later terms, and too many.
NeverAcked(A, T, i) ==
    \E Q \in SUBSET Server :
        /\ Cardinality(Q) >= Majority
        /\ \A q \in Q : current_term[q] > T /\ A[q][T] < i

\* The log has the entry, or nobody will ever commit it.
SafeIn(A, lg, T, i) == Has(lg, T, i) \/ NeverAcked(A, T, i)

Rises(lg, T) ==
    \A i \in 1 .. Len(lg) :
        /\ lg[i].term <= T
        /\ \A j \in 1 .. i : lg[j].term <= lg[i].term

\* Terms begin at one.
TermsStart ==
    /\ \A e \in elections : e.term > 0
    /\ \A s \in Server : election[s] # Nil => election[s].term > 0

\* Terms go up along a log.
LogsRise(F) ==
    /\ \A s \in Server : Rises(log[s], current_term[s])
    /\ \A T \in Nat : Elected(elections, T) => Rises(F[T], T)

\* Only logs of leaders are acknowledged, in their term, as far as they go, and
\* all of its log by the leader itself.
AcksTrue(F, A) ==
    /\ \A p \in Server, T \in Nat : A[p][T] > 0 =>
          /\ T <= current_term[p]
          /\ Elected(elections, T)
          /\ A[p][T] <= Len(F[T])
    /\ \A s \in Server : role[s] = Leader => A[s][current_term[s]] = Len(log[s])

\* A leader counts no more than was acknowledged.
MatchAcked(A) ==
    \A s \in Server : leader_state[s] # Nil =>
        \A p \in Others(s) : leader_state[s].match_index[p] <= A[p][current_term[s]]

\* An answer of success acknowledges all that the request carried.
ReplyAcked(A, x) ==
    x # Nil /\ x.resp \notin {Nil, Lost} /\ x.resp.success /\ x.req.entries # <<>> =>
        x.req.prev_log_index + Len(x.req.entries) <= A[x.req.dst][x.req.term]

RepliesAcked(A) == \A s \in Server, t \in Sender : ReplyAcked(A, sender[s][t])

\* What a node acknowledged it still has, unless it will never be committed.
LogsSafe(F, A) ==
    \A p \in Server, T \in Nat, i \in Nat :
        i <= A[p][T] /\ Has(F[T], T, i) => SafeIn(A, log[p], T, i)

\* A candidate has what the nodes that voted for it acknowledged in earlier terms.
CandidatesSafe(F, A) ==
    \A s \in Server : role[s] = Candidate /\ election[s] # Nil =>
        /\ election[s].last_log_index = Len(log[s])
        /\ election[s].last_log_term = LastTerm(log[s])
        /\ \A p \in election[s].granted, T \in Nat, i \in Nat :
              T < election[s].term /\ i <= A[p][T] /\ Has(F[T], T, i) =>
                  SafeIn(A, log[s], T, i)

\* A leader has what may have been committed in earlier terms.
LeadersSafe(F, A) ==
    \A T \in Nat, U \in Nat, i \in Nat :
        /\ T < U /\ Elected(elections, T) /\ Elected(elections, U)
        /\ Has(F[T], T, i)
        => SafeIn(A, F[U], T, i)

AckInv(F, A) ==
    /\ LogsRise(F)
    /\ AcksTrue(F, A)
    /\ MatchAcked(A)
    /\ RepliesAcked(A)
    /\ LogsSafe(F, A)
    /\ CandidatesSafe(F, A)
    /\ LeadersSafe(F, A)

-----------------------------------------------------------------------------
(* Steps and acknowledgments *)

TermsUp == \A p \in Server : current_term'[p] \in Nat /\ current_term'[p] >= current_term[p]

\* Logs of leaders grow.
LogsGrow(F, G) ==
    \A T \in Nat : Elected(elections, T) =>
        /\ Len(F[T]) <= Len(G[T])
        /\ \A i \in 1 .. Len(F[T]) : G[T][i] = F[T][i]

\* Acknowledgments grow, but not for terms the node left behind.
AcksGrow(A, B) ==
    \A p \in Server, T \in Nat :
        /\ A[p][T] <= B[p][T]
        /\ current_term[p] > T => B[p][T] = A[p][T]

LEMMA NeverAckedStays ==
    ASSUME TypeOK, TermsUp, NEW A \in Acks, NEW B \in Acks, AcksGrow(A, B),
           NEW T \in Nat, NEW i \in Nat, NeverAcked(A, T, i)
    PROVE  NeverAcked(B, T, i)'
<1>1. PICK Q \in SUBSET Server :
          /\ Cardinality(Q) >= Majority
          /\ \A q \in Q : current_term[q] > T /\ A[q][T] < i
    BY DEF NeverAcked
<1>2. ASSUME NEW q \in Q
      PROVE  current_term'[q] > T /\ B[q][T] < i
    <2>1. /\ current_term[q] \in Nat /\ current_term'[q] \in Nat
          /\ current_term'[q] >= current_term[q] /\ current_term[q] > T
        BY <1>1 DEF TypeOK, ElectionTypeOK, TermsUp
    <2>2. B[q][T] = A[q][T]
        BY <2>1 DEF AcksGrow
    <2>. QED
        BY <1>1, <2>1, <2>2
<1>. QED
    BY <1>1, <1>2 DEF NeverAcked

\* In the logs of leaders nothing changes that was acknowledged.
LEMMA AckedIsOld ==
    ASSUME NEW F \in LeaderLogs, NEW A \in Acks, NEW G \in LeaderLogs, AcksTrue(F, A),
           LogsGrow(F, G), NEW p \in Server, NEW T \in Nat, NEW i \in Nat,
           i <= A[p][T], Has(G[T], T, i)
    PROVE  /\ Has(F[T], T, i) /\ Elected(elections, T) /\ T <= current_term[p]
           /\ i <= Len(F[T])
<1>1. A[p][T] \in Nat /\ F[T] \in Seq(Entry) /\ G[T] \in Seq(Entry)
    BY DEF Acks, LeaderLogs
<1>2. Len(F[T]) \in Nat /\ Len(G[T]) \in Nat
    BY <1>1, LenProperties
<1>3. i \in 1 .. Len(G[T]) /\ G[T][i].term = T
    BY DEF Has
<1>4. A[p][T] > 0
    BY <1>1, <1>2, <1>3
<1>5. Elected(elections, T) /\ T <= current_term[p] /\ A[p][T] <= Len(F[T])
    BY <1>4 DEF AcksTrue
<1>6. i \in 1 .. Len(F[T])
    BY <1>1, <1>2, <1>3, <1>5
<1>7. G[T][i] = F[T][i]
    BY <1>5, <1>6 DEF LogsGrow
<1>. QED
    BY <1>3, <1>5, <1>6, <1>7 DEF Has

\* Candidates that were candidates before, with the same votes.
CandidaciesKept ==
    \A s \in Server : role'[s] = Candidate /\ election'[s] # Nil =>
        /\ role[s] = Candidate /\ election[s] # Nil
        /\ election'[s].term = election[s].term
        /\ election'[s].granted = election[s].granted
        /\ election'[s].last_log_index = election[s].last_log_index
        /\ election'[s].last_log_term = election[s].last_log_term
        /\ log'[s] = log[s]

LEMMA GrantedAhead ==
    ASSUME TypeOK, ElectionInv, NEW s \in Server, election[s] # Nil,
           NEW p \in election[s].granted
    PROVE  p \in Server /\ current_term[p] >= election[s].term /\ election[s].term \in Nat
<1>1. election[s] \in ElectionType
    BY DEF TypeOK, ElectionTypeOK
<1>2. VoteFor(election[s].term, p, s) \in votes
    BY DEF ElectionInv, GrantedAreVotes
<1>3. p \in Server
    BY <1>1 DEF ElectionType
<1>4. election[s].term <= current_term[p]
    BY <1>2 DEF ElectionInv, VotesRemembered, VoteFor
<1>. QED
    BY <1>1, <1>3, <1>4 DEF ElectionType, TypeOK, ElectionTypeOK

LEMMA CandidatesKept ==
    ASSUME TypeOK, ElectionInv, TermsUp, CandidaciesKept,
           NEW F \in LeaderLogs, NEW G \in LeaderLogs, NEW A \in Acks, NEW B \in Acks,
           AcksTrue(F, A), CandidatesSafe(F, A), LogsGrow(F, G), AcksGrow(A, B)
    PROVE  CandidatesSafe(G, B)'
<1>. SUFFICES ASSUME NEW s \in Server, role'[s] = Candidate, election'[s] # Nil
              PROVE  /\ election'[s].last_log_index = Len(log'[s])
                     /\ election'[s].last_log_term = LastTerm(log'[s])
                     /\ \A p \in election'[s].granted, T \in Nat, i \in Nat :
                          T < election'[s].term /\ i <= B[p][T] /\ Has(G[T], T, i) =>
                              Has(log'[s], T, i) \/ NeverAcked(B, T, i)'
    BY DEF CandidatesSafe, SafeIn
<1>1. /\ role[s] = Candidate /\ election[s] # Nil
      /\ election'[s].term = election[s].term
      /\ election'[s].granted = election[s].granted
      /\ election'[s].last_log_index = election[s].last_log_index
      /\ election'[s].last_log_term = election[s].last_log_term
      /\ log'[s] = log[s]
    BY DEF CandidaciesKept
<1>2. ASSUME NEW p \in election[s].granted, NEW T \in Nat, NEW i \in Nat,
             T < election[s].term, i <= B[p][T], Has(G[T], T, i)
      PROVE  Has(log'[s], T, i) \/ NeverAcked(B, T, i)'
    <2>1. p \in Server /\ current_term[p] >= election[s].term /\ election[s].term \in Nat
        BY <1>1, GrantedAhead
    <2>2. current_term[p] > T
        BY <1>2, <2>1 DEF TypeOK, ElectionTypeOK
    <2>3. i <= A[p][T]
        BY <1>2, <2>1, <2>2 DEF AcksGrow
    <2>4. Has(F[T], T, i)
        BY <1>2, <2>1, <2>3, AckedIsOld
    <2>5. SafeIn(A, log[s], T, i)
        BY <1>1, <1>2, <2>3, <2>4 DEF CandidatesSafe
    <2>6. Has(log'[s], T, i) \/ NeverAcked(B, T, i)'
        BY <1>1, <2>5, NeverAckedStays DEF SafeIn
    <2>. QED
        BY <2>6
<1>. QED
    BY <1>1, <1>2 DEF CandidatesSafe

LEMMA TermsUpStep ==
    ASSUME TypeOK, [Next]_vars
    PROVE  TermsUp
<1>0. current_term \in [Server -> Nat]
    BY DEF TypeOK, ElectionTypeOK
<1>1. CASE TermsGrow
    BY <1>1 DEF TermsGrow, TermsUp
<1>2. ASSUME NEW s \in Server, StartElection(s) \/ BecomeLeader(s)
      PROVE  TermsUp
    BY <1>0, <1>2 DEF StartElection, BecomeLeader, persistent, TermsUp
<1>. QED
    BY <1>1, <1>2, TermsGrowStep

\* Elections in progress, and the logs that candidates stand with.
LEMMA CandidaciesKeptStep ==
    ASSUME TypeOK, Wins \/ Proposes \/ Answers \/ Hears \/ Counts \/ Calm
    PROVE  CandidaciesKept
<1>0. /\ role \in [Server -> {Follower, Candidate, Leader}]
      /\ election \in [Server -> ElectionType \cup {Nil}]
      /\ log \in [Server -> Seq(Entry)]
    BY DEF TypeOK, ElectionTypeOK, LogTypeOK
<1>1. ASSUME UNCHANGED <<role, election, log>>
      PROVE  CandidaciesKept
    BY <1>1 DEF CandidaciesKept
<1>2. ASSUME NEW d \in Server, NEW r, r # Candidate, role' = [role EXCEPT ![d] = r],
             \/ election' = election
             \/ election' = [election EXCEPT ![d] = Nil],
             log' = log \/ \E lg : log' = [log EXCEPT ![d] = lg]
      PROVE  CandidaciesKept
    BY <1>0, <1>2 DEF CandidaciesKept
<1>3. ASSUME NEW s \in Server, BecomeLeader(s)
      PROVE  CandidaciesKept
    <2>1. /\ role' = [role EXCEPT ![s] = Leader]
          /\ election' = [election EXCEPT ![s] = Nil]
          /\ log' = log
        BY <1>3 DEF BecomeLeader, persistent
    <2>. QED
        BY <1>2, <2>1, NameAssumption
<1>4. ASSUME NEW s \in Server, LoseElection(s)
      PROVE  CandidaciesKept
    <2>1. /\ election' = [election EXCEPT ![s] = Nil]
          /\ UNCHANGED <<role, log>>
        BY <1>4 DEF LoseElection, persistent, volatile
    <2>. QED
        BY <1>0, <2>1 DEF CandidaciesKept
<1>5. ASSUME NEW s \in Server, NEW p \in Server, VoteRpcFails(s, p)
      PROVE  CandidaciesKept
    <2>1. /\ election' = [election EXCEPT ![s].pending = @ \ {p}]
          /\ election[s] # Nil /\ election[s] \in ElectionType
          /\ UNCHANGED <<role, log>>
        BY <1>0, <1>5 DEF VoteRpcFails, persistent, volatile
    <2>2. /\ \A q \in Server \ {s} : election'[q] = election[q]
          /\ election'[s].term = election[s].term
          /\ election'[s].granted = election[s].granted
          /\ election'[s].last_log_index = election[s].last_log_index
          /\ election'[s].last_log_term = election[s].last_log_term
        BY <1>0, <2>1 DEF ElectionType
    <2>. QED
        BY <1>0, <2>1, <2>2 DEF CandidaciesKept
<1>6. ASSUME NEW s \in Server, NEW t \in Sender, StepDownOnReply(s, t)
      PROVE  CandidaciesKept
    <2>1. role' = [role EXCEPT ![s] = Follower] /\ UNCHANGED <<election, log>>
        BY <1>6 DEF StepDownOnReply, StepDown
    <2>. QED
        BY <1>2, <2>1, NameAssumption
<1>7. ASSUME NEW m \in AppendMsg, HandleAppendEntries(m), election' = election
      PROVE  CandidaciesKept
    <2>1. CASE RefuseOldLeader(m)
        BY <1>1, <1>7, <2>1 DEF RefuseOldLeader, persistent, volatile
    <2>2. CASE FollowLeader(m)
        <3>1. /\ m.dst \in Server
              /\ role' = [role EXCEPT ![m.dst] =
                    IF m.term > current_term[m.dst] \/ @ = Candidate THEN Follower ELSE @]
              /\ log' = log \/ log' = [log EXCEPT ![m.dst] = Merge(m, log[m.dst])]
            BY <2>2 DEF FollowLeader, AppendMsg
        <3>. DEFINE r == IF m.term > current_term[m.dst] \/ role[m.dst] = Candidate
                         THEN Follower ELSE role[m.dst]
        <3>2. r # Candidate /\ role' = [role EXCEPT ![m.dst] = r]
            BY <1>0, <3>1, NameAssumption
        <3>. HIDE DEF r
        <3>3. log' = log \/ \E lg : log' = [log EXCEPT ![m.dst] = lg]
            BY <3>1
        <3>. QED
            BY <1>2, <1>7, <3>1, <3>2, <3>3
    <2>. QED
        BY <1>7, <2>1, <2>2 DEF HandleAppendEntries
<1>8. ASSUME NEW s \in Server, NEW t \in Sender, AnswerAppend(s, t)
      PROVE  CandidaciesKept
    BY <1>7, <1>8, WaitingTask DEF AnswerAppend, Outstanding
<1>9. ASSUME NEW m \in BagToSet(stray), AnswerStrayAppend(m)
      PROVE  CandidaciesKept
    <2>1. m \in AppendMsg
        BY <1>9 DEF AnswerStrayAppend, TypeOK, TaskTypeOK, BagToSet, VoteMsg, AppendMsg
    <2>. QED
        BY <1>7, <1>9, <2>1 DEF AnswerStrayAppend
<1>10. ASSUME NEW m \in BagToSet(stray), AnswerStrayVote(m)
       PROVE  CandidaciesKept
    <2>1. m.dst \in Server
        BY DEF TypeOK, TaskTypeOK, BagToSet, VoteMsg, AppendMsg
    <2>2. /\ role' = [role EXCEPT ![m.dst] =
                IF m.term > current_term[m.dst] THEN Follower ELSE @]
          /\ UNCHANGED <<election, log>>
        BY <1>10 DEF AnswerStrayVote, HandleRequestVote
    <2>. QED
        BY <1>0, <2>1, <2>2, NameAssumption DEF CandidaciesKept
<1>11. CASE Reboots
    <2>1. PICK s \in Server, term \in Nat, vote \in Server \cup {Nil} :
              Rebooted(s, term, vote)
        BY <1>11, RebootsFacts
    <2>2. role' = [role EXCEPT ![s] = Follower] /\ log' = log
        BY <2>1 DEF Rebooted
    <2>3. ElectionsLeft(election')
        BY <2>1 DEF Rebooted
    <2>. QED
        BY <1>0, <2>2, <2>3, NameAssumption DEF CandidaciesKept, ElectionsLeft, ElectionLeft
<1>14. ASSUME NEW s \in Server, NEW t \in Sender,
              \/ SendHeartbeat(s) \/ AbandonRound(s, t) \/ AcceptReply(s, t)
              \/ RejectReply(s, t) \/ AppendRpcFails(s, t)
       PROVE  CandidaciesKept
    BY <1>1, <1>14 DEF SendHeartbeat, AbandonRound, AcceptReply, RejectReply,
       AppendRpcFails, persistent, volatile
<1>15. ASSUME NEW s \in Server, NEW t \in Sender, NEW c \in Command, Propose(s, t, c)
       PROVE  CandidaciesKept
    <2>1. /\ role[s] = Leader /\ UNCHANGED <<role, election>>
          /\ \E lg : log' = [log EXCEPT ![s] = lg]
        BY <1>15 DEF Propose
    <2>. QED
        BY <1>0, <2>1, NameAssumption DEF CandidaciesKept
<1>16. CASE UNCHANGED vars
    BY <1>1, <1>16 DEF vars, persistent, volatile
<1>17. Heartbeat \in Sender
    BY DEF Sender
<1>. QED
    BY <1>3, <1>4, <1>5, <1>6, <1>8, <1>9, <1>10, <1>11, <1>14, <1>15, <1>16, <1>17
       DEF Wins, Proposes, Answers, Hears, Counts, Calm

\* What a leader counts stays what it was.
MatchesKept ==
    \A s \in Server : leader_state'[s] # Nil =>
        /\ leader_state[s] # Nil
        /\ leader_state'[s].match_index = leader_state[s].match_index
        /\ current_term'[s] = current_term[s]

LEMMA MatchesKeptStep ==
    ASSUME TypeOK, OnlyLeadersReady,
           Starts \/ Asks \/ Proposes \/ Answers \/ Hears \/ Calm
    PROVE  MatchesKept
<1>0. /\ current_term \in [Server -> Nat]
      /\ leader_state = [s \in Server |-> leader_state[s]]
      /\ \A s \in Server : leader_state[s] \in LeaderStateType(s) \cup {Nil}
    BY DEF TypeOK, ElectionTypeOK, TaskTypeOK
<1>1. ASSUME UNCHANGED <<leader_state, current_term>>
      PROVE  MatchesKept
    BY <1>1 DEF MatchesKept
<1>2. ASSUME NEW d \in Server, NEW term,
             current_term' = [current_term EXCEPT ![d] = term],
             leader_state' = [leader_state EXCEPT ![d] = Nil]
      PROVE  MatchesKept
    BY <1>0, <1>2 DEF MatchesKept
<1>3. ASSUME NEW d \in Server, NEW term \in Nat, term >= current_term[d],
             current_term' = [current_term EXCEPT ![d] = term],
             leader_state' = [leader_state EXCEPT ![d] =
                IF term > current_term[d] THEN Nil ELSE @]
      PROVE  MatchesKept
    <2>1. CASE term > current_term[d]
        BY <1>2, <1>3, <2>1
    <2>2. CASE term = current_term[d]
        BY <1>0, <1>1, <1>3, <2>2
    <2>. QED
        BY <1>0, <1>3, <2>1, <2>2
<1>4. ASSUME NEW s \in Server, StartElection(s)
      PROVE  MatchesKept
    <2>1. /\ leader_state[s] = Nil /\ leader_state' = leader_state
          /\ current_term' = [current_term EXCEPT ![s] = @ + 1]
        BY <1>4 DEF StartElection, OnlyLeadersReady
    <2>. QED
        BY <1>0, <2>1 DEF MatchesKept
<1>5. ASSUME NEW m \in VoteMsg, HandleRequestVote(m)
      PROVE  MatchesKept
    <2>1. m.dst \in Server /\ m.term \in Nat
        BY DEF VoteMsg
    <2>2. /\ current_term' = [current_term EXCEPT ![m.dst] = Max2(@, m.term)]
          /\ leader_state' = [leader_state EXCEPT ![m.dst] =
                IF m.term > current_term[m.dst] THEN Nil ELSE @]
        BY <1>5 DEF HandleRequestVote
    <2>3. CASE m.term > current_term[m.dst]
        BY <1>0, <1>2, <2>1, <2>2, <2>3 DEF Max2
    <2>4. CASE ~(m.term > current_term[m.dst])
        BY <1>0, <1>1, <2>1, <2>2, <2>4 DEF Max2
    <2>. QED
        BY <2>3, <2>4
<1>6. ASSUME NEW s \in Server, NEW p \in Server, AnswerVote(s, p)
      PROVE  MatchesKept
    <2>1. VoteRequest(s, p) \in VoteMsg
        BY <1>6, VoteRequestType DEF AnswerVote
    <2>. QED
        BY <1>5, <1>6, <2>1 DEF AnswerVote
<1>7. ASSUME NEW m \in BagToSet(stray), AnswerStrayVote(m)
      PROVE  MatchesKept
    <2>1. m \in VoteMsg
        BY <1>7 DEF AnswerStrayVote, TypeOK, TaskTypeOK, BagToSet, VoteMsg, AppendMsg
    <2>. QED
        BY <1>5, <1>7, <2>1 DEF AnswerStrayVote
<1>8. ASSUME NEW m \in AppendMsg, HandleAppendEntries(m)
      PROVE  MatchesKept
    <2>1. m.dst \in Server /\ m.term \in Nat
        BY DEF AppendMsg
    <2>2. CASE RefuseOldLeader(m)
        BY <1>1, <2>2 DEF RefuseOldLeader, persistent, volatile
    <2>3. CASE FollowLeader(m)
        <3>1. /\ m.term >= current_term[m.dst]
              /\ current_term' = [current_term EXCEPT ![m.dst] = m.term]
              /\ leader_state' = [leader_state EXCEPT ![m.dst] =
                    IF m.term > current_term[m.dst] THEN Nil ELSE @]
            BY <2>3 DEF FollowLeader
        <3>. QED
            BY <1>3, <2>1, <3>1
    <2>. QED
        BY <1>8, <2>2, <2>3 DEF HandleAppendEntries
<1>9. ASSUME NEW s \in Server, NEW t \in Sender, AnswerAppend(s, t)
      PROVE  MatchesKept
    BY <1>8, <1>9, WaitingTask DEF AnswerAppend, Outstanding
<1>10. ASSUME NEW m \in BagToSet(stray), AnswerStrayAppend(m)
       PROVE  MatchesKept
    <2>1. m \in AppendMsg
        BY <1>10 DEF AnswerStrayAppend, TypeOK, TaskTypeOK, BagToSet, VoteMsg, AppendMsg
    <2>. QED
        BY <1>8, <1>10, <2>1 DEF AnswerStrayAppend
<1>11. ASSUME NEW s \in Server, NEW t \in Sender, StepDownOnReply(s, t)
       PROVE  MatchesKept
    BY <1>2, <1>11 DEF StepDownOnReply, StepDown
<1>12. CASE Reboots
    <2>1. PICK s \in Server, term \in Nat, vote \in Server \cup {Nil} :
              Rebooted(s, term, vote)
        BY <1>12, RebootsFacts
    <2>. QED
        BY <1>2, <2>1 DEF Rebooted
<1>15. ASSUME NEW s \in Server, NEW t \in Sender, RejectReply(s, t)
       PROVE  MatchesKept
    <2>1. /\ leader_state[s] # Nil /\ leader_state[s] \in LeaderStateType(s)
          /\ current_term' = current_term
          /\ \E next : leader_state' = [leader_state EXCEPT ![s] =
                 [leader_state[s] EXCEPT !.next_index[sender[s][t].req.dst] = next]]
        BY <1>0, <1>15 DEF RejectReply, persistent
    <2>. QED
        BY <1>0, <2>1, SMTT(60) DEF MatchesKept, LeaderStateType
<1>16. ASSUME NEW s \in Server, NEW p \in Server, NEW t \in Sender,
              \/ SendHeartbeat(s) \/ AbandonRound(s, t) \/ AppendRpcFails(s, t)
              \/ LoseElection(s) \/ VoteRpcFails(s, p)
              \/ \E c \in Command : Propose(s, t, c)
       PROVE  MatchesKept
    BY <1>1, <1>16 DEF SendHeartbeat, AbandonRound, AppendRpcFails, LoseElection,
       VoteRpcFails, Propose, persistent, volatile
<1>17. CASE UNCHANGED vars
    BY <1>1, <1>17 DEF vars, persistent, volatile
<1>18. Heartbeat \in Sender
    BY DEF Sender
<1>. QED
    BY <1>4, <1>6, <1>7, <1>9, <1>10, <1>11, <1>12, <1>15, <1>16, <1>17, <1>18
       DEF Starts, Asks, Proposes, Answers, Hears, Calm

\* No task has an answer it did not have.
AnswersKept ==
    \A s \in Server, t \in Sender :
        sender'[s][t] # Nil /\ sender'[s][t].resp \notin {Nil, Lost} =>
            sender'[s][t] = sender[s][t]

LEMMA AnswersKeptStep ==
    ASSUME TypeOK, Starts \/ Asks \/ Wins \/ Proposes \/ Hears \/ Counts \/ Calm
    PROVE  AnswersKept
<1>0. sender \in [Server -> [Sender -> SenderType \cup {Nil}]]
    BY DEF TypeOK, TaskTypeOK
<1>1. ASSUME sender' = sender
      PROVE  AnswersKept
    BY <1>1 DEF AnswersKept
<1>2. ASSUME NEW s \in Server, NEW t \in Sender, NEW w, w # Nil => w.resp = Nil,
             sender' = [sender EXCEPT ![s][t] = w]
      PROVE  AnswersKept
    BY <1>0, <1>2 DEF AnswersKept
<1>3. ASSUME NEW s \in Server, NEW t \in Sender, NEW k, NEW ls, NEW lg,
             Continue(s, t, k, ls, lg)
      PROVE  AnswersKept
    <2>1. CASE PeersAfter(s, k) # {}
        <3>. DEFINE w == [at   |-> NextPeer(s, k),
                          req  |-> AppendRequest(s, Cluster[NextPeer(s, k)], ls, lg),
                          resp |-> Nil]
        <3>1. sender' = [sender EXCEPT ![s][t] = w] /\ w.resp = Nil
            BY <1>3, <2>1 DEF Continue
        <3>. HIDE DEF w
        <3>. QED
            BY <1>2, <3>1
    <2>2. CASE PeersAfter(s, k) = {}
        BY <1>2, <1>3, <2>2 DEF Continue
    <2>. QED
        BY <2>1, <2>2
<1>4. ASSUME NEW s \in Server, NEW t \in Sender,
             StepDownOnReply(s, t) \/ AbandonRound(s, t)
      PROVE  AnswersKept
    BY <1>2, <1>4, SMTT(60) DEF StepDownOnReply, AbandonRound
<1>5. ASSUME NEW s \in Server, NEW t \in Sender,
             \/ AcceptReply(s, t) \/ RejectReply(s, t)
             \/ \E c \in Command : Propose(s, t, c)
      PROVE  AnswersKept
    BY <1>3, <1>5 DEF AcceptReply, RejectReply, Propose
<1>6. ASSUME NEW s \in Server, SendHeartbeat(s)
      PROVE  AnswersKept
    <2>1. Heartbeat \in Sender
        BY DEF Sender
    <2>. QED
        BY <1>3, <1>6, <2>1 DEF SendHeartbeat
<1>7. ASSUME NEW s \in Server, NEW t \in Sender, AppendRpcFails(s, t)
      PROVE  AnswersKept
    BY <1>2, <1>3, <1>7 DEF AppendRpcFails
<1>8. ASSUME NEW s \in Server, BecomeLeader(s)
      PROVE  AnswersKept
    <2>1. sender' = [sender EXCEPT ![s][Heartbeat] = Nil] /\ Heartbeat \in Sender
        BY <1>8 DEF BecomeLeader, Sender
    <2>. QED
        BY <1>2, <2>1
<1>9. CASE Reboots
    <2>1. PICK s \in Server, term \in Nat, vote \in Server \cup {Nil} :
              Rebooted(s, term, vote)
        BY <1>9, RebootsFacts
    <2>2. SendersLeft(sender')
        BY <2>1 DEF Rebooted
    <2>3. ASSUME NEW p \in Server, NEW t \in Sender,
                 sender'[p][t] # Nil, sender'[p][t].resp \notin {Nil, Lost}
          PROVE  sender'[p][t] = sender[p][t]
        <3>1. sender'[p][t] \in SenderType /\ sender[p][t] \in SenderType
            BY <1>0, <2>2, <2>3 DEF SendersLeft, SenderLeft
        <3>2. /\ sender'[p][t].at = sender[p][t].at
              /\ sender'[p][t].req = sender[p][t].req
              /\ sender'[p][t].resp = sender[p][t].resp
            BY <2>2, <2>3 DEF SendersLeft, SenderLeft
        <3>. QED
            BY <3>1, <3>2 DEF SenderType
    <2>. QED
        BY <2>3 DEF AnswersKept
<1>10. ASSUME NEW s \in Server, NEW p \in Server,
              \/ StartElection(s) \/ LoseElection(s) \/ AnswerVote(s, p)
              \/ VoteRpcFails(s, p)
       PROVE  AnswersKept
    BY <1>1, <1>10 DEF StartElection, LoseElection, AnswerVote, VoteRpcFails,
       HandleRequestVote
<1>11. ASSUME NEW m \in BagToSet(stray), AnswerStrayVote(m) \/ AnswerStrayAppend(m)
       PROVE  AnswersKept
    BY <1>1, <1>11 DEF AnswerStrayVote, AnswerStrayAppend, HandleRequestVote
<1>14. CASE UNCHANGED vars
    BY <1>1, <1>14 DEF vars
<1>. QED
    BY <1>4, <1>5, <1>6, <1>7, <1>8, <1>9, <1>10, <1>11, <1>14
       DEF Starts, Asks, Wins, Proposes, Hears, Counts, Calm

LEMMA RisesOn ==
    ASSUME NEW lg \in Seq(Entry), NEW T \in Nat, NEW U \in Nat, T <= U, Rises(lg, T)
    PROVE  Rises(lg, U)
<1>1. \A i \in 1 .. Len(lg) : lg[i] \in Entry
    BY ElementOfSeq
<1>2. \A i \in 1 .. Len(lg) : lg[i].term \in Nat
    BY <1>1 DEF Entry
<1>. QED
    BY <1>2 DEF Rises

LEMMA MatchAckedKept ==
    ASSUME TypeOK, MatchesKept, NEW A \in Acks, NEW B \in Acks, AcksGrow(A, B),
           MatchAcked(A)
    PROVE  MatchAcked(B)'
<1>. SUFFICES ASSUME NEW s \in Server, leader_state'[s] # Nil, NEW p \in Others(s)
              PROVE  leader_state'[s].match_index[p] <= B[p][current_term'[s]]
    BY DEF MatchAcked
<1>1. /\ leader_state[s] # Nil
      /\ leader_state'[s].match_index = leader_state[s].match_index
      /\ current_term'[s] = current_term[s]
    BY DEF MatchesKept
<1>2. leader_state[s] \in LeaderStateType(s) /\ current_term[s] \in Nat /\ p \in Server
    BY <1>1 DEF TypeOK, TaskTypeOK, ElectionTypeOK, Others
<1>3. /\ leader_state[s].match_index[p] \in Nat
      /\ A[p][current_term[s]] \in Nat /\ B[p][current_term[s]] \in Nat
    BY <1>2, SMTT(60) DEF LeaderStateType, Acks
<1>4. leader_state[s].match_index[p] <= A[p][current_term[s]]
    BY <1>1 DEF MatchAcked
<1>5. A[p][current_term[s]] <= B[p][current_term[s]]
    BY <1>2 DEF AcksGrow
<1>. QED
    BY <1>1, <1>3, <1>4, <1>5

LEMMA ReplyAckedGrows ==
    ASSUME NEW A \in Acks, NEW B \in Acks, AcksGrow(A, B),
           NEW x \in SenderType \cup {Nil}, ReplyAcked(A, x)
    PROVE  ReplyAcked(B, x)
<1>. SUFFICES ASSUME x # Nil, x.resp \notin {Nil, Lost}, x.resp.success, x.req.entries # <<>>
              PROVE  x.req.prev_log_index + Len(x.req.entries) <= B[x.req.dst][x.req.term]
    BY DEF ReplyAcked
<1>1. x.req \in AppendMsg
    BY DEF SenderType
<1>2. /\ x.req.prev_log_index \in Nat /\ x.req.entries \in Seq(Entry)
      /\ x.req.dst \in Server /\ x.req.term \in Nat
    BY <1>1 DEF AppendMsg
<1>3. /\ Len(x.req.entries) \in Nat
      /\ A[x.req.dst][x.req.term] \in Nat /\ B[x.req.dst][x.req.term] \in Nat
    <2>1. Len(x.req.entries) \in Nat
        BY <1>2, LenProperties
    <2>2. \A p \in Server, T \in Nat : A[p][T] \in Nat /\ B[p][T] \in Nat
        BY DEF Acks
    <2>. QED
        BY <1>2, <2>1, <2>2
<1>4. x.req.prev_log_index + Len(x.req.entries) <= A[x.req.dst][x.req.term]
    BY DEF ReplyAcked
<1>5. A[x.req.dst][x.req.term] <= B[x.req.dst][x.req.term]
    BY <1>2 DEF AcksGrow
<1>. QED
    BY <1>2, <1>3, <1>4, <1>5, SMTT(60)

LEMMA RepliesAckedKept ==
    ASSUME TypeOK, AnswersKept, NEW A \in Acks, NEW B \in Acks, AcksGrow(A, B),
           RepliesAcked(A)
    PROVE  RepliesAcked(B)'
<1>. SUFFICES ASSUME NEW s \in Server, NEW t \in Sender
              PROVE  ReplyAcked(B, sender'[s][t])
    BY DEF RepliesAcked
<1>1. CASE sender'[s][t] # Nil /\ sender'[s][t].resp \notin {Nil, Lost}
    <2>1. sender'[s][t] = sender[s][t]
        BY <1>1 DEF AnswersKept
    <2>2. sender[s][t] \in SenderType \cup {Nil}
        BY DEF TypeOK, TaskTypeOK
    <2>3. ReplyAcked(B, sender[s][t])
        BY <2>2, ReplyAckedGrows DEF RepliesAcked
    <2>. QED
        BY <2>1, <2>3
<1>2. CASE ~(sender'[s][t] # Nil /\ sender'[s][t].resp \notin {Nil, Lost})
    BY <1>2 DEF ReplyAcked
<1>. QED
    BY <1>1, <1>2

LEMMA SameGrows ==
    ASSUME NEW F \in LeaderLogs, NEW A \in Acks
    PROVE  LogsGrow(F, F) /\ AcksGrow(A, A)
<1>1. \A p \in Server, T \in Nat : A[p][T] \in Nat
    BY DEF Acks
<1>2. \A T \in Nat : F[T] \in Seq(Entry)
    BY DEF LeaderLogs
<1>3. \A T \in Nat : Len(F[T]) \in Nat
    BY <1>2, LenProperties
<1>. QED
    BY <1>1, <1>3 DEF LogsGrow, AcksGrow

\* Steps that change no log, elect nobody and make no leader.
LEMMA CalmAcks ==
    ASSUME TypeOK, TermsUp, Quiet, NEW F \in LeaderLogs, NEW A \in Acks, AckInv(F, A)
    PROVE  /\ LogsRise(F)'
           /\ AcksTrue(F, A)'
           /\ LogsSafe(F, A)'
           /\ LeadersSafe(F, A)'
<1>1. /\ current_term \in [Server -> Nat]
      /\ log \in [Server -> Seq(Entry)]
      /\ log' = log /\ elections' = elections
    BY DEF TypeOK, ElectionTypeOK, LogTypeOK, Quiet
<1>2. LogsRise(F)'
    <2>1. ASSUME NEW s \in Server
          PROVE  Rises(log[s], current_term'[s])
        BY <1>1, RisesOn DEF AckInv, LogsRise, TermsUp
    <2>. QED
        BY <1>1, <2>1 DEF AckInv, LogsRise
<1>3. AcksTrue(F, A)'
    <2>1. ASSUME NEW p \in Server, NEW T \in Nat, A[p][T] > 0
          PROVE  T <= current_term'[p] /\ Elected(elections, T) /\ A[p][T] <= Len(F[T])
        <3>1. T <= current_term[p] /\ Elected(elections, T) /\ A[p][T] <= Len(F[T])
            BY <2>1 DEF AckInv, AcksTrue
        <3>2. current_term'[p] >= current_term[p] /\ current_term'[p] \in Nat
              /\ current_term[p] \in Nat
            BY <1>1 DEF TermsUp
        <3>. QED
            BY <3>1, <3>2
    <2>2. ASSUME NEW s \in Server, role'[s] = Leader
          PROVE  A[s][current_term'[s]] = Len(log[s])
        BY <2>2 DEF Quiet, AckInv, AcksTrue
    <2>. QED
        BY <1>1, <2>1, <2>2 DEF AcksTrue
<1>4. AcksGrow(A, A)
    BY SameGrows
<1>5. LogsSafe(F, A)'
    <2>. SUFFICES ASSUME NEW p \in Server, NEW T \in Nat, NEW i \in Nat,
                         i <= A[p][T], Has(F[T], T, i)
                  PROVE  Has(log'[p], T, i) \/ NeverAcked(A, T, i)'
        BY DEF LogsSafe, SafeIn
    <2>1. Has(log[p], T, i) \/ NeverAcked(A, T, i)
        BY DEF AckInv, LogsSafe, SafeIn
    <2>. QED
        BY <1>1, <1>4, <2>1, NeverAckedStays
<1>6. LeadersSafe(F, A)'
    <2>. SUFFICES ASSUME NEW T \in Nat, NEW U \in Nat, NEW i \in Nat, T < U,
                         Elected(elections, T), Elected(elections, U), Has(F[T], T, i)
                  PROVE  Has(F[U], T, i) \/ NeverAcked(A, T, i)'
        BY <1>1 DEF LeadersSafe, SafeIn
    <2>1. Has(F[U], T, i) \/ NeverAcked(A, T, i)
        BY DEF AckInv, LeadersSafe, SafeIn
    <2>. QED
        BY <1>4, <2>1, NeverAckedStays
<1>. QED
    BY <1>2, <1>3, <1>5, <1>6

LEMMA AcksCalm ==
    ASSUME TypeOK, ElectionInv, OnlyLeadersReady, TermsUp, Calm,
           NEW F \in LeaderLogs, NEW A \in Acks, AckInv(F, A)
    PROVE  AckInv(F, A)'
<1>1. Quiet
    <2>1. CASE UNCHANGED vars
        BY <2>1 DEF vars, persistent, volatile, history, Quiet
    <2>2. CASE ~UNCHANGED vars
        BY <2>2, QuietActions DEF Calm
    <2>. QED
        BY <2>1, <2>2
<1>2. LogsGrow(F, F) /\ AcksGrow(A, A)
    BY SameGrows
<1>3. CandidaciesKept /\ MatchesKept /\ AnswersKept
    BY CandidaciesKeptStep, MatchesKeptStep, AnswersKeptStep
<1>4. MatchAcked(A)' /\ RepliesAcked(A)' /\ CandidatesSafe(F, A)'
    BY <1>2, <1>3, MatchAckedKept, RepliesAckedKept, CandidatesKept DEF AckInv
<1>. QED
    BY <1>1, <1>4, CalmAcks DEF AckInv

\* _start_election: who stands for itself has what it acknowledged.
LEMMA AcksStarts ==
    ASSUME TypeOK, ElectionInv, OnlyLeadersReady, TermsUp,
           NEW F \in LeaderLogs, NEW A \in Acks, AckInv(F, A), Starts
    PROVE  AckInv(F, A)'
<1>1. PICK s \in Server : StartElection(s)
    BY DEF Starts
<1>2. Quiet
    BY <1>1, QuietActions
<1>3. LogsGrow(F, F) /\ AcksGrow(A, A)
    BY SameGrows
<1>4. MatchesKept /\ AnswersKept
    BY MatchesKeptStep, AnswersKeptStep
<1>5. MatchAcked(A)' /\ RepliesAcked(A)'
    BY <1>3, <1>4, MatchAckedKept, RepliesAckedKept DEF AckInv
<1>6. /\ role \in [Server -> {Follower, Candidate, Leader}]
      /\ election \in [Server -> ElectionType \cup {Nil}]
      /\ log' = log
      /\ role' = [role EXCEPT ![s] = Candidate]
      /\ election' = [election EXCEPT ![s] =
            [term           |-> current_term[s] + 1,
             last_log_index |-> Len(log[s]),
             last_log_term  |-> LastTerm(log[s]),
             pending        |-> Others(s),
             granted        |-> {s}]]
    BY <1>1 DEF StartElection, TypeOK, ElectionTypeOK
<1>7. CandidatesSafe(F, A)'
    <2>. SUFFICES ASSUME NEW q \in Server, role'[q] = Candidate, election'[q] # Nil
                  PROVE  /\ election'[q].last_log_index = Len(log'[q])
                         /\ election'[q].last_log_term = LastTerm(log'[q])
                         /\ \A p \in election'[q].granted, T \in Nat, i \in Nat :
                              T < election'[q].term /\ i <= A[p][T] /\ Has(F[T], T, i)
                              => Has(log'[q], T, i) \/ NeverAcked(A, T, i)'
        BY DEF CandidatesSafe, SafeIn
    <2>1. CASE q = s
        <3>1. /\ election'[q].last_log_index = Len(log[q])
              /\ election'[q].last_log_term = LastTerm(log[q])
              /\ election'[q].granted = {s}
            BY <1>6, <2>1
        <3>2. ASSUME NEW T \in Nat, NEW i \in Nat, i <= A[s][T], Has(F[T], T, i)
              PROVE  Has(log[s], T, i) \/ NeverAcked(A, T, i)'
            <4>1. Has(log[s], T, i) \/ NeverAcked(A, T, i)
                BY <3>2 DEF AckInv, LogsSafe, SafeIn
            <4>. QED
                BY <1>3, <4>1, NeverAckedStays
        <3>. QED
            BY <1>6, <2>1, <3>1, <3>2
    <2>2. CASE q # s
        <3>1. /\ role[q] = Candidate /\ election[q] # Nil
              /\ election'[q] = election[q] /\ log'[q] = log[q]
            BY <1>6, <2>2
        <3>2. ASSUME NEW p \in election[q].granted, NEW T \in Nat, NEW i \in Nat,
                     T < election[q].term, i <= A[p][T], Has(F[T], T, i)
              PROVE  Has(log[q], T, i) \/ NeverAcked(A, T, i)'
            <4>1. Has(log[q], T, i) \/ NeverAcked(A, T, i)
                BY <3>1, <3>2 DEF AckInv, CandidatesSafe, SafeIn
            <4>. QED
                BY <1>3, <4>1, NeverAckedStays
        <3>. QED
            BY <3>1, <3>2 DEF AckInv, CandidatesSafe
    <2>. QED
        BY <2>1, <2>2
<1>. QED
    BY <1>2, <1>5, <1>7, CalmAcks DEF AckInv

\* What is counted is what was acknowledged, in the term in which it is counted.
LEMMA AcksCounts ==
    ASSUME TypeOK, ElectionInv, OnlyLeadersReady, TermsUp, AnswersInTerm,
           NEW F \in LeaderLogs, NEW A \in Acks, AckInv(F, A), Counts
    PROVE  AckInv(F, A)'
<1>1. PICK s \in Server, t \in Sender : AcceptReply(s, t)
    BY DEF Counts
<1>2. Quiet
    BY <1>1, QuietActions
<1>3. LogsGrow(F, F) /\ AcksGrow(A, A)
    BY SameGrows
<1>4. CandidaciesKept /\ AnswersKept
    BY CandidaciesKeptStep, AnswersKeptStep
<1>5. RepliesAcked(A)' /\ CandidatesSafe(F, A)'
    BY <1>3, <1>4, RepliesAckedKept, CandidatesKept DEF AckInv
<1>6. MatchAcked(A)'
    <2>. DEFINE req == sender[s][t].req
                match == req.prev_log_index + Len(req.entries)
    <2>1. /\ sender[s][t] # Nil /\ sender[s][t].resp \notin {Nil, Lost}
          /\ sender[s][t].resp.success
          /\ leader_state[s] # Nil
          /\ req.term = current_term[s]
          /\ current_term' = current_term
          /\ leader_state' = [leader_state EXCEPT ![s] =
                IF req.entries = <<>> THEN leader_state[s]
                ELSE [next_index  |-> [leader_state[s].next_index
                                          EXCEPT ![req.dst] = match + 1],
                      match_index |-> [leader_state[s].match_index
                                          EXCEPT ![req.dst] = match]]]
        BY <1>1, ZenonT(60) DEF AcceptReply, Answered, AnswersInTerm, persistent
    <2>2. /\ leader_state = [q \in Server |-> leader_state[q]]
          /\ leader_state[s] \in LeaderStateType(s)
        BY <2>1, SMTT(60) DEF TypeOK, TaskTypeOK
    <2>3. req.entries # <<>> => match <= A[req.dst][current_term[s]]
        BY <2>1 DEF AckInv, RepliesAcked, ReplyAcked
    <2>. HIDE DEF req, match
    <2>. SUFFICES ASSUME NEW q \in Server, leader_state'[q] # Nil, NEW p \in Others(q)
                  PROVE  leader_state'[q].match_index[p] <= A[p][current_term[q]]
        BY <2>1 DEF MatchAcked
    <2>4. CASE q # s \/ req.entries = <<>>
        BY <2>1, <2>2, <2>4 DEF AckInv, MatchAcked
    <2>5. CASE q = s /\ req.entries # <<>>
        <3>1. leader_state'[s].match_index = [leader_state[s].match_index
                                                EXCEPT ![req.dst] = match]
            BY <2>1, <2>2, <2>5
        <3>2. leader_state[s].match_index \in [Others(s) -> Nat]
            BY <2>2 DEF LeaderStateType
        <3>3. leader_state[s].match_index[p] <= A[p][current_term[s]]
            BY <2>1, <2>5 DEF AckInv, MatchAcked
        <3>. QED
            BY <2>3, <2>5, <3>1, <3>2, <3>3
    <2>. QED
        BY <2>4, <2>5, SMTT(60)
<1>. QED
    BY <1>2, <1>5, <1>6, CalmAcks DEF AckInv

\* The last entry of a log that fits.
LEMMA LastEntry ==
    ASSUME NEW F \in LeaderLogs, NEW lg \in Seq(Entry), LogFits(F, elections, lg),
           TermsStart, TypeOK
    PROVE  /\ LastTerm(lg) \in Nat
           /\ lg = <<>> => LastTerm(lg) = 0
           /\ lg # <<>> =>
                /\ Len(lg) \in 1 .. Len(lg) /\ LastTerm(lg) = lg[Len(lg)].term
                /\ LastTerm(lg) > 0 /\ Elected(elections, LastTerm(lg))
                /\ Len(lg) <= Len(F[LastTerm(lg)])
                /\ \A j \in 1 .. Len(lg) : F[LastTerm(lg)][j] = lg[j]
<1>1. CASE lg = <<>>
    BY <1>1 DEF LastTerm
<1>2. CASE lg # <<>>
    <2>1. Len(lg) \in Nat /\ Len(lg) # 0
        BY <1>2, LenProperties, EmptySeq
    <2>2. Len(lg) \in 1 .. Len(lg) /\ LastTerm(lg) = lg[Len(lg)].term
        BY <1>2, <2>1 DEF LastTerm
    <2>3. lg[Len(lg)] \in Entry
        BY <2>2, ElementOfSeq
    <2>4. /\ Elected(elections, LastTerm(lg))
          /\ Len(lg) <= Len(F[LastTerm(lg)])
          /\ \A j \in 1 .. Len(lg) : F[LastTerm(lg)][j] = lg[j]
        BY <2>2 DEF LogFits
    <2>5. LastTerm(lg) > 0
        BY <2>4 DEF Elected, TermsStart
    <2>. QED
        BY <1>2, <2>2, <2>3, <2>4, <2>5 DEF Entry
<1>. QED
    BY <1>1, <1>2

\* Who votes sees to it that the candidate has what it acknowledged itself: a log
\* that is as up to date has it, or ends in a later term whose leader had it.
LEMMA VoteCovers ==
    ASSUME TypeOK, TermsStart, NEW F \in LeaderLogs, NEW A \in Acks,
           Fits(F), AckInv(F, A), NEW s \in Server, NEW p \in Server,
           \/ LastTerm(log[s]) > LastTerm(log[p])
           \/ LastTerm(log[s]) = LastTerm(log[p]) /\ Len(log[s]) >= Len(log[p]),
           NEW T \in Nat, NEW i \in Nat, i <= A[p][T], Has(F[T], T, i)
    PROVE  SafeIn(A, log[s], T, i)
<1>. SUFFICES ASSUME ~NeverAcked(A, T, i)
              PROVE  Has(log[s], T, i)
    BY DEF SafeIn
<1>1. Has(log[p], T, i)
    BY DEF AckInv, LogsSafe, SafeIn
<1>. PICK a, b : a = log[s] /\ b = log[p]
    OBVIOUS
<1>2. /\ a \in Seq(Entry) /\ b \in Seq(Entry)
      /\ LogFits(F, elections, a) /\ LogFits(F, elections, b)
    BY DEF TypeOK, LogTypeOK, Fits
<1>3. Len(a) \in Nat /\ Len(b) \in Nat
    BY <1>2, LenProperties
<1>4. i \in 1 .. Len(b) /\ b[i].term = T /\ b # <<>>
    BY <1>1, <1>3, EmptySeq DEF Has
<1>. PICK V, W : V = LastTerm(a) /\ W = LastTerm(b)
    OBVIOUS
<1>5. /\ W \in Nat /\ W > 0 /\ Elected(elections, W)
      /\ Len(b) \in 1 .. Len(b) /\ b[Len(b)].term = W
      /\ Len(b) <= Len(F[W]) /\ \A j \in 1 .. Len(b) : F[W][j] = b[j]
    BY <1>2, <1>4, LastEntry, SMTT(60)
<1>6. V \in Nat /\ (V = W \/ V > W) /\ (V = W => Len(a) >= Len(b))
    BY <1>2, LastEntry
<1>7. V > 0
    BY <1>5, <1>6
<1>8. /\ Elected(elections, V) /\ Len(a) \in 1 .. Len(a) /\ a[Len(a)].term = V
      /\ Len(a) <= Len(F[V]) /\ \A j \in 1 .. Len(a) : F[V][j] = a[j]
    BY <1>2, <1>7, LastEntry
<1>9. T <= W
    <2>1. Rises(b, current_term[p])
        BY DEF AckInv, LogsRise
    <2>. QED
        BY <1>4, <1>5, <2>1 DEF Rises
<1>10. CASE V = W
    <2>1. i \in 1 .. Len(a) /\ a[i] = b[i]
        BY <1>3, <1>4, <1>5, <1>6, <1>8, <1>10
    <2>. QED
        BY <1>4, <2>1 DEF Has
<1>11. CASE V > W
    <2>1. T < V
        BY <1>5, <1>6, <1>9, <1>11
    <2>2. Elected(elections, T)
        BY <1>2, <1>4 DEF LogFits
    <2>3. Has(F[V], T, i)
        BY <1>6, <1>8, <2>1, <2>2 DEF AckInv, LeadersSafe, SafeIn
    <2>4. i <= Len(a)
        <3>. SUFFICES ASSUME i > Len(a) PROVE FALSE
            BY <1>3
        <3>1. Rises(F[V], V)
            BY <1>6, <1>8 DEF AckInv, LogsRise
        <3>2. Len(a) \in 1 .. i /\ i \in 1 .. Len(F[V])
            BY <1>3, <1>8, <2>3 DEF Has
        <3>3. F[V][Len(a)].term <= F[V][i].term
            BY <3>1, <3>2 DEF Rises
        <3>4. F[V][Len(a)].term = V /\ F[V][i].term = T
            BY <1>8, <2>3 DEF Has
        <3>. QED
            BY <1>6, <2>1, <3>3, <3>4
    <2>5. i \in 1 .. Len(a)
        BY <1>3, <1>4, <2>4
    <2>. QED
        BY <1>8, <2>3, <2>5 DEF Has
<1>. QED
    BY <1>6, <1>10, <1>11

\* A vote given to a candidate that still waits for it.
LEMMA AcksAsks ==
    ASSUME TypeOK, ElectionInv, OnlyLeadersReady, TermsUp, TermsStart,
           NEW F \in LeaderLogs, NEW A \in Acks, Fits(F), AckInv(F, A), Asks
    PROVE  AckInv(F, A)'
<1>1. PICK s \in Server, p \in Server : AnswerVote(s, p)
    BY DEF Asks
<1>2. Quiet
    BY <1>1, QuietActions
<1>3. LogsGrow(F, F) /\ AcksGrow(A, A)
    BY SameGrows
<1>4. MatchesKept /\ AnswersKept
    BY MatchesKeptStep, AnswersKeptStep
<1>5. MatchAcked(A)' /\ RepliesAcked(A)'
    BY <1>3, <1>4, MatchAckedKept, RepliesAckedKept DEF AckInv
<1>. PICK m : m = VoteRequest(s, p)
    OBVIOUS
<1>6. /\ election[s] # Nil
      /\ role \in [Server -> {Follower, Candidate, Leader}]
      /\ election \in [Server -> ElectionType \cup {Nil}]
      /\ log' = log
      /\ role' = [role EXCEPT ![p] =
            IF m.term > current_term[p] THEN Follower ELSE @]
      /\ election' = [election EXCEPT
            ![s].pending = @ \ {p},
            ![s].granted = IF GrantsVote(m) THEN @ \cup {p} ELSE @]
    BY <1>1 DEF AnswerVote, HandleRequestVote, VoteRequest, TypeOK, ElectionTypeOK
<1>7. /\ election[s] \in ElectionType
      /\ \A q \in Server \ {s} : election'[q] = election[q]
      /\ election'[s].term = election[s].term
      /\ election'[s].last_log_index = election[s].last_log_index
      /\ election'[s].last_log_term = election[s].last_log_term
      /\ election'[s].granted = election[s].granted \cup
            (IF GrantsVote(m) THEN {p} ELSE {})
    BY <1>6 DEF ElectionType
<1>8. ASSUME NEW q \in Server, role'[q] = Candidate, election'[q] # Nil
      PROVE  role[q] = Candidate /\ election[q] # Nil
    BY <1>6, <1>7, <1>8, NameAssumption
<1>9. CandidatesSafe(F, A)'
    <2>. SUFFICES ASSUME NEW q \in Server, role'[q] = Candidate, election'[q] # Nil
                  PROVE  /\ election'[q].last_log_index = Len(log'[q])
                         /\ election'[q].last_log_term = LastTerm(log'[q])
                         /\ \A v \in election'[q].granted, T \in Nat, i \in Nat :
                              T < election'[q].term /\ i <= A[v][T] /\ Has(F[T], T, i)
                              => Has(log'[q], T, i) \/ NeverAcked(A, T, i)'
        BY DEF CandidatesSafe, SafeIn
    <2>1. role[q] = Candidate /\ election[q] # Nil
        BY <1>8
    <2>2. /\ election'[q].term = election[q].term
          /\ election'[q].last_log_index = election[q].last_log_index
          /\ election'[q].last_log_term = election[q].last_log_term
          /\ election[q].last_log_index = Len(log[q])
          /\ election[q].last_log_term = LastTerm(log[q])
        BY <1>7, <2>1 DEF AckInv, CandidatesSafe
    <2>3. ASSUME NEW v \in election'[q].granted, NEW T \in Nat, NEW i \in Nat,
                 T < election[q].term, i <= A[v][T], Has(F[T], T, i)
          PROVE  Has(log[q], T, i) \/ NeverAcked(A, T, i)'
        <3>1. SafeIn(A, log[q], T, i)
            <4>1. CASE v \in election[q].granted
                BY <2>1, <2>3, <4>1 DEF AckInv, CandidatesSafe
            <4>2. CASE v \notin election[q].granted
                <5>1. q = s /\ v = p /\ GrantsVote(m)
                    BY <1>7, <4>2
                <5>2. LogUpToDate(m, log[p])
                    BY <5>1 DEF GrantsVote, VoteRequest
                <5>3. \/ LastTerm(log[s]) > LastTerm(log[p])
                      \/ LastTerm(log[s]) = LastTerm(log[p]) /\ Len(log[s]) >= Len(log[p])
                    BY <2>2, <5>1, <5>2 DEF LogUpToDate, VoteRequest
                <5>. QED
                    BY <2>3, <5>1, <5>3, VoteCovers
            <4>. QED
                BY <4>1, <4>2
        <3>. QED
            BY <1>3, <3>1, NeverAckedStays DEF SafeIn
    <2>. QED
        BY <1>6, <2>2, <2>3
<1>. QED
    BY <1>2, <1>5, <1>9, CalmAcks DEF AckInv

\* s acknowledges n entries of the log of term U.
Acked(A, s, U, n) ==
    [p \in Server |-> [T \in Nat |-> IF p = s /\ T = U THEN n ELSE A[p][T]]]

LEMMA AckTypes ==
    ASSUME NEW A \in Acks
    PROVE  \A p \in Server, T \in Nat : A[p][T] \in Nat
BY DEF Acks

LEMMA AckUpdate ==
    ASSUME NEW A \in Acks, NEW s \in Server, NEW U \in Nat, NEW n \in Nat
    PROVE  /\ Acked(A, s, U, n) \in Acks
           /\ Acked(A, s, U, n)[s][U] = n
<1>1. A \in [Server -> [Nat -> Nat]]
    BY DEF Acks
<1>2. \A p \in Server : A[p] \in [Nat -> Nat]
    BY <1>1
<1>. QED
    BY <1>2 DEF Acked, Acks

LEMMA AckElsewhere ==
    ASSUME NEW A \in Acks, NEW s \in Server, NEW U \in Nat, NEW n \in Nat
    PROVE  \A p \in Server, T \in Nat :
               p # s \/ T # U => Acked(A, s, U, n)[p][T] = A[p][T]
BY DEF Acked

\* Nobody was elected before in the term of an election that is won.
LEMMA NewTerm ==
    ASSUME TypeOK, ElectionInv, ElectionsOpen, ElectionSafety',
           NEW s \in Server, BecomeLeader(s)
    PROVE  /\ ~Elected(elections, current_term[s])
           /\ election[s].term = current_term[s]
           /\ elections' = elections \cup {[term |-> current_term[s], leader |-> s]}
<1>1. /\ election[s] # Nil /\ election[s].term = current_term[s]
      /\ elections' = elections \cup {[term |-> current_term[s], leader |-> s]}
    BY DEF BecomeLeader, Won, ElectionInv, ElectionCurrent
<1>2. ASSUME NEW e \in elections, e.term = current_term[s]
      PROVE  FALSE
    <2>1. e.leader = s
        <3>1. e \in elections' /\ [term |-> current_term[s], leader |-> s] \in elections'
            BY <1>1
        <3>2. \A a, b \in elections' : a.term = b.term => a.leader = b.leader
            BY DEF ElectionSafety
        <3>. QED
            BY <1>2, <3>1, <3>2
    <2>2. e = [term |-> current_term[s], leader |-> s]
        BY <1>2, <2>1 DEF TypeOK, ElectionTypeOK
    <2>. QED
        BY <1>1, <2>2 DEF ElectionsOpen
<1>. QED
    BY <1>1, <1>2 DEF Elected

\* _become_leader: what a majority voted for has all that may be committed.
LEMMA AcksWins ==
    ASSUME TypeOK, ElectionInv, OnlyLeadersReady, ElectionsOpen, ElectionSafety', TermsUp,
           NEW F \in LeaderLogs, NEW A \in Acks, Fits(F), AckInv(F, A),
           NEW s \in Server, BecomeLeader(s),
           NEW G \in LeaderLogs, G = [F EXCEPT ![current_term[s]] = log[s]]
    PROVE  \E B \in Acks :
              /\ LogsGrow(F, G) /\ AcksGrow(A, B)
              /\ AckInv(G, B)'
<1>. PICK U : U = current_term[s]
    OBVIOUS
<1>1. /\ current_term \in [Server -> Nat]
      /\ role \in [Server -> {Follower, Candidate, Leader}]
      /\ log \in [Server -> Seq(Entry)]
      /\ U \in Nat /\ log[s] \in Seq(Entry) /\ Len(log[s]) \in Nat
    BY LenProperties DEF TypeOK, ElectionTypeOK, LogTypeOK
<1>2. /\ election[s] # Nil /\ role[s] = Candidate
      /\ Cardinality(election[s].granted) >= Majority
      /\ role' = [role EXCEPT ![s] = Leader]
      /\ leader_state' = [leader_state EXCEPT ![s] = FreshLeaderState(s)]
      /\ current_term' = current_term /\ log' = log
    BY DEF BecomeLeader, Won, persistent
<1>3. /\ ~Elected(elections, U) /\ election[s].term = U
      /\ elections' = elections \cup {[term |-> U, leader |-> s]}
    BY NewTerm
<1>4. \A T : Elected(elections', T) <=> T = U \/ Elected(elections, T)
    <2>1. \A T : Elected(elections', T) <=>
              \E e \in elections \cup {[term |-> U, leader |-> s]} : e.term = T
        BY <1>3 DEF Elected
    <2>2. [term |-> U, leader |-> s].term = U
        OBVIOUS
    <2>. QED
        BY <2>1, <2>2 DEF Elected
<1>5. /\ G[U] = log[s]
      /\ \A T \in Nat \ {U} : G[T] = F[T]
    BY <1>1 DEF LeaderLogs
<1>. PICK B : B = Acked(A, s, U, Len(log[s]))
    OBVIOUS
<1>6. /\ B \in Acks
      /\ B[s][U] = Len(log[s])
      /\ \A p \in Server, T \in Nat : p # s \/ T # U => B[p][T] = A[p][T]
      /\ \A p \in Server, T \in Nat : A[p][T] \in Nat /\ B[p][T] \in Nat
    <2>1. U \in Nat /\ Len(log[s]) \in Nat
        BY <1>1
    <2>2. B \in Acks
        BY <2>1, AckUpdate
    <2>3. B[s][U] = Len(log[s])
        BY <2>1, AckUpdate, ZenonT(60)
    <2>4. \A p \in Server, T \in Nat : p # s \/ T # U => B[p][T] = A[p][T]
        BY <2>1, AckElsewhere, SMTT(60)
    <2>5. \A p \in Server, T \in Nat : A[p][T] \in Nat
        BY AckTypes
    <2>6. \A p \in Server, T \in Nat : B[p][T] \in Nat
        BY <2>2, AckTypes
    <2>. QED
        BY <2>2, <2>3, <2>4, <2>5, <2>6
<1>7. \A p \in Server : A[p][U] = 0
    <2>1. \A p \in Server : ~(A[p][U] > 0)
        BY <1>1, <1>3 DEF AckInv, AcksTrue
    <2>. QED
        BY <1>1, <1>6, <2>1
<1>8. LogsGrow(F, G)
    <2>1. \A T \in Nat : F[T] \in Seq(Entry)
        BY DEF LeaderLogs
    <2>2. \A T \in Nat : Len(F[T]) \in Nat
        BY <2>1, LenProperties
    <2>. QED
        BY <1>3, <1>5, <2>2 DEF LogsGrow
<1>9. AcksGrow(A, B)
    <2>. SUFFICES ASSUME NEW p \in Server, NEW T \in Nat
                  PROVE  /\ A[p][T] <= B[p][T]
                         /\ current_term[p] > T => B[p][T] = A[p][T]
        BY DEF AcksGrow
    <2>1. A[p][T] \in Nat /\ B[p][T] \in Nat
        BY <1>6
    <2>2. CASE p = s /\ T = U
        BY <1>1, <1>7, <2>1, <2>2
    <2>3. CASE p # s \/ T # U
        BY <1>6, <2>1, <2>3
    <2>. QED
        BY <2>2, <2>3
<1>10. LogsRise(G)'
    <2>1. \A q \in Server : Rises(log[q], current_term[q])
        BY DEF AckInv, LogsRise
    <2>2. ASSUME NEW T \in Nat, Elected(elections', T)
          PROVE  Rises(G[T], T)
        BY <1>4, <1>5, <2>1, <2>2 DEF AckInv, LogsRise
    <2>. QED
        BY <1>2, <2>1, <2>2 DEF LogsRise
<1>11. AcksTrue(G, B)'
    <2>1. ASSUME NEW p \in Server, NEW T \in Nat, B[p][T] > 0
          PROVE  T <= current_term[p] /\ Elected(elections', T) /\ B[p][T] <= Len(G[T])
        <3>1. CASE p = s /\ T = U
            BY <1>1, <1>4, <1>5, <1>6, <3>1
        <3>2. CASE ~(p = s /\ T = U)
            <4>1. B[p][T] = A[p][T]
                BY <1>6, <3>2
            <4>2. T <= current_term[p] /\ Elected(elections, T) /\ A[p][T] <= Len(F[T])
                BY <2>1, <4>1 DEF AckInv, AcksTrue
            <4>3. G[T] = F[T]
                BY <1>3, <1>5, <4>2
            <4>. QED
                BY <1>4, <4>1, <4>2, <4>3
        <3>. QED
            BY <3>1, <3>2
    <2>2. ASSUME NEW q \in Server, role'[q] = Leader
          PROVE  B[q][current_term[q]] = Len(log[q])
        <3>1. CASE q = s
            BY <1>6, <3>1
        <3>2. CASE q # s
            <4>1. role[q] = Leader
                BY <1>1, <1>2, <2>2, <3>2
            <4>2. A[q][current_term[q]] = Len(log[q])
                BY <4>1 DEF AckInv, AcksTrue
            <4>. QED
                BY <1>1, <1>6, <3>2, <4>2
        <3>. QED
            BY <3>1, <3>2
    <2>. QED
        BY <1>2, <2>1, <2>2 DEF AcksTrue
<1>12. MatchAcked(B)'
    <2>. SUFFICES ASSUME NEW q \in Server, leader_state'[q] # Nil, NEW p \in Others(q)
                  PROVE  leader_state'[q].match_index[p] <= B[p][current_term[q]]
        BY <1>2 DEF MatchAcked
    <2>1. leader_state = [r \in Server |-> leader_state[r]] /\ p \in Server
        BY DEF TypeOK, TaskTypeOK, Others
    <2>2. CASE q = s
        <3>1. leader_state'[q].match_index[p] = 0
            BY <1>2, <2>1, <2>2 DEF FreshLeaderState
        <3>2. B[p][current_term[q]] \in Nat
            BY <1>1, <1>6, <2>1
        <3>. QED
            BY <3>1, <3>2
    <2>3. CASE q # s
        <3>1. leader_state'[q] = leader_state[q]
            BY <1>2, <2>1, <2>3
        <3>2. leader_state[q].match_index[p] <= A[p][current_term[q]]
            BY <3>1 DEF AckInv, MatchAcked
        <3>3. leader_state[q] \in LeaderStateType(q)
            BY <3>1 DEF TypeOK, TaskTypeOK
        <3>4. leader_state[q].match_index[p] \in Nat
            BY <3>3 DEF LeaderStateType
        <3>5. A[p][current_term[q]] <= B[p][current_term[q]] /\ B[p][current_term[q]] \in Nat
              /\ A[p][current_term[q]] \in Nat
            <4>1. current_term[q] \in Nat
                BY <1>1
            <4>2. B[p][current_term[q]] \in Nat /\ A[p][current_term[q]] \in Nat
                BY <1>6, <2>1, <4>1
            <4>. QED
                BY <1>9, <2>1, <4>1, <4>2 DEF AcksGrow
        <3>. QED
            BY <3>1, <3>2, <3>4, <3>5
    <2>. QED
        BY <2>2, <2>3
<1>13. CandidaciesKept /\ AnswersKept
    BY CandidaciesKeptStep, AnswersKeptStep DEF Wins
<1>14. RepliesAcked(B)' /\ CandidatesSafe(G, B)'
    BY <1>6, <1>8, <1>9, <1>13, RepliesAckedKept, CandidatesKept DEF AckInv
<1>15. \A i \in Nat : ~Has(G[U], U, i)
    <2>1. LogFits(F, elections, log[s])
        BY DEF Fits
    <2>. QED
        BY <1>3, <1>5, <2>1 DEF Has, LogFits
<1>16. LogsSafe(G, B)'
    <2>. SUFFICES ASSUME NEW p \in Server, NEW T \in Nat, NEW i \in Nat,
                         i <= B[p][T], Has(G[T], T, i)
                  PROVE  Has(log[p], T, i) \/ NeverAcked(B, T, i)'
        BY <1>2 DEF LogsSafe, SafeIn
    <2>1. T # U
        BY <1>15
    <2>2. B[p][T] = A[p][T] /\ G[T] = F[T]
        BY <1>5, <1>6, <2>1
    <2>3. Has(log[p], T, i) \/ NeverAcked(A, T, i)
        BY <2>2 DEF AckInv, LogsSafe, SafeIn
    <2>. QED
        BY <1>6, <1>9, <2>3, NeverAckedStays
<1>17. LeadersSafe(G, B)'
    <2>. SUFFICES ASSUME NEW T \in Nat, NEW V \in Nat, NEW i \in Nat, T < V,
                         Elected(elections', T), Elected(elections', V), Has(G[T], T, i)
                  PROVE  Has(G[V], T, i) \/ NeverAcked(B, T, i)'
        BY DEF LeadersSafe, SafeIn
    <2>1. T # U /\ G[T] = F[T] /\ Elected(elections, T)
        BY <1>4, <1>5, <1>15
    <2>2. Has(G[V], T, i) \/ NeverAcked(A, T, i)
        <3>1. CASE V # U
            <4>1. G[V] = F[V] /\ Elected(elections, V)
                BY <1>4, <1>5, <3>1
            <4>. QED
                BY <2>1, <4>1 DEF AckInv, LeadersSafe, SafeIn
        <3>2. CASE V = U /\ \E q \in election[s].granted : i <= A[q][T]
            BY <1>2, <1>3, <1>5, <2>1, <3>2 DEF AckInv, CandidatesSafe, SafeIn
        <3>3. CASE V = U /\ ~ \E q \in election[s].granted : i <= A[q][T]
            <4>1. ASSUME NEW q \in election[s].granted
                  PROVE  q \in Server /\ current_term[q] > T /\ A[q][T] < i
                <5>1. q \in Server /\ current_term[q] >= U
                    BY <1>2, <1>3, GrantedAhead
                <5>2. A[q][T] \in Nat /\ current_term[q] \in Nat
                    BY <1>1, <1>6, <5>1
                <5>. QED
                    BY <1>1, <3>3, <5>1, <5>2
            <4>. QED
                BY <1>2, <4>1 DEF NeverAcked
        <3>. QED
            BY <3>1, <3>2, <3>3
    <2>. QED
        BY <1>6, <1>9, <2>2, NeverAckedStays
<1>. QED
    BY <1>6, <1>8, <1>9, <1>10, <1>11, <1>12, <1>14, <1>16, <1>17 DEF AckInv

\* Later in a log, all that was in it.
LEMMA HasMore ==
    ASSUME NEW a \in Seq(Entry), NEW b \in Seq(Entry), Len(a) <= Len(b),
           \A i \in 1 .. Len(a) : b[i] = a[i],
           NEW T, NEW i, Has(a, T, i)
    PROVE  Has(b, T, i)
<1>1. Len(a) \in Nat /\ Len(b) \in Nat
    BY LenProperties
<1>2. i \in 1 .. Len(a) /\ a[i].term = T
    BY DEF Has
<1>. QED
    BY <1>1, <1>2 DEF Has

\* Who votes in a later term acknowledges no more of an earlier one.
LEMMA ElectedLater ==
    ASSUME TypeOK, ElectionInv, NEW V \in Nat, Elected(elections, V)
    PROVE  \E Q \in SUBSET Server :
              /\ Cardinality(Q) >= Majority
              /\ \A q \in Q : current_term[q] >= V
<1>1. PICK e \in elections : e.term = V
    BY DEF Elected
<1>2. PICK Q \in SUBSET Server :
          /\ Cardinality(Q) >= Majority
          /\ \A p \in Q : VoteFor(e.term, p, e.leader) \in votes
    BY DEF ElectionInv, WonByMajority
<1>3. ASSUME NEW q \in Q
      PROVE  current_term[q] >= V
    <2>1. VoteFor(e.term, q, e.leader) \in votes
        BY <1>2
    <2>2. e.term <= current_term[q]
        BY <2>1 DEF ElectionInv, VotesRemembered, VoteFor
    <2>. QED
        BY <1>1, <2>2 DEF TypeOK, ElectionTypeOK
<1>. QED
    BY <1>2, <1>3

\* propose: what a leader adds to its log, no leader of a later term can lack
\* unless it will not be committed any more.
LEMMA AcksProposes ==
    ASSUME TypeOK, ElectionInv, OnlyLeadersReady, ElectionSafety, TermsUp,
           NEW F \in LeaderLogs, NEW A \in Acks, Fits(F), AckInv(F, A),
           NEW s \in Server, NEW t \in Sender, NEW c \in Command, Propose(s, t, c),
           NEW G \in LeaderLogs, G = [F EXCEPT ![current_term[s]] = log'[s]]
    PROVE  \E B \in Acks :
              /\ LogsGrow(F, G) /\ AcksGrow(A, B)
              /\ AckInv(G, B)'
<1>. PICK U : U = current_term[s]
    OBVIOUS
<1>. PICK lg : lg = Append(log[s], [term |-> current_term[s], cmd |-> c])
    OBVIOUS
<1>1. /\ current_term \in [Server -> Nat]
      /\ log \in [Server -> Seq(Entry)]
      /\ U \in Nat /\ role[s] = Leader
      /\ \A p \in Server : Len(log[p]) \in Nat
    BY LenProperties DEF TypeOK, ElectionTypeOK, LogTypeOK, Propose
<1>2. /\ lg \in Seq(Entry)
      /\ Len(lg) = Len(log[s]) + 1
      /\ \A i \in 1 .. Len(log[s]) : lg[i] = log[s][i]
      /\ lg[Len(lg)].term = U
    <2>1. [term |-> current_term[s], cmd |-> c] \in Entry
        BY <1>1 DEF Entry
    <2>. QED
        BY <1>1, <2>1, AppendKeeps
<1>3. /\ log' = [log EXCEPT ![s] = lg]
      /\ log'[s] = lg /\ \A p \in Server \ {s} : log'[p] = log[p]
      /\ current_term' = current_term /\ role' = role /\ elections' = elections
    BY <1>1 DEF Propose
<1>4. /\ G[U] = lg /\ F[U] = log[s] /\ Elected(elections, U)
      /\ \A T \in Nat \ {U} : G[T] = F[T]
    <2>1. Elected(elections, U)
        BY <1>1 DEF ElectionInv, LeadersAreElected, Elected
    <2>. QED
        BY <1>1, <1>2, <1>3, <2>1 DEF LeaderLogs, Fits
<1>. PICK B : B = Acked(A, s, U, Len(lg))
    OBVIOUS
<1>5. /\ B \in Acks
      /\ B[s][U] = Len(lg)
      /\ \A p \in Server, T \in Nat : p # s \/ T # U => B[p][T] = A[p][T]
      /\ \A p \in Server, T \in Nat : A[p][T] \in Nat /\ B[p][T] \in Nat
    <2>1. U \in Nat /\ Len(lg) \in Nat
        BY <1>1, <1>2
    <2>2. B \in Acks
        BY <2>1, AckUpdate
    <2>3. B[s][U] = Len(lg)
        BY <2>1, AckUpdate, ZenonT(60)
    <2>4. \A p \in Server, T \in Nat : p # s \/ T # U => B[p][T] = A[p][T]
        BY <2>1, AckElsewhere, SMTT(60)
    <2>5. \A p \in Server, T \in Nat : A[p][T] \in Nat
        BY AckTypes
    <2>6. \A p \in Server, T \in Nat : B[p][T] \in Nat
        BY <2>2, AckTypes
    <2>. QED
        BY <2>2, <2>3, <2>4, <2>5, <2>6
<1>6. A[s][U] = Len(log[s])
    BY <1>1 DEF AckInv, AcksTrue
<1>7. \A T \in Nat : F[T] \in Seq(Entry) /\ G[T] \in Seq(Entry)
                     /\ Len(F[T]) \in Nat /\ Len(G[T]) \in Nat
    BY LenProperties DEF LeaderLogs
<1>8. \A T \in Nat : /\ Len(F[T]) <= Len(G[T])
                     /\ \A i \in 1 .. Len(F[T]) : G[T][i] = F[T][i]
    <2>1. CASE Len(lg) \in Nat
        <3>1. /\ Len(F[U]) <= Len(G[U])
              /\ \A i \in 1 .. Len(F[U]) : G[U][i] = F[U][i]
            BY <1>1, <1>2, <1>4
        <3>2. ASSUME NEW T \in Nat \ {U}
              PROVE  /\ Len(F[T]) <= Len(G[T])
                     /\ \A i \in 1 .. Len(F[T]) : G[T][i] = F[T][i]
            BY <1>4, <1>7
        <3>. QED
            BY <3>1, <3>2
    <2>. QED
        BY <1>1, <1>2, <2>1
<1>9. LogsGrow(F, G)
    BY <1>8 DEF LogsGrow
<1>10. AcksGrow(A, B)
    <2>. SUFFICES ASSUME NEW p \in Server, NEW T \in Nat
                  PROVE  /\ A[p][T] <= B[p][T]
                         /\ current_term[p] > T => B[p][T] = A[p][T]
        BY DEF AcksGrow
    <2>1. A[p][T] \in Nat /\ B[p][T] \in Nat
        BY <1>5
    <2>2. CASE p = s /\ T = U
        BY <1>1, <1>2, <1>5, <1>6, <2>1, <2>2
    <2>3. CASE p # s \/ T # U
        BY <1>5, <2>1, <2>3
    <2>. QED
        BY <2>2, <2>3
<1>11. LogsRise(G)'
    <2>1. \A q \in Server : Rises(log[q], current_term[q])
        BY DEF AckInv, LogsRise
    <2>2. Rises(lg, U)
        <3>1. Rises(log[s], U)
            BY <2>1
        <3>2. \A i \in 1 .. Len(log[s]) : log[s][i].term <= U
            BY <3>1 DEF Rises
        <3>. SUFFICES ASSUME NEW i \in 1 .. Len(lg)
                      PROVE  /\ lg[i].term <= U
                             /\ \A j \in 1 .. i : lg[j].term <= lg[i].term
            BY DEF Rises
        <3>3. CASE i = Len(lg)
            <4>1. lg[i].term = U
                BY <1>2, <3>3
            <4>2. ASSUME NEW j \in 1 .. i
                  PROVE  lg[j].term <= U
                <5>1. CASE j = i
                    BY <1>1, <4>1, <5>1
                <5>2. CASE j # i
                    <6>1. j \in 1 .. Len(log[s])
                        BY <1>1, <1>2, <3>3, <5>2
                    <6>. QED
                        BY <1>2, <3>2, <6>1
                <5>. QED
                    BY <5>1, <5>2
            <4>. QED
                BY <1>1, <4>1, <4>2
        <3>4. CASE i # Len(lg)
            <4>1. i \in 1 .. Len(log[s]) /\ \A j \in 1 .. i : j \in 1 .. Len(log[s])
                BY <1>1, <1>2, <3>4
            <4>. QED
                BY <1>2, <3>1, <4>1 DEF Rises
        <3>. QED
            BY <3>3, <3>4
    <2>3. \A q \in Server : Rises(log'[q], current_term[q])
        BY <1>3, <2>1, <2>2
    <2>4. \A T \in Nat : Elected(elections, T) => Rises(G[T], T)
        BY <1>4, <2>2 DEF AckInv, LogsRise
    <2>. QED
        BY <1>3, <2>3, <2>4 DEF LogsRise
<1>12. AcksTrue(G, B)'
    <2>1. ASSUME NEW p \in Server, NEW T \in Nat, B[p][T] > 0
          PROVE  T <= current_term[p] /\ Elected(elections, T) /\ B[p][T] <= Len(G[T])
        <3>1. CASE p = s /\ T = U
            BY <1>1, <1>2, <1>4, <1>5, <3>1
        <3>2. CASE p # s \/ T # U
            <4>1. B[p][T] = A[p][T]
                BY <1>5, <3>2
            <4>2. T <= current_term[p] /\ Elected(elections, T) /\ A[p][T] <= Len(F[T])
                BY <2>1, <4>1 DEF AckInv, AcksTrue
            <4>. QED
                BY <1>5, <1>7, <1>8, <4>1, <4>2
        <3>. QED
            BY <3>1, <3>2
    <2>2. ASSUME NEW q \in Server, role[q] = Leader
          PROVE  B[q][current_term[q]] = Len(log'[q])
        <3>1. CASE q = s
            BY <1>3, <1>5, <3>1
        <3>2. CASE q # s
            <4>1. A[q][current_term[q]] = Len(log[q])
                BY <2>2 DEF AckInv, AcksTrue
            <4>. QED
                BY <1>1, <1>3, <1>5, <3>2, <4>1
        <3>. QED
            BY <3>1, <3>2
    <2>. QED
        BY <1>3, <2>1, <2>2 DEF AcksTrue
<1>13. Proposes
    BY DEF Proposes
<1>14. CandidaciesKept /\ MatchesKept /\ AnswersKept
    BY <1>13, CandidaciesKeptStep, MatchesKeptStep, AnswersKeptStep
<1>15. MatchAcked(B)' /\ RepliesAcked(B)' /\ CandidatesSafe(G, B)'
    BY <1>5, <1>9, <1>10, <1>14, MatchAckedKept, RepliesAckedKept, CandidatesKept
       DEF AckInv
<1>16. LogsSafe(G, B)'
    <2>. SUFFICES ASSUME NEW p \in Server, NEW T \in Nat, NEW i \in Nat,
                         i <= B[p][T], Has(G[T], T, i)
                  PROVE  Has(log'[p], T, i) \/ NeverAcked(B, T, i)'
        BY DEF LogsSafe, SafeIn
    <2>1. CASE p = s /\ T = U
        BY <1>3, <1>4, <2>1
    <2>2. CASE p # s \/ T # U
        <3>1. i <= A[p][T]
            BY <1>5, <2>2
        <3>2. Has(F[T], T, i)
            BY <1>9, <3>1, AckedIsOld, ZenonT(60) DEF AckInv
        <3>3. Has(log[p], T, i) \/ NeverAcked(A, T, i)
            BY <3>1, <3>2 DEF AckInv, LogsSafe, SafeIn
        <3>4. Has(log[p], T, i) => Has(log'[p], T, i)
            <4>1. CASE p = s
                <5>1. Len(log[s]) <= Len(lg) /\ log[s] \in Seq(Entry)
                    BY <1>1, <1>2
                <5>2. Has(log[s], T, i) => Has(lg, T, i)
                    BY <1>2, <5>1, HasMore
                <5>. QED
                    BY <1>3, <4>1, <5>2
            <4>2. CASE p # s
                BY <1>3, <4>2
            <4>. QED
                BY <4>1, <4>2
        <3>. QED
            BY <1>5, <1>10, <3>3, <3>4, NeverAckedStays
    <2>. QED
        BY <2>1, <2>2
<1>17. LeadersSafe(G, B)'
    <2>. SUFFICES ASSUME NEW T \in Nat, NEW V \in Nat, NEW i \in Nat, T < V,
                         Elected(elections, T), Elected(elections, V), Has(G[T], T, i)
                  PROVE  Has(G[V], T, i) \/ NeverAcked(B, T, i)'
        BY <1>3 DEF LeadersSafe, SafeIn
    <2>1. CASE Has(F[T], T, i)
        <3>1. Has(F[V], T, i) \/ NeverAcked(A, T, i)
            BY <2>1 DEF AckInv, LeadersSafe, SafeIn
        <3>2. Has(F[V], T, i) => Has(G[V], T, i)
            BY <1>7, <1>8, HasMore
        <3>. QED
            BY <1>5, <1>10, <3>1, <3>2, NeverAckedStays
    <2>2. CASE ~Has(F[T], T, i)
        <3>1. T = U /\ i = Len(log[s]) + 1
            <4>1. T = U
                BY <1>4, <2>2
            <4>2. i \in 1 .. Len(lg) /\ lg[i].term = U
                BY <1>4, <4>1 DEF Has
            <4>3. ~ (i \in 1 .. Len(log[s]))
                BY <1>2, <1>4, <2>2, <4>1, <4>2 DEF Has
            <4>. QED
                BY <1>1, <1>2, <4>1, <4>2, <4>3
        <3>2. PICK Q \in SUBSET Server :
                  /\ Cardinality(Q) >= Majority
                  /\ \A q \in Q : current_term[q] >= V
            BY ElectedLater
        <3>3. ASSUME NEW q \in Q
              PROVE  current_term'[q] > T /\ B[q][T] < i
            <4>1. q \in Server /\ current_term[q] > U
                BY <1>1, <3>1, <3>2
            <4>2. q # s
                BY <1>1, <4>1
            <4>3. B[q][U] = A[q][U] /\ A[q][U] \in Nat
                BY <1>1, <1>5, <4>1, <4>2
            <4>4. A[q][U] > 0 => A[q][U] <= Len(F[U])
                BY <1>1, <4>1 DEF AckInv, AcksTrue
            <4>. QED
                BY <1>1, <1>3, <1>4, <3>1, <4>1, <4>3, <4>4, SMTT(60)
        <3>. QED
            BY <3>2, <3>3 DEF NeverAcked
    <2>. QED
        BY <2>1, <2>2
<1>. QED
    BY <1>5, <1>9, <1>10, <1>11, <1>12, <1>15, <1>16, <1>17 DEF AckInv

\* What a node keeps of its log: all that the leader has too.
LEMMA MergeKeeps ==
    ASSUME NEW F \in LeaderLogs, NEW els, NEW m \in AppendMsg, NEW lg \in Seq(Entry),
           LogFits(F, els, lg), LogFits(F, els, F[m.term]),
           RequestFits(F, els, m), Consistent(m, lg),
           NEW i \in 1 .. Len(lg), i <= Len(F[m.term]), lg[i].term = F[m.term][i].term
    PROVE  i \in 1 .. Len(Merge(m, lg)) /\ Merge(m, lg)[i] = lg[i]
<1>. PICK fl : fl = F[m.term]
    OBVIOUS
<1>. PICK new : new = Merge(m, lg)
    OBVIOUS
<1>1. /\ fl \in Seq(Entry) /\ Len(fl) \in Nat /\ Len(lg) \in Nat
      /\ m.prev_log_index \in Nat /\ m.entries \in Seq(Entry) /\ Len(m.entries) \in Nat
    BY LenProperties DEF LeaderLogs, AppendMsg
<1>2. \A j \in 1 .. i : lg[j] = fl[j]
    BY <1>1, FittingLogsMatch, SMTT(60)
<1>3. CASE Conflicts(m, lg) = {} /\ new = lg
    BY <1>3
<1>4. CASE /\ Conflicts(m, lg) # {} /\ m.entries # <<>>
           /\ new \in Seq(Entry)
           /\ Len(new) = m.prev_log_index + Len(m.entries)
           /\ Len(new) <= Len(fl)
           /\ \A j \in 1 .. Len(new) : new[j] = fl[j]
    <2>1. CASE i <= Len(new)
        BY <1>1, <1>2, <1>4, <2>1
    <2>2. CASE i > Len(new)
        <3>1. PICK k \in DOMAIN m.entries :
                  \/ m.prev_log_index + k > Len(lg)
                  \/ lg[m.prev_log_index + k].term # m.entries[k].term
            BY <1>4 DEF Conflicts
        <3>2. k \in 1 .. Len(m.entries)
            BY <1>1, <3>1
        <3>3. m.prev_log_index + k \in 1 .. i
            BY <1>1, <1>4, <2>2, <3>2, SMTT(60)
        <3>4. lg[m.prev_log_index + k] = m.entries[k]
            BY <1>2, <1>4, <3>2, <3>3 DEF RequestFits
        <3>. QED
            BY <1>1, <3>1, <3>3, <3>4
    <2>. QED
        BY <1>1, <1>4, <2>1, <2>2
<1>. QED
    BY <1>3, <1>4, MergeIs

\* What a request with entries makes of a log has all that it carried.
LEMMA MergeTakes ==
    ASSUME NEW F \in LeaderLogs, NEW els, NEW m \in AppendMsg, NEW lg \in Seq(Entry),
           LogFits(F, els, lg), LogFits(F, els, F[m.term]),
           RequestFits(F, els, m), Consistent(m, lg), m.entries # <<>>
    PROVE  /\ m.prev_log_index + Len(m.entries) \in Nat
           /\ m.prev_log_index + Len(m.entries) <= Len(F[m.term])
           /\ \A i \in 1 .. m.prev_log_index + Len(m.entries) :
                 /\ i \in 1 .. Len(Merge(m, lg))
                 /\ Merge(m, lg)[i] = F[m.term][i]
<1>. PICK fl : fl = F[m.term]
    OBVIOUS
<1>. PICK new : new = Merge(m, lg)
    OBVIOUS
<1>. PICK prev : prev = m.prev_log_index
    OBVIOUS
<1>. PICK es : es = m.entries
    OBVIOUS
<1>1. /\ fl \in Seq(Entry) /\ Len(fl) \in Nat /\ Len(lg) \in Nat
      /\ prev \in Nat /\ es \in Seq(Entry) /\ Len(es) \in Nat /\ Len(es) > 0
    BY LenProperties, EmptySeq, SMTT(60) DEF LeaderLogs, AppendMsg
<1>2. /\ prev + Len(es) <= Len(fl)
      /\ \A k \in 1 .. Len(es) : es[k] = fl[prev + k]
      /\ prev # 0 => m.prev_log_term = fl[prev].term
    BY DEF RequestFits
<1>3. CASE Conflicts(m, lg) = {} /\ new = lg
    <2>1. ASSUME NEW k \in 1 .. Len(es)
          PROVE  prev + k <= Len(lg) /\ lg[prev + k].term = fl[prev + k].term
        <3>1. k \in DOMAIN m.entries
            BY <1>1
        <3>2. ~ \/ m.prev_log_index + k > Len(lg)
                \/ lg[m.prev_log_index + k].term # m.entries[k].term
            BY <1>3, <3>1 DEF Conflicts
        <3>. QED
            BY <1>1, <1>2, <3>2, SMTT(60)
    <2>2. PICK n : n = prev + Len(es)
        OBVIOUS
    <2>3. n \in 1 .. Len(lg) /\ n <= Len(fl) /\ lg[n].term = fl[n].term
        <3>1. Len(es) \in 1 .. Len(es)
            BY <1>1
        <3>2. prev + Len(es) <= Len(lg) /\ lg[prev + Len(es)].term = fl[prev + Len(es)].term
            BY <2>1, <3>1
        <3>. QED
            BY <1>1, <1>2, <2>2, <3>2
    <2>4. \A j \in 1 .. n : lg[j] = fl[j]
        BY <1>1, <2>3, FittingLogsMatch, SMTT(60)
    <2>. QED
        BY <1>1, <1>2, <1>3, <2>2, <2>3, <2>4
<1>4. CASE /\ Conflicts(m, lg) # {} /\ es # <<>>
           /\ new \in Seq(Entry)
           /\ Len(new) = prev + Len(es)
           /\ Len(new) <= Len(fl)
           /\ \A j \in 1 .. Len(new) : new[j] = fl[j]
    BY <1>1, <1>2, <1>4
<1>. QED
    BY <1>3, <1>4, MergeIs

\* Terms go up along what is made of a log.
LEMMA MergeRises ==
    ASSUME NEW F \in LeaderLogs, NEW els, NEW m \in AppendMsg, NEW lg \in Seq(Entry),
           LogFits(F, els, lg), LogFits(F, els, F[m.term]),
           RequestFits(F, els, m), Consistent(m, lg),
           NEW T \in Nat, T <= m.term, Rises(lg, T), Rises(F[m.term], m.term)
    PROVE  Rises(Merge(m, lg), m.term)
<1>. PICK fl : fl = F[m.term]
    OBVIOUS
<1>. PICK new : new = Merge(m, lg)
    OBVIOUS
<1>1. fl \in Seq(Entry) /\ Len(fl) \in Nat /\ m.term \in Nat
    BY LenProperties DEF LeaderLogs, AppendMsg
<1>2. CASE new = lg
    BY <1>1, <1>2, RisesOn
<1>3. CASE /\ new \in Seq(Entry)
           /\ Len(new) <= Len(fl)
           /\ \A j \in 1 .. Len(new) : new[j] = fl[j]
    <2>1. Len(new) \in Nat
        BY <1>3, LenProperties
    <2>2. \A i \in 1 .. Len(new) : i \in 1 .. Len(fl) /\ \A j \in 1 .. i : j \in 1 .. Len(new)
        BY <1>1, <1>3, <2>1
    <2>. QED
        BY <1>3, <2>2 DEF Rises
<1>. QED
    BY <1>2, <1>3, MergeIs

\* _handle_append_entries, when it takes the entries of a request: the node holds
\* all that its leader will count for it, and loses nothing that may be committed.
LEMMA AcksTakes ==
    ASSUME TypeOK, ElectionInv, ElectionSafety, TermsUp,
           NEW F \in LeaderLogs, NEW A \in Acks, Fits(F), AckInv(F, A),
           NEW m \in AppendMsg, RequestFits(F, elections, m), FollowLeader(m),
           elections' = elections, Consistent(m, log[m.dst]), m.entries # <<>>
    PROVE  \E B \in Acks :
              /\ AcksGrow(A, B)
              /\ m.prev_log_index + Len(m.entries) <= B[m.dst][m.term]
              /\ LogsRise(F)' /\ AcksTrue(F, B)'
              /\ LogsSafe(F, B)' /\ LeadersSafe(F, B)'
<1>. PICK d : d = m.dst
    OBVIOUS
<1>. PICK U : U = m.term
    OBVIOUS
<1>. PICK n : n = m.prev_log_index + Len(m.entries)
    OBVIOUS
<1>. PICK new : new = Merge(m, log[d])
    OBVIOUS
<1>1. /\ d \in Server /\ U \in Nat
      /\ current_term \in [Server -> Nat] /\ log \in [Server -> Seq(Entry)]
      /\ Elected(elections, U)
    BY DEF AppendMsg, TypeOK, ElectionTypeOK, LogTypeOK, RequestFits, Elected
<1>2. /\ U >= current_term[d]
      /\ current_term'[d] = U /\ log'[d] = new
      /\ \A p \in Server \ {d} : current_term'[p] = current_term[p] /\ log'[p] = log[p]
    BY <1>1 DEF FollowLeader
<1>3. \A s \in Server : role'[s] = Leader => s # d /\ role[s] = Leader
    BY FollowerMoves
<1>4. LogFits(F, elections, log[d]) /\ LogFits(F, elections, F[U])
    BY <1>1 DEF Fits
<1>5. /\ n \in Nat /\ n <= Len(F[U])
      /\ \A i \in 1 .. n : i \in 1 .. Len(new) /\ new[i] = F[U][i]
    BY <1>1, <1>4, MergeTakes
<1>6. \A i \in 1 .. Len(log[d]) :
          i <= Len(F[U]) /\ log[d][i].term = F[U][i].term =>
              i \in 1 .. Len(new) /\ new[i] = log[d][i]
    BY <1>1, <1>4, MergeKeeps, SMTT(60)
<1>. PICK a : a = Max2(A[d][U], n)
    OBVIOUS
<1>7. /\ A[d][U] \in Nat /\ a \in Nat /\ a >= n /\ a >= A[d][U]
      /\ a = n \/ a = A[d][U]
    BY <1>1, <1>5, AckTypes, SMTT(60) DEF Max2
<1>. PICK B : B = Acked(A, d, U, a)
    OBVIOUS
<1>8. /\ B \in Acks
      /\ B[d][U] = a
      /\ \A p \in Server, T \in Nat : p # d \/ T # U => B[p][T] = A[p][T]
      /\ \A p \in Server, T \in Nat : A[p][T] \in Nat /\ B[p][T] \in Nat
    <2>1. d \in Server /\ U \in Nat /\ a \in Nat
        BY <1>1, <1>7
    <2>2. B \in Acks
        BY <2>1, AckUpdate
    <2>3. B[d][U] = a
        BY <2>1, AckUpdate, ZenonT(60)
    <2>4. \A p \in Server, T \in Nat : p # d \/ T # U => B[p][T] = A[p][T]
        BY <2>1, AckElsewhere, SMTT(60)
    <2>5. \A p \in Server, T \in Nat : A[p][T] \in Nat
        BY AckTypes
    <2>6. \A p \in Server, T \in Nat : B[p][T] \in Nat
        BY <2>2, AckTypes
    <2>. QED
        BY <2>2, <2>3, <2>4, <2>5, <2>6, ZenonT(60)
<1>9. AcksGrow(A, B)
    <2>. SUFFICES ASSUME NEW p \in Server, NEW T \in Nat
                  PROVE  /\ A[p][T] <= B[p][T]
                         /\ current_term[p] > T => B[p][T] = A[p][T]
        BY DEF AcksGrow
    <2>1. A[p][T] \in Nat /\ B[p][T] \in Nat
        BY <1>8
    <2>2. CASE p = d /\ T = U
        <3>1. B[p][T] = a /\ A[p][T] <= a
            BY <1>7, <1>8, <2>2
        <3>2. ~(current_term[p] > T)
            <4>1. current_term[d] \in Nat /\ U \in Nat /\ U >= current_term[d]
                BY <1>1, <1>2, SMTT(60)
            <4>. QED
                BY <2>2, <4>1
        <3>. QED
            BY <3>1, <3>2, SMTT(60)
    <2>3. CASE p # d \/ T # U
        BY <1>8, <2>1, <2>3
    <2>. QED
        BY <2>2, <2>3
<1>10. LogsRise(F)'
    <2>1. \A q \in Server : Rises(log[q], current_term[q])
        BY DEF AckInv, LogsRise
    <2>2. \A T \in Nat : Elected(elections, T) => Rises(F[T], T)
        BY DEF AckInv, LogsRise
    <2>3. Rises(new, U)
        <3>1. Rises(log[d], current_term[d]) /\ Rises(F[U], U)
            BY <1>1, <2>1, <2>2
        <3>2. current_term[d] \in Nat /\ current_term[d] <= U
            BY <1>1, <1>2
        <3>. QED
            BY <1>1, <1>4, <3>1, <3>2, MergeRises
    <2>4. \A q \in Server : Rises(log'[q], current_term'[q])
        BY <1>2, <2>1, <2>3, SMTT(60)
    <2>. QED
        BY <2>2, <2>4 DEF LogsRise
<1>11. AcksTrue(F, B)'
    <2>1. ASSUME NEW p \in Server, NEW T \in Nat, B[p][T] > 0
          PROVE  T <= current_term'[p] /\ Elected(elections, T) /\ B[p][T] <= Len(F[T])
        <3>1. CASE p = d /\ T = U
            <4>1. A[d][U] > 0 => A[d][U] <= Len(F[U])
                BY <1>1, SMTT(60) DEF AckInv, AcksTrue
            <4>2. a <= Len(F[U])
                BY <1>5, <1>7, <1>8, <2>1, <3>1, <4>1
            <4>. QED
                BY <1>1, <1>2, <1>8, <3>1, <4>2
        <3>2. CASE p # d \/ T # U
            <4>1. B[p][T] = A[p][T]
                BY <1>8, <3>2
            <4>2. T <= current_term[p] /\ Elected(elections, T) /\ A[p][T] <= Len(F[T])
                BY <2>1, <4>1 DEF AckInv, AcksTrue
            <4>3. /\ current_term[p] \in Nat /\ current_term'[p] \in Nat
                  /\ current_term[p] <= current_term'[p]
                BY <1>1, SMTT(60) DEF TermsUp
            <4>. QED
                BY <4>1, <4>2, <4>3, SMTT(60)
        <3>. QED
            BY <3>1, <3>2, SMTT(60)
    <2>2. ASSUME NEW q \in Server, role'[q] = Leader
          PROVE  B[q][current_term'[q]] = Len(log'[q])
        <3>1. q # d /\ role[q] = Leader
            BY <1>3, <2>2
        <3>2. A[q][current_term[q]] = Len(log[q])
            BY <3>1 DEF AckInv, AcksTrue
        <3>. QED
            BY <1>1, <1>2, <1>8, <3>1, <3>2
    <2>. QED
        BY <2>1, <2>2 DEF AcksTrue
<1>12. \A T \in Nat, i \in Nat :
           Has(log[d], T, i) /\ Has(F[U], T, i) => Has(new, T, i)
    <2>1. Len(F[U]) \in Nat /\ Len(log[d]) \in Nat
        BY <1>1, LenProperties DEF LeaderLogs
    <2>. QED
        BY <1>6, <2>1, SMTT(60) DEF Has
<1>13. LogsSafe(F, B)'
    <2>. SUFFICES ASSUME NEW p \in Server, NEW T \in Nat, NEW i \in Nat,
                         i <= B[p][T], Has(F[T], T, i)
                  PROVE  Has(log'[p], T, i) \/ NeverAcked(B, T, i)'
        BY DEF LogsSafe, SafeIn
    <2>1. CASE p = d /\ T = U /\ i <= n
        <3>1. i \in 1 .. n
            BY <1>5, <2>1 DEF Has
        <3>2. i \in 1 .. Len(new) /\ new[i] = F[U][i]
            BY <1>5, <3>1
        <3>. QED
            BY <1>2, <2>1, <3>2 DEF Has
    <2>2. CASE ~(p = d /\ T = U /\ i <= n)
        <3>1. i <= A[p][T]
            BY <1>5, <1>7, <1>8, <2>2, SMTT(60)
        <3>2. Has(log[p], T, i) \/ NeverAcked(A, T, i)
            BY <3>1 DEF AckInv, LogsSafe, SafeIn
        <3>3. CASE NeverAcked(A, T, i)
            BY <1>8, <1>9, <3>3, NeverAckedStays
        <3>4. CASE Has(log[p], T, i) /\ p # d
            BY <1>2, <3>4
        <3>5. CASE Has(log[p], T, i) /\ p = d
            <4>1. A[d][T] > 0
                BY <1>8, <3>1, <3>5 DEF Has
            <4>2. T <= current_term[d] /\ Elected(elections, T)
                BY <1>1, <4>1 DEF AckInv, AcksTrue
            <4>3. T <= U
                BY <1>1, <1>2, <4>2
            <4>4. Has(F[U], T, i) \/ NeverAcked(A, T, i)
                <5>1. CASE T = U
                    BY <5>1
                <5>2. CASE T # U
                    <6>1. T < U
                        BY <1>1, <4>3, <5>2
                    <6>. QED
                        BY <1>1, <4>2, <6>1 DEF AckInv, LeadersSafe, SafeIn
                <5>. QED
                    BY <5>1, <5>2
            <4>5. CASE NeverAcked(A, T, i)
                BY <1>8, <1>9, <4>5, NeverAckedStays
            <4>6. CASE Has(F[U], T, i)
                <5>1. Has(new, T, i)
                    BY <1>12, <3>5, <4>6, SMTT(60)
                <5>. QED
                    BY <1>2, <3>5, <5>1
            <4>. QED
                BY <4>4, <4>5, <4>6, SMTT(60)
        <3>. QED
            BY <3>2, <3>3, <3>4, <3>5, SMTT(60)
    <2>. QED
        BY <2>1, <2>2, SMTT(60)
<1>14. LeadersSafe(F, B)'
    <2>. SUFFICES ASSUME NEW T \in Nat, NEW V \in Nat, NEW i \in Nat, T < V,
                         Elected(elections, T), Elected(elections, V), Has(F[T], T, i)
                  PROVE  Has(F[V], T, i) \/ NeverAcked(B, T, i)'
        BY DEF LeadersSafe, SafeIn
    <2>1. Has(F[V], T, i) \/ NeverAcked(A, T, i)
        BY DEF AckInv, LeadersSafe, SafeIn
    <2>. QED
        BY <1>8, <1>9, <2>1, NeverAckedStays
<1>. QED
    BY <1>7, <1>8, <1>9, <1>10, <1>11, <1>13, <1>14, ZenonT(60)

\* What a node does with a request, in all cases.
LEMMA AcksHandled ==
    ASSUME TypeOK, ElectionInv, ElectionSafety, TermsUp,
           NEW F \in LeaderLogs, NEW A \in Acks, Fits(F), AckInv(F, A),
           NEW m \in Requests, HandleAppendEntries(m), elections' = elections
    PROVE  \E B \in Acks :
              /\ AcksGrow(A, B)
              /\ AppendReply(m).success /\ m.entries # <<>> =>
                    m.prev_log_index + Len(m.entries) <= B[m.dst][m.term]
              /\ LogsRise(F)' /\ AcksTrue(F, B)'
              /\ LogsSafe(F, B)' /\ LeadersSafe(F, B)'
<1>1. m \in AppendMsg /\ RequestFits(F, elections, m)
    BY DEF Requests, Fits
<1>2. m.dst \in Server /\ m.term \in Nat /\ m.entries \in Seq(Entry)
    BY <1>1 DEF AppendMsg
<1>3. AppendReply(m).success <=> m.term >= current_term[m.dst] /\ Consistent(m, log[m.dst])
    BY DEF AppendReply
<1>4. current_term \in [Server -> Nat] /\ log \in [Server -> Seq(Entry)]
    BY DEF TypeOK, ElectionTypeOK, LogTypeOK
<1>5. ASSUME Quiet, ~(AppendReply(m).success /\ m.entries # <<>>)
      PROVE  \E B \in Acks :
                /\ AcksGrow(A, B)
                /\ AppendReply(m).success /\ m.entries # <<>> =>
                      m.prev_log_index + Len(m.entries) <= B[m.dst][m.term]
                /\ LogsRise(F)' /\ AcksTrue(F, B)'
                /\ LogsSafe(F, B)' /\ LeadersSafe(F, B)'
    <2>1. AcksGrow(A, A)
        BY SameGrows
    <2>2. LogsRise(F)' /\ AcksTrue(F, A)' /\ LogsSafe(F, A)' /\ LeadersSafe(F, A)'
        BY <1>5, CalmAcks
    <2>. QED
        BY <1>5, <2>1, <2>2
<1>6. CASE RefuseOldLeader(m)
    <2>1. Quiet
        BY <1>6 DEF RefuseOldLeader, persistent, volatile, Quiet
    <2>2. ~AppendReply(m).success
        BY <1>2, <1>3, <1>4, <1>6 DEF RefuseOldLeader
    <2>. QED
        BY <1>5, <2>1, <2>2
<1>7. CASE FollowLeader(m) /\ ~(Consistent(m, log[m.dst]) /\ m.entries # <<>>)
    <2>1. log' = log
        <3>1. CASE ~Consistent(m, log[m.dst])
            BY <1>7, <3>1 DEF FollowLeader
        <3>2. CASE Consistent(m, log[m.dst]) /\ m.entries = <<>>
            <4>1. Conflicts(m, log[m.dst]) = {}
                BY <3>2, EmptySeq DEF Conflicts
            <4>2. Merge(m, log[m.dst]) = log[m.dst]
                BY <4>1 DEF Merge
            <4>. QED
                BY <1>2, <1>4, <1>7, <3>2, <4>2 DEF FollowLeader
        <3>. QED
            BY <1>7, <3>1, <3>2
    <2>2. Quiet
        BY <1>1, <1>7, <2>1, FollowerMoves DEF Quiet
    <2>. QED
        BY <1>3, <1>5, <1>7, <2>2
<1>8. CASE FollowLeader(m) /\ Consistent(m, log[m.dst]) /\ m.entries # <<>>
    BY <1>1, <1>8, AcksTakes
<1>. QED
    BY <1>6, <1>7, <1>8 DEF HandleAppendEntries

LEMMA AcksHears ==
    ASSUME TypeOK, ElectionInv, ElectionSafety, OnlyLeadersReady, TermsUp,
           NEW F \in LeaderLogs, NEW A \in Acks, Fits(F), AckInv(F, A), Hears
    PROVE  \E B \in Acks : AcksGrow(A, B) /\ AckInv(F, B)'
<1>1. PICK m \in BagToSet(stray) : AnswerStrayAppend(m)
    BY DEF Hears
<1>2. m \in Requests
    BY <1>1 DEF AnswerStrayAppend, Requests, TypeOK, TaskTypeOK, BagToSet,
                VoteMsg, AppendMsg
<1>3. HandleAppendEntries(m) /\ elections' = elections
    BY <1>1 DEF AnswerStrayAppend, history
<1>4. PICK B \in Acks :
          /\ AcksGrow(A, B)
          /\ LogsRise(F)' /\ AcksTrue(F, B)'
          /\ LogsSafe(F, B)' /\ LeadersSafe(F, B)'
    BY <1>2, <1>3, AcksHandled
<1>5. CandidaciesKept /\ MatchesKept /\ AnswersKept
    BY CandidaciesKeptStep, MatchesKeptStep, AnswersKeptStep
<1>6. LogsGrow(F, F)
    BY SameGrows
<1>7. MatchAcked(B)' /\ RepliesAcked(B)' /\ CandidatesSafe(F, B)'
    BY <1>4, <1>5, <1>6, MatchAckedKept, RepliesAckedKept, CandidatesKept DEF AckInv
<1>. QED
    BY <1>4, <1>7 DEF AckInv

LEMMA AcksAnswers ==
    ASSUME TypeOK, ElectionInv, ElectionSafety, OnlyLeadersReady, TermsUp,
           NEW F \in LeaderLogs, NEW A \in Acks, Fits(F), AckInv(F, A), Answers
    PROVE  \E B \in Acks : AcksGrow(A, B) /\ AckInv(F, B)'
<1>1. PICK s \in Server, t \in Sender : AnswerAppend(s, t)
    BY DEF Answers
<1>. PICK m : m = sender[s][t].req
    OBVIOUS
<1>2. m \in Requests
    BY <1>1, WaitingTask DEF AnswerAppend, Outstanding, Requests
<1>3. HandleAppendEntries(m) /\ elections' = elections
    BY <1>1 DEF AnswerAppend, history
<1>4. PICK B \in Acks :
          /\ AcksGrow(A, B)
          /\ AppendReply(m).success /\ m.entries # <<>> =>
                m.prev_log_index + Len(m.entries) <= B[m.dst][m.term]
          /\ LogsRise(F)' /\ AcksTrue(F, B)'
          /\ LogsSafe(F, B)' /\ LeadersSafe(F, B)'
    BY <1>2, <1>3, AcksHandled
<1>5. CandidaciesKept /\ MatchesKept
    BY CandidaciesKeptStep, MatchesKeptStep
<1>6. LogsGrow(F, F)
    BY SameGrows
<1>7. MatchAcked(B)' /\ CandidatesSafe(F, B)'
    BY <1>4, <1>5, <1>6, MatchAckedKept, CandidatesKept DEF AckInv
<1>8. RepliesAcked(B)'
    <2>1. /\ sender \in [Server -> [Sender -> SenderType \cup {Nil}]]
          /\ sender' = [sender EXCEPT ![s][t].resp = AppendReply(m)]
          /\ sender[s][t] # Nil /\ sender[s][t] \in SenderType
        BY <1>1, WaitingTask DEF TypeOK, TaskTypeOK, AnswerAppend, Outstanding
    <2>2. ASSUME NEW q \in Server, NEW u \in Sender
          PROVE  ReplyAcked(B, sender'[q][u])
        <3>1. CASE q = s /\ u = t
            <4>1. sender'[s][t].req = m /\ sender'[s][t].resp = AppendReply(m)
                BY <2>1 DEF SenderType
            <4>. QED
                BY <1>4, <3>1, <4>1 DEF ReplyAcked
        <3>2. CASE ~(q = s /\ u = t)
            <4>1. sender'[q][u] = sender[q][u]
                BY <2>1, <3>2
            <4>2. sender[q][u] \in SenderType \cup {Nil} /\ ReplyAcked(A, sender[q][u])
                BY <2>1 DEF AckInv, RepliesAcked
            <4>. QED
                BY <1>4, <4>1, <4>2, ReplyAckedGrows
        <3>. QED
            BY <3>1, <3>2
    <2>. QED
        BY <2>2 DEF RepliesAcked
<1>. QED
    BY <1>4, <1>7, <1>8 DEF AckInv

LEMMA TermsStartStep ==
    ASSUME TypeOK, TermsStart, [Next]_vars
    PROVE  TermsStart'
<1>0. /\ current_term \in [Server -> Nat]
      /\ election \in [Server -> ElectionType \cup {Nil}]
    BY DEF TypeOK, ElectionTypeOK
<1>1. CASE TermsGrow
    BY <1>1 DEF TermsGrow, TermsStart
<1>2. ASSUME NEW s \in Server, StartElection(s)
      PROVE  TermsStart'
    <2>1. /\ elections' = elections
          /\ \A q \in Server \ {s} : election'[q] = election[q]
          /\ election'[s].term = current_term[s] + 1
        BY <1>0, <1>2 DEF StartElection
    <2>2. election'[s].term > 0
        BY <1>0, <2>1
    <2>. QED
        BY <2>1, <2>2 DEF TermsStart
<1>3. ASSUME NEW s \in Server, BecomeLeader(s)
      PROVE  TermsStart'
    <2>1. /\ elections' = elections \cup {[term |-> election[s].term, leader |-> s]}
          /\ election' = [election EXCEPT ![s] = Nil] /\ election[s] # Nil
        BY <1>3 DEF BecomeLeader
    <2>2. \A q \in Server : election'[q] # Nil => election'[q] = election[q]
        BY <1>0, <2>1
    <2>. QED
        BY <2>1, <2>2 DEF TermsStart
<1>. QED
    BY <1>1, <1>2, <1>3, TermsGrowStep

LEMMA AcksStep ==
    ASSUME TypeOK, LeadersReady, ElectionInv, ElectionSafety, ElectionSafety',
           OnlyLeadersReady, ElectionsOpen, TermsStart,
           NEW F \in LeaderLogs, NEW A \in Acks, Fits(F), AckInv(F, A),
           [Next]_vars, AnswersInTerm
    PROVE  \E G \in LeaderLogs, B \in Acks :
              /\ LogsGrow(F, G) /\ AcksGrow(A, B)
              /\ Fits(G)' /\ AckInv(G, B)'
<1>1. TermsUp
    BY TermsUpStep
<1>2. LogsGrow(F, F) /\ AcksGrow(A, A)
    BY SameGrows
<1>3. CASE Starts
    BY <1>1, <1>2, <1>3, FitsKept, AcksStarts
<1>4. CASE Asks
    BY <1>1, <1>2, <1>4, FitsKept, AcksAsks
<1>5. CASE Calm
    BY <1>1, <1>2, <1>5, FitsKept, AcksCalm
<1>6. CASE Counts
    BY <1>1, <1>2, <1>6, FitsKept, AcksCounts
<1>7. CASE Hears
    BY <1>1, <1>2, <1>7, FitsKept, AcksHears
<1>8. CASE Answers
    BY <1>1, <1>2, <1>8, FitsKept, AcksAnswers
<1>9. CASE Wins
    <2>1. PICK s \in Server : BecomeLeader(s)
        BY <1>9 DEF Wins
    <2>2. PICK G \in LeaderLogs : G = [F EXCEPT ![current_term[s]] = log[s]] /\ Fits(G)'
        BY <2>1, FitsBecomeLeader
    <2>3. \E B \in Acks : LogsGrow(F, G) /\ AcksGrow(A, B) /\ AckInv(G, B)'
        BY <1>1, <2>1, <2>2, AcksWins
    <2>. QED
        BY <2>2, <2>3
<1>10. CASE Proposes
    <2>1. PICK s \in Server, t \in Sender, c \in Command : Propose(s, t, c)
        BY <1>10 DEF Proposes
    <2>2. PICK G \in LeaderLogs : G = [F EXCEPT ![current_term[s]] = log'[s]] /\ Fits(G)'
        BY <2>1, FitsPropose
    <2>3. \E B \in Acks : LogsGrow(F, G) /\ AcksGrow(A, B) /\ AckInv(G, B)'
        BY <1>1, <2>1, <2>2, AcksProposes
    <2>. QED
        BY <2>2, <2>3
<1>. QED
    BY <1>3, <1>4, <1>5, <1>6, <1>7, <1>8, <1>9, <1>10, NextSplit

\* At the start nobody acknowledged anything.
LEMMA AcksInit ==
    ASSUME Init
    PROVE  /\ TermsStart
           /\ \E F \in LeaderLogs, A \in Acks : Fits(F) /\ AckInv(F, A)
<1>. PICK F : F = [t \in Nat |-> <<>>]
    OBVIOUS
<1>. PICK A : A = [p \in Server |-> [T \in Nat |-> 0]]
    OBVIOUS
<1>1. F \in LeaderLogs
    BY EmptySeq DEF LeaderLogs
<1>2. A \in Acks
    BY DEF Acks
<1>3. /\ ~ \E t : Elected(elections, t)
      /\ \A s \in Server : role[s] = Follower /\ log[s] = <<>> /\ leader_state[s] = Nil
                           /\ election[s] = Nil /\ \A t \in Sender : sender[s][t] = Nil
    BY DEF Init, Elected
<1>4. Requests = {}
    BY DEF Init, Requests, EmptyBag, SetToBag
<1>5. \A els : LogFits(F, els, <<>>)
    BY EmptySeq DEF LogFits
<1>6. Fits(F)
    BY <1>3, <1>4, <1>5, NameAssumption DEF Fits
<1>7. \A p \in Server, T \in Nat : A[p][T] = 0
    OBVIOUS
<1>8. \A T \in Nat : \A i : ~Has(F[T], T, i)
    BY EmptySeq DEF Has
<1>9. LogsRise(F)
    BY <1>3, EmptySeq DEF LogsRise, Rises
<1>10. AcksTrue(F, A) /\ MatchAcked(A) /\ RepliesAcked(A)
    BY <1>3, <1>7, NameAssumption DEF AcksTrue, MatchAcked, RepliesAcked, ReplyAcked
<1>11. LogsSafe(F, A) /\ LeadersSafe(F, A)
    BY <1>8 DEF LogsSafe, LeadersSafe
<1>12. CandidatesSafe(F, A)
    BY <1>3 DEF CandidatesSafe
<1>13. AckInv(F, A)
    BY <1>9, <1>10, <1>11, <1>12 DEF AckInv
<1>14. TermsStart
    BY <1>3 DEF Init, TermsStart
<1>. QED
    BY <1>1, <1>2, <1>6, <1>13, <1>14
=============================================================================
