----------------------------- MODULE RaftProofs -----------------------------
(***************************************************************************)
(* Proofs about Raft, for every cluster and every bound.                   *)
(***************************************************************************)
EXTENDS Raft, Extrema, SequenceTheorems, FiniteSetTheorems, TLAPS

-----------------------------------------------------------------------------
(* Types of what the senders build *)

LEMMA NextPeerType ==
    ASSUME NEW s \in Server, NEW k \in Nat, PeersAfter(s, k) # {}
    PROVE  NextPeer(s, k) \in DOMAIN Cluster /\ Cluster[NextPeer(s, k)] \in Others(s)
<1>1. Cardinality(Server) \in Nat
    BY ClusterAssumption, FS_CardinalityType
<1>2. DOMAIN Cluster = 1 .. Cardinality(Server)
    BY ClusterAssumption
<1>3. PeersAfter(s, k) \subseteq Nat
    BY <1>1, <1>2 DEF PeersAfter
<1>4. NextPeer(s, k) \in PeersAfter(s, k)
    BY <1>3, MinExists DEF NextPeer
<1>. QED
    BY <1>4, ClusterAssumption DEF PeersAfter, Others

LEMMA AppendRequestType ==
    ASSUME TypeOK, NEW s \in Server, NEW d \in Others(s),
           NEW ls \in LeaderStateType(s), NEW lg \in Seq(Entry)
    PROVE  AppendRequest(s, d, ls, lg) \in AppendMsg
<1>. DEFINE next == ls.next_index[d]
<1>1. next \in Nat \ {0} /\ Len(lg) \in Nat
    BY LenProperties DEF LeaderStateType
<1>2. SubSeq(lg, next, Len(lg)) \in Seq(Entry)
    <2>1. \A i \in next .. Len(lg) : lg[i] \in Entry
        BY <1>1, ElementOfSeq
    <2>. QED
        BY <1>1, <2>1, SubSeqProperties
<1>3. TermAt(lg, next - 1) \in Nat
    <2>1. \A i \in 1 .. Len(lg) : lg[i] \in Entry
        BY ElementOfSeq
    <2>. QED
        BY <2>1 DEF TermAt, Entry
<1>4. current_term[s] \in Nat /\ commit_index[s] \in Nat /\ d \in Server
    BY DEF TypeOK, ElectionTypeOK, LogTypeOK, Others
<1>. HIDE DEF next
<1>. QED
    BY <1>1, <1>2, <1>3, <1>4 DEF AppendRequest, AppendMsg, next

\* _try_commit moves commit_index up, and no further than the log goes.
LEMMA CommitTargetType ==
    ASSUME TypeOK, NEW s \in Server, NEW ls, NEW lg \in Seq(Entry)
    PROVE  /\ CommitTarget(s, ls, lg) \in Nat
           /\ CommitTarget(s, ls, lg) # commit_index[s] =>
                CommitTarget(s, ls, lg) \in Committable(s, ls, lg)
           /\ CommitTarget(s, ls, lg) > commit_index[s] =>
                CommitTarget(s, ls, lg) <= Len(lg)
<1>. DEFINE C == Committable(s, ls, lg)
            n == CommitTarget(s, ls, lg)
<1>1. commit_index[s] \in Nat /\ Len(lg) \in Nat
    BY LenProperties DEF TypeOK, LogTypeOK
<1>2. C \subseteq Nat /\ \A k \in C : k <= Len(lg)
    BY <1>1 DEF Committable
<1>3. CASE C = {}
    BY <1>1, <1>3 DEF CommitTarget
<1>4. CASE C # {}
    <2>1. n \in C
        BY <1>1, <1>2, <1>4, MaxExists DEF CommitTarget
    <2>. QED
        BY <1>2, <2>1
<1>. QED
    BY <1>3, <1>4

LEMMA ApplyType ==
    ASSUME TypeOK, NEW s \in Server, NEW n \in Nat, NEW lg \in Seq(Entry),
           Apply(s, n, lg)
    PROVE  applied' \in [Server -> Seq(Entry)]
<1>. DEFINE a == applied[s]
            m == Min2(n, Len(lg))
<1>1. a \in Seq(Entry) /\ Len(a) \in Nat /\ Len(lg) \in Nat
    BY LenProperties DEF TypeOK, LogTypeOK
<1>2. m \in Nat /\ m <= Len(lg)
    BY <1>1 DEF Min2
<1>3. \A i \in Len(a) + 1 .. m : lg[i] \in Entry
    BY <1>1, <1>2, ElementOfSeq
<1>4. SubSeq(lg, Len(a) + 1, m) \in Seq(Entry)
    BY <1>1, <1>2, <1>3, SubSeqProperties
<1>5. a \o SubSeq(lg, Len(a) + 1, m) \in Seq(Entry)
    BY <1>1, <1>4, ConcatProperties
<1>. QED
    BY <1>5 DEF Apply, TypeOK, LogTypeOK

LEMMA TryCommitType ==
    ASSUME TypeOK, NEW s \in Server, NEW ls, NEW lg \in Seq(Entry),
           TryCommit(s, ls, lg)
    PROVE  /\ commit_index' \in [Server -> Nat]
           /\ applied' \in [Server -> Seq(Entry)]
           /\ chosen' \in Seq([entry : Entry, at : Nat])
<1>. DEFINE n == CommitTarget(s, ls, lg)
            C == [entry : Entry, at : Nat]
<1>1. n \in Nat /\ (n > commit_index[s] => n <= Len(lg))
    BY CommitTargetType
<1>2. /\ commit_index' = [commit_index EXCEPT ![s] = n]
      /\ Apply(s, n, lg)
      /\ n > commit_index[s] /\ n > Len(chosen) =>
           chosen' = [i \in 1 .. n |->
                         [entry |-> lg[i],
                          at |-> IF i <= Len(chosen) THEN chosen[i].at
                                 ELSE current_term[s]]]
      /\ ~ (n > commit_index[s] /\ n > Len(chosen)) => chosen' = chosen
    BY DEF TryCommit
<1>. HIDE DEF n
<1>3. commit_index' \in [Server -> Nat]
    BY <1>1, <1>2 DEF TypeOK, LogTypeOK
<1>4. applied' \in [Server -> Seq(Entry)]
    BY <1>1, <1>2, ApplyType
<1>5. ASSUME n > commit_index[s], n > Len(chosen)
      PROVE  chosen' \in Seq(C)
    <2>1. \A i \in 1 .. n : lg[i] \in Entry
        BY <1>1, <1>5, ElementOfSeq, LenProperties
    <2>2. current_term[s] \in Nat /\ chosen \in Seq(C) /\ Len(chosen) \in Nat
        BY LenProperties DEF TypeOK, ElectionTypeOK, LogTypeOK
    <2>3. \A i \in 1 .. Len(chosen) : chosen[i] \in C
        BY <2>2, ElementOfSeq
    <2>4. \A i \in 1 .. n :
             [entry |-> lg[i], at |-> IF i <= Len(chosen) THEN chosen[i].at
                                      ELSE current_term[s]] \in C
        BY <2>1, <2>2, <2>3
    <2>5. chosen' \in [1 .. n -> C]
        BY <1>2, <1>5, <2>4
    <2>. QED
        <3>. HIDE DEF C
        <3>1. Seq(C) = UNION {[1 .. m -> C] : m \in Nat}
            BY SeqDef
        <3>. QED
            BY <1>1, <2>5, <3>1
<1>6. chosen' \in Seq(C)
    BY <1>2, <1>5 DEF TypeOK, LogTypeOK
<1>. QED
    BY <1>3, <1>4, <1>6

LEMMA ContinueType ==
    ASSUME TypeOK, NEW s \in Server, NEW t \in Sender, NEW k \in Nat,
           NEW ls \in LeaderStateType(s), NEW lg \in Seq(Entry),
           Continue(s, t, k, ls, lg)
    PROVE  /\ sender' \in [Server -> [Sender -> SenderType \cup {Nil}]]
           /\ commit_index' \in [Server -> Nat]
           /\ applied' \in [Server -> Seq(Entry)]
           /\ chosen' \in Seq([entry : Entry, at : Nat])
<1>1. CASE PeersAfter(s, k) # {}
    <2>. DEFINE j == NextPeer(s, k)
                req == AppendRequest(s, Cluster[j], ls, lg)
                w == [at |-> j, req |-> req, resp |-> Nil]
    <2>1. j \in DOMAIN Cluster /\ Cluster[j] \in Others(s)
        BY <1>1, NextPeerType
    <2>2. req \in AppendMsg
        BY <2>1, AppendRequestType
    <2>3. sender' = [sender EXCEPT ![s][t] = w]
        BY <1>1 DEF Continue
    <2>. HIDE DEF req, j
    <2>4. w \in SenderType
        BY <2>1, <2>2 DEF SenderType
    <2>5. sender' \in [Server -> [Sender -> SenderType \cup {Nil}]]
        BY <2>3, <2>4 DEF TypeOK, TaskTypeOK
    <2>. QED
        BY <1>1, <2>5 DEF Continue, TypeOK, LogTypeOK
<1>2. CASE PeersAfter(s, k) = {}
    <2>1. sender' = [sender EXCEPT ![s][t] = Nil] /\ TryCommit(s, ls, lg)
        BY <1>2 DEF Continue
    <2>2. sender' \in [Server -> [Sender -> SenderType \cup {Nil}]]
        BY <2>1 DEF TypeOK, TaskTypeOK
    <2>. QED
        BY <2>1, <2>2, TryCommitType
<1>. QED
    BY <1>1, <1>2

-----------------------------------------------------------------------------
(* Types of what the handlers build *)

\* Where the merge cuts the log, the log is at least as long as the cut.
LEMMA MergeType ==
    ASSUME NEW m \in AppendMsg, NEW lg \in Seq(Entry), Consistent(m, lg)
    PROVE  Merge(m, lg) \in Seq(Entry)
<1>. DEFINE C == Conflicts(m, lg)
            es == m.entries
            prev == m.prev_log_index
<1>1. /\ es \in Seq(Entry) /\ prev \in Nat
      /\ Len(es) \in Nat /\ DOMAIN es = 1 .. Len(es)
      /\ Len(lg) \in Nat /\ prev <= Len(lg)
    BY LenProperties DEF AppendMsg, Consistent
<1>2. CASE C = {}
    BY <1>2 DEF Merge
<1>3. CASE C # {}
    <2>. DEFINE k == CHOOSE k \in C : \A j \in C : k <= j
    <2>1. C \subseteq Nat
        BY <1>1 DEF Conflicts
    <2>2. k \in C /\ \A j \in C : k <= j
        BY <1>3, <2>1, MinExists
    <2>3. Merge(m, lg) = SubSeq(lg, 1, prev + k - 1) \o SubSeq(es, k, Len(es))
        BY <1>3 DEF Merge
    <2>. HIDE DEF k
    <2>4. k \in 1 .. Len(es)
        BY <1>1, <2>2 DEF Conflicts
    <2>5. prev + k - 1 <= Len(lg)
        <3>1. CASE k = 1
            BY <1>1, <3>1
        <3>2. CASE k # 1
            <4>1. k - 1 \in 1 .. Len(es) /\ k - 1 \notin C
                BY <1>1, <2>1, <2>2, <2>4, <3>2
            <4>. QED
                BY <1>1, <2>4, <4>1 DEF Conflicts
        <3>. QED
            BY <3>1, <3>2
    <2>6. SubSeq(lg, 1, prev + k - 1) \in Seq(Entry)
        <3>1. \A i \in 1 .. prev + k - 1 : lg[i] \in Entry
            BY <1>1, <2>4, <2>5, ElementOfSeq
        <3>. QED
            BY <1>1, <2>4, <3>1, SubSeqProperties
    <2>7. SubSeq(es, k, Len(es)) \in Seq(Entry)
        <3>1. \A i \in k .. Len(es) : es[i] \in Entry
            BY <1>1, <2>4, ElementOfSeq
        <3>. QED
            BY <1>1, <2>4, <3>1, SubSeqProperties
    <2>. QED
        BY <2>3, <2>6, <2>7, ConcatProperties
<1>. QED
    BY <1>2, <1>3

LEMMA HandleRequestVoteType ==
    ASSUME TypeOK, NEW m \in VoteMsg, HandleRequestVote(m)
    PROVE  /\ current_term' \in [Server -> Nat]
           /\ voted_for' \in [Server -> Server \cup {Nil}]
           /\ role' \in [Server -> {Follower, Candidate, Leader}]
           /\ votes' \subseteq [term : Nat, voter : Server, candidate : Server]
           /\ leader_state' = [s \in Server |-> leader_state'[s]]
           /\ \A s \in Server : leader_state'[s] \in LeaderStateType(s) \cup {Nil}
<1>1. m.dst \in Server /\ m.src \in Server /\ m.term \in Nat
    BY DEF VoteMsg
<1>2. /\ current_term \in [Server -> Nat]
      /\ voted_for \in [Server -> Server \cup {Nil}]
      /\ role \in [Server -> {Follower, Candidate, Leader}]
      /\ votes \subseteq [term : Nat, voter : Server, candidate : Server]
      /\ leader_state = [s \in Server |-> leader_state[s]]
      /\ \A s \in Server : leader_state[s] \in LeaderStateType(s) \cup {Nil}
    BY DEF TypeOK, ElectionTypeOK, TaskTypeOK
<1>. QED
    BY <1>1, <1>2 DEF HandleRequestVote, Max2

LEMMA HandleAppendEntriesType ==
    ASSUME TypeOK, NEW m \in AppendMsg, HandleAppendEntries(m)
    PROVE  /\ current_term' \in [Server -> Nat]
           /\ voted_for' \in [Server -> Server \cup {Nil}]
           /\ role' \in [Server -> {Follower, Candidate, Leader}]
           /\ leader_state' = [s \in Server |-> leader_state'[s]]
           /\ \A s \in Server : leader_state'[s] \in LeaderStateType(s) \cup {Nil}
           /\ current_leader' \in [Server -> Server \cup {Nil}]
           /\ log' \in [Server -> Seq(Entry)]
           /\ commit_index' \in [Server -> Nat]
           /\ applied' \in [Server -> Seq(Entry)]
<1>1. /\ m.dst \in Server /\ m.src \in Server /\ m.term \in Nat
      /\ m.leader_commit \in Nat
    BY DEF AppendMsg
<1>2. /\ current_term \in [Server -> Nat]
      /\ voted_for \in [Server -> Server \cup {Nil}]
      /\ role \in [Server -> {Follower, Candidate, Leader}]
      /\ leader_state = [s \in Server |-> leader_state[s]]
      /\ \A s \in Server : leader_state[s] \in LeaderStateType(s) \cup {Nil}
      /\ current_leader \in [Server -> Server \cup {Nil}]
      /\ log \in [Server -> Seq(Entry)]
      /\ commit_index \in [Server -> Nat]
      /\ applied \in [Server -> Seq(Entry)]
    BY DEF TypeOK, ElectionTypeOK, TaskTypeOK, LogTypeOK
<1>3. CASE RefuseOldLeader(m)
    BY <1>2, <1>3 DEF RefuseOldLeader, persistent, volatile
<1>4. CASE FollowLeader(m)
    <2>. DEFINE d == m.dst
                lg == Merge(m, log[d])
                n == Min2(m.leader_commit, Len(lg))
    <2>1. /\ current_term' \in [Server -> Nat]
          /\ voted_for' \in [Server -> Server \cup {Nil}]
          /\ role' \in [Server -> {Follower, Candidate, Leader}]
          /\ leader_state' = [s \in Server |-> leader_state'[s]]
          /\ \A s \in Server : leader_state'[s] \in LeaderStateType(s) \cup {Nil}
          /\ current_leader' \in [Server -> Server \cup {Nil}]
        BY <1>1, <1>2, <1>4 DEF FollowLeader
    <2>2. CASE Consistent(m, log[d])
        <3>1. lg \in Seq(Entry) /\ Len(lg) \in Nat
            BY <1>1, <1>2, <2>2, MergeType, LenProperties
        <3>2. /\ log' = [log EXCEPT ![d] = lg]
              /\ \/ /\ commit_index' = [commit_index EXCEPT ![d] = n]
                    /\ Apply(d, n, lg)
                 \/ commit_index' = commit_index /\ applied' = applied
            BY <1>4, <2>2 DEF FollowLeader
        <3>. HIDE DEF lg
        <3>3. n \in Nat
            BY <1>1, <3>1 DEF Min2
        <3>. HIDE DEF n
        <3>4. log' \in [Server -> Seq(Entry)] /\ commit_index' \in [Server -> Nat]
            BY <1>1, <1>2, <3>1, <3>2, <3>3
        <3>5. applied' \in [Server -> Seq(Entry)]
            <4>1. CASE Apply(d, n, lg)
                BY <1>1, <3>1, <3>3, <4>1, ApplyType
            <4>2. CASE applied' = applied
                BY <1>2, <4>2
            <4>. QED
                BY <3>2, <4>1, <4>2
        <3>. QED
            BY <1>2, <2>1, <3>4, <3>5
    <2>3. CASE ~Consistent(m, log[d])
        BY <1>2, <1>4, <2>1, <2>3 DEF FollowLeader
    <2>. QED
        BY <2>2, <2>3
<1>. QED
    BY <1>3, <1>4 DEF HandleAppendEntries

-----------------------------------------------------------------------------
(* The network and the tasks *)

LEMMA BagDomains ==
    /\ \A B, S : DOMAIN (B (+) SetToBag(S)) = DOMAIN B \cup S
    /\ \A B, S : DOMAIN (B (-) SetToBag(S)) \subseteq DOMAIN B
<1>1. \A B, S : DOMAIN (B (+) SetToBag(S)) = DOMAIN B \cup S
    BY DEF (+), SetToBag
<1>2. \A B, S : DOMAIN (B (-) SetToBag(S)) \subseteq DOMAIN B
    BY DEF (-), SetToBag
<1>. QED
    BY <1>1, <1>2

LEMMA VoteRequestType ==
    ASSUME TypeOK, NEW s \in Server, NEW p \in Server, election[s] # Nil
    PROVE  VoteRequest(s, p) \in VoteMsg
BY DEF TypeOK, ElectionTypeOK, ElectionType, VoteRequest, VoteMsg

\* A task that waits has a request on the network, and its answer a type.
LEMMA WaitingTask ==
    ASSUME TypeOK, NEW s \in Server, NEW t \in Sender, sender[s][t] # Nil
    PROVE  /\ sender[s][t] \in SenderType
           /\ sender[s][t].req \in AppendMsg
           /\ sender[s][t].at \in Nat
           /\ sender[s][t].resp \notin {Nil, Lost} => sender[s][t].resp \in Reply
<1>1. sender[s][t] \in SenderType
    BY DEF TypeOK, TaskTypeOK
<1>2. DOMAIN Cluster \subseteq Nat
    BY ClusterAssumption, FS_CardinalityType
<1>. QED
    BY <1>1, <1>2 DEF SenderType

\* The peer a request of s went to is another node.
LEMMA AwaitedType ==
    ASSUME TypeOK, NEW s \in Server
    PROVE  Awaited(s) \subseteq VoteMsg \cup AppendMsg
<1>1. ASSUME NEW t \in Sender, Outstanding(s, t)
      PROVE  sender[s][t].req \in AppendMsg
    BY <1>1, WaitingTask DEF Outstanding
<1>2. ASSUME election[s] # Nil, NEW p \in election[s].pending
      PROVE  VoteRequest(s, p) \in VoteMsg
    <2>1. p \in Server
        BY <1>2 DEF TypeOK, ElectionTypeOK, ElectionType
    <2>. QED
        BY <1>2, <2>1, VoteRequestType
<1>. QED
    BY <1>1, <1>2 DEF Awaited

-----------------------------------------------------------------------------
(* Type correctness, action by action *)

\* What _send_append_entries needs when it starts: a leader has a leader_state.
\* TypeOK alone is not inductive, it lets the state of a leader be None.
LeadersReady ==
    \A s \in Server : role[s] = Leader => leader_state[s] \in LeaderStateType(s)

LEMMA TypeStartElection ==
    ASSUME TypeOK, NEW s \in Server, StartElection(s)
    PROVE  TypeOK'
<1>. DEFINE e == [term           |-> current_term[s] + 1,
                  last_log_index |-> Len(log[s]),
                  last_log_term  |-> LastTerm(log[s]),
                  pending        |-> Others(s),
                  granted        |-> {s}]
<1>1. Len(log[s]) \in Nat /\ LastTerm(log[s]) \in Nat
    <2>1. log[s] \in Seq(Entry) /\ Len(log[s]) \in Nat
        BY LenProperties DEF TypeOK, LogTypeOK
    <2>2. log[s] # <<>> => log[s][Len(log[s])] \in Entry
        BY <2>1, ElementOfSeq, EmptySeq
    <2>. QED
        BY <2>1, <2>2 DEF LastTerm, Entry
<1>2. current_term[s] + 1 \in Nat
    BY DEF TypeOK, ElectionTypeOK
<1>3. e \in ElectionType
    BY <1>1, <1>2 DEF ElectionType, Others
<1>4. /\ election' = [election EXCEPT ![s] = e]
      /\ votes' = votes \cup
            {[term |-> current_term[s] + 1, voter |-> s, candidate |-> s]}
      /\ role' = [role EXCEPT ![s] = Candidate]
      /\ current_term' = [current_term EXCEPT ![s] = current_term[s] + 1]
      /\ voted_for' = [voted_for EXCEPT ![s] = s]
      /\ elections' = elections
    BY DEF StartElection
<1>. HIDE DEF e
<1>5. ElectionTypeOK'
    <2>1. election' \in [Server -> ElectionType \cup {Nil}]
        BY <1>3, <1>4 DEF TypeOK, ElectionTypeOK
    <2>. QED
        BY <1>2, <1>4, <2>1 DEF TypeOK, ElectionTypeOK
<1>. QED
    BY <1>5 DEF StartElection, TypeOK, LogTypeOK, TaskTypeOK

LEMMA TypeAnswerVote ==
    ASSUME TypeOK, NEW s \in Server, NEW p \in Server, AnswerVote(s, p)
    PROVE  TypeOK'
<1>. DEFINE m == VoteRequest(s, p)
            e == election[s]
            f == [e EXCEPT !.pending = @ \ {p},
                           !.granted = IF GrantsVote(m) THEN @ \cup {p} ELSE @]
<1>1. m \in VoteMsg /\ HandleRequestVote(m)
    BY VoteRequestType DEF AnswerVote
<1>2. election' \in [Server -> ElectionType \cup {Nil}]
    <2>1. e \in ElectionType
        BY DEF AnswerVote, TypeOK, ElectionTypeOK
    <2>2. f \in ElectionType
        BY <2>1 DEF ElectionType
    <2>3. election' = [election EXCEPT ![s] = f]
        BY DEF AnswerVote, TypeOK, ElectionTypeOK
    <2>. QED
        BY <2>2, <2>3 DEF TypeOK, ElectionTypeOK
<1>. HIDE DEF m, e, f
<1>3. ElectionTypeOK'
    BY <1>1, <1>2, HandleRequestVoteType
       DEF HandleRequestVote, TypeOK, ElectionTypeOK
<1>4. LogTypeOK' /\ TaskTypeOK'
    BY <1>1, HandleRequestVoteType, ZenonT(60)
       DEF HandleRequestVote, AnswerVote, TypeOK, LogTypeOK, TaskTypeOK
<1>. QED
    BY <1>3, <1>4 DEF TypeOK

LEMMA TypeAnswerStrayVote ==
    ASSUME TypeOK, NEW m \in BagToSet(stray), AnswerStrayVote(m)
    PROVE  TypeOK'
<1>1. m \in VoteMsg
    BY DEF AnswerStrayVote, TypeOK, TaskTypeOK, BagToSet, VoteMsg, AppendMsg
<1>2. HandleRequestVote(m) /\ election' = election
    BY DEF AnswerStrayVote
<1>3. DOMAIN stray' \subseteq VoteMsg \cup AppendMsg
    BY BagDomains DEF AnswerStrayVote, TypeOK, TaskTypeOK
<1>4. ElectionTypeOK'
    BY <1>1, <1>2, HandleRequestVoteType
       DEF HandleRequestVote, TypeOK, ElectionTypeOK
<1>5. LogTypeOK' /\ TaskTypeOK'
    BY <1>1, <1>2, <1>3, HandleRequestVoteType
       DEF HandleRequestVote, TypeOK, LogTypeOK, TaskTypeOK
<1>. QED
    BY <1>4, <1>5 DEF TypeOK

LEMMA TypeVoteRpcFails ==
    ASSUME TypeOK, NEW s \in Server, NEW p \in Server, VoteRpcFails(s, p)
    PROVE  TypeOK'
<1>. DEFINE m == VoteRequest(s, p)
            e == election[s]
            f == [e EXCEPT !.pending = @ \ {p}]
<1>1. m \in VoteMsg
    BY VoteRequestType DEF VoteRpcFails
<1>2. stray' = stray (+) SetToBag({m}) /\ faults' = faults + 1
    BY DEF VoteRpcFails
<1>3. election' \in [Server -> ElectionType \cup {Nil}]
    <2>1. e \in ElectionType
        BY DEF VoteRpcFails, TypeOK, ElectionTypeOK
    <2>2. f \in ElectionType
        BY <2>1 DEF ElectionType
    <2>3. election' = [election EXCEPT ![s] = f]
        BY DEF VoteRpcFails, TypeOK, ElectionTypeOK
    <2>. QED
        BY <2>2, <2>3 DEF TypeOK, ElectionTypeOK
<1>. HIDE DEF m, e, f
<1>4. DOMAIN stray' \subseteq VoteMsg \cup AppendMsg /\ faults' \in Nat
    <2>1. DOMAIN stray' = DOMAIN stray \cup {m}
        BY <1>2, BagDomains
    <2>. QED
        BY <1>1, <1>2, <2>1 DEF TypeOK, TaskTypeOK
<1>5. UNCHANGED <<persistent, volatile, sender, history>>
    BY DEF VoteRpcFails
<1>. QED
    BY <1>3, <1>4, <1>5 DEF TypeOK, ElectionTypeOK, LogTypeOK, TaskTypeOK,
       persistent, volatile, history

LEMMA TypeBecomeLeader ==
    ASSUME TypeOK, NEW s \in Server, BecomeLeader(s)
    PROVE  TypeOK'
<1>1. FreshLeaderState(s) \in LeaderStateType(s)
    <2>1. Len(log[s]) \in Nat
        BY LenProperties DEF TypeOK, LogTypeOK
    <2>. QED
        BY <2>1 DEF FreshLeaderState, LeaderStateType
<1>2. DOMAIN stray' \subseteq VoteMsg \cup AppendMsg
    <2>. DEFINE m == sender[s][Heartbeat].req
    <2>1. CASE Outstanding(s, Heartbeat)
        <3>1. m \in AppendMsg
            BY <2>1, WaitingTask DEF Outstanding, Sender
        <3>2. stray' = stray (+) SetToBag({m})
            BY <2>1 DEF BecomeLeader
        <3>. HIDE DEF m
        <3>3. DOMAIN stray' = DOMAIN stray \cup {m}
            BY <3>2, BagDomains
        <3>. QED
            BY <3>1, <3>3 DEF TypeOK, TaskTypeOK
    <2>2. CASE ~Outstanding(s, Heartbeat)
        BY <2>2 DEF BecomeLeader, TypeOK, TaskTypeOK
    <2>. QED
        BY <2>1, <2>2
<1>3. election[s].term \in Nat
    BY DEF BecomeLeader, TypeOK, ElectionTypeOK, ElectionType
<1>4. sender' \in [Server -> [Sender -> SenderType \cup {Nil}]]
    BY DEF BecomeLeader, Sender, TypeOK, TaskTypeOK
<1>5. ElectionTypeOK'
    BY <1>3 DEF BecomeLeader, persistent, TypeOK, ElectionTypeOK
<1>6. LogTypeOK' /\ TaskTypeOK'
    BY <1>1, <1>2, <1>4 DEF BecomeLeader, persistent, TypeOK, LogTypeOK, TaskTypeOK
<1>. QED
    BY <1>5, <1>6 DEF TypeOK

LEMMA TypeLoseElection ==
    ASSUME TypeOK, NEW s \in Server, LoseElection(s)
    PROVE  TypeOK'
BY DEF LoseElection, TypeOK, ElectionTypeOK, LogTypeOK, TaskTypeOK,
       persistent, volatile, history

LEMMA TypeSendHeartbeat ==
    ASSUME TypeOK, NEW s \in Server, SendHeartbeat(s),
           leader_state[s] \in LeaderStateType(s)
    PROVE  TypeOK'
<1>1. log[s] \in Seq(Entry)
    BY DEF TypeOK, LogTypeOK
<1>2. Continue(s, Heartbeat, 0, leader_state[s], log[s])
    BY DEF SendHeartbeat
<1>3. LogTypeOK' /\ sender' \in [Server -> [Sender -> SenderType \cup {Nil}]]
    BY <1>1, <1>2, ContinueType
       DEF SendHeartbeat, Sender, persistent, TypeOK, LogTypeOK
<1>. QED
    BY <1>3 DEF SendHeartbeat, persistent, TypeOK, ElectionTypeOK, TaskTypeOK

LEMMA TypePropose ==
    ASSUME TypeOK, NEW s \in Server, NEW t \in Sender, NEW c \in Command,
           Propose(s, t, c), leader_state[s] \in LeaderStateType(s)
    PROVE  TypeOK'
<1>. DEFINE lg == Append(log[s], [term |-> current_term[s], cmd |-> c])
<1>1. log[s] \in Seq(Entry)
    BY DEF TypeOK, LogTypeOK
<1>2. lg \in Seq(Entry)
    <2>1. [term |-> current_term[s], cmd |-> c] \in Entry
        BY DEF Entry, TypeOK, ElectionTypeOK
    <2>. QED
        BY <1>1, <2>1, AppendProperties
<1>3. Continue(s, t, 0, leader_state[s], lg) /\ log' = [log EXCEPT ![s] = lg]
    BY DEF Propose
<1>. HIDE DEF lg
<1>4. LogTypeOK' /\ sender' \in [Server -> [Sender -> SenderType \cup {Nil}]]
    BY <1>1, <1>2, <1>3, ContinueType DEF TypeOK, LogTypeOK
<1>. QED
    BY <1>4 DEF Propose, TypeOK, ElectionTypeOK, TaskTypeOK

LEMMA TypeStepDownOnReply ==
    ASSUME TypeOK, NEW s \in Server, NEW t \in Sender, StepDownOnReply(s, t)
    PROVE  TypeOK'
<1>1. sender[s][t].resp.term \in Nat
    BY WaitingTask DEF StepDownOnReply, Answered, Reply
<1>. QED
    BY <1>1 DEF StepDownOnReply, StepDown, TypeOK, ElectionTypeOK, LogTypeOK,
       TaskTypeOK, history

LEMMA TypeAbandonRound ==
    ASSUME TypeOK, NEW s \in Server, NEW t \in Sender, AbandonRound(s, t)
    PROVE  TypeOK'
BY DEF AbandonRound, TypeOK, ElectionTypeOK, LogTypeOK, TaskTypeOK,
       persistent, volatile, history

\* An answer moves the leader_state of s, and the round goes on with it.
LEMMA TypeRoundGoesOn ==
    ASSUME TypeOK, LeadersReady, NEW s \in Server, NEW t \in Sender, sender[s][t] # Nil,
           NEW ls \in LeaderStateType(s),
           leader_state' = [leader_state EXCEPT ![s] = ls],
           Continue(s, t, sender[s][t].at, ls, log[s]),
           UNCHANGED <<persistent, role, current_leader, election, stray,
                       faults, votes, elections>>
    PROVE  TypeOK' /\ LeadersReady'
<1>1. sender[s][t].at \in Nat /\ log[s] \in Seq(Entry)
    BY WaitingTask DEF TypeOK, LogTypeOK
<1>2. LogTypeOK' /\ sender' \in [Server -> [Sender -> SenderType \cup {Nil}]]
    BY <1>1, ContinueType DEF persistent, TypeOK, LogTypeOK
<1>3. ElectionTypeOK'
    BY DEF persistent, TypeOK, ElectionTypeOK
<1>4. TaskTypeOK'
    BY <1>2 DEF TypeOK, TaskTypeOK
<1>5. LeadersReady'
    BY DEF TypeOK, TaskTypeOK, LeadersReady
<1>. QED
    BY <1>2, <1>3, <1>4, <1>5 DEF TypeOK

LEMMA TypeAcceptReply ==
    ASSUME TypeOK, LeadersReady, NEW s \in Server, NEW t \in Sender,
           AcceptReply(s, t)
    PROVE  TypeOK' /\ LeadersReady'
<1>. DEFINE req == sender[s][t].req
            old == leader_state[s]
            match == req.prev_log_index + Len(req.entries)
            new == [next_index  |-> [old.next_index EXCEPT ![req.dst] = match + 1],
                    match_index |-> [old.match_index EXCEPT ![req.dst] = match]]
            ls == IF req.entries = <<>> THEN old ELSE new
<1>1. sender[s][t] # Nil /\ req \in AppendMsg
    BY WaitingTask DEF AcceptReply, Answered
<1>2. match \in Nat
    BY <1>1, LenProperties, SMTT(60) DEF AppendMsg
<1>3. old \in LeaderStateType(s)
    BY DEF AcceptReply, TypeOK, TaskTypeOK
<1>4. /\ leader_state' = [leader_state EXCEPT ![s] = ls]
      /\ Continue(s, t, sender[s][t].at, ls, log[s])
      /\ UNCHANGED <<persistent, role, current_leader, election, stray, faults,
                     votes, elections>>
    BY DEF AcceptReply
<1>. HIDE DEF match, old
<1>5. ls \in LeaderStateType(s)
    <2>1. /\ old.next_index \in [Others(s) -> Nat \ {0}]
          /\ old.match_index \in [Others(s) -> Nat]
        BY <1>3 DEF LeaderStateType
    <2>2. match + 1 \in Nat \ {0}
        BY <1>2
    <2>3. new \in LeaderStateType(s)
        BY <1>2, <2>1, <2>2 DEF LeaderStateType
    <2>. QED
        BY <1>3, <2>3
<1>. HIDE DEF ls
<1>. QED
    BY <1>1, <1>4, <1>5, TypeRoundGoesOn

LEMMA TypeRejectReply ==
    ASSUME TypeOK, LeadersReady, NEW s \in Server, NEW t \in Sender,
           RejectReply(s, t)
    PROVE  TypeOK' /\ LeadersReady'
<1>. DEFINE req == sender[s][t].req
            old == leader_state[s]
            ls == [old EXCEPT !.next_index[req.dst] = BackUp(req)]
<1>1. sender[s][t] # Nil /\ req \in AppendMsg
    BY WaitingTask DEF RejectReply, Answered
<1>2. BackUp(req) \in Nat \ {0}
    BY <1>1, SMTT(60) DEF BackUp, Max2, AppendMsg
<1>3. old \in LeaderStateType(s)
    BY DEF RejectReply, TypeOK, TaskTypeOK
<1>4. /\ leader_state' = [leader_state EXCEPT ![s] = ls]
      /\ Continue(s, t, sender[s][t].at, ls, log[s])
      /\ UNCHANGED <<persistent, role, current_leader, election, stray, faults,
                     votes, elections>>
    BY DEF RejectReply
<1>. HIDE DEF old
<1>5. ls \in LeaderStateType(s)
    BY <1>2, <1>3 DEF LeaderStateType
<1>. HIDE DEF ls
<1>. QED
    BY <1>1, <1>4, <1>5, TypeRoundGoesOn

LEMMA TypeAppendRpcFails ==
    ASSUME TypeOK, NEW s \in Server, NEW t \in Sender, AppendRpcFails(s, t)
    PROVE  TypeOK'
<1>. DEFINE req == sender[s][t].req
<1>1. req \in AppendMsg /\ sender[s][t].at \in Nat
    BY WaitingTask DEF AppendRpcFails
<1>2. DOMAIN stray' \subseteq VoteMsg \cup AppendMsg
    <2>1. CASE Outstanding(s, t)
        <3>1. stray' = stray (+) SetToBag({req})
            BY <2>1 DEF AppendRpcFails
        <3>. HIDE DEF req
        <3>2. DOMAIN stray' = DOMAIN stray \cup {req}
            BY <3>1, BagDomains
        <3>. QED
            BY <1>1, <3>2 DEF TypeOK, TaskTypeOK
    <2>2. CASE ~Outstanding(s, t)
        BY <2>2 DEF AppendRpcFails, TypeOK, TaskTypeOK
    <2>. QED
        BY <2>1, <2>2
<1>3. LogTypeOK' /\ sender' \in [Server -> [Sender -> SenderType \cup {Nil}]]
    <2>1. CASE leader_state[s] = Nil
        <3>1. /\ sender' = [sender EXCEPT ![s][t] = Nil]
              /\ UNCHANGED <<log, commit_index, applied, chosen>>
            BY <2>1 DEF AppendRpcFails, persistent
        <3>. QED
            BY <3>1 DEF TypeOK, LogTypeOK, TaskTypeOK
    <2>2. CASE leader_state[s] # Nil
        <3>1. leader_state[s] \in LeaderStateType(s) /\ log[s] \in Seq(Entry)
            BY <2>2 DEF TypeOK, TaskTypeOK, LogTypeOK
        <3>2. Continue(s, t, sender[s][t].at, leader_state[s], log[s])
            BY <2>2 DEF AppendRpcFails
        <3>. QED
            BY <1>1, <3>1, <3>2, ContinueType
               DEF AppendRpcFails, persistent, TypeOK, LogTypeOK
    <2>. QED
        BY <2>1, <2>2
<1>4. ElectionTypeOK'
    BY DEF AppendRpcFails, persistent, TypeOK, ElectionTypeOK
<1>5. TaskTypeOK'
    <2>1. faults' \in {faults, faults + 1} /\ UNCHANGED <<leader_state, current_leader>>
        BY DEF AppendRpcFails
    <2>. QED
        BY <1>2, <1>3, <2>1 DEF TypeOK, TaskTypeOK
<1>. QED
    BY <1>3, <1>4, <1>5 DEF TypeOK

LEMMA TypeAnswerAppend ==
    ASSUME TypeOK, NEW s \in Server, NEW t \in Sender, AnswerAppend(s, t)
    PROVE  TypeOK'
<1>. DEFINE m == sender[s][t].req
            r == AppendReply(m)
            w == [sender[s][t] EXCEPT !.resp = r]
<1>1. /\ sender[s][t] \in SenderType /\ m \in AppendMsg
      /\ HandleAppendEntries(m)
    BY WaitingTask DEF AnswerAppend, Outstanding
<1>2. r \in Reply
    <2>1. m.term \in Nat /\ current_term[m.dst] \in Nat
        BY <1>1 DEF AppendMsg, TypeOK, ElectionTypeOK
    <2>2. (m.term >= current_term[m.dst] /\ Consistent(m, log[m.dst])) \in BOOLEAN
        BY DEF Consistent
    <2>. QED
        BY <2>1, <2>2 DEF AppendReply, Reply, Max2
<1>3. sender' = [sender EXCEPT ![s][t] = w]
    BY DEF AnswerAppend, TypeOK, TaskTypeOK
<1>. HIDE DEF m, r
<1>4. w \in SenderType
    BY <1>1, <1>2 DEF SenderType
<1>. HIDE DEF w
<1>5. sender' \in [Server -> [Sender -> SenderType \cup {Nil}]]
    BY <1>3, <1>4 DEF TypeOK, TaskTypeOK
<1>6. UNCHANGED <<election, stray, faults, history>>
    BY DEF AnswerAppend
<1>. QED
    BY <1>1, <1>5, <1>6, HandleAppendEntriesType
       DEF TypeOK, ElectionTypeOK, LogTypeOK, TaskTypeOK, history

LEMMA TypeAnswerStrayAppend ==
    ASSUME TypeOK, NEW m \in BagToSet(stray), AnswerStrayAppend(m)
    PROVE  TypeOK'
<1>1. m \in AppendMsg
    BY DEF AnswerStrayAppend, TypeOK, TaskTypeOK, BagToSet, VoteMsg, AppendMsg
<1>2. /\ HandleAppendEntries(m)
      /\ UNCHANGED <<election, sender, faults, history>>
    BY DEF AnswerStrayAppend
<1>3. DOMAIN stray' \subseteq VoteMsg \cup AppendMsg
    BY BagDomains DEF AnswerStrayAppend, TypeOK, TaskTypeOK
<1>. QED
    BY <1>1, <1>2, <1>3, HandleAppendEntriesType
       DEF TypeOK, ElectionTypeOK, LogTypeOK, TaskTypeOK, history

-----------------------------------------------------------------------------
(* Crashes *)

\* A crash inside a handler, of whichever request.
Crashes ==
    \/ \E s, p \in Server : CrashOnVote(s, p)
    \/ \E s \in Server, t \in Sender : CrashOnAppend(s, t)
    \/ \E m \in BagToSet(stray) : CrashOnStray(m)

Reboots == Crashes \/ \E s \in Server : Restart(s)

\* What a crash leaves of an election and of a sender: nothing, or the election
\* with less to wait for and the sender with its request.
ElectionLeft(e, f) ==
    f # Nil => /\ e # Nil
               /\ f.term = e.term /\ f.granted = e.granted
               /\ f.last_log_index = e.last_log_index
               /\ f.last_log_term = e.last_log_term

SenderLeft(x, y) ==
    y # Nil => x # Nil /\ y.at = x.at /\ y.req = x.req /\ y.resp \in {x.resp, Lost}

ElectionsLeft(els) ==
    /\ els \in [Server -> ElectionType \cup {Nil}]
    /\ \A s \in Server : ElectionLeft(election[s], els[s])

SendersLeft(snd) ==
    /\ snd \in [Server -> [Sender -> SenderType \cup {Nil}]]
    /\ \A s \in Server, t \in Sender : SenderLeft(sender[s][t], snd[s][t])

\* What every crash does, between two steps or inside a handler.
Rebooted(s, term, vote) ==
    /\ \/ term > current_term[s]
       \/ term = current_term[s] /\ vote = voted_for[s]
    /\ faults' = faults + 1
    /\ current_term' = [current_term EXCEPT ![s] = term]
    /\ voted_for' = [voted_for EXCEPT ![s] = vote]
    /\ role' = [role EXCEPT ![s] = Follower]
    /\ commit_index' = [commit_index EXCEPT ![s] = 0]
    /\ applied' = [applied EXCEPT ![s] = <<>>]
    /\ leader_state' = [leader_state EXCEPT ![s] = Nil]
    /\ current_leader' = [current_leader EXCEPT ![s] = Nil]
    /\ UNCHANGED <<log, votes, elections, chosen>>
    /\ ElectionsLeft(election') /\ election'[s] = Nil
    /\ SendersLeft(sender')
    /\ DOMAIN stray' \subseteq DOMAIN stray \cup Awaited(s)

LEMMA RebootFacts ==
    ASSUME TypeOK, NEW s \in Server, NEW term, NEW vote, NEW els, NEW snd,
           Reboot(s, term, vote, els, snd), log' = log,
           \/ term > current_term[s]
           \/ term = current_term[s] /\ vote = voted_for[s],
           ElectionsLeft(els), SendersLeft(snd),
           DOMAIN stray' \subseteq DOMAIN stray \cup Awaited(s)
    PROVE  Rebooted(s, term, vote)
<1>1. ElectionsLeft(election') /\ election'[s] = Nil
    <2>1. election' = [els EXCEPT ![s] = Nil]
        BY DEF Reboot
    <2>. QED
        BY <2>1 DEF ElectionsLeft, ElectionLeft
<1>2. SendersLeft(sender')
    <2>. DEFINE idle == [t \in Sender |-> Nil]
    <2>1. idle \in [Sender -> SenderType \cup {Nil}] /\ \A t \in Sender : idle[t] = Nil
        OBVIOUS
    <2>2. sender' = [snd EXCEPT ![s] = idle]
        BY DEF Reboot
    <2>. HIDE DEF idle
    <2>. QED
        BY <2>1, <2>2 DEF SendersLeft, SenderLeft
<1>. QED
    BY <1>1, <1>2 DEF Reboot, Rebooted, history

LEMMA LeftAlone ==
    ASSUME TypeOK
    PROVE  ElectionsLeft(election) /\ SendersLeft(sender)
BY DEF TypeOK, ElectionTypeOK, TaskTypeOK, ElectionsLeft, ElectionLeft,
       SendersLeft, SenderLeft

LEMMA CrashOnVoteFacts ==
    ASSUME TypeOK, NEW s \in Server, NEW p \in Server, CrashOnVote(s, p)
    PROVE  \E term \in Nat : Rebooted(p, term, Nil)
<1>. DEFINE m == VoteRequest(s, p)
            els == [election EXCEPT ![s].pending = @ \ {p}]
<1>1. m.dst = p /\ m.term \in Nat
    BY VoteRequestType DEF CrashOnVote, VoteRequest, VoteMsg
<1>2. ElectionsLeft(els)
    <2>1. election[s] \in ElectionType /\ election \in [Server -> ElectionType \cup {Nil}]
        BY DEF CrashOnVote, TypeOK, ElectionTypeOK
    <2>2. /\ [election[s] EXCEPT !.pending = @ \ {p}] \in ElectionType
          /\ ElectionLeft(election[s], [election[s] EXCEPT !.pending = @ \ {p}])
        BY <2>1 DEF ElectionType, ElectionLeft, CrashOnVote
    <2>3. els = [election EXCEPT ![s] = [election[s] EXCEPT !.pending = @ \ {p}]]
        BY <2>1
    <2>. QED
        BY <2>1, <2>2, <2>3 DEF ElectionsLeft, ElectionLeft
<1>3. DOMAIN stray' = DOMAIN stray \cup Awaited(p)
    BY BagDomains DEF CrashOnVote
<1>4. CrashInHandler(m, els, sender)
    BY DEF CrashOnVote
<1>. HIDE DEF m, els
<1>5. /\ m.term > current_term[p] /\ log' = log
      /\ Reboot(p, m.term, Nil, els, sender)
    BY <1>1, <1>4 DEF CrashInHandler
<1>. QED
    BY <1>1, <1>2, <1>3, <1>5, LeftAlone, RebootFacts

LEMMA CrashOnAppendFacts ==
    ASSUME TypeOK, NEW s \in Server, NEW t \in Sender, CrashOnAppend(s, t)
    PROVE  \E p \in Server, term \in Nat : Rebooted(p, term, Nil)
<1>. DEFINE m == sender[s][t].req
            w == [sender[s][t] EXCEPT !.resp = Lost]
            snd == [sender EXCEPT ![s][t].resp = Lost]
<1>1. sender[s][t] \in SenderType /\ m \in AppendMsg /\ sender[s][t] # Nil
    BY WaitingTask DEF CrashOnAppend, Outstanding
<1>2. m.dst \in Server /\ m.term \in Nat
    BY <1>1 DEF AppendMsg
<1>3. SendersLeft(snd)
    <2>1. w \in SenderType /\ SenderLeft(sender[s][t], w)
        BY <1>1 DEF SenderType, SenderLeft
    <2>2. snd = [sender EXCEPT ![s][t] = w]
        BY DEF TypeOK, TaskTypeOK
    <2>. HIDE DEF w, snd
    <2>3. snd \in [Server -> [Sender -> SenderType \cup {Nil}]]
        BY <2>1, <2>2 DEF TypeOK, TaskTypeOK
    <2>4. \A q \in Server, u \in Sender : SenderLeft(sender[q][u], snd[q][u])
        BY <2>1, <2>2 DEF TypeOK, TaskTypeOK, SenderLeft
    <2>. QED
        BY <2>3, <2>4 DEF SendersLeft
<1>4. DOMAIN stray' = DOMAIN stray \cup Awaited(m.dst)
    BY BagDomains DEF CrashOnAppend
<1>5. CrashInHandler(m, election, snd)
    BY DEF CrashOnAppend
<1>. HIDE DEF m, snd
<1>6. /\ m.term > current_term[m.dst] /\ log' = log
      /\ Reboot(m.dst, m.term, Nil, election, snd)
    BY <1>5 DEF CrashInHandler
<1>. QED
    BY <1>2, <1>3, <1>4, <1>6, LeftAlone, RebootFacts

LEMMA CrashOnStrayFacts ==
    ASSUME TypeOK, NEW m \in BagToSet(stray), CrashOnStray(m)
    PROVE  \E p \in Server, term \in Nat : Rebooted(p, term, Nil)
<1>1. m.dst \in Server /\ m.term \in Nat
    BY SMTT(60) DEF TypeOK, TaskTypeOK, BagToSet, VoteMsg, AppendMsg
<1>2. DOMAIN stray' \subseteq DOMAIN stray \cup Awaited(m.dst)
    <2>. DEFINE rest == stray (-) SetToBag({m})
    <2>1. DOMAIN rest \subseteq DOMAIN stray
        BY BagDomains
    <2>2. stray' = rest (+) SetToBag(Awaited(m.dst))
        BY DEF CrashOnStray
    <2>. HIDE DEF rest
    <2>3. DOMAIN stray' = DOMAIN rest \cup Awaited(m.dst)
        BY <2>2, BagDomains
    <2>. QED
        BY <2>1, <2>3
<1>3. /\ m.term > current_term[m.dst] /\ log' = log
      /\ Reboot(m.dst, m.term, Nil, election, sender)
    BY DEF CrashOnStray, CrashInHandler
<1>. QED
    BY <1>1, <1>2, <1>3, LeftAlone, RebootFacts

\* A crash sets one node back to what it saved, whatever it comes over.
LEMMA RebootsFacts ==
    ASSUME TypeOK, Reboots
    PROVE  \E s \in Server, term \in Nat, vote \in Server \cup {Nil} :
               Rebooted(s, term, vote)
<1>1. ASSUME NEW s \in Server, Restart(s)
      PROVE  Rebooted(s, current_term[s], voted_for[s])
    <2>1. DOMAIN stray' = DOMAIN stray \cup Awaited(s)
        BY <1>1, BagDomains DEF Restart
    <2>2. log' = log /\ Reboot(s, current_term[s], voted_for[s], election, sender)
        BY <1>1 DEF Restart
    <2>. QED
        BY <2>1, <2>2, LeftAlone, RebootFacts
<1>2. \A s \in Server : current_term[s] \in Nat /\ voted_for[s] \in Server \cup {Nil}
    BY DEF TypeOK, ElectionTypeOK
<1>3. CASE \E s \in Server : Restart(s)
    BY <1>1, <1>2, <1>3
<1>4. CASE Crashes
    BY <1>4, CrashOnVoteFacts, CrashOnAppendFacts, CrashOnStrayFacts DEF Crashes
<1>. QED
    BY <1>3, <1>4 DEF Reboots

LEMMA TypeReboots ==
    ASSUME TypeOK, Reboots
    PROVE  TypeOK'
<1>1. PICK s \in Server, term \in Nat, vote \in Server \cup {Nil} :
           Rebooted(s, term, vote)
    BY RebootsFacts
<1>2. DOMAIN stray' \subseteq VoteMsg \cup AppendMsg
    BY <1>1, AwaitedType DEF Rebooted, TypeOK, TaskTypeOK
<1>3. ElectionTypeOK'
    BY <1>1 DEF Rebooted, ElectionsLeft, TypeOK, ElectionTypeOK
<1>4. LogTypeOK'
    BY <1>1, EmptySeq DEF Rebooted, TypeOK, LogTypeOK
<1>5. TaskTypeOK'
    <2>1. faults' \in Nat /\ sender' \in [Server -> [Sender -> SenderType \cup {Nil}]]
        BY <1>1 DEF Rebooted, SendersLeft, TypeOK, TaskTypeOK
    <2>2. current_leader' \in [Server -> Server \cup {Nil}]
        BY <1>1 DEF Rebooted, TypeOK, TaskTypeOK
    <2>3. leader_state' = [leader_state EXCEPT ![s] = Nil]
        BY <1>1 DEF Rebooted
    <2>4. /\ leader_state' = [p \in Server |-> leader_state'[p]]
          /\ \A p \in Server : leader_state'[p] \in LeaderStateType(p) \cup {Nil}
        BY <2>3 DEF TypeOK, TaskTypeOK
    <2>. QED
        BY <1>2, <2>1, <2>2, <2>4 DEF TaskTypeOK, LeaderStateType
<1>. QED
    BY <1>3, <1>4, <1>5 DEF TypeOK

-----------------------------------------------------------------------------
\* No step leaves a leader without a leader_state: who steps down loses both.
LEMMA LeadersReadyStep ==
    ASSUME TypeOK, LeadersReady, [Next]_vars
    PROVE  LeadersReady'
<1>1. ASSUME UNCHANGED <<role, leader_state>>
      PROVE  LeadersReady'
    BY <1>1 DEF LeadersReady
<1>2. ASSUME NEW s \in Server, StartElection(s)
      PROVE  LeadersReady'
    BY <1>2, NameAssumption DEF StartElection, LeadersReady, TypeOK, ElectionTypeOK
<1>3. ASSUME NEW s \in Server, BecomeLeader(s)
      PROVE  LeadersReady'
    <2>1. FreshLeaderState(s) \in LeaderStateType(s)
        <3>1. Len(log[s]) \in Nat
            BY LenProperties DEF TypeOK, LogTypeOK
        <3>. QED
            BY <3>1 DEF FreshLeaderState, LeaderStateType
    <2>2. /\ role' = [role EXCEPT ![s] = Leader]
          /\ leader_state' = [leader_state EXCEPT ![s] = FreshLeaderState(s)]
        BY <1>3 DEF BecomeLeader
    <2>. QED
        BY <2>1, <2>2 DEF LeadersReady, TypeOK, ElectionTypeOK, TaskTypeOK
<1>4. ASSUME NEW m, HandleRequestVote(m)
      PROVE  LeadersReady'
    BY <1>4, NameAssumption
       DEF HandleRequestVote, LeadersReady, TypeOK, ElectionTypeOK, TaskTypeOK
<1>5. ASSUME NEW m, HandleAppendEntries(m)
      PROVE  LeadersReady'
    <2>1. \/ UNCHANGED <<role, leader_state>>
          \/ /\ role' = [role EXCEPT ![m.dst] =
                  IF m.term > current_term[m.dst] \/ @ = Candidate
                  THEN Follower ELSE @]
             /\ leader_state' = [leader_state EXCEPT ![m.dst] =
                  IF m.term > current_term[m.dst] THEN Nil ELSE @]
        BY <1>5 DEF HandleAppendEntries, RefuseOldLeader, FollowLeader, volatile
    <2>. QED
        BY <2>1, NameAssumption DEF LeadersReady, TypeOK, ElectionTypeOK, TaskTypeOK
<1>6. CASE Reboots
    <2>1. PICK s \in Server, term \in Nat, vote \in Server \cup {Nil} :
              Rebooted(s, term, vote)
        BY <1>6, RebootsFacts
    <2>2. /\ role' = [role EXCEPT ![s] = Follower]
          /\ leader_state' = [leader_state EXCEPT ![s] = Nil]
        BY <2>1 DEF Rebooted
    <2>. QED
        BY <2>2, NameAssumption DEF LeadersReady, TypeOK, ElectionTypeOK, TaskTypeOK
<1>7. ASSUME NEW s \in Server, NEW t \in Sender, StepDownOnReply(s, t)
      PROVE  LeadersReady'
    BY <1>7, NameAssumption
       DEF StepDownOnReply, StepDown, LeadersReady, TypeOK, ElectionTypeOK, TaskTypeOK
<1>8. ASSUME NEW s \in Server, NEW t \in Sender, AcceptReply(s, t) \/ RejectReply(s, t)
      PROVE  LeadersReady'
    BY <1>8, TypeAcceptReply, TypeRejectReply
<1>9. ASSUME NEW s \in Server, NEW t \in Sender,
             \/ LoseElection(s) \/ SendHeartbeat(s)
             \/ \E c \in Command : Propose(s, t, c)
             \/ AbandonRound(s, t) \/ AppendRpcFails(s, t)
      PROVE  LeadersReady'
    BY <1>1, <1>9 DEF LoseElection, SendHeartbeat, Propose, AbandonRound,
                      AppendRpcFails, volatile
<1>10. ASSUME NEW s \in Server, NEW p \in Server, VoteRpcFails(s, p)
       PROVE  LeadersReady'
    BY <1>1, <1>10 DEF VoteRpcFails, volatile
<1>11. Heartbeat \in Sender
    BY DEF Sender
<1>. QED
    BY <1>1, <1>2, <1>3, <1>4, <1>5, <1>6, <1>7, <1>8, <1>9, <1>10, <1>11
       DEF Next, vars, volatile, AnswerVote, AnswerStrayVote, AnswerAppend,
           AnswerStrayAppend, Reboots, Crashes

LEMMA TypeStep ==
    ASSUME TypeOK, LeadersReady, [Next]_vars
    PROVE  TypeOK'
<1>1. CASE UNCHANGED vars
    BY <1>1 DEF vars, persistent, volatile, history, TypeOK, ElectionTypeOK,
                LogTypeOK, TaskTypeOK, LeaderStateType
<1>2. ASSUME NEW s \in Server, SendHeartbeat(s)
      PROVE  TypeOK'
    BY <1>2, TypeSendHeartbeat DEF SendHeartbeat, LeadersReady
<1>3. ASSUME NEW s \in Server, NEW t \in Sender, NEW c \in Command, Propose(s, t, c)
      PROVE  TypeOK'
    BY <1>3, TypePropose DEF Propose, LeadersReady
<1>. QED
    BY <1>1, <1>2, <1>3, TypeStartElection, TypeAnswerVote, TypeAnswerStrayVote,
       TypeVoteRpcFails, TypeBecomeLeader, TypeLoseElection, TypeStepDownOnReply,
       TypeAbandonRound, TypeAcceptReply, TypeRejectReply, TypeAppendRpcFails,
       TypeAnswerAppend, TypeAnswerStrayAppend, TypeReboots
       DEF Next, Reboots, Crashes

LEMMA TypeInit == Init => TypeOK /\ LeadersReady
<1>. SUFFICES ASSUME Init PROVE TypeOK /\ LeadersReady
    OBVIOUS
<1>1. ElectionTypeOK
    BY DEF Init, ElectionTypeOK
<1>2. LogTypeOK
    BY EmptySeq DEF Init, LogTypeOK
<1>3. TaskTypeOK
    BY DEF Init, TaskTypeOK, EmptyBag, SetToBag
<1>4. LeadersReady
    BY NameAssumption DEF Init, LeadersReady
<1>. QED
    BY <1>1, <1>2, <1>3, <1>4 DEF TypeOK

\* Every variable keeps the type the code gives it, whatever the cluster, the
\* failures and the order of the messages; among others, no sender runs on a
\* leader_state of None.
THEOREM TypeCorrect == Spec => []TypeOK
<1>1. Init => TypeOK /\ LeadersReady
    BY TypeInit
<1>2. TypeOK /\ LeadersReady /\ [Next]_vars => (TypeOK /\ LeadersReady)'
    BY TypeStep, LeadersReadyStep
<1>. QED
    BY <1>1, <1>2, PTL DEF Spec

-----------------------------------------------------------------------------
(* Elections *)

VoteFor(term, voter, candidate) ==
    [term |-> term, voter |-> voter, candidate |-> candidate]

\* The saved term and vote of a node cover every vote it ever gave.
VotesRemembered ==
    \A v \in votes :
        /\ v.term <= current_term[v.voter]
        /\ v.term = current_term[v.voter] => voted_for[v.voter] = v.candidate

\* The votes an election counted were given, to this candidate in its term.
GrantedAreVotes ==
    \A s \in Server : election[s] # Nil =>
        \A p \in election[s].granted : VoteFor(election[s].term, p, s) \in votes

\* While a candidate waits, its election is the one of its current term.
ElectionCurrent ==
    \A s \in Server : election[s] # Nil /\ role[s] = Candidate =>
        election[s].term = current_term[s]

\* Every election that was won had the votes of a majority.
WonByMajority ==
    \A e \in elections : \E Q \in SUBSET Server :
        /\ Cardinality(Q) >= Majority
        /\ \A p \in Q : VoteFor(e.term, p, e.leader) \in votes

ElectionInv ==
    /\ VotesRemembered
    /\ OneVotePerTerm
    /\ GrantedAreVotes
    /\ ElectionCurrent
    /\ WonByMajority
    /\ LeadersAreElected

\* The steps in which nobody votes and nobody wins: terms only go up, whoever
\* moves to a new term is a follower, and an election in progress is at most
\* given up.
NoVote ==
    /\ UNCHANGED <<votes, elections>>
    /\ \A s \in Server :
        /\ current_term'[s] \in Nat
        /\ \/ current_term'[s] > current_term[s] /\ role'[s] = Follower
           \/ /\ UNCHANGED <<current_term[s], voted_for[s]>>
              /\ role'[s] \in {role[s], Follower}
        /\ election'[s] # Nil =>
              /\ election[s] # Nil
              /\ election'[s].term = election[s].term
              /\ election'[s].granted = election[s].granted

LEMMA NoVoteStep ==
    ASSUME TypeOK, ElectionInv, NoVote
    PROVE  ElectionInv'
<1>1. /\ current_term \in [Server -> Nat]
      /\ votes \subseteq [term : Nat, voter : Server, candidate : Server]
    BY DEF TypeOK, ElectionTypeOK
<1>2. VotesRemembered'
    <2>. SUFFICES ASSUME NEW v \in votes
                  PROVE  /\ v.term <= current_term'[v.voter]
                         /\ v.term = current_term'[v.voter]
                               => voted_for'[v.voter] = v.candidate
        BY DEF NoVote, VotesRemembered
    <2>1. v.term \in Nat /\ v.voter \in Server /\ current_term[v.voter] \in Nat
        BY <1>1
    <2>2. \/ current_term'[v.voter] > current_term[v.voter]
          \/ UNCHANGED <<current_term[v.voter], voted_for[v.voter]>>
        BY <2>1 DEF NoVote
    <2>3. CASE current_term'[v.voter] > current_term[v.voter]
        <3>1. v.term <= current_term[v.voter]
            BY DEF ElectionInv, VotesRemembered
        <3>2. current_term'[v.voter] \in Nat
            BY <2>1 DEF NoVote
        <3>. QED
            BY <2>1, <2>3, <3>1, <3>2
    <2>4. CASE UNCHANGED <<current_term[v.voter], voted_for[v.voter]>>
        BY <2>4 DEF ElectionInv, VotesRemembered
    <2>. QED
        BY <2>2, <2>3, <2>4
<1>3. OneVotePerTerm' /\ WonByMajority'
    BY DEF NoVote, ElectionInv, OneVotePerTerm, WonByMajority, Majority
<1>4. GrantedAreVotes'
    BY DEF NoVote, ElectionInv, GrantedAreVotes
<1>5. ElectionCurrent'
    BY NameAssumption DEF NoVote, ElectionInv, ElectionCurrent
<1>6. LeadersAreElected'
    BY NameAssumption DEF NoVote, ElectionInv, LeadersAreElected
<1>. QED
    BY <1>2, <1>3, <1>4, <1>5, <1>6 DEF ElectionInv

\* A new vote for candidate c by v in a term it has not voted in for another:
\* the part of the invariant about votes, for every step that adds one.
LEMMA NewVoteStep ==
    ASSUME TypeOK, ElectionInv,
           NEW v \in Server, NEW c \in Server, NEW term \in Nat,
           \/ term > current_term[v]
           \/ term = current_term[v] /\ voted_for[v] \in {Nil, c},
           current_term' = [current_term EXCEPT ![v] = term],
           voted_for' = [voted_for EXCEPT ![v] = c],
           votes' = votes \cup {VoteFor(term, v, c)},
           elections' = elections
    PROVE  VotesRemembered' /\ OneVotePerTerm' /\ WonByMajority'
<1>1. /\ current_term \in [Server -> Nat]
      /\ voted_for \in [Server -> Server \cup {Nil}]
      /\ votes \subseteq [term : Nat, voter : Server, candidate : Server]
    BY DEF TypeOK, ElectionTypeOK
<1>2. \A u \in votes : u.voter = v =>
         /\ u.term <= term
         /\ u.term = term => u.candidate = c
    <2>. SUFFICES ASSUME NEW u \in votes, u.voter = v
                  PROVE  u.term <= term /\ (u.term = term => u.candidate = c)
        OBVIOUS
    <2>1. u.term \in Nat /\ u.candidate \in Server /\ current_term[v] \in Nat
        BY <1>1
    <2>2. /\ u.term <= current_term[v]
          /\ u.term = current_term[v] => voted_for[v] = u.candidate
        BY DEF ElectionInv, VotesRemembered
    <2>. QED
        BY <2>1, <2>2, NameAssumption
<1>3. VotesRemembered'
    <2>. SUFFICES ASSUME NEW u \in votes'
                  PROVE  /\ u.term <= current_term'[u.voter]
                         /\ u.term = current_term'[u.voter]
                               => voted_for'[u.voter] = u.candidate
        BY DEF VotesRemembered
    <2>1. CASE u = VoteFor(term, v, c)
        BY <1>1, <2>1 DEF VoteFor
    <2>2. CASE u \in votes /\ u.voter = v
        BY <1>1, <1>2, <2>2
    <2>3. CASE u \in votes /\ u.voter # v
        BY <1>1, <2>3 DEF ElectionInv, VotesRemembered
    <2>. QED
        BY <2>1, <2>2, <2>3
<1>4. OneVotePerTerm'
    BY <1>2 DEF ElectionInv, OneVotePerTerm, VoteFor
<1>5. WonByMajority'
    BY DEF ElectionInv, WonByMajority, Majority
<1>. QED
    BY <1>3, <1>4, <1>5

LEMMA ElectionInvStart ==
    ASSUME TypeOK, ElectionInv, NEW s \in Server, StartElection(s)
    PROVE  ElectionInv'
<1>. DEFINE term == current_term[s] + 1
<1>1. /\ current_term \in [Server -> Nat] /\ term \in Nat
      /\ role \in [Server -> {Follower, Candidate, Leader}]
      /\ election \in [Server -> ElectionType \cup {Nil}]
    BY DEF TypeOK, ElectionTypeOK
<1>2. /\ role' = [role EXCEPT ![s] = Candidate]
      /\ current_term' = [current_term EXCEPT ![s] = term]
      /\ voted_for' = [voted_for EXCEPT ![s] = s]
      /\ votes' = votes \cup {VoteFor(term, s, s)}
      /\ elections' = elections
      /\ \A p \in Server \ {s} : election'[p] = election[p]
      /\ election'[s].term = term
      /\ election'[s].granted = {s}
    BY <1>1 DEF StartElection, VoteFor
<1>. HIDE DEF term
<1>3. term > current_term[s]
    BY <1>1 DEF term
<1>4. VotesRemembered' /\ OneVotePerTerm' /\ WonByMajority'
    BY <1>1, <1>2, <1>3, NewVoteStep
<1>5. GrantedAreVotes'
    BY <1>2 DEF ElectionInv, GrantedAreVotes
<1>6. ElectionCurrent'
    BY <1>1, <1>2 DEF ElectionInv, ElectionCurrent
<1>7. LeadersAreElected'
    BY <1>1, <1>2, NameAssumption DEF ElectionInv, LeadersAreElected
<1>. QED
    BY <1>4, <1>5, <1>6, <1>7 DEF ElectionInv

\* What _handle_request_vote leaves to show: the election the answer goes to.
LEMMA ElectionInvHandleVote ==
    ASSUME TypeOK, ElectionInv, NEW m \in VoteMsg, HandleRequestVote(m),
           \A s \in Server : election'[s] # Nil =>
              /\ election[s] # Nil
              /\ election'[s].term = election[s].term
              /\ \/ election'[s].granted = election[s].granted
                 \/ /\ GrantsVote(m) /\ m.src = s /\ m.term = election[s].term
                    /\ election'[s].granted = election[s].granted \cup {m.dst}
    PROVE  ElectionInv'
<1>. DEFINE d == m.dst
<1>1. d \in Server /\ m.src \in Server /\ m.term \in Nat
    BY DEF VoteMsg
<1>2. /\ current_term \in [Server -> Nat]
      /\ voted_for \in [Server -> Server \cup {Nil}]
      /\ role \in [Server -> {Follower, Candidate, Leader}]
    BY DEF TypeOK, ElectionTypeOK
<1>3. CASE ~GrantsVote(m)
    <2>1. NoVote
        BY <1>1, <1>2, <1>3 DEF NoVote, HandleRequestVote, Max2
    <2>. QED
        BY <2>1, NoVoteStep
<1>4. CASE GrantsVote(m)
    <2>1. \/ m.term > current_term[d]
          \/ m.term = current_term[d] /\ voted_for[d] \in {Nil, m.src}
        BY <1>4 DEF GrantsVote, VoteAvailable
    <2>2. Max2(current_term[d], m.term) = m.term
        BY <1>1, <1>2, <2>1 DEF Max2
    <2>3. /\ current_term' = [current_term EXCEPT ![d] = m.term]
          /\ voted_for' = [voted_for EXCEPT ![d] = m.src]
          /\ votes' = votes \cup {VoteFor(m.term, d, m.src)}
          /\ elections' = elections
          /\ role' = [role EXCEPT ![d] =
                IF m.term > current_term[d] THEN Follower ELSE @]
        BY <1>4, <2>2 DEF HandleRequestVote, VoteFor
    <2>4. VotesRemembered' /\ OneVotePerTerm' /\ WonByMajority'
        BY <1>1, <2>1, <2>3, NewVoteStep
    <2>5. GrantedAreVotes'
        BY <2>3 DEF ElectionInv, GrantedAreVotes
    <2>6. ElectionCurrent'
        BY <1>1, <1>2, <2>1, <2>3, NameAssumption DEF ElectionInv, ElectionCurrent
    <2>7. LeadersAreElected'
        BY <1>1, <1>2, <2>1, <2>3, NameAssumption DEF ElectionInv, LeadersAreElected
    <2>. QED
        BY <2>4, <2>5, <2>6, <2>7 DEF ElectionInv
<1>. QED
    BY <1>3, <1>4

LEMMA ElectionInvAnswerVote ==
    ASSUME TypeOK, ElectionInv, NEW s \in Server, NEW p \in Server, AnswerVote(s, p)
    PROVE  ElectionInv'
<1>. DEFINE m == VoteRequest(s, p)
<1>1. m \in VoteMsg /\ HandleRequestVote(m)
    BY VoteRequestType DEF AnswerVote
<1>2. m.src = s /\ m.dst = p /\ m.term = election[s].term
    BY DEF VoteRequest
<1>3. /\ election[s] # Nil /\ election[s] \in ElectionType
      /\ election \in [Server -> ElectionType \cup {Nil}]
    BY DEF AnswerVote, TypeOK, ElectionTypeOK
<1>4. /\ \A q \in Server \ {s} : election'[q] = election[q]
      /\ election'[s].term = election[s].term
      /\ election'[s].granted = IF GrantsVote(m) THEN election[s].granted \cup {p}
                                ELSE election[s].granted
    <2>1. election' = [election EXCEPT
                ![s].pending = @ \ {p},
                ![s].granted = IF GrantsVote(m) THEN @ \cup {p} ELSE @]
        BY DEF AnswerVote
    <2>. HIDE DEF m
    <2>. QED
        BY <1>3, <2>1 DEF ElectionType
<1>. HIDE DEF m
<1>. QED
    BY <1>1, <1>2, <1>3, <1>4, ElectionInvHandleVote

LEMMA ElectionInvAnswerStrayVote ==
    ASSUME TypeOK, ElectionInv, NEW m \in BagToSet(stray), AnswerStrayVote(m)
    PROVE  ElectionInv'
<1>1. m \in VoteMsg
    BY DEF AnswerStrayVote, TypeOK, TaskTypeOK, BagToSet, VoteMsg, AppendMsg
<1>2. HandleRequestVote(m) /\ election' = election
    BY DEF AnswerStrayVote
<1>. QED
    BY <1>1, <1>2, ElectionInvHandleVote

LEMMA ElectionInvBecomeLeader ==
    ASSUME TypeOK, ElectionInv, NEW s \in Server, BecomeLeader(s)
    PROVE  ElectionInv'
<1>. DEFINE e == election[s]
<1>1. /\ e # Nil /\ e \in ElectionType
      /\ role[s] = Candidate
      /\ Cardinality(e.granted) >= Majority
      /\ election' = [election EXCEPT ![s] = Nil]
      /\ role' = [role EXCEPT ![s] = Leader]
      /\ elections' = elections \cup {[term |-> e.term, leader |-> s]}
      /\ UNCHANGED <<current_term, voted_for, votes>>
    BY DEF BecomeLeader, Won, persistent, TypeOK, ElectionTypeOK
<1>2. /\ role \in [Server -> {Follower, Candidate, Leader}]
      /\ election \in [Server -> ElectionType \cup {Nil}]
    BY DEF TypeOK, ElectionTypeOK
<1>3. VotesRemembered' /\ OneVotePerTerm'
    BY <1>1 DEF ElectionInv, VotesRemembered, OneVotePerTerm
<1>4. GrantedAreVotes' /\ ElectionCurrent'
    BY <1>1, <1>2, NameAssumption DEF ElectionInv, GrantedAreVotes, ElectionCurrent
<1>5. WonByMajority'
    <2>1. e.granted \in SUBSET Server
        BY <1>1 DEF ElectionType
    <2>2. \A p \in e.granted : VoteFor(e.term, p, s) \in votes
        BY <1>1 DEF ElectionInv, GrantedAreVotes
    <2>. SUFFICES ASSUME NEW f \in elections'
                  PROVE  \E Q \in SUBSET Server :
                            /\ Cardinality(Q) >= Majority
                            /\ \A p \in Q : VoteFor(f.term, p, f.leader) \in votes
        BY <1>1 DEF WonByMajority, Majority
    <2>3. CASE f \in elections
        BY <2>3 DEF ElectionInv, WonByMajority
    <2>4. CASE f = [term |-> e.term, leader |-> s]
        BY <1>1, <2>1, <2>2, <2>4
    <2>. QED
        BY <1>1, <2>3, <2>4
<1>6. LeadersAreElected'
    <2>1. e.term = current_term[s]
        BY <1>1 DEF ElectionInv, ElectionCurrent
    <2>. QED
        BY <1>1, <1>2, <2>1 DEF ElectionInv, LeadersAreElected
<1>. QED
    BY <1>3, <1>4, <1>5, <1>6 DEF ElectionInv

LEMMA ElectionInvStep ==
    ASSUME TypeOK, ElectionInv, [Next]_vars
    PROVE  ElectionInv'
<1>0. /\ current_term \in [Server -> Nat]
      /\ voted_for \in [Server -> Server \cup {Nil}]
      /\ role \in [Server -> {Follower, Candidate, Leader}]
      /\ election \in [Server -> ElectionType \cup {Nil}]
    BY DEF TypeOK, ElectionTypeOK
<1>1. CASE UNCHANGED <<current_term, voted_for, role, election, votes, elections>>
    BY <1>0, <1>1, NoVoteStep DEF NoVote
<1>2. ASSUME NEW s \in Server, NEW p \in Server, VoteRpcFails(s, p)
      PROVE  ElectionInv'
    <2>1. /\ election' = [election EXCEPT ![s].pending = @ \ {p}]
          /\ election[s] # Nil /\ election[s] \in ElectionType
          /\ UNCHANGED <<current_term, voted_for, role, votes, elections>>
        BY <1>0, <1>2 DEF VoteRpcFails, persistent, volatile, history
    <2>2. /\ \A q \in Server \ {s} : election'[q] = election[q]
          /\ election'[s].term = election[s].term
          /\ election'[s].granted = election[s].granted
        BY <1>0, <2>1 DEF ElectionType
    <2>. QED
        BY <1>0, <2>1, <2>2, NoVoteStep DEF NoVote
<1>3. ASSUME NEW s \in Server, LoseElection(s)
      PROVE  ElectionInv'
    <2>1. /\ election' = [election EXCEPT ![s] = Nil]
          /\ UNCHANGED <<current_term, voted_for, role, votes, elections>>
        BY <1>3 DEF LoseElection, persistent, volatile, history
    <2>. QED
        BY <1>0, <2>1, NoVoteStep DEF NoVote
<1>4. ASSUME NEW s \in Server, NEW t \in Sender, StepDownOnReply(s, t)
      PROVE  ElectionInv'
    <2>. DEFINE term == sender[s][t].resp.term
    <2>1. term \in Nat
        BY <1>4, WaitingTask DEF StepDownOnReply, Answered, Reply
    <2>2. /\ term > current_term[s]
          /\ current_term' = [current_term EXCEPT ![s] = term]
          /\ role' = [role EXCEPT ![s] = Follower]
          /\ voted_for' = [voted_for EXCEPT ![s] = Nil]
          /\ UNCHANGED <<election, votes, elections>>
        BY <1>4 DEF StepDownOnReply, StepDown, history
    <2>. HIDE DEF term
    <2>. QED
        BY <1>0, <2>1, <2>2, NoVoteStep DEF NoVote
<1>5. ASSUME NEW m \in AppendMsg, HandleAppendEntries(m),
             UNCHANGED <<election, history>>
      PROVE  ElectionInv'
    <2>1. m.dst \in Server /\ m.term \in Nat
        BY DEF AppendMsg
    <2>2. CASE RefuseOldLeader(m)
        BY <1>1, <1>5, <2>2 DEF RefuseOldLeader, persistent, volatile, history
    <2>3. CASE FollowLeader(m)
        <3>1. /\ m.term >= current_term[m.dst]
              /\ current_term' = [current_term EXCEPT ![m.dst] = m.term]
              /\ voted_for' = [voted_for EXCEPT ![m.dst] =
                    IF m.term > current_term[m.dst] THEN Nil ELSE @]
              /\ role' = [role EXCEPT ![m.dst] =
                    IF m.term > current_term[m.dst] \/ @ = Candidate
                    THEN Follower ELSE @]
            BY <2>3 DEF FollowLeader
        <3>. QED
            BY <1>0, <1>5, <2>1, <3>1, NoVoteStep DEF history, NoVote
    <2>. QED
        BY <1>5, <2>2, <2>3 DEF HandleAppendEntries
<1>6. ASSUME NEW s \in Server, NEW t \in Sender, AnswerAppend(s, t)
      PROVE  ElectionInv'
    BY <1>5, <1>6, WaitingTask DEF AnswerAppend, Outstanding
<1>7. ASSUME NEW m \in BagToSet(stray), AnswerStrayAppend(m)
      PROVE  ElectionInv'
    <2>1. m \in AppendMsg
        BY <1>7 DEF AnswerStrayAppend, TypeOK, TaskTypeOK, BagToSet, VoteMsg, AppendMsg
    <2>. QED
        BY <1>5, <1>7, <2>1 DEF AnswerStrayAppend
<1>8. CASE Reboots
    <2>1. PICK s \in Server, term \in Nat, vote \in Server \cup {Nil} :
              Rebooted(s, term, vote)
        BY <1>8, RebootsFacts
    <2>2. /\ current_term' = [current_term EXCEPT ![s] = term]
          /\ voted_for' = [voted_for EXCEPT ![s] = vote]
          /\ role' = [role EXCEPT ![s] = Follower]
          /\ \/ term > current_term[s]
             \/ term = current_term[s] /\ vote = voted_for[s]
          /\ UNCHANGED <<votes, elections>>
        BY <2>1 DEF Rebooted
    <2>3. \A q \in Server : election'[q] # Nil =>
              /\ election[q] # Nil
              /\ election'[q].term = election[q].term
              /\ election'[q].granted = election[q].granted
        BY <2>1 DEF Rebooted, ElectionsLeft, ElectionLeft
    <2>. QED
        BY <1>0, <2>2, <2>3, NoVoteStep DEF NoVote
<1>11. ASSUME NEW s \in Server, NEW t \in Sender,
              \/ SendHeartbeat(s) \/ \E c \in Command : Propose(s, t, c)
              \/ AbandonRound(s, t) \/ AcceptReply(s, t) \/ RejectReply(s, t)
              \/ AppendRpcFails(s, t)
       PROVE  ElectionInv'
    BY <1>1, <1>11 DEF SendHeartbeat, Propose, AbandonRound, AcceptReply,
       RejectReply, AppendRpcFails, persistent, volatile, history
<1>12. CASE UNCHANGED vars
    BY <1>1, <1>12 DEF vars, persistent, volatile, history
<1>13. Heartbeat \in Sender
    BY DEF Sender
<1>. QED
    BY <1>2, <1>3, <1>4, <1>6, <1>7, <1>8, <1>11, <1>12, <1>13,
       ElectionInvStart, ElectionInvAnswerVote, ElectionInvAnswerStrayVote,
       ElectionInvBecomeLeader
       DEF Next, Reboots, Crashes

LEMMA ElectionInvInit == Init => ElectionInv
BY NameAssumption DEF Init, ElectionInv, VotesRemembered, OneVotePerTerm,
   GrantedAreVotes, ElectionCurrent, WonByMajority, LeadersAreElected

LEMMA ElectionInductive == Spec => [](TypeOK /\ ElectionInv)
<1>1. Init => TypeOK /\ LeadersReady /\ ElectionInv
    BY TypeInit, ElectionInvInit
<1>2. TypeOK /\ LeadersReady /\ ElectionInv /\ [Next]_vars
        => (TypeOK /\ LeadersReady /\ ElectionInv)'
    BY TypeStep, LeadersReadyStep, ElectionInvStep
<1>. QED
    BY <1>1, <1>2, PTL DEF Spec

\* Any two majorities of the cluster share a node.
LEMMA MajoritiesMeet ==
    ASSUME NEW P \in SUBSET Server, NEW Q \in SUBSET Server,
           Cardinality(P) >= Majority, Cardinality(Q) >= Majority
    PROVE  P \cap Q # {}
<1>1. IsFiniteSet(Server)
    BY ClusterAssumption
<1>2. IsFiniteSet(P) /\ IsFiniteSet(Q)
    BY <1>1, FS_Subset
<1>3. /\ Cardinality(Server) \in Nat
      /\ Cardinality(P) \in Nat /\ Cardinality(Q) \in Nat
    BY <1>1, <1>2, FS_CardinalityType
<1>4. Cardinality(P) + Cardinality(Q) > Cardinality(Server)
    BY <1>3 DEF Majority
<1>. QED
    BY <1>1, <1>4, FS_MajoritiesIntersect

\* The votes of two majorities have a voter in common.
LEMMA ElectionInvSafe ==
    ASSUME ElectionInv
    PROVE  ElectionSafety
<1>. SUFFICES ASSUME NEW e \in elections, NEW f \in elections, e.term = f.term
              PROVE  e.leader = f.leader
    BY DEF ElectionSafety
<1>1. PICK P \in SUBSET Server :
         /\ Cardinality(P) >= Majority
         /\ \A p \in P : VoteFor(e.term, p, e.leader) \in votes
    BY DEF ElectionInv, WonByMajority
<1>2. PICK Q \in SUBSET Server :
         /\ Cardinality(Q) >= Majority
         /\ \A p \in Q : VoteFor(f.term, p, f.leader) \in votes
    BY DEF ElectionInv, WonByMajority
<1>3. PICK p \in P : p \in Q
    BY <1>1, <1>2, MajoritiesMeet
<1>4. VoteFor(e.term, p, e.leader) \in votes /\ VoteFor(f.term, p, f.leader) \in votes
    BY <1>1, <1>2, <1>3
<1>. QED
    BY <1>4 DEF ElectionInv, OneVotePerTerm, VoteFor

\* No two nodes are ever elected in the same term, in any cluster, however the
\* requests, answers, timeouts and crashes fall: _start_election needs a
\* majority, and _save_state keeps a vote over a restart.
THEOREM ElectionSafe == Spec => []ElectionSafety
<1>1. ElectionInv => ElectionSafety
    BY ElectionInvSafe
<1>. QED
    BY <1>1, ElectionInductive, PTL

\* A node never gives two votes in one term, restarts between them included.
THEOREM OneVote == Spec => []OneVotePerTerm
<1>1. ElectionInv => OneVotePerTerm
    BY DEF ElectionInv
<1>. QED
    BY <1>1, ElectionInductive, PTL

\* Whoever is in state LEADER was elected in the term it is in, although
\* _start_election counts the votes when other handlers may have moved the
\* node on.
THEOREM LeadersElected == Spec => []LeadersAreElected
<1>1. ElectionInv => LeadersAreElected
    BY DEF ElectionInv
<1>. QED
    BY <1>1, ElectionInductive, PTL

-----------------------------------------------------------------------------
(* Logs *)

\* Somebody was elected in term t, by the elections els.
Elected(els, t) == \E e \in els : e.term = t

\* F gives for every term the log its leader has, or had in the end. Whatever
\* log ends at an entry of a term is up to there the log of that leader.
LogFits(F, els, lg) ==
    \A i \in 1 .. Len(lg) :
        /\ Elected(els, lg[i].term)
        /\ i <= Len(F[lg[i].term])
        /\ \A j \in 1 .. i : F[lg[i].term][j] = lg[j]

\* The entries of a request are a piece of its leader's log, and so is the
\* entry before them. A request without entries may name any entry before them:
\* next_index may come from a longer log of an earlier leadership.
RequestFits(F, els, m) ==
    /\ [term |-> m.term, leader |-> m.src] \in els
    /\ m.src # m.dst
    /\ m.entries # <<>> =>
        /\ m.prev_log_index + Len(m.entries) <= Len(F[m.term])
        /\ \A k \in 1 .. Len(m.entries) :
              m.entries[k] = F[m.term][m.prev_log_index + k]
        /\ m.prev_log_index # 0 =>
              m.prev_log_term = F[m.term][m.prev_log_index].term

\* Every request that may be handled yet, or was and is not answered.
Requests ==
    {m \in AppendMsg :
        \/ m \in DOMAIN stray
        \/ \E s \in Server, t \in Sender : sender[s][t] # Nil /\ sender[s][t].req = m}

Fits(F) ==
    /\ \A s \in Server : LogFits(F, elections, log[s])
    /\ \A t \in Nat : Elected(elections, t) => LogFits(F, elections, F[t])
    /\ \A s \in Server : role[s] = Leader => log[s] = F[current_term[s]]
    /\ \A m \in Requests : RequestFits(F, elections, m)

LeaderLogs == [Nat -> Seq(Entry)]

\* Two logs that fit agree up to every position where their terms agree.
LEMMA FittingLogsMatch ==
    ASSUME NEW F \in LeaderLogs, NEW els, NEW a \in Seq(Entry), NEW b \in Seq(Entry),
           LogFits(F, els, a), LogFits(F, els, b),
           NEW i \in 1 .. Len(a), i <= Len(b), a[i].term = b[i].term
    PROVE  \A j \in 1 .. i : a[j] = b[j]
<1>1. Len(a) \in Nat /\ Len(b) \in Nat
    BY LenProperties
<1>2. i \in 1 .. Len(b)
    BY <1>1
<1>. QED
    BY <1>2, SMTT(60) DEF LogFits

\* The beginning of a log that fits.
LEMMA PrefixFits ==
    ASSUME NEW F \in LeaderLogs, NEW els, NEW a \in Seq(Entry), NEW b \in Seq(Entry),
           LogFits(F, els, a), Len(b) <= Len(a), \A i \in 1 .. Len(b) : b[i] = a[i]
    PROVE  LogFits(F, els, b)
<1>1. Len(a) \in Nat /\ Len(b) \in Nat
    BY LenProperties
<1>. SUFFICES ASSUME NEW i \in 1 .. Len(b)
              PROVE  /\ Elected(els, b[i].term)
                     /\ i <= Len(F[b[i].term])
                     /\ \A j \in 1 .. i : F[b[i].term][j] = b[j]
    BY DEF LogFits
<1>2. i \in 1 .. Len(a) /\ b[i] = a[i] /\ \A j \in 1 .. i : b[j] = a[j]
    BY <1>1
<1>3. /\ Elected(els, a[i].term)
      /\ i <= Len(F[a[i].term])
      /\ \A j \in 1 .. i : F[a[i].term][j] = a[j]
    BY <1>2 DEF LogFits
<1>. QED
    BY <1>2, <1>3

\* Leaders' logs that only grow, and more elections, take nothing away.
LEMMA GrownFits ==
    ASSUME NEW F \in LeaderLogs, NEW G \in LeaderLogs, NEW els, NEW more,
           els \subseteq more,
           \A t \in Nat : Elected(els, t) =>
               /\ Len(F[t]) <= Len(G[t])
               /\ \A i \in 1 .. Len(F[t]) : G[t][i] = F[t][i],
           NEW lg \in Seq(Entry), LogFits(F, els, lg)
    PROVE  LogFits(G, more, lg)
<1>. SUFFICES ASSUME NEW i \in 1 .. Len(lg)
              PROVE  /\ Elected(more, lg[i].term)
                     /\ i <= Len(G[lg[i].term])
                     /\ \A j \in 1 .. i : G[lg[i].term][j] = lg[j]
    BY DEF LogFits
<1>. DEFINE t == lg[i].term
<1>1. lg[i] \in Entry /\ Len(lg) \in Nat
    BY ElementOfSeq, LenProperties
<1>2. t \in Nat
    BY <1>1 DEF Entry
<1>3. Elected(els, t) /\ i <= Len(F[t]) /\ \A j \in 1 .. i : F[t][j] = lg[j]
    BY DEF LogFits
<1>. HIDE DEF t
<1>4. F[t] \in Seq(Entry) /\ G[t] \in Seq(Entry)
    BY <1>2 DEF LeaderLogs
<1>5. Len(F[t]) \in Nat /\ Len(G[t]) \in Nat
    BY <1>4, LenProperties
<1>6. i <= Len(G[t]) /\ \A j \in 1 .. i : G[t][j] = lg[j]
    BY <1>1, <1>2, <1>3, <1>5, SMTT(60)
<1>. QED
    BY <1>3, <1>6 DEF Elected, t

LEMMA GrownRequestFits ==
    ASSUME NEW F \in LeaderLogs, NEW G \in LeaderLogs, NEW els, NEW more,
           els \subseteq more,
           \A t \in Nat : Elected(els, t) =>
               /\ Len(F[t]) <= Len(G[t])
               /\ \A i \in 1 .. Len(F[t]) : G[t][i] = F[t][i],
           NEW m \in AppendMsg, RequestFits(F, els, m)
    PROVE  RequestFits(G, more, m)
<1>. DEFINE t == m.term
            prev == m.prev_log_index
            es == m.entries
<1>1. t \in Nat /\ prev \in Nat /\ es \in Seq(Entry)
    BY DEF AppendMsg
<1>2. Len(es) \in Nat /\ (es # <<>> => Len(es) > 0)
    BY <1>1, LenProperties, EmptySeq
<1>3. Elected(els, t)
    BY DEF RequestFits, Elected
<1>4. F[t] \in Seq(Entry) /\ G[t] \in Seq(Entry)
    BY <1>1 DEF LeaderLogs
<1>5. Len(F[t]) \in Nat /\ Len(G[t]) \in Nat
    BY <1>4, LenProperties
<1>6. /\ Len(F[t]) <= Len(G[t])
      /\ \A i \in 1 .. Len(F[t]) : G[t][i] = F[t][i]
    BY <1>1, <1>3
<1>7. ASSUME es # <<>>
      PROVE  /\ prev + Len(es) <= Len(G[t])
             /\ \A k \in 1 .. Len(es) : es[k] = G[t][prev + k]
             /\ prev # 0 => m.prev_log_term = G[t][prev].term
    <2>1. /\ prev + Len(es) <= Len(F[t])
          /\ \A k \in 1 .. Len(es) : es[k] = F[t][prev + k]
          /\ prev # 0 => m.prev_log_term = F[t][prev].term
        BY <1>7 DEF RequestFits
    <2>. HIDE DEF t, prev, es
    <2>2. \A k \in 1 .. Len(es) : prev + k \in 1 .. Len(F[t])
        BY <1>1, <1>2, <1>5, <2>1
    <2>3. prev # 0 => prev \in 1 .. Len(F[t])
        BY <1>1, <1>2, <1>5, <1>7, <2>1
    <2>. QED
        BY <1>1, <1>2, <1>5, <1>6, <2>1, <2>2, <2>3
<1>. QED
    BY <1>7 DEF RequestFits

\* _handle_append_entries: where the terms agree nothing has to be cut, and what
\* comes after the first conflict is the leader's. What it makes of a log is that
\* log, or all of it up to the last entry of the request is the leader's.
LEMMA MergeIs ==
    ASSUME NEW F \in LeaderLogs, NEW els, NEW m \in AppendMsg, NEW lg \in Seq(Entry),
           LogFits(F, els, lg), LogFits(F, els, F[m.term]),
           RequestFits(F, els, m), Consistent(m, lg)
    PROVE  \/ Conflicts(m, lg) = {} /\ Merge(m, lg) = lg
           \/ /\ Conflicts(m, lg) # {} /\ m.entries # <<>>
              /\ Merge(m, lg) \in Seq(Entry)
              /\ Len(Merge(m, lg)) = m.prev_log_index + Len(m.entries)
              /\ Len(Merge(m, lg)) <= Len(F[m.term])
              /\ \A j \in 1 .. Len(Merge(m, lg)) : Merge(m, lg)[j] = F[m.term][j]
<1>. DEFINE C == Conflicts(m, lg)
            es == m.entries
            prev == m.prev_log_index
            fl == F[m.term]
<1>1. /\ es \in Seq(Entry) /\ prev \in Nat /\ m.term \in Nat
      /\ Len(es) \in Nat /\ DOMAIN es = 1 .. Len(es)
      /\ Len(lg) \in Nat /\ prev <= Len(lg)
    BY LenProperties DEF AppendMsg, Consistent
<1>2. fl \in Seq(Entry) /\ Len(fl) \in Nat
    BY <1>1, LenProperties DEF LeaderLogs
<1>3. CASE C = {}
    BY <1>3 DEF Merge
<1>4. CASE C # {}
    <2>. DEFINE k == CHOOSE k \in C : \A j \in C : k <= j
                new == Merge(m, lg)
    <2>1. C \subseteq Nat
        BY <1>1 DEF Conflicts
    <2>2. k \in C /\ \A j \in C : k <= j
        BY <1>4, <2>1, MinExists
    <2>3. new = SubSeq(lg, 1, prev + k - 1) \o SubSeq(es, k, Len(es))
        BY <1>4 DEF Merge
    <2>. HIDE DEF k, new
    <2>4. k \in 1 .. Len(es)
        BY <1>1, <2>2 DEF Conflicts
    <2>5. es # <<>>
        BY <2>4, EmptySeq
    <2>6. /\ prev + Len(es) <= Len(fl)
          /\ \A i \in 1 .. Len(es) : es[i] = fl[prev + i]
          /\ prev # 0 => m.prev_log_term = fl[prev].term
        BY <2>5 DEF RequestFits
    <2>7. \A i \in 1 .. k - 1 : /\ prev + i <= Len(lg)
                                /\ lg[prev + i].term = es[i].term
        BY <1>1, <2>1, <2>2, <2>4, SMTT(60) DEF Conflicts
    <2>8. prev + k - 1 <= Len(lg)
        <3>1. CASE k = 1
            BY <1>1, <3>1
        <3>2. CASE k # 1
            BY <1>1, <2>4, <2>7, <3>2
        <3>. QED
            BY <3>1, <3>2
    <2>9. \A j \in 1 .. prev + k - 1 : lg[j] = fl[j]
        <3>1. CASE prev + k - 1 = 0
            BY <3>1
        <3>2. CASE prev + k - 1 # 0
            <4>. DEFINE i == prev + k - 1
            <4>1. i \in 1 .. Len(lg) /\ i <= Len(fl)
                BY <1>1, <2>4, <2>6, <2>8, <3>2, SMTT(60)
            <4>2. lg[i].term = fl[i].term
                <5>1. CASE k = 1
                    <6>1. prev # 0 /\ i = prev
                        BY <1>1, <3>2, <5>1
                    <6>. QED
                        BY <2>6, <6>1 DEF Consistent
                <5>2. CASE k # 1
                    <6>1. k - 1 \in 1 .. k - 1 /\ k - 1 \in 1 .. Len(es) /\ i = prev + (k - 1)
                        BY <1>1, <2>4, <5>2
                    <6>. QED
                        BY <2>6, <2>7, <6>1
                <5>. QED
                    BY <5>1, <5>2
            <4>. HIDE DEF i, fl
            <4>3. \A j \in 1 .. i : lg[j] = fl[j]
                BY <1>2, <4>1, <4>2, FittingLogsMatch DEF fl
            <4>. QED
                BY <4>3 DEF i
        <3>. QED
            BY <3>1, <3>2
    <2>10. /\ SubSeq(lg, 1, prev + k - 1) \in Seq(Entry)
           /\ Len(SubSeq(lg, 1, prev + k - 1)) = prev + k - 1
           /\ \A j \in 1 .. prev + k - 1 : SubSeq(lg, 1, prev + k - 1)[j] = lg[j]
        BY <1>1, <2>4, <2>8
    <2>11. /\ SubSeq(es, k, Len(es)) \in Seq(Entry)
           /\ Len(SubSeq(es, k, Len(es))) = Len(es) - k + 1
           /\ \A j \in 1 .. Len(es) - k + 1 : SubSeq(es, k, Len(es))[j] = es[k + j - 1]
        BY <1>1, <2>4
    <2>12. /\ new \in Seq(Entry)
           /\ Len(new) = prev + Len(es)
           /\ \A j \in 1 .. prev + k - 1 : new[j] = lg[j]
           /\ \A j \in prev + k .. prev + Len(es) : new[j] = es[j - prev]
        <3>. DEFINE p == SubSeq(lg, 1, prev + k - 1)
                    q == SubSeq(es, k, Len(es))
        <3>1. p \in Seq(Entry) /\ q \in Seq(Entry) /\ new = p \o q
            BY <2>3, <2>10, <2>11
        <3>2. Len(p) = prev + k - 1 /\ Len(q) = Len(es) - k + 1
            BY <2>10, <2>11
        <3>3. /\ new \in Seq(Entry)
              /\ Len(new) = Len(p) + Len(q)
              /\ \A j \in 1 .. Len(p) : new[j] = p[j]
              /\ \A j \in 1 .. Len(q) : new[Len(p) + j] = q[j]
            <4>. HIDE DEF p, q
            <4>. QED
                BY <3>1, ConcatProperties
        <3>4. \A j \in 1 .. prev + k - 1 : p[j] = lg[j]
            BY <2>10
        <3>5. \A j \in 1 .. Len(es) - k + 1 : q[j] = es[k + j - 1]
            BY <2>11
        <3>. HIDE DEF p, q, C, es, prev, fl
        <3>6. ASSUME NEW j \in prev + k .. prev + Len(es)
              PROVE  new[j] = es[j - prev]
            <4>. DEFINE n == j - (prev + k - 1)
            <4>1. n \in 1 .. Len(es) - k + 1 /\ n \in 1 .. Len(q)
                BY <1>1, <2>4, <3>2
            <4>2. Len(p) + n = j /\ k + n - 1 = j - prev
                BY <1>1, <2>4, <3>2
            <4>. HIDE DEF n
            <4>. QED
                BY <3>3, <3>5, <4>1, <4>2
        <3>7. Len(new) = prev + Len(es) /\ Len(p) = prev + k - 1
            BY <1>1, <2>4, <3>2, <3>3
        <3>8. \A j \in 1 .. prev + k - 1 : new[j] = lg[j]
            BY <3>3, <3>4, <3>7
        <3>. QED
            BY <3>3, <3>6, <3>7, <3>8
    <2>13. \A j \in 1 .. Len(new) : new[j] = fl[j]
        <3>. SUFFICES ASSUME NEW j \in 1 .. Len(new)
                      PROVE  new[j] = fl[j]
            OBVIOUS
        <3>1. CASE j \in 1 .. prev + k - 1
            BY <2>9, <2>12, <3>1
        <3>2. CASE j \in prev + k .. prev + Len(es)
            <4>1. j - prev \in 1 .. Len(es) /\ prev + (j - prev) = j
                BY <1>1, <2>4, <3>2, SMTT(60)
            <4>. QED
                BY <2>6, <2>12, <3>2, <4>1
        <3>. QED
            BY <1>1, <2>4, <2>12, <3>1, <3>2
    <2>. HIDE DEF fl
    <2>. QED
        BY <1>4, <2>5, <2>6, <2>12, <2>13 DEF fl, new
<1>. QED
    BY <1>3, <1>4

LEMMA MergeFits ==
    ASSUME NEW F \in LeaderLogs, NEW els, NEW m \in AppendMsg, NEW lg \in Seq(Entry),
           LogFits(F, els, lg), LogFits(F, els, F[m.term]),
           RequestFits(F, els, m), Consistent(m, lg)
    PROVE  LogFits(F, els, Merge(m, lg))
<1>1. F[m.term] \in Seq(Entry)
    BY DEF LeaderLogs, AppendMsg
<1>. QED
    BY <1>1, MergeIs, PrefixFits, SMTT(60)

\* Only a leader has a leader_state.
OnlyLeadersReady ==
    \A s \in Server : leader_state[s] # Nil => role[s] = Leader

\* An election whose votes are not counted yet was not won.
ElectionsOpen ==
    \A s \in Server : election[s] # Nil =>
        [term |-> election[s].term, leader |-> s] \notin elections

\* Who was elected in a term is not behind it.
ElectedPassed == \A e \in elections : e.term <= current_term[e.leader]

MatchInv ==
    /\ OnlyLeadersReady
    /\ ElectionsOpen
    /\ ElectedPassed
    /\ \E F \in LeaderLogs : Fits(F)

\* What AppendRequest takes from a leader's log fits into it.
LEMMA NewRequestFits ==
    ASSUME TypeOK, NEW s \in Server, NEW d \in Others(s),
           NEW ls \in LeaderStateType(s), NEW lg \in Seq(Entry),
           NEW F \in LeaderLogs, F[current_term[s]] = lg,
           [term |-> current_term[s], leader |-> s] \in elections
    PROVE  RequestFits(F, elections, AppendRequest(s, d, ls, lg))
<1>. DEFINE m == AppendRequest(s, d, ls, lg)
            next == ls.next_index[d]
<1>1. /\ next \in Nat \ {0} /\ Len(lg) \in Nat
      /\ \A i \in 1 .. Len(lg) : lg[i] \in Entry
    BY LenProperties, ElementOfSeq DEF LeaderStateType
<1>2. /\ m.src = s /\ m.dst = d /\ m.term = current_term[s]
      /\ m.prev_log_index = next - 1
      /\ m.prev_log_term = TermAt(lg, next - 1)
      /\ m.entries = SubSeq(lg, next, Len(lg))
    BY DEF AppendRequest
<1>. HIDE DEF m, next
<1>3. ASSUME m.entries # <<>>
      PROVE  /\ m.prev_log_index + Len(m.entries) <= Len(lg)
             /\ \A k \in 1 .. Len(m.entries) : m.entries[k] = lg[m.prev_log_index + k]
             /\ m.prev_log_index # 0 => m.prev_log_term = lg[m.prev_log_index].term
    <2>1. next <= Len(lg)
        BY <1>1, <1>2, <1>3, SubSeqEmpty
    <2>2. /\ Len(m.entries) = Len(lg) - next + 1
          /\ \A k \in 1 .. Len(lg) - next + 1 : m.entries[k] = lg[next + k - 1]
        BY <1>1, <1>2, <2>1
    <2>3. \A k \in 1 .. Len(m.entries) : next + k - 1 = m.prev_log_index + k
        BY <1>1, <1>2, <2>1, <2>2
    <2>4. m.prev_log_index # 0 => m.prev_log_index \in 1 .. Len(lg)
        BY <1>1, <1>2, <2>1
    <2>. QED
        BY <1>1, <1>2, <2>1, <2>2, <2>3, <2>4 DEF TermAt
<1>. QED
    BY <1>2, <1>3 DEF RequestFits, Others, m

\* Steps that change no log, elect nobody and make no leader: the requests that
\* are new have to fit.
LEMMA QuietStep ==
    ASSUME NEW F \in LeaderLogs, Fits(F), UNCHANGED <<log, elections>>,
           \A s \in Server : role'[s] = Leader =>
               role[s] = Leader /\ current_term'[s] = current_term[s],
           \A m \in Requests' : m \in Requests \/ RequestFits(F, elections, m)
    PROVE  Fits(F)'
BY DEF Fits

\* The requests after a task of s went on, or ended.
LEMMA TaskRequests ==
    ASSUME TypeOK, NEW s \in Server, NEW t \in Sender, NEW w,
           sender' = [sender EXCEPT ![s][t] = w],
           DOMAIN stray' \cap AppendMsg \subseteq Requests
    PROVE  \A m \in Requests' : m \in Requests \/ (w # Nil /\ w.req = m)
<1>. SUFFICES ASSUME NEW m \in Requests'
              PROVE  m \in Requests \/ (w # Nil /\ w.req = m)
    OBVIOUS
<1>1. m \in AppendMsg
    BY DEF Requests
<1>2. CASE m \in DOMAIN stray'
    BY <1>1, <1>2
<1>3. ASSUME NEW p \in Server, NEW u \in Sender,
             sender'[p][u] # Nil, sender'[p][u].req = m
      PROVE  m \in Requests \/ (w # Nil /\ w.req = m)
    <2>1. sender'[p][u] = IF p = s /\ u = t THEN w ELSE sender[p][u]
        BY DEF TypeOK, TaskTypeOK
    <2>. QED
        BY <1>1, <1>3, <2>1 DEF Requests
<1>. QED
    BY <1>2, <1>3 DEF Requests

LEMMA ContinueRequests ==
    ASSUME TypeOK, NEW s \in Server, NEW t \in Sender, NEW k \in Nat,
           NEW ls \in LeaderStateType(s), NEW lg \in Seq(Entry),
           Continue(s, t, k, ls, lg),
           NEW F \in LeaderLogs, F[current_term[s]] = lg,
           [term |-> current_term[s], leader |-> s] \in elections,
           DOMAIN stray' \cap AppendMsg \subseteq Requests
    PROVE  \A m \in Requests' : m \in Requests \/ RequestFits(F, elections, m)
<1>1. CASE PeersAfter(s, k) # {}
    <2>. DEFINE j == NextPeer(s, k)
                req == AppendRequest(s, Cluster[j], ls, lg)
                w == [at |-> j, req |-> req, resp |-> Nil]
    <2>1. Cluster[j] \in Others(s)
        BY <1>1, NextPeerType
    <2>2. sender' = [sender EXCEPT ![s][t] = w] /\ w.req = req
        BY <1>1 DEF Continue
    <2>. HIDE DEF w
    <2>3. RequestFits(F, elections, req)
        BY <2>1, NewRequestFits
    <2>. QED
        BY <2>2, <2>3, TaskRequests
<1>2. CASE PeersAfter(s, k) = {}
    <2>1. sender' = [sender EXCEPT ![s][t] = Nil]
        BY <1>2 DEF Continue
    <2>. QED
        BY <2>1, TaskRequests
<1>. QED
    BY <1>1, <1>2

LEMMA AwaitedRequests ==
    ASSUME TypeOK, NEW s \in Server
    PROVE  Awaited(s) \cap AppendMsg \subseteq Requests
<1>1. ASSUME NEW t \in Sender, Outstanding(s, t)
      PROVE  sender[s][t].req \in Requests
    BY <1>1, WaitingTask DEF Outstanding, Requests
<1>2. \A p : VoteRequest(s, p) \notin AppendMsg
    BY DEF VoteRequest, AppendMsg
<1>. QED
    BY <1>1, <1>2 DEF Awaited

\* The steps in which no node sends a request it did not send before.
LEMMA RequestsKept ==
    ASSUME TypeOK,
           \/ Reboots
           \/ \E s \in Server : StartElection(s) \/ BecomeLeader(s) \/ LoseElection(s)
           \/ \E s, p \in Server : AnswerVote(s, p) \/ VoteRpcFails(s, p)
           \/ \E s \in Server, t \in Sender :
                 StepDownOnReply(s, t) \/ AbandonRound(s, t) \/ AnswerAppend(s, t)
           \/ \E m \in BagToSet(stray) :
                 AnswerStrayVote(m) \/ AnswerStrayAppend(m)
    PROVE  Requests' \subseteq Requests
<1>1. DOMAIN stray \cap AppendMsg \subseteq Requests
    BY DEF Requests
<1>2. ASSUME sender' = sender, DOMAIN stray' \cap AppendMsg \subseteq Requests
      PROVE  Requests' \subseteq Requests
    BY <1>2 DEF Requests
<1>3. ASSUME NEW s \in Server, StartElection(s) \/ LoseElection(s)
      PROVE  Requests' \subseteq Requests
    BY <1>1, <1>2, <1>3 DEF StartElection, LoseElection
<1>4. ASSUME NEW s \in Server, BecomeLeader(s)
      PROVE  Requests' \subseteq Requests
    <2>1. sender' = [sender EXCEPT ![s][Heartbeat] = Nil] /\ Heartbeat \in Sender
        BY <1>4 DEF BecomeLeader, Sender
    <2>2. CASE Outstanding(s, Heartbeat)
        <3>1. sender[s][Heartbeat].req \in Requests
            BY <2>1, <2>2, WaitingTask DEF Outstanding, Requests
        <3>2. DOMAIN stray' = DOMAIN stray \cup {sender[s][Heartbeat].req}
            BY <1>4, <2>2, BagDomains DEF BecomeLeader
        <3>. QED
            BY <1>1, <2>1, <3>1, <3>2, TaskRequests
    <2>3. CASE ~Outstanding(s, Heartbeat)
        BY <1>1, <1>4, <2>1, <2>3, TaskRequests DEF BecomeLeader
    <2>. QED
        BY <2>2, <2>3
<1>5. ASSUME NEW s \in Server, NEW p \in Server, AnswerVote(s, p)
      PROVE  Requests' \subseteq Requests
    BY <1>1, <1>2, <1>5 DEF AnswerVote, HandleRequestVote
<1>6. ASSUME NEW s \in Server, NEW p \in Server, VoteRpcFails(s, p)
      PROVE  Requests' \subseteq Requests
    <2>1. DOMAIN stray' = DOMAIN stray \cup {VoteRequest(s, p)} /\ sender' = sender
        BY <1>6, BagDomains DEF VoteRpcFails
    <2>2. VoteRequest(s, p) \notin AppendMsg
        BY DEF VoteRequest, AppendMsg
    <2>. QED
        BY <1>1, <1>2, <2>1, <2>2
<1>7. ASSUME NEW s \in Server, NEW t \in Sender, StepDownOnReply(s, t) \/ AbandonRound(s, t)
      PROVE  Requests' \subseteq Requests
    <2>1. sender' = [sender EXCEPT ![s][t] = Nil] /\ stray' = stray
        BY <1>7 DEF StepDownOnReply, AbandonRound
    <2>. QED
        BY <1>1, <2>1, TaskRequests
<1>8. ASSUME NEW s \in Server, NEW t \in Sender, AnswerAppend(s, t)
      PROVE  Requests' \subseteq Requests
    <2>. DEFINE w == [sender[s][t] EXCEPT !.resp = AppendReply(sender[s][t].req)]
    <2>1. sender[s][t] # Nil /\ sender[s][t] \in SenderType
        BY <1>8, WaitingTask DEF AnswerAppend, Outstanding
    <2>2. w.req = sender[s][t].req
        BY <2>1 DEF SenderType
    <2>3. sender' = [sender EXCEPT ![s][t] = w] /\ stray' = stray
        BY <1>8 DEF AnswerAppend
    <2>4. sender[s][t].req \in Requests
        BY <2>1, WaitingTask DEF Requests
    <2>. HIDE DEF w
    <2>. QED
        BY <1>1, <2>2, <2>3, <2>4, TaskRequests
<1>9. ASSUME NEW m \in BagToSet(stray), AnswerStrayVote(m) \/ AnswerStrayAppend(m)
      PROVE  Requests' \subseteq Requests
    <2>1. sender' = sender /\ stray' = stray (-) SetToBag({m})
        BY <1>9 DEF AnswerStrayVote, AnswerStrayAppend, HandleRequestVote
    <2>. QED
        BY <1>1, <1>2, <2>1, BagDomains
<1>10. CASE Reboots
    <2>1. PICK s \in Server, term \in Nat, vote \in Server \cup {Nil} :
              Rebooted(s, term, vote)
        BY <1>10, RebootsFacts
    <2>2. DOMAIN stray' \cap AppendMsg \subseteq Requests
        BY <1>1, <2>1, AwaitedRequests DEF Rebooted
    <2>3. ASSUME NEW p \in Server, NEW u \in Sender, sender'[p][u] # Nil
          PROVE  sender[p][u] # Nil /\ sender'[p][u].req = sender[p][u].req
        BY <2>1, <2>3 DEF Rebooted, SendersLeft, SenderLeft
    <2>. QED
        BY <2>2, <2>3 DEF Requests
<1>. QED
    BY <1>3, <1>4, <1>5, <1>6, <1>7, <1>8, <1>9, <1>10

\* Nobody becomes a leader, no log changes.
Quiet ==
    /\ UNCHANGED <<log, elections>>
    /\ \A s \in Server : role'[s] = Leader =>
           role[s] = Leader /\ current_term'[s] = current_term[s]

LEMMA QuietActions ==
    ASSUME TypeOK,
           \/ Reboots
           \/ \E s \in Server : StartElection(s) \/ LoseElection(s) \/ SendHeartbeat(s)
           \/ \E s, p \in Server : AnswerVote(s, p) \/ VoteRpcFails(s, p)
           \/ \E s \in Server, t \in Sender :
                 \/ StepDownOnReply(s, t) \/ AbandonRound(s, t)
                 \/ AcceptReply(s, t) \/ RejectReply(s, t) \/ AppendRpcFails(s, t)
           \/ \E m \in BagToSet(stray) : AnswerStrayVote(m)
    PROVE  Quiet
<1>1. /\ current_term \in [Server -> Nat]
      /\ role \in [Server -> {Follower, Candidate, Leader}]
    BY DEF TypeOK, ElectionTypeOK
<1>2. ASSUME NEW s \in Server, NEW term, NEW r \in {Follower, Candidate},
             UNCHANGED <<log, elections>>,
             role' = [role EXCEPT ![s] = r],
             current_term' = [current_term EXCEPT ![s] = term]
      PROVE  Quiet
    BY <1>1, <1>2, NameAssumption DEF Quiet
<1>3. ASSUME UNCHANGED <<log, elections, role, current_term>>
      PROVE  Quiet
    BY <1>3 DEF Quiet
<1>4. ASSUME NEW m, m.term \in Nat, HandleRequestVote(m)
      PROVE  Quiet
    <2>1. /\ role' = [role EXCEPT ![m.dst] =
                IF m.term > current_term[m.dst] THEN Follower ELSE @]
          /\ current_term' = [current_term EXCEPT ![m.dst] = Max2(@, m.term)]
          /\ UNCHANGED <<log, elections>>
        BY <1>4 DEF HandleRequestVote
    <2>. QED
        BY <1>1, <1>4, <2>1, NameAssumption DEF Quiet, Max2
<1>5. ASSUME NEW s \in Server, StartElection(s)
      PROVE  Quiet
    BY <1>2, <1>5, ZenonT(60) DEF StartElection
<1>6. ASSUME NEW s \in Server, NEW t \in Sender,
             \/ LoseElection(s) \/ SendHeartbeat(s) \/ AbandonRound(s, t)
             \/ AcceptReply(s, t) \/ RejectReply(s, t) \/ AppendRpcFails(s, t)
      PROVE  Quiet
    BY <1>3, <1>6, ZenonT(60)
       DEF LoseElection, SendHeartbeat, AbandonRound, AcceptReply,
       RejectReply, AppendRpcFails, persistent, volatile, history
<1>7. ASSUME NEW s \in Server, NEW p \in Server, VoteRpcFails(s, p)
      PROVE  Quiet
    BY <1>3, <1>7 DEF VoteRpcFails, persistent, volatile, history
<1>8. ASSUME NEW s \in Server, NEW p \in Server, AnswerVote(s, p)
      PROVE  Quiet
    <2>1. VoteRequest(s, p).term \in Nat
        BY <1>8, VoteRequestType DEF AnswerVote, VoteMsg
    <2>2. HandleRequestVote(VoteRequest(s, p))
        BY <1>8 DEF AnswerVote
    <2>. QED
        BY <1>4, <2>1, <2>2
<1>9. ASSUME NEW m \in BagToSet(stray), AnswerStrayVote(m)
      PROVE  Quiet
    <2>1. m.term \in Nat
        BY DEF TypeOK, TaskTypeOK, BagToSet, VoteMsg, AppendMsg
    <2>. QED
        BY <1>4, <1>9, <2>1 DEF AnswerStrayVote
<1>10. ASSUME NEW s \in Server, NEW t \in Sender, StepDownOnReply(s, t)
       PROVE  Quiet
    BY <1>2, <1>10 DEF StepDownOnReply, StepDown, history
<1>11. CASE Reboots
    <2>1. PICK s \in Server, term \in Nat, vote \in Server \cup {Nil} :
              Rebooted(s, term, vote)
        BY <1>11, RebootsFacts
    <2>. QED
        BY <1>2, <2>1 DEF Rebooted
<1>13. Heartbeat \in Sender
    BY DEF Sender
<1>. QED
    BY <1>5, <1>6, <1>7, <1>8, <1>9, <1>10, <1>11, <1>13

\* Who follows a leader is none, and no other node is touched.
LEMMA FollowerMoves ==
    ASSUME TypeOK, ElectionInv, ElectionSafety, NEW m \in AppendMsg,
           NEW F, RequestFits(F, elections, m), FollowLeader(m)
    PROVE  /\ m.term >= current_term[m.dst]
           /\ current_term' = [current_term EXCEPT ![m.dst] = m.term]
           /\ \/ log' = log
              \/ /\ Consistent(m, log[m.dst])
                 /\ log' = [log EXCEPT ![m.dst] = Merge(m, log[m.dst])]
           /\ \A s \in Server : role'[s] = Leader =>
                 s # m.dst /\ role[s] = Leader /\ current_term'[s] = current_term[s]
<1>. DEFINE d == m.dst
<1>1. /\ d \in Server /\ m.term \in Nat
      /\ current_term \in [Server -> Nat]
      /\ role \in [Server -> {Follower, Candidate, Leader}]
    BY DEF AppendMsg, TypeOK, ElectionTypeOK
<1>2. /\ m.term >= current_term[d]
      /\ current_term' = [current_term EXCEPT ![d] = m.term]
      /\ role' = [role EXCEPT ![d] =
            IF m.term > current_term[d] \/ @ = Candidate THEN Follower ELSE @]
      /\ \/ log' = log
         \/ Consistent(m, log[d]) /\ log' = [log EXCEPT ![d] = Merge(m, log[d])]
    BY DEF FollowLeader
<1>3. role'[d] # Leader
    <2>. SUFFICES ASSUME role[d] = Leader, m.term = current_term[d]
                  PROVE  FALSE
        BY <1>1, <1>2, NameAssumption
    <2>1. [term |-> m.term, leader |-> d] \in elections
        BY <1>1 DEF ElectionInv, LeadersAreElected
    <2>2. [term |-> m.term, leader |-> m.src] \in elections /\ m.src # d
        BY DEF RequestFits
    <2>. QED
        BY <2>1, <2>2 DEF ElectionSafety
<1>4. \A s \in Server : role'[s] = Leader =>
          s # d /\ role[s] = Leader /\ current_term'[s] = current_term[s]
    BY <1>1, <1>2, <1>3
<1>. QED
    BY <1>2, <1>4

\* A node that hands an entry of its leader on to its own log keeps it fitting.
LEMMA FitsHandleAppend ==
    ASSUME TypeOK, ElectionInv, ElectionSafety, NEW F \in LeaderLogs, Fits(F),
           NEW m \in Requests, HandleAppendEntries(m), elections' = elections,
           Requests' \subseteq Requests
    PROVE  Fits(F)'
<1>. DEFINE d == m.dst
<1>1. /\ m \in AppendMsg /\ d \in Server /\ m.term \in Nat
      /\ RequestFits(F, elections, m)
    BY DEF Requests, AppendMsg, Fits
<1>2. /\ current_term \in [Server -> Nat]
      /\ role \in [Server -> {Follower, Candidate, Leader}]
      /\ log \in [Server -> Seq(Entry)]
    BY DEF TypeOK, ElectionTypeOK, LogTypeOK
<1>3. CASE RefuseOldLeader(m)
    BY <1>3, QuietStep DEF RefuseOldLeader, persistent, volatile
<1>4. CASE FollowLeader(m)
    <2>1. /\ \/ log' = log
             \/ Consistent(m, log[d]) /\ log' = [log EXCEPT ![d] = Merge(m, log[d])]
          /\ current_term' = [current_term EXCEPT ![d] = m.term]
          /\ m.term >= current_term[d]
        BY <1>1, <1>4, FollowerMoves
    <2>3. \A s \in Server : role'[s] = Leader =>
              s # d /\ role[s] = Leader /\ current_term'[s] = current_term[s]
        BY <1>1, <1>4, FollowerMoves
    <2>4. CASE log' = log
        BY <2>3, <2>4, QuietStep
    <2>5. CASE Consistent(m, log[d]) /\ log' = [log EXCEPT ![d] = Merge(m, log[d])]
        <3>1. Elected(elections, m.term)
            BY <1>1 DEF RequestFits, Elected
        <3>2. LogFits(F, elections, log[d]) /\ LogFits(F, elections, F[m.term])
            BY <1>1, <3>1 DEF Fits
        <3>3. LogFits(F, elections, Merge(m, log[d]))
            BY <1>1, <1>2, <2>5, <3>2, MergeFits
        <3>4. \A s \in Server : LogFits(F, elections, log'[s])
            BY <1>2, <2>5, <3>3 DEF Fits
        <3>5. \A s \in Server : role'[s] = Leader => log'[s] = F[current_term'[s]]
            BY <1>2, <2>3, <2>5 DEF Fits
        <3>. QED
            BY <3>4, <3>5 DEF Fits
    <2>. QED
        BY <2>1, <2>4, <2>5
<1>. QED
    BY <1>3, <1>4 DEF HandleAppendEntries

\* A round goes on: what is sent next is of the leader's own log.
LEMMA FitsRound ==
    ASSUME TypeOK, LeadersReady, OnlyLeadersReady, ElectionInv,
           NEW F \in LeaderLogs, Fits(F), NEW s \in Server, NEW t \in Sender,
           \/ t = Heartbeat /\ SendHeartbeat(s)
           \/ AcceptReply(s, t) \/ RejectReply(s, t) \/ AppendRpcFails(s, t)
    PROVE  \A m \in Requests' : m \in Requests \/ RequestFits(F, elections, m)
<1>1. log[s] \in Seq(Entry)
    BY DEF TypeOK, LogTypeOK
<1>2. DOMAIN stray \cap AppendMsg \subseteq Requests
    BY DEF Requests
<1>3. ASSUME role[s] = Leader, NEW k \in Nat, NEW ls \in LeaderStateType(s),
             Continue(s, t, k, ls, log[s]),
             DOMAIN stray' \cap AppendMsg \subseteq Requests
      PROVE  \A m \in Requests' : m \in Requests \/ RequestFits(F, elections, m)
    <2>1. F[current_term[s]] = log[s]
        BY <1>3 DEF Fits
    <2>2. [term |-> current_term[s], leader |-> s] \in elections
        BY <1>3 DEF ElectionInv, LeadersAreElected
    <2>. QED
        BY <1>1, <1>3, <2>1, <2>2, ContinueRequests
<1>4. CASE t = Heartbeat /\ SendHeartbeat(s)
    <2>1. role[s] = Leader /\ leader_state[s] \in LeaderStateType(s)
        BY <1>4 DEF SendHeartbeat, LeadersReady
    <2>. QED
        BY <1>2, <1>3, <1>4, <2>1 DEF SendHeartbeat
<1>5. CASE AcceptReply(s, t) \/ RejectReply(s, t)
    <2>1. /\ leader_state[s] # Nil /\ sender[s][t] # Nil
          /\ stray' = stray
        BY <1>5, ZenonT(60) DEF AcceptReply, RejectReply, Answered
    <2>2. role[s] = Leader /\ sender[s][t].at \in Nat
        BY <2>1, WaitingTask, SMTT(60) DEF OnlyLeadersReady
    <2>3. leader_state'[s] \in LeaderStateType(s)
        BY <1>5, <2>2, TypeAcceptReply, TypeRejectReply, ZenonT(60)
           DEF LeadersReady, AcceptReply, RejectReply
    <2>4. PICK ls : /\ leader_state' = [leader_state EXCEPT ![s] = ls]
                    /\ Continue(s, t, sender[s][t].at, ls, log[s])
        BY <1>5, ZenonT(60) DEF AcceptReply, RejectReply
    <2>5. ls \in LeaderStateType(s)
        BY <2>3, <2>4 DEF TypeOK, TaskTypeOK
    <2>. QED
        BY <1>2, <1>3, <2>1, <2>2, <2>4, <2>5, SMTT(60)
<1>6. CASE AppendRpcFails(s, t)
    <2>1. sender[s][t] # Nil
        BY <1>6 DEF AppendRpcFails
    <2>2. sender[s][t].req \in Requests /\ sender[s][t].at \in Nat
        BY <2>1, WaitingTask DEF Requests
    <2>3. DOMAIN stray' \cap AppendMsg \subseteq Requests
        <3>1. DOMAIN stray' \subseteq DOMAIN stray \cup {sender[s][t].req}
            BY <1>6, BagDomains DEF AppendRpcFails
        <3>. QED
            BY <1>2, <2>2, <3>1
    <2>4. CASE leader_state[s] = Nil
        <3>1. sender' = [sender EXCEPT ![s][t] = Nil]
            BY <1>6, <2>4 DEF AppendRpcFails
        <3>. QED
            BY <2>3, <3>1, TaskRequests
    <2>5. CASE leader_state[s] # Nil
        <3>1. role[s] = Leader /\ leader_state[s] \in LeaderStateType(s)
            BY <2>5 DEF OnlyLeadersReady, LeadersReady
        <3>2. Continue(s, t, sender[s][t].at, leader_state[s], log[s])
            BY <1>6, <2>5 DEF AppendRpcFails
        <3>. QED
            BY <1>3, <2>2, <2>3, <3>1, <3>2
    <2>. QED
        BY <2>4, <2>5
<1>. QED
    BY <1>4, <1>5, <1>6

\* Sequences that grow at the end keep what they have.
LEMMA AppendKeeps ==
    ASSUME NEW lg \in Seq(Entry), NEW e \in Entry
    PROVE  /\ Append(lg, e) \in Seq(Entry)
           /\ Len(Append(lg, e)) = Len(lg) + 1 /\ Len(lg) \in Nat
           /\ \A i \in 1 .. Len(lg) : Append(lg, e)[i] = lg[i]
           /\ Append(lg, e)[Len(lg) + 1] = e
BY LenProperties, AppendProperties

\* propose: the leader's log of the term grows with the leader's.
LEMMA FitsPropose ==
    ASSUME TypeOK, LeadersReady, ElectionInv, ElectionSafety,
           NEW F \in LeaderLogs, Fits(F),
           NEW s \in Server, NEW t \in Sender, NEW c \in Command, Propose(s, t, c)
    PROVE  \E G \in LeaderLogs :
              G = [F EXCEPT ![current_term[s]] = log'[s]] /\ Fits(G)'
<1>1. /\ current_term \in [Server -> Nat]
      /\ log \in [Server -> Seq(Entry)]
      /\ role[s] = Leader
      /\ leader_state[s] \in LeaderStateType(s)
    BY DEF TypeOK, ElectionTypeOK, LogTypeOK, LeadersReady, Propose
<1>2. PICK lg : lg = Append(log[s], [term |-> current_term[s], cmd |-> c])
    OBVIOUS
<1>3. PICK T : T = current_term[s]
    OBVIOUS
<1>4. PICK G : G = [F EXCEPT ![T] = lg]
    OBVIOUS
<1>5. /\ lg \in Seq(Entry)
      /\ Len(lg) = Len(log[s]) + 1 /\ Len(log[s]) \in Nat
      /\ \A i \in 1 .. Len(log[s]) : lg[i] = log[s][i]
      /\ lg[Len(lg)].term = T
    <2>1. [term |-> current_term[s], cmd |-> c] \in Entry
        BY <1>1 DEF Entry
    <2>. QED
        BY <1>1, <1>2, <1>3, <2>1, AppendKeeps
<1>6. /\ log' = [log EXCEPT ![s] = lg]
      /\ Continue(s, t, 0, leader_state[s], lg)
      /\ UNCHANGED <<current_term, role, elections, stray>>
    BY <1>2 DEF Propose
<1>7. T \in Nat /\ F[T] = log[s] /\ [term |-> T, leader |-> s] \in elections
    BY <1>1, <1>3 DEF Fits, ElectionInv, LeadersAreElected
<1>8. G \in LeaderLogs /\ G[T] = lg /\ \A u \in Nat \ {T} : G[u] = F[u]
    BY <1>4, <1>5, <1>7 DEF LeaderLogs
<1>9. \A u \in Nat : Elected(elections, u) =>
         /\ Len(F[u]) <= Len(G[u])
         /\ \A i \in 1 .. Len(F[u]) : G[u][i] = F[u][i]
    <2>1. \A u \in Nat : Len(F[u]) \in Nat
        BY LenProperties DEF LeaderLogs
    <2>. QED
        BY <1>5, <1>7, <1>8, <2>1, SMTT(60)
<1>10. \A a \in Seq(Entry) : LogFits(F, elections, a) => LogFits(G, elections, a)
    BY <1>8, <1>9, GrownFits
<1>11. LogFits(G, elections, lg)
    <2>1. LogFits(G, elections, log[s])
        BY <1>1, <1>10 DEF Fits
    <2>. SUFFICES ASSUME NEW i \in 1 .. Len(lg)
                  PROVE  /\ Elected(elections, lg[i].term)
                         /\ i <= Len(G[lg[i].term])
                         /\ \A j \in 1 .. i : G[lg[i].term][j] = lg[j]
        BY DEF LogFits
    <2>2. CASE i = Len(lg)
        BY <1>5, <1>7, <1>8, <2>2 DEF Elected
    <2>3. CASE i # Len(lg)
        <3>1. i \in 1 .. Len(log[s]) /\ lg[i] = log[s][i]
              /\ \A j \in 1 .. i : lg[j] = log[s][j]
            BY <1>5, <2>3
        <3>. QED
            BY <2>1, <3>1, ZenonT(60) DEF LogFits
    <2>. QED
        BY <2>2, <2>3
<1>12. \A p \in Server : LogFits(G, elections, log'[p])
    BY <1>1, <1>6, <1>10, <1>11 DEF Fits
<1>13. \A u \in Nat : Elected(elections, u) => LogFits(G, elections, G[u])
    <2>1. \A u \in Nat : F[u] \in Seq(Entry)
        BY DEF LeaderLogs
    <2>. QED
        BY <1>8, <1>10, <1>11, <2>1 DEF Fits
<1>14. \A p \in Server : role[p] = Leader => log'[p] = G[current_term[p]]
    <2>. SUFFICES ASSUME NEW p \in Server, role[p] = Leader
                  PROVE  log'[p] = G[current_term[p]]
        OBVIOUS
    <2>1. CASE p = s
        BY <1>1, <1>3, <1>6, <1>8, <2>1
    <2>2. CASE p # s
        <3>1. [term |-> current_term[p], leader |-> p] \in elections
            BY DEF ElectionInv, LeadersAreElected
        <3>2. current_term[p] # T
            BY <1>7, <2>2, <3>1 DEF ElectionSafety
        <3>. QED
            BY <1>1, <1>6, <1>8, <2>2, <3>2 DEF Fits
    <2>. QED
        BY <2>1, <2>2
<1>15. \A m \in Requests' : RequestFits(G, elections, m)
    <2>1. DOMAIN stray' \cap AppendMsg \subseteq Requests
        BY <1>6 DEF Requests
    <2>2. \A m \in Requests : RequestFits(G, elections, m)
        BY <1>8, <1>9, GrownRequestFits DEF Fits, Requests
    <2>3. \A m \in Requests' : m \in Requests \/ RequestFits(G, elections, m)
        BY <1>1, <1>3, <1>5, <1>6, <1>7, <1>8, <2>1, ContinueRequests
    <2>. QED
        BY <2>2, <2>3
<1>16. Fits(G)'
    BY <1>6, <1>12, <1>13, <1>14, <1>15 DEF Fits
<1>17. G = [F EXCEPT ![current_term[s]] = log'[s]]
    BY <1>1, <1>3, <1>4, <1>6
<1>. QED
    BY <1>8, <1>16, <1>17

\* _become_leader: the leader's log of the term, which nobody was elected in
\* before, starts as the log of the candidate.
LEMMA FitsBecomeLeader ==
    ASSUME TypeOK, ElectionInv, ElectionsOpen, ElectionSafety',
           NEW F \in LeaderLogs, Fits(F), NEW s \in Server, BecomeLeader(s)
    PROVE  \E G \in LeaderLogs :
              G = [F EXCEPT ![current_term[s]] = log[s]] /\ Fits(G)'
<1>1. /\ current_term \in [Server -> Nat]
      /\ role \in [Server -> {Follower, Candidate, Leader}]
      /\ log \in [Server -> Seq(Entry)]
      /\ Requests' \subseteq Requests
    BY RequestsKept DEF TypeOK, ElectionTypeOK, LogTypeOK
<1>2. PICK T : T = current_term[s]
    OBVIOUS
<1>3. PICK G : G = [F EXCEPT ![T] = log[s]]
    OBVIOUS
<1>4. /\ election[s] # Nil /\ election[s].term = T
      /\ elections' = elections \cup {[term |-> T, leader |-> s]}
      /\ role' = [role EXCEPT ![s] = Leader]
      /\ UNCHANGED <<current_term, log>>
    BY <1>2 DEF BecomeLeader, Won, persistent, ElectionInv, ElectionCurrent
<1>5. ~Elected(elections, T)
    <2>. SUFFICES ASSUME NEW e \in elections, e.term = T
                  PROVE  FALSE
        BY DEF Elected
    <2>1. e.leader = s
        <3>1. e \in elections' /\ [term |-> T, leader |-> s] \in elections'
            BY <1>4
        <3>2. \A a, b \in elections' : a.term = b.term => a.leader = b.leader
            BY DEF ElectionSafety
        <3>. QED
            BY <3>1, <3>2
    <2>2. e = [term |-> T, leader |-> s]
        BY <2>1 DEF TypeOK, ElectionTypeOK
    <2>. QED
        BY <1>4, <2>2 DEF ElectionsOpen
<1>6. T \in Nat
    BY <1>1, <1>2
<1>7. G \in LeaderLogs /\ G[T] = log[s] /\ \A u \in Nat \ {T} : G[u] = F[u]
    BY <1>1, <1>3, <1>6 DEF LeaderLogs
<1>8. \A u \in Nat : Elected(elections, u) =>
         /\ Len(F[u]) <= Len(G[u])
         /\ \A i \in 1 .. Len(F[u]) : G[u][i] = F[u][i]
    <2>1. \A u \in Nat : Len(F[u]) \in Nat
        BY LenProperties DEF LeaderLogs
    <2>. QED
        BY <1>5, <1>7, <2>1
<1>9. elections \subseteq elections'
    BY <1>4
<1>10. \A a \in Seq(Entry) : LogFits(F, elections, a) => LogFits(G, elections', a)
    BY <1>7, <1>8, <1>9, GrownFits
<1>11. \A p \in Server : LogFits(G, elections', log'[p])
    BY <1>1, <1>4, <1>10 DEF Fits
<1>12. \A u \in Nat : Elected(elections', u) => LogFits(G, elections', G[u])
    <2>. SUFFICES ASSUME NEW u \in Nat, Elected(elections', u)
                  PROVE  LogFits(G, elections', G[u])
        OBVIOUS
    <2>1. CASE u = T
        BY <1>4, <1>7, <1>11, <2>1
    <2>2. CASE u # T
        <3>1. Elected(elections, u)
            BY <1>4, <2>2 DEF Elected
        <3>2. F[u] \in Seq(Entry)
            BY DEF LeaderLogs
        <3>. QED
            BY <1>7, <1>10, <2>2, <3>1, <3>2 DEF Fits
    <2>. QED
        BY <2>1, <2>2
<1>13. \A p \in Server : role'[p] = Leader => log'[p] = G[current_term'[p]]
    <2>. SUFFICES ASSUME NEW p \in Server, role'[p] = Leader
                  PROVE  log[p] = G[current_term[p]]
        BY <1>4
    <2>1. CASE p = s
        BY <1>2, <1>7, <2>1
    <2>2. CASE p # s
        <3>1. role[p] = Leader
            BY <1>1, <1>4, <2>2
        <3>2. Elected(elections, current_term[p])
            BY <3>1 DEF ElectionInv, LeadersAreElected, Elected
        <3>. QED
            BY <1>1, <1>5, <1>7, <3>1, <3>2 DEF Fits
    <2>. QED
        BY <2>1, <2>2
<1>14. \A m \in Requests' : RequestFits(G, elections', m)
    BY <1>1, <1>7, <1>8, <1>9, GrownRequestFits DEF Fits, Requests
<1>15. Fits(G)'
    BY <1>11, <1>12, <1>13, <1>14 DEF Fits
<1>. QED
    BY <1>2, <1>3, <1>7, <1>15

\* A step after which nobody is elected who was not before: elections in
\* progress are the same or given up, and terms do not go down.
TermsGrow ==
    /\ UNCHANGED elections
    /\ \A s \in Server :
        /\ current_term'[s] \in Nat /\ current_term'[s] >= current_term[s]
        /\ election'[s] # Nil =>
              election[s] # Nil /\ election'[s].term = election[s].term

LEMMA TermsGrowStep ==
    ASSUME TypeOK, [Next]_vars
    PROVE  TermsGrow \/ \E s \in Server : StartElection(s) \/ BecomeLeader(s)
<1>0. /\ current_term \in [Server -> Nat]
      /\ election \in [Server -> ElectionType \cup {Nil}]
    BY DEF TypeOK, ElectionTypeOK
<1>1. ASSUME UNCHANGED <<current_term, election, elections>>
      PROVE  TermsGrow
    BY <1>0, <1>1 DEF TermsGrow
<1>2. ASSUME NEW d \in Server, NEW term \in Nat,
             term >= current_term[d], current_term' = [current_term EXCEPT ![d] = term],
             UNCHANGED <<election, elections>>
      PROVE  TermsGrow
    BY <1>0, <1>2 DEF TermsGrow
<1>3. ASSUME NEW m \in VoteMsg, HandleRequestVote(m)
      PROVE  /\ elections' = elections
             /\ \A s \in Server : current_term'[s] \in Nat /\ current_term'[s] >= current_term[s]
    BY <1>0, <1>3 DEF HandleRequestVote, Max2, VoteMsg
<1>4. ASSUME NEW s \in Server, NEW p \in Server,
             AnswerVote(s, p) \/ VoteRpcFails(s, p)
      PROVE  TermsGrow
    <2>1. election[s] # Nil /\ election[s] \in ElectionType /\ p \in election[s].pending
        BY <1>0, <1>4 DEF AnswerVote, VoteRpcFails
    <2>2. election'[s].term = election[s].term
          /\ \A q \in Server \ {s} : election'[q] = election[q]
        BY <1>0, <1>4, <2>1 DEF AnswerVote, VoteRpcFails, ElectionType
    <2>3. CASE AnswerVote(s, p)
        <3>1. VoteRequest(s, p) \in VoteMsg
            BY <2>1, VoteRequestType
        <3>2. HandleRequestVote(VoteRequest(s, p))
            BY <2>3 DEF AnswerVote
        <3>3. /\ elections' = elections
              /\ \A q \in Server : current_term'[q] \in Nat /\ current_term'[q] >= current_term[q]
            BY <1>3, <3>1, <3>2
        <3>. QED
            BY <2>1, <2>2, <3>3 DEF TermsGrow
    <2>4. CASE VoteRpcFails(s, p)
        BY <1>0, <2>1, <2>2, <2>4 DEF VoteRpcFails, TermsGrow, persistent, history
    <2>. QED
        BY <1>4, <2>3, <2>4
<1>5. ASSUME NEW m \in BagToSet(stray), AnswerStrayVote(m)
      PROVE  TermsGrow
    <2>1. m \in VoteMsg
        BY <1>5 DEF AnswerStrayVote, TypeOK, TaskTypeOK, BagToSet, VoteMsg, AppendMsg
    <2>. QED
        BY <1>0, <1>3, <1>5, <2>1 DEF AnswerStrayVote, TermsGrow
<1>6. ASSUME NEW s \in Server, LoseElection(s)
      PROVE  TermsGrow
    BY <1>0, <1>6 DEF LoseElection, TermsGrow, persistent, history
<1>7. ASSUME NEW s \in Server, NEW t \in Sender, StepDownOnReply(s, t)
      PROVE  TermsGrow
    <2>. DEFINE term == sender[s][t].resp.term
    <2>1. term \in Nat
        BY <1>7, WaitingTask DEF StepDownOnReply, Answered, Reply
    <2>2. /\ term > current_term[s]
          /\ current_term' = [current_term EXCEPT ![s] = term]
          /\ UNCHANGED <<election, elections>>
        BY <1>7 DEF StepDownOnReply, StepDown, history
    <2>. HIDE DEF term
    <2>. QED
        BY <1>0, <2>1, <2>2 DEF TermsGrow
<1>8. ASSUME NEW m \in AppendMsg, HandleAppendEntries(m),
             UNCHANGED <<election, history>>
      PROVE  TermsGrow
    <2>1. m.dst \in Server /\ m.term \in Nat
        BY DEF AppendMsg
    <2>2. CASE RefuseOldLeader(m)
        BY <1>1, <1>8, <2>2 DEF RefuseOldLeader, persistent, history
    <2>3. CASE FollowLeader(m)
        <3>1. /\ m.term >= current_term[m.dst]
              /\ current_term' = [current_term EXCEPT ![m.dst] = m.term]
            BY <2>3 DEF FollowLeader
        <3>. QED
            BY <1>2, <1>8, <2>1, <3>1 DEF history
    <2>. QED
        BY <1>8, <2>2, <2>3 DEF HandleAppendEntries
<1>9. ASSUME NEW s \in Server, NEW t \in Sender, AnswerAppend(s, t)
      PROVE  TermsGrow
    BY <1>8, <1>9, WaitingTask DEF AnswerAppend, Outstanding
<1>10. ASSUME NEW m \in BagToSet(stray), AnswerStrayAppend(m)
       PROVE  TermsGrow
    <2>1. m \in AppendMsg
        BY <1>10 DEF AnswerStrayAppend, TypeOK, TaskTypeOK, BagToSet, VoteMsg, AppendMsg
    <2>. QED
        BY <1>8, <1>10, <2>1 DEF AnswerStrayAppend
<1>11. CASE Reboots
    <2>1. PICK s \in Server, term \in Nat, vote \in Server \cup {Nil} :
              Rebooted(s, term, vote)
        BY <1>11, RebootsFacts
    <2>2. /\ term >= current_term[s]
          /\ current_term' = [current_term EXCEPT ![s] = term]
          /\ UNCHANGED elections
        BY <1>0, <2>1 DEF Rebooted
    <2>3. ElectionsLeft(election')
        BY <2>1 DEF Rebooted
    <2>. QED
        BY <1>0, <2>2, <2>3 DEF TermsGrow, ElectionsLeft, ElectionLeft
<1>14. ASSUME NEW s \in Server, NEW t \in Sender,
              \/ SendHeartbeat(s) \/ \E c \in Command : Propose(s, t, c)
              \/ AbandonRound(s, t) \/ AcceptReply(s, t) \/ RejectReply(s, t)
              \/ AppendRpcFails(s, t)
       PROVE  TermsGrow
    BY <1>1, <1>14 DEF SendHeartbeat, Propose, AbandonRound, AcceptReply,
       RejectReply, AppendRpcFails, persistent, volatile, history
<1>15. CASE UNCHANGED vars
    BY <1>1, <1>15 DEF vars, persistent, history
<1>16. Heartbeat \in Sender
    BY DEF Sender
<1>. QED
    BY <1>4, <1>5, <1>6, <1>7, <1>9, <1>10, <1>11, <1>14, <1>15, <1>16
       DEF Next, Reboots, Crashes

\* Elections in progress stay undecided until they are won.
LEMMA ElectionsOpenStep ==
    ASSUME TypeOK, ElectionInv, ElectionsOpen, ElectedPassed, [Next]_vars
    PROVE  ElectionsOpen' /\ ElectedPassed'
<1>0. /\ current_term \in [Server -> Nat]
      /\ election \in [Server -> ElectionType \cup {Nil}]
      /\ elections \subseteq [term : Nat, leader : Server]
    BY DEF TypeOK, ElectionTypeOK
<1>1. CASE TermsGrow
    <2>1. ElectionsOpen'
        BY <1>1 DEF TermsGrow, ElectionsOpen
    <2>2. ASSUME NEW e \in elections'
          PROVE  e.term <= current_term'[e.leader]
        BY <1>0, <1>1, <2>2 DEF TermsGrow, ElectedPassed
    <2>. QED
        BY <2>1, <2>2 DEF ElectedPassed
<1>2. ASSUME NEW s \in Server, StartElection(s)
      PROVE  ElectionsOpen' /\ ElectedPassed'
    <2>1. /\ current_term' = [current_term EXCEPT ![s] = @ + 1]
          /\ elections' = elections
          /\ \A p \in Server \ {s} : election'[p] = election[p]
          /\ election'[s].term = current_term[s] + 1
        BY <1>0, <1>2 DEF StartElection
    <2>2. [term |-> current_term[s] + 1, leader |-> s] \notin elections
        BY <1>0 DEF ElectedPassed
    <2>3. ASSUME NEW p \in Server, election'[p] # Nil
          PROVE  [term |-> election'[p].term, leader |-> p] \notin elections'
        BY <2>1, <2>2, <2>3 DEF ElectionsOpen
    <2>4. ASSUME NEW e \in elections'
          PROVE  e.term <= current_term'[e.leader]
        <3>1. e.leader \in Server /\ e.term \in Nat /\ e.term <= current_term[e.leader]
            BY <1>0, <2>1, <2>4 DEF ElectedPassed
        <3>. QED
            BY <1>0, <2>1, <3>1
    <2>. QED
        BY <2>3, <2>4 DEF ElectionsOpen, ElectedPassed
<1>3. ASSUME NEW s \in Server, BecomeLeader(s)
      PROVE  ElectionsOpen' /\ ElectedPassed'
    <2>1. /\ election[s] # Nil /\ election[s].term = current_term[s]
          /\ elections' = elections \cup {[term |-> election[s].term, leader |-> s]}
          /\ election' = [election EXCEPT ![s] = Nil]
          /\ UNCHANGED current_term
        BY <1>3 DEF BecomeLeader, Won, persistent, ElectionInv, ElectionCurrent
    <2>2. ASSUME NEW p \in Server, election'[p] # Nil
          PROVE  [term |-> election'[p].term, leader |-> p] \notin elections'
        BY <1>0, <2>1, <2>2 DEF ElectionsOpen
    <2>3. ASSUME NEW e \in elections'
          PROVE  e.term <= current_term'[e.leader]
        BY <1>0, <2>1, <2>3 DEF ElectedPassed
    <2>. QED
        BY <2>2, <2>3 DEF ElectionsOpen, ElectedPassed
<1>. QED
    BY <1>1, <1>2, <1>3, TermsGrowStep

\* Who is no leader has no leader_state.
LEMMA OnlyLeadersReadyStep ==
    ASSUME TypeOK, OnlyLeadersReady, [Next]_vars
    PROVE  OnlyLeadersReady'
<1>0. /\ role \in [Server -> {Follower, Candidate, Leader}]
      /\ leader_state = [s \in Server |-> leader_state[s]]
    BY DEF TypeOK, ElectionTypeOK, TaskTypeOK
<1>1. ASSUME UNCHANGED <<role, leader_state>>
      PROVE  OnlyLeadersReady'
    BY <1>1 DEF OnlyLeadersReady
<1>2. ASSUME NEW s \in Server, StartElection(s)
      PROVE  OnlyLeadersReady'
    <2>1. /\ role[s] # Leader /\ leader_state' = leader_state
          /\ role' = [role EXCEPT ![s] = Candidate]
        BY <1>2 DEF StartElection
    <2>. QED
        BY <1>0, <2>1 DEF OnlyLeadersReady
<1>3. ASSUME NEW s \in Server, BecomeLeader(s)
      PROVE  OnlyLeadersReady'
    <2>1. /\ role' = [role EXCEPT ![s] = Leader]
          /\ leader_state' = [leader_state EXCEPT ![s] = FreshLeaderState(s)]
        BY <1>3 DEF BecomeLeader
    <2>. QED
        BY <1>0, <2>1 DEF OnlyLeadersReady
<1>4. ASSUME NEW d \in Server,
             \/ /\ role' = [role EXCEPT ![d] = Follower]
                /\ leader_state' = [leader_state EXCEPT ![d] = Nil]
             \/ /\ role[d] = Candidate
                /\ role' = [role EXCEPT ![d] = Follower]
                /\ leader_state' = leader_state
      PROVE  OnlyLeadersReady'
    BY <1>0, <1>4, NameAssumption DEF OnlyLeadersReady
<1>5. ASSUME NEW m, m.dst \in Server, HandleRequestVote(m)
      PROVE  OnlyLeadersReady'
    <2>1. \/ UNCHANGED <<role, leader_state>>
          \/ /\ role' = [role EXCEPT ![m.dst] = Follower]
             /\ leader_state' = [leader_state EXCEPT ![m.dst] = Nil]
        BY <1>0, <1>5 DEF HandleRequestVote
    <2>. QED
        BY <1>1, <1>4, <1>5, <2>1
<1>6. ASSUME NEW m, m.dst \in Server, HandleAppendEntries(m)
      PROVE  OnlyLeadersReady'
    <2>1. CASE RefuseOldLeader(m)
        BY <1>1, <2>1 DEF RefuseOldLeader, volatile
    <2>2. CASE FollowLeader(m)
        <3>1. /\ role' = [role EXCEPT ![m.dst] =
                    IF m.term > current_term[m.dst] \/ @ = Candidate THEN Follower ELSE @]
              /\ leader_state' = [leader_state EXCEPT ![m.dst] =
                    IF m.term > current_term[m.dst] THEN Nil ELSE @]
            BY <2>2 DEF FollowLeader
        <3>. QED
            BY <1>0, <1>6, <3>1, NameAssumption DEF OnlyLeadersReady
    <2>. QED
        BY <1>6, <2>1, <2>2 DEF HandleAppendEntries
<1>7. CASE Reboots
    <2>1. PICK s \in Server, term \in Nat, vote \in Server \cup {Nil} :
              Rebooted(s, term, vote)
        BY <1>7, RebootsFacts
    <2>. QED
        BY <1>4, <2>1 DEF Rebooted
<1>8. ASSUME NEW s \in Server, NEW t \in Sender, StepDownOnReply(s, t)
      PROVE  OnlyLeadersReady'
    BY <1>4, <1>8 DEF StepDownOnReply, StepDown
<1>9. ASSUME NEW s \in Server, NEW t \in Sender, AcceptReply(s, t) \/ RejectReply(s, t)
      PROVE  OnlyLeadersReady'
    <2>1. leader_state[s] # Nil /\ UNCHANGED role
        BY <1>9, SMTT(60) DEF AcceptReply, RejectReply
    <2>2. \E ls : leader_state' = [leader_state EXCEPT ![s] = ls]
        BY <1>9 DEF AcceptReply, RejectReply
    <2>. QED
        BY <1>0, <2>1, <2>2 DEF OnlyLeadersReady
<1>10. ASSUME NEW s \in Server, NEW t \in Sender,
             \/ LoseElection(s) \/ SendHeartbeat(s)
             \/ \E c \in Command : Propose(s, t, c)
             \/ AbandonRound(s, t) \/ AppendRpcFails(s, t)
      PROVE  OnlyLeadersReady'
    BY <1>1, <1>10 DEF LoseElection, SendHeartbeat, Propose, AbandonRound,
                      AppendRpcFails, volatile
<1>11. ASSUME NEW s \in Server, NEW p \in Server, VoteRpcFails(s, p) \/ AnswerVote(s, p)
       PROVE  OnlyLeadersReady'
    <2>1. CASE VoteRpcFails(s, p)
        BY <1>1, <2>1 DEF VoteRpcFails, volatile
    <2>2. CASE AnswerVote(s, p)
        <3>1. HandleRequestVote(VoteRequest(s, p)) /\ VoteRequest(s, p).dst = p
            BY <2>2 DEF AnswerVote, VoteRequest
        <3>. QED
            BY <1>5, <3>1
    <2>. QED
        BY <1>11, <2>1, <2>2
<1>12. ASSUME NEW m \in BagToSet(stray),
              AnswerStrayVote(m) \/ AnswerStrayAppend(m)
       PROVE  OnlyLeadersReady'
    <2>1. m.dst \in Server
        BY DEF TypeOK, TaskTypeOK, BagToSet, VoteMsg, AppendMsg
    <2>. QED
        BY <1>5, <1>6, <1>12, <2>1 DEF AnswerStrayVote, AnswerStrayAppend
<1>13. ASSUME NEW s \in Server, NEW t \in Sender, AnswerAppend(s, t)
       PROVE  OnlyLeadersReady'
    BY <1>6, <1>13, WaitingTask DEF AnswerAppend, Outstanding, AppendMsg
<1>14. Heartbeat \in Sender
    BY DEF Sender
<1>. QED
    BY <1>1, <1>2, <1>3, <1>7, <1>8, <1>9, <1>10, <1>11, <1>12, <1>13, <1>14
       DEF Next, vars, volatile, Reboots, Crashes

\* Elections that begin, ask, and are won.
Starts == \E s \in Server : StartElection(s)
Asks   == \E s, p \in Server : AnswerVote(s, p)
Wins   == \E s \in Server : BecomeLeader(s)

\* Proposals, requests that are handled, and answers that are counted.
Proposes == \E s \in Server, t \in Sender, c \in Command : Propose(s, t, c)
Answers  == \E s \in Server, t \in Sender : AnswerAppend(s, t)
Hears    == \E m \in BagToSet(stray) : AnswerStrayAppend(m)
Counts   == \E s \in Server, t \in Sender : AcceptReply(s, t)

\* All other steps.
Calm ==
    \/ Reboots
    \/ \E s \in Server : LoseElection(s) \/ SendHeartbeat(s)
    \/ \E s, p \in Server : VoteRpcFails(s, p)
    \/ \E s \in Server, t \in Sender :
          \/ StepDownOnReply(s, t) \/ AbandonRound(s, t)
          \/ RejectReply(s, t) \/ AppendRpcFails(s, t)
    \/ \E m \in BagToSet(stray) : AnswerStrayVote(m)
    \/ UNCHANGED vars

LEMMA NextSplit ==
    ASSUME [Next]_vars
    PROVE  Starts \/ Asks \/ Wins \/ Proposes \/ Answers \/ Hears \/ Counts \/ Calm
BY DEF Next, Starts, Asks, Wins, Proposes, Answers, Hears, Counts, Calm, Reboots,
       Crashes

\* Only an election that is won and a proposal add to the log of a leader.
LEMMA FitsKept ==
    ASSUME TypeOK, LeadersReady, ElectionInv, ElectionSafety, OnlyLeadersReady,
           NEW F \in LeaderLogs, Fits(F),
           Starts \/ Asks \/ Answers \/ Hears \/ Counts \/ Calm
    PROVE  Fits(F)'
<1>1. ASSUME Quiet, \A m \in Requests' : m \in Requests \/ RequestFits(F, elections, m)
      PROVE  Fits(F)'
    BY <1>1, QuietStep DEF Quiet
<1>2. ASSUME NEW s \in Server, NEW p \in Server, NEW t \in Sender,
             \/ StartElection(s) \/ LoseElection(s)
             \/ AnswerVote(s, p) \/ VoteRpcFails(s, p)
             \/ StepDownOnReply(s, t) \/ AbandonRound(s, t)
      PROVE  Fits(F)'
    <2>1. Quiet
        BY <1>2, QuietActions
    <2>2. Requests' \subseteq Requests
        BY <1>2, RequestsKept
    <2>. QED
        BY <1>1, <2>1, <2>2
<1>3. ASSUME NEW m \in BagToSet(stray), AnswerStrayVote(m)
      PROVE  Fits(F)'
    <2>1. Quiet
        BY <1>3, QuietActions
    <2>2. Requests' \subseteq Requests
        BY <1>3, RequestsKept
    <2>. QED
        BY <1>1, <2>1, <2>2
<1>4. ASSUME NEW s \in Server, NEW t \in Sender,
             \/ t = Heartbeat /\ SendHeartbeat(s)
             \/ AcceptReply(s, t) \/ RejectReply(s, t) \/ AppendRpcFails(s, t)
      PROVE  Fits(F)'
    <2>1. Quiet
        BY <1>4, QuietActions
    <2>2. \A m \in Requests' : m \in Requests \/ RequestFits(F, elections, m)
        BY <1>4, FitsRound
    <2>. QED
        BY <1>1, <2>1, <2>2
<1>5. ASSUME NEW s \in Server, NEW t \in Sender, AnswerAppend(s, t)
      PROVE  Fits(F)'
    <2>1. Requests' \subseteq Requests
        BY <1>5, RequestsKept
    <2>2. sender[s][t].req \in Requests
        BY <1>5, WaitingTask DEF AnswerAppend, Outstanding, Requests
    <2>3. HandleAppendEntries(sender[s][t].req) /\ elections' = elections
        BY <1>5 DEF AnswerAppend, history
    <2>. QED
        BY <2>1, <2>2, <2>3, FitsHandleAppend
<1>6. ASSUME NEW m \in BagToSet(stray), AnswerStrayAppend(m)
      PROVE  Fits(F)'
    <2>1. Requests' \subseteq Requests
        BY <1>6, RequestsKept
    <2>2. m \in Requests
        BY <1>6 DEF AnswerStrayAppend, Requests, TypeOK, TaskTypeOK, BagToSet,
                    VoteMsg, AppendMsg
    <2>3. HandleAppendEntries(m) /\ elections' = elections
        BY <1>6 DEF AnswerStrayAppend, history
    <2>. QED
        BY <2>1, <2>2, <2>3, FitsHandleAppend
<1>7. CASE UNCHANGED vars
    <2>1. Quiet /\ Requests' = Requests
        BY <1>7 DEF vars, persistent, volatile, history, Quiet, Requests
    <2>. QED
        BY <1>1, <2>1
<1>8. Heartbeat \in Sender
    BY DEF Sender
<1>9. CASE Reboots
    BY <1>1, <1>9, QuietActions, RequestsKept
<1>. QED
    BY <1>2, <1>3, <1>4, <1>5, <1>6, <1>7, <1>8, <1>9
       DEF Starts, Asks, Answers, Hears, Counts, Calm

\* Some family of leaders' logs fits after every step.
LEMMA FitsStep ==
    ASSUME TypeOK, LeadersReady, ElectionInv, ElectionSafety, ElectionSafety',
           MatchInv, [Next]_vars
    PROVE  \E G \in LeaderLogs : Fits(G)'
<1>. PICK F \in LeaderLogs : Fits(F)
    BY DEF MatchInv
<1>1. OnlyLeadersReady /\ ElectionsOpen
    BY DEF MatchInv
<1>2. CASE Proposes
    BY <1>2, FitsPropose DEF Proposes
<1>3. CASE Wins
    BY <1>1, <1>3, FitsBecomeLeader DEF Wins
<1>. QED
    BY <1>1, <1>2, <1>3, FitsKept, NextSplit

LEMMA MatchInvInit == Init => MatchInv
<1>. SUFFICES ASSUME Init PROVE MatchInv
    OBVIOUS
<1>1. OnlyLeadersReady /\ ElectionsOpen /\ ElectedPassed
    BY DEF Init, OnlyLeadersReady, ElectionsOpen, ElectedPassed
<1>2. [t \in Nat |-> <<>>] \in LeaderLogs
    BY EmptySeq DEF LeaderLogs
<1>3. Requests = {}
    BY DEF Init, Requests, EmptyBag, SetToBag
<1>4. ~ \E t : Elected(elections, t)
    BY DEF Init, Elected
<1>5. \A s \in Server : role[s] # Leader /\ log[s] = <<>>
    BY NameAssumption DEF Init
<1>6. \A F, els : LogFits(F, els, <<>>)
    BY EmptySeq DEF LogFits
<1>7. Fits([t \in Nat |-> <<>>])
    BY <1>3, <1>4, <1>5, <1>6 DEF Fits
<1>. QED
    BY <1>1, <1>2, <1>7 DEF MatchInv

LEMMA MatchInvStep ==
    ASSUME TypeOK, LeadersReady, ElectionInv, ElectionSafety, ElectionSafety',
           MatchInv, [Next]_vars
    PROVE  MatchInv'
<1>1. OnlyLeadersReady /\ ElectionsOpen /\ ElectedPassed
    BY DEF MatchInv
<1>. QED
    BY <1>1, FitsStep, OnlyLeadersReadyStep, ElectionsOpenStep DEF MatchInv

LEMMA MatchInductive == Spec => [](TypeOK /\ LeadersReady /\ MatchInv)
<1>1. Init => TypeOK /\ LeadersReady /\ MatchInv
    BY TypeInit, MatchInvInit
<1>2. /\ TypeOK /\ LeadersReady /\ MatchInv /\ [Next]_vars
      /\ ElectionInv /\ ElectionSafety /\ ElectionSafety'
      => (TypeOK /\ LeadersReady /\ MatchInv)'
    BY TypeStep, LeadersReadyStep, MatchInvStep
<1>. QED
    BY <1>1, <1>2, ElectionInductive, ElectionSafe, PTL DEF Spec

\* Logs that agree on the term at a position agree on all positions before it,
\* in any cluster and however requests of many leaders are lost, delayed,
\* repeated or handled out of order by _handle_append_entries: every log is up
\* to its last entry of a term a beginning of the log that term's leader had.
THEOREM LogsMatch == Spec => []LogMatching
<1>1. TypeOK /\ MatchInv => LogMatching
    <2>. SUFFICES ASSUME TypeOK, MatchInv, NEW s \in Server, NEW t \in Server,
                         NEW i \in 1 .. Min2(Len(log[s]), Len(log[t])),
                         log[s][i].term = log[t][i].term
                  PROVE  \A j \in 1 .. i : log[s][j] = log[t][j]
        BY DEF LogMatching
    <2>1. log[s] \in Seq(Entry) /\ log[t] \in Seq(Entry)
        BY DEF TypeOK, LogTypeOK
    <2>2. Len(log[s]) \in Nat /\ Len(log[t]) \in Nat
        BY <2>1, LenProperties
    <2>3. i \in 1 .. Len(log[s]) /\ i <= Len(log[t])
        BY <2>2 DEF Min2
    <2>4. PICK F \in LeaderLogs : Fits(F)
        BY DEF MatchInv
    <2>5. LogFits(F, elections, log[s]) /\ LogFits(F, elections, log[t])
        BY <2>4 DEF Fits
    <2>. QED
        BY <2>1, <2>3, <2>5, FittingLogsMatch
<1>. QED
    BY <1>1, MatchInductive, PTL

-----------------------------------------------------------------------------
(* Leaders only append *)

\* A request never changes the log of a leader: it comes from the leader of its
\* term, and that is another node.
LEMMA RequestKeepsLeader ==
    ASSUME TypeOK, ElectionInv, ElectionSafety, NEW F \in LeaderLogs, Fits(F),
           NEW m \in Requests, HandleAppendEntries(m),
           NEW s \in Server, role'[s] = Leader
    PROVE  log'[s] = log[s]
<1>1. m \in AppendMsg /\ m.dst \in Server /\ RequestFits(F, elections, m)
    BY DEF Requests, AppendMsg, Fits
<1>2. CASE RefuseOldLeader(m)
    BY <1>2 DEF RefuseOldLeader, persistent
<1>3. CASE FollowLeader(m)
    <2>1. /\ s # m.dst
          /\ log' = log \/ log' = [log EXCEPT ![m.dst] = Merge(m, log[m.dst])]
        BY <1>1, <1>3, FollowerMoves
    <2>. QED
        BY <2>1 DEF TypeOK, LogTypeOK
<1>. QED
    BY <1>2, <1>3 DEF HandleAppendEntries

LEMMA LeaderAppends ==
    ASSUME TypeOK, ElectionInv, ElectionSafety, MatchInv, [Next]_vars,
           NEW s \in Server, role'[s] = Leader
    PROVE  \A i \in 1 .. Len(log[s]) : i <= Len(log'[s]) /\ log'[s][i] = log[s][i]
<1>. PICK F \in LeaderLogs : Fits(F)
    BY DEF MatchInv
<1>1. log \in [Server -> Seq(Entry)] /\ Len(log[s]) \in Nat
    BY LenProperties DEF TypeOK, LogTypeOK
<1>2. SUFFICES \/ log'[s] = log[s]
               \/ \E e \in Entry : log'[s] = Append(log[s], e)
    BY <1>1, AppendKeeps
<1>3. ASSUME Quiet
      PROVE  log'[s] = log[s]
    BY <1>3 DEF Quiet
<1>4. CASE Starts \/ Asks \/ Counts \/ Calm
    <2>1. CASE UNCHANGED vars
        BY <2>1 DEF vars, persistent
    <2>2. CASE ~UNCHANGED vars
        BY <1>3, <1>4, <2>2, QuietActions DEF Starts, Asks, Counts, Calm
    <2>. QED
        BY <2>1, <2>2
<1>5. CASE Wins
    BY <1>5 DEF Wins, BecomeLeader, persistent
<1>6. CASE Proposes
    <2>1. PICK p \in Server, t \in Sender, c \in Command : Propose(p, t, c)
        BY <1>6 DEF Proposes
    <2>2. PICK e : e = [term |-> current_term[p], cmd |-> c]
        OBVIOUS
    <2>3. e \in Entry
        BY <2>2 DEF Entry, TypeOK, ElectionTypeOK
    <2>4. log' = [log EXCEPT ![p] = Append(log[p], e)]
        BY <2>1, <2>2 DEF Propose
    <2>. QED
        BY <1>1, <2>3, <2>4
<1>7. CASE Answers
    <2>1. PICK p \in Server, t \in Sender : AnswerAppend(p, t)
        BY <1>7 DEF Answers
    <2>2. sender[p][t].req \in Requests /\ HandleAppendEntries(sender[p][t].req)
        BY <2>1, WaitingTask DEF AnswerAppend, Outstanding, Requests
    <2>. QED
        BY <2>2, RequestKeepsLeader
<1>8. CASE Hears
    <2>1. PICK m \in BagToSet(stray) : AnswerStrayAppend(m)
        BY <1>8 DEF Hears
    <2>2. m \in Requests /\ HandleAppendEntries(m)
        BY <2>1 DEF AnswerStrayAppend, Requests, TypeOK, TaskTypeOK, BagToSet,
                    VoteMsg, AppendMsg
    <2>. QED
        BY <2>2, RequestKeepsLeader
<1>. QED
    BY <1>4, <1>5, <1>6, <1>7, <1>8, NextSplit

\* No step of a node that is and stays a leader drops or replaces an entry of
\* its log, though _handle_append_entries does not ask whether its node leads.
THEOREM LeadersAppend == Spec => LeaderAppendOnly
<1>1. /\ TypeOK /\ MatchInv /\ ElectionInv /\ ElectionSafety /\ [Next]_vars =>
        [\A s \in Server : role[s] = Leader /\ role'[s] = Leader =>
            \A i \in 1 .. Len(log[s]) : i <= Len(log'[s]) /\ log'[s][i] = log[s][i]]_vars
    BY LeaderAppends
<1>. QED
    BY <1>1, MatchInductive, ElectionInductive, ElectionSafe, PTL
       DEF Spec, LeaderAppendOnly
=============================================================================
